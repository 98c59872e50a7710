---------------------------- MODULE Console_proofs ----------------------------
(***************************************************************************)
(* Proofs about Console, for every number of rows, keys, requests under    *)
(* way, clicks and visits: types, that nothing is deleted but what was     *)
(* asked about, and that a draft goes to the row it was typed for.         *)
(***************************************************************************)
EXTENDS Console, TLAPS

(***************************************************************************)
(* The cards.                                                              *)
(***************************************************************************)

\* What each card has.
LEMMA FeaturesAre ==
  /\ Features("agents") = AgentsPage /\ Features("enrollment") = AddAgentDialog
  /\ Features("deployments") = DeployTokenSection /\ Features("releases") = ReleasesCard
  /\ Features("signkeys") = SigningKeysCard /\ Features("certs") = CodeSigningCard
  /\ Features("tokens") = TokensPage \cup CreateTokenDialog
  /\ Features("incidents") = IncidentsPage /\ Features("channels") = ChannelsPage
  /\ Features("authkeys") = ApiKeysCard /\ Features("dashboard") = {"poll"}
BY Zenon DEF Features

\* Which cards have it.
LEMMA Pages ==
  ASSUME card \in Cards
  PROVE  /\ Has("select") => card \in Tables
         /\ Has("deleteMany") => Has("select")
         /\ Has("saveMany") => card \in {"tokens", "incidents"}
         /\ Has("save") => card \in {"incidents", "channels"}
         /\ Has("edit") => card \in {"agents", "tokens", "incidents", "channels"}
         /\ Has("delete") => card \notin {"agents", "tokens", "incidents"}
BY FeaturesAre DEF Cards, Tables, Has, AgentsPage, AddAgentDialog, DeployTokenSection,
   ReleasesCard, SigningKeysCard, CodeSigningCard, TokensPage, CreateTokenDialog,
   IncidentsPage, ChannelsPage, ApiKeysCard

\* What the state of a row can be.
LEMMA StateIs ==
  /\ State("channels") = 0 .. 2 /\ State("enrollment") = 0 .. Expired
  /\ \A t \in {"agents", "deployments", "tokens", "incidents"} : State(t) = 0 .. 1
  /\ \A t \in {"releases", "signkeys", "certs"} : State(t) = {1}
BY Zenon DEF State

\* The tables the API has.
LEMMA TableIs == \A t \in Tables : Table(t) = db[t]
BY Zenon DEF Table, Tables

(***************************************************************************)
(* The invariants.  What a request carries and what the page shows have    *)
(* the types of the tables they are about, a request that is still heard   *)
(* is of the card that is shown, and a drawer holds one row.               *)
(***************************************************************************)
ApiOk ==
    /\ env \subseteq {"admin", "internal"} /\ keys \subseteq Keys
    /\ DOMAIN db = Tables /\ \A t \in Tables : db[t] \in Rows(t)
    /\ used \subseteq Ids \cup Keys /\ keys \subseteq used
    /\ fetched \subseteq Ids /\ others \in 0 .. MaxOthers

RowOk(r, t) == r.state \in State(t) /\ r.memo \in 0 .. 1
RowsOk(L, t) == DOMAIN L \subseteq Ids /\ \A i \in DOMAIN L : RowOk(L[i], t)
ListsOk(D) == \A t \in DOMAIN D \cap Tables : RowsOk(D[t], t)

Form == Call("list", "agents", {}, None)

\* A request, by what it asks.
CallOk(c) ==
    /\ DOMAIN c = DOMAIN Form
    /\ c.res \in {"ok", "err", "401"} /\ c.key \in Keys \cup {Admin, Junk, None}
    /\ c.op = "list" => ListsOk(c.data)
    /\ c.op = "get" =>
        /\ c.card = "tokens" /\ \A x, y \in c.ids : x = y
        /\ c.left = {} /\ c.res = "ok" => RowOk(c.data, c.card)
    /\ c.op = "create" /\ c.card = "authkeys" /\ c.left = {} /\ c.res = "ok"
        => c.ids \subseteq Keys /\ c.ids # {}
    /\ c.op = "save" =>
        /\ c.card \in Tables
        /\ IF c.field = "state" THEN c.val \in State(c.card) ELSE c.val \in 0 .. 1
    /\ c.op = "login" => c.by = "page" /\ c.key # None

Here(c) == c.live => c.card = card /\ (gate => c.op = "login")

CallsOk ==
    /\ DOMAIN calls = Slots
    /\ \A s \in Slots : ~Free(s) => CallOk(calls[s]) /\ Here(calls[s])

BrowserOk ==
    /\ stored \in Keys \cup {Admin, Junk, None} /\ gate \in BOOLEAN /\ card \in Cards
    /\ refused \in Keys \cup {Admin, Junk, None} /\ known \subseteq Keys /\ clicks \in Nat

Flags == {"card", "bulk", "drawer", "form", "use"} \cup Ids \cup Slots

PageOk ==
    /\ DOMAIN ui = DOMAIN Blank
    /\ ListsOk(ui.list) /\ ui.sel \subseteq Ids /\ ui.busy \subseteq Flags
    /\ ui.armed \subseteq DOMAIN Listing /\ ui.fresh \in Keys \cup {None}
    /\ \A x \in DOMAIN ui.detail : RowOk(ui.detail[x], card)
    /\ \A x, y \in DOMAIN ui.detail : x = y
    /\ ui.draft # <<>> => ui.draft[1] \in 0 .. 1

Types == ApiOk /\ CallsOk /\ BrowserOk /\ PageOk

(***************************************************************************)
(* The API.                                                                *)
(***************************************************************************)

\* A table, row by row.
LEMMA RowsIs ==
  ASSUME NEW t, NEW L
  PROVE  L \in Rows(t) <=> /\ L = [i \in DOMAIN L |-> L[i]] /\ DOMAIN L \subseteq Ids
                           /\ \A i \in DOMAIN L : L[i] \in [state : State(t), memo : 0 .. 1]
<1>1. ASSUME L \in Rows(t)
      PROVE  /\ L = [i \in DOMAIN L |-> L[i]] /\ DOMAIN L \subseteq Ids
             /\ \A i \in DOMAIN L : L[i] \in [state : State(t), memo : 0 .. 1]
  <2>1. PICK I \in SUBSET Ids : L \in [I -> [state : State(t), memo : 0 .. 1]]
    BY <1>1 DEF Rows
  <2>2. QED
    BY <2>1, Zenon
<1>2. ASSUME L = [i \in DOMAIN L |-> L[i]], DOMAIN L \subseteq Ids,
             \A i \in DOMAIN L : L[i] \in [state : State(t), memo : 0 .. 1]
      PROVE  L \in Rows(t)
  <2>1. L \in [DOMAIN L -> [state : State(t), memo : 0 .. 1]]
    BY <1>2, Zenon
  <2>2. QED
    BY <1>2, <2>1 DEF Rows
<1>3. QED
  BY <1>1, <1>2

\* What is read of a row.
LEMMA RowIs ==
  ASSUME NEW t, NEW r \in [state : State(t), memo : 0 .. 1]
  PROVE  RowOk(r, t)
BY Zenon DEF RowOk

\* What is read of a table.
LEMMA ReadIs ==
  ASSUME ApiOk, NEW t \in Tables
  PROVE  RowsOk(db[t], t)
BY RowsIs, RowIs DEF ApiOk, RowsOk

\* A new row.
LEMMA NewIs == \A t \in Tables : New(t) \in [state : State(t), memo : 0 .. 1]
<1> TAKE t \in Tables
<1> DEFINE v == IF t = "enrollment" THEN 0 ELSE 1
<1>1. v \in State(t)
  <2>1. Expired \in Nat
    BY ConsoleApiAssumption DEF Expired
  <2>2. QED
    BY <2>1, StateIs DEF Tables
<1>2. New(t) = [state |-> v, memo |-> 0]
  BY DEF New
<1>3. 0 \in 0 .. 1
  OBVIOUS
<1> HIDE DEF v
<1>4. [state |-> v, memo |-> 0] \in [state : State(t), memo : 0 .. 1]
  BY <1>1, <1>3
<1>5. QED
  BY <1>2, <1>4

\* A table that is replaced.
LEMMA TableSet ==
  ASSUME ApiOk, NEW t \in Tables, NEW L, L = [i \in DOMAIN L |-> L[i]], DOMAIN L \subseteq Ids,
         \A i \in DOMAIN L : L[i] \in [state : State(t), memo : 0 .. 1],
         db' = [db EXCEPT ![t] = L]
  PROVE  DOMAIN db' = Tables /\ \A x \in Tables : db'[x] \in Rows(x)
<1>1. L \in Rows(t)
  BY RowsIs
<1>2. QED
  BY <1>1 DEF ApiOk

\* A row is added.
LEMMA InsertOk ==
  ASSUME ApiOk, NEW t \in Tables, NEW i \in Ids, Insert(t, i)
  PROVE  DOMAIN db' = Tables /\ \A x \in Tables : db'[x] \in Rows(x)
<1> DEFINE L == [x \in DOMAIN db[t] \cup {i} |-> IF x = i THEN New(t) ELSE db[t][x]]
<1>1. DOMAIN L \subseteq Ids /\ \A x \in DOMAIN L : L[x] \in [state : State(t), memo : 0 .. 1]
  BY RowsIs, NewIs DEF ApiOk
<1>2. L = [x \in DOMAIN L |-> L[x]]
  OBVIOUS
<1>3. db' = [db EXCEPT ![t] = L]
  BY DEF Insert
<1> HIDE DEF L
<1>4. QED
  BY <1>1, <1>2, <1>3, TableSet

\* Rows are deleted, of a table of rows or of another one.
LEMMA RemoveOk ==
  ASSUME ApiOk, NEW t, NEW X, Remove(t, X)
  PROVE  DOMAIN db' = Tables /\ \A x \in Tables : db'[x] \in Rows(x)
<1> DEFINE L == [x \in DOMAIN db[t] \ X |-> db[t][x]]
<1>1. db' = [db EXCEPT ![t] = L]
  BY DEF Remove
<1>2. CASE t \in Tables
  <2>1. DOMAIN L \subseteq Ids /\ \A x \in DOMAIN L : L[x] \in [state : State(t), memo : 0 .. 1]
    BY <1>2, RowsIs DEF ApiOk
  <2>2. L = [x \in DOMAIN L |-> L[x]]
    OBVIOUS
  <2> HIDE DEF L
  <2>3. QED
    BY <1>1, <1>2, <2>1, <2>2, TableSet
<1>3. CASE t \notin Tables
  BY <1>1, <1>3 DEF ApiOk
<1>4. QED
  BY <1>2, <1>3

\* A request is carried out or refused, in part or in full: what it asks for
\* stays as it is.
Progress(s) ==
    /\ DOMAIN calls' = Slots /\ \A r \in Slots \ {s} : calls'[r] = calls[r]
    /\ DOMAIN calls'[s] = DOMAIN Form
    /\ calls'[s].op = calls[s].op /\ calls'[s].card = calls[s].card
    /\ calls'[s].by = calls[s].by /\ calls'[s].field = calls[s].field
    /\ calls'[s].val = calls[s].val /\ calls'[s].key = calls[s].key
    /\ calls'[s].live = calls[s].live

\* Done leaves the rest of a request alone and collects what went wrong.
LEMMA DoneIs ==
  ASSUME NEW s \in Slots, DOMAIN calls = Slots, DOMAIN calls[s] = DOMAIN Form,
         calls[s].res \in {"ok", "err", "401"}, NEW X, NEW res \in {"ok", "err", "401"}, Done(s, X, res)
  PROVE  /\ Progress(s)
         /\ calls'[s].left = calls[s].left \ X
         /\ calls'[s].ids = calls[s].ids /\ calls'[s].data = calls[s].data
         /\ calls'[s].res \in {calls[s].res, res}
         /\ "401" \in {calls[s].res, res} => calls'[s].res = "401"
<1> DEFINE q(x) == IF "401" \in {x, res} THEN "401" ELSE IF "err" \in {x, res} THEN "err" ELSE "ok"
           d == [calls[s] EXCEPT !.left = @ \ X, !.res = q(@)]
<1>1. calls' = [calls EXCEPT ![s] = d]
  BY Zenon DEF Done
<1>2. /\ DOMAIN d = DOMAIN Form /\ d.left = calls[s].left \ X /\ d.res = q(calls[s].res)
      /\ d.op = calls[s].op /\ d.card = calls[s].card /\ d.by = calls[s].by
      /\ d.field = calls[s].field /\ d.val = calls[s].val /\ d.key = calls[s].key
      /\ d.live = calls[s].live /\ d.ids = calls[s].ids /\ d.data = calls[s].data
  BY Zenon DEF Form, Call
<1>3. q(calls[s].res) \in {calls[s].res, res}
      /\ ("401" \in {calls[s].res, res} => q(calls[s].res) = "401")
  OBVIOUS
<1> HIDE DEF d, q
<1>4. DOMAIN calls' = Slots /\ calls'[s] = d /\ \A r \in Slots \ {s} : calls'[r] = calls[r]
  BY <1>1
<1>5. QED
  BY <1>2, <1>3, <1>4, Zenon DEF Progress

\* No slot gets a request.
NoneSent == \A s \in Slots : Free(s) => Free(s)'

\* What it has to bring for the invariant.
LEMMA ProgressOk ==
  ASSUME CallsOk, NEW s \in Slots, ~Free(s), Progress(s), UNCHANGED <<card, gate>>,
         calls'[s].res \in {"ok", "err", "401"},
         calls[s].op = "list" => ListsOk(calls'[s].data),
         calls[s].op = "get" =>
            /\ calls'[s].ids = calls[s].ids
            /\ calls'[s].left = {} /\ calls'[s].res = "ok" => RowOk(calls'[s].data, "tokens"),
         calls[s].op = "create" /\ calls[s].card = "authkeys" /\ calls'[s].left = {}
            /\ calls'[s].res = "ok" => calls'[s].ids \subseteq Keys /\ calls'[s].ids # {}
  PROVE  CallsOk' /\ NoneSent
<1>1. CallOk(calls[s]) /\ Here(calls[s])
  BY DEF CallsOk
<1>2. CallOk(calls[s])'
  BY <1>1 DEF CallOk, Progress
<1>3. Here(calls[s])'
  BY <1>1 DEF Here, Progress
<1>4. ASSUME NEW r \in Slots \ {s}, ~Free(r)'
      PROVE  CallOk(calls[r])' /\ Here(calls[r])'
  <2>1. calls'[r] = calls[r] /\ ~Free(r)
    BY <1>4 DEF Progress, Free
  <2>2. CallOk(calls[r]) /\ Here(calls[r])
    BY <2>1 DEF CallsOk
  <2>3. QED
    BY <2>1, <2>2 DEF Here
<1>5. NoneSent
  BY DEF NoneSent, Progress, Free
<1>6. QED
  BY <1>2, <1>3, <1>4, <1>5 DEF CallsOk, Progress

\* A part of it is done, and it brings nothing back.
LEMMA DoneOk ==
  ASSUME CallsOk, NEW s \in Slots, ~Free(s), NEW X, NEW res \in {"ok", "err", "401"}, Done(s, X, res),
         UNCHANGED <<card, gate>>,
         calls[s].op = "get" => res = "401",
         calls[s].op = "create" => res # "err" /\ (res = "ok" => calls[s].card # "authkeys")
  PROVE  CallsOk' /\ NoneSent
<1>1. CallOk(calls[s])
  BY DEF CallsOk
<1>2. DOMAIN calls = Slots /\ DOMAIN calls[s] = DOMAIN Form /\ calls[s].res \in {"ok", "err", "401"}
  BY <1>1 DEF CallsOk, CallOk
<1>3. /\ Progress(s) /\ calls'[s].res \in {calls[s].res, res}
      /\ calls'[s].ids = calls[s].ids /\ calls'[s].data = calls[s].data
      /\ "401" \in {calls[s].res, res} => calls'[s].res = "401"
  BY <1>2, DoneIs
<1>4. calls[s].op = "list" => ListsOk(calls'[s].data)
  BY <1>1, <1>3 DEF CallOk
<1>5. calls[s].op = "create" /\ calls[s].card = "authkeys" /\ calls'[s].left = {}
            /\ calls'[s].res = "ok" => calls'[s].ids \subseteq Keys /\ calls'[s].ids # {}
  BY <1>1, <1>3 DEF CallOk
<1>6. QED
  BY <1>2, <1>3, <1>4, <1>5, ProgressOk

\* The API takes a request.
LEMMA ServeOk ==
  ASSUME ApiOk, CallsOk, NEW s \in Slots, Serve(s), UNCHANGED <<card, gate>>
  PROVE  ApiOk' /\ CallsOk' /\ NoneSent
<1>1. ~Free(s) /\ CallOk(calls[s])
  <2>1. ~Free(s)
    BY DEF Serve, Refuse, ServeLogin, ServeList, ServeGet, ServeCreate, ServeCreateKey,
       ServeDelete, ServeSave, Admitted, Waiting, Free
  <2>2. QED
    BY <2>1 DEF CallsOk
<1> DEFINE c == calls[s]
<1>2. /\ DOMAIN calls = Slots /\ DOMAIN calls[s] = DOMAIN Form /\ calls[s].res \in {"ok", "err", "401"}
  BY <1>1 DEF CallsOk, CallOk
<1>3. ASSUME UNCHANGED apiVars PROVE ApiOk'
  BY <1>3 DEF ApiOk, apiVars
<1>4. CASE Refuse(s)
  <2>1. PICK X \in Parts(c) : Done(s, X, "401")
    BY <1>4 DEF Refuse
  <2>2. QED
    BY <1>1, <1>3, <1>4, <2>1, DoneOk DEF Refuse
<1>5. CASE ServeLogin(s)
  <2> DEFINE res == IF login(c.key) THEN "ok" ELSE "err"
  <2>1. c.op = "login" /\ Done(s, c.left, res) /\ res \in {"ok", "err", "401"}
    BY <1>5 DEF ServeLogin
  <2> HIDE DEF res
  <2>2. CallsOk' /\ NoneSent
    BY <1>1, <2>1, DoneOk
  <2>3. QED
    BY <1>3, <1>5, <2>2 DEF ServeLogin
<1>6. CASE ServeList(s)
  <2>1. PICK t \in c.left :
          calls' = [calls EXCEPT
                ![s].left = @ \ {t},
                ![s].data = [x \in DOMAIN c.data \cup {t} |->
                    IF x = t THEN Listed(t, c.filter) ELSE c.data[x]]]
    BY <1>6 DEF ServeList
  <2> DEFINE D == [x \in DOMAIN c.data \cup {t} |-> IF x = t THEN Listed(t, c.filter) ELSE c.data[x]]
             d == [c EXCEPT !.left = @ \ {t}, !.data = D]
  <2>2. calls' = [calls EXCEPT ![s] = d]
    BY <2>1, Zenon
  <2>3. /\ DOMAIN d = DOMAIN Form /\ d.data = D /\ d.res = c.res
        /\ d.op = c.op /\ d.card = c.card /\ d.by = c.by /\ d.field = c.field
        /\ d.val = c.val /\ d.key = c.key /\ d.live = c.live
    BY <1>2, Zenon DEF Form, Call
  <2>4. c.op = "list" /\ ListsOk(c.data)
    BY <1>1, <1>6 DEF ServeList, Admitted, CallOk
  <2>5. t \in Tables => RowsOk(Listed(t, c.filter), t)
    BY ReadIs, TableIs DEF Listed, RowsOk
  <2>6. ListsOk(D)
    BY <2>4, <2>5 DEF ListsOk
  <2> HIDE DEF D, d
  <2>7. DOMAIN calls' = Slots /\ calls'[s] = d /\ \A r \in Slots \ {s} : calls'[r] = calls[r]
    BY <1>2, <2>2
  <2>8. Progress(s) /\ calls'[s].data = D /\ calls'[s].res = c.res
    BY <2>3, <2>7, Zenon DEF Progress
  <2>9. CallsOk' /\ NoneSent
    BY <1>1, <1>2, <2>4, <2>6, <2>8, ProgressOk
  <2>10. QED
    BY <1>3, <1>6, <2>9 DEF ServeList
<1>7. CASE ServeGet(s)
  <2> DEFINE i == CHOOSE x \in c.left : TRUE
             rows == Table(c.card)
             res == IF i \in DOMAIN rows THEN "ok" ELSE "err"
             got(x) == IF i \in DOMAIN rows THEN rows[i] ELSE x
             data == got(c.data)
             d == [c EXCEPT !.left = {}, !.res = res, !.data = got(@)]
  <2>1. c.op \in {"get", "file", "use"}
    BY <1>7 DEF ServeGet
  <2>2. calls' = [calls EXCEPT ![s] = d]
    <3>1. calls' = [calls EXCEPT ![s].left = {}, ![s].res = res, ![s].data = got(@)]
      BY <1>7 DEF ServeGet
    <3> HIDE DEF res, got
    <3>2. QED
      BY <3>1, Zenon
  <2>3. /\ DOMAIN d = DOMAIN Form /\ d.data = data /\ d.res = res /\ d.ids = c.ids
        /\ d.op = c.op /\ d.card = c.card /\ d.by = c.by /\ d.field = c.field
        /\ d.val = c.val /\ d.key = c.key /\ d.live = c.live
    BY <1>2, Zenon DEF Form, Call
  <2>4. res \in {"ok", "err", "401"}
    OBVIOUS
  <2>5. c.op = "get" /\ res = "ok" => RowOk(data, "tokens")
    <3>1. SUFFICES ASSUME c.op = "get", res = "ok" PROVE RowOk(data, "tokens")
      OBVIOUS
    <3>2. rows = db["tokens"] /\ RowsOk(db["tokens"], "tokens")
      BY <1>1, <3>1, TableIs, ReadIs DEF CallOk, Tables
    <3>3. data = rows[i] /\ i \in DOMAIN rows
      BY <3>1
    <3> HIDE DEF i, rows, data
    <3>4. QED
      BY <3>2, <3>3 DEF RowsOk
  <2> HIDE DEF i, rows, res, got, data, d
  <2>6. DOMAIN calls' = Slots /\ calls'[s] = d /\ \A r \in Slots \ {s} : calls'[r] = calls[r]
    BY <1>2, <2>2
  <2>7. Progress(s) /\ calls'[s].data = data /\ calls'[s].res = res /\ calls'[s].ids = c.ids
    BY <2>3, <2>6, Zenon DEF Progress
  <2>8. CallsOk' /\ NoneSent
    <3>1. calls'[s].res = "ok" /\ calls[s].op = "get" => RowOk(calls'[s].data, "tokens")
      BY <2>5, <2>7
    <3>2. calls'[s].res \in {"ok", "err", "401"} /\ calls'[s].ids = calls[s].ids
      BY <2>4, <2>7
    <3>3. calls[s].op # "list" /\ calls[s].op # "create"
      BY <2>1
    <3>4. Progress(s)
      BY <2>7
    <3>5. QED
      BY <1>1, <3>1, <3>2, <3>3, <3>4, ProgressOk
  <2>9. QED
    BY <1>3, <1>7, <2>8 DEF ServeGet
<1>8. CASE ServeCreate(s)
  <2>1. CallsOk' /\ NoneSent
    BY <1>1, <1>8, DoneOk DEF ServeCreate, Admitted, Tables
  <2>2. PICK i \in Ids \ used : Insert(c.card, i) /\ used' = used \cup {i}
    BY <1>8 DEF ServeCreate
  <2>3. DOMAIN db' = Tables /\ \A x \in Tables : db'[x] \in Rows(x)
    BY <1>8, <2>2, InsertOk DEF ServeCreate
  <2>4. QED
    BY <1>8, <2>1, <2>2, <2>3 DEF ServeCreate, ApiOk
<1>9. CASE ServeCreateKey(s)
  <2>1. PICK k \in Keys \ used :
          /\ keys' = keys \cup {k} /\ used' = used \cup {k}
          /\ calls' = [calls EXCEPT ![s].left = {}, ![s].ids = {k}]
    BY <1>9 DEF ServeCreateKey
  <2> DEFINE d == [c EXCEPT !.left = {}, !.ids = {k}]
  <2>2. calls' = [calls EXCEPT ![s] = d]
    BY <2>1, Zenon
  <2>3. /\ DOMAIN d = DOMAIN Form /\ d.res = c.res /\ d.ids = {k}
        /\ d.op = c.op /\ d.card = c.card /\ d.by = c.by /\ d.field = c.field
        /\ d.val = c.val /\ d.key = c.key /\ d.live = c.live
    BY <1>2, Zenon DEF Form, Call
  <2> HIDE DEF d
  <2>4. DOMAIN calls' = Slots /\ calls'[s] = d /\ \A r \in Slots \ {s} : calls'[r] = calls[r]
    BY <1>2, <2>2
  <2>5. Progress(s) /\ calls'[s].res = c.res /\ calls'[s].ids = {k}
    BY <2>3, <2>4, Zenon DEF Progress
  <2>6. c.op = "create"
    BY <1>9 DEF ServeCreateKey, Admitted
  <2>7. CallsOk' /\ NoneSent
    BY <1>1, <1>2, <2>5, <2>6, ProgressOk
  <2>8. QED
    BY <1>9, <2>1, <2>7 DEF ServeCreateKey, ApiOk
<1>10. CASE ServeDelete(s)
  <2> DEFINE res(X) == IF X \subseteq DOMAIN Table(c.card) \/ c.by = "bulk" THEN "ok" ELSE "err"
  <2>1. PICK X \in Parts(c) :
          /\ Done(s, X, res(X))
          /\ IF c.card = "authkeys" THEN keys' = keys \ X /\ UNCHANGED db
                                    ELSE Remove(c.card, X) /\ UNCHANGED keys
    BY <1>10 DEF ServeDelete
  <2>2. res(X) \in {"ok", "err", "401"} /\ c.op = "delete"
    BY <1>10 DEF ServeDelete, Admitted
  <2> HIDE DEF res
  <2>3. CallsOk' /\ NoneSent
    BY <1>1, <2>1, <2>2, DoneOk
  <2>4. DOMAIN db' = Tables /\ \A x \in Tables : db'[x] \in Rows(x)
    BY <2>1, RemoveOk DEF ApiOk
  <2>5. QED
    BY <1>10, <2>1, <2>3, <2>4 DEF ServeDelete, ApiOk
<1>11. CASE ServeSave(s)
  <2> DEFINE rows == db[c.card]
             res(X) == IF X \subseteq DOMAIN rows \/ c.by = "bulk" THEN "ok" ELSE "err"
             S(i) == IF c.field = "state" THEN c.val ELSE rows[i].state
             M(i) == IF c.field = "memo" THEN c.val ELSE rows[i].memo
             Changed(i) == [state |-> S(i), memo |-> M(i)]
             L(X) == [i \in DOMAIN rows |-> IF i \in X THEN Changed(i) ELSE rows[i]]
  <2>1. PICK X \in Parts(c) : Done(s, X, res(X)) /\ db' = [db EXCEPT ![c.card] = L(X)]
    BY <1>11 DEF ServeSave
  <2>2. res(X) \in {"ok", "err", "401"} /\ c.op = "save"
    BY <1>11 DEF ServeSave, Admitted
  <2>3. c.card \in Tables /\ IF c.field = "state" THEN c.val \in State(c.card) ELSE c.val \in 0 .. 1
    BY <1>1, <2>2 DEF CallOk
  <2>4. /\ DOMAIN rows \subseteq Ids
        /\ \A i \in DOMAIN rows : rows[i] \in [state : State(c.card), memo : 0 .. 1]
    BY <2>3, RowsIs DEF ApiOk
  <2>5. \A i \in DOMAIN rows : rows[i].state \in State(c.card) /\ rows[i].memo \in 0 .. 1
    BY <2>3, ReadIs DEF RowsOk, RowOk
  <2>6. \A i \in DOMAIN rows : S(i) \in State(c.card) /\ M(i) \in 0 .. 1
    BY <2>3, <2>5
  <2>7. \A i \in DOMAIN rows : Changed(i) \in [state : State(c.card), memo : 0 .. 1]
    <3> HIDE DEF S, M
    <3>1. QED
      BY <2>6
  <2>8. /\ L(X) = [i \in DOMAIN L(X) |-> L(X)[i]] /\ DOMAIN L(X) \subseteq Ids
        /\ \A i \in DOMAIN L(X) : L(X)[i] \in [state : State(c.card), memo : 0 .. 1]
    <3> HIDE DEF Changed
    <3>1. QED
      BY <2>4, <2>7
  <2> HIDE DEF res, L
  <2>9. CallsOk' /\ NoneSent
    BY <1>1, <2>1, <2>2, DoneOk
  <2>10. DOMAIN db' = Tables /\ \A x \in Tables : db'[x] \in Rows(x)
    BY <2>1, <2>3, <2>8, TableSet
  <2>11. QED
    BY <1>11, <2>9, <2>10 DEF ServeSave, ApiOk
<1>12. QED
  BY <1>4, <1>5, <1>6, <1>7, <1>8, <1>9, <1>10, <1>11 DEF Serve

\* A request does not get through, or its answer does not.
LEMMA FailsOk ==
  ASSUME ApiOk, CallsOk, NEW s \in Slots, Fails(s), UNCHANGED <<card, gate>>
  PROVE  ApiOk' /\ CallsOk' /\ NoneSent
<1>1. ~Free(s)
  BY DEF Fails, Free
<1>2. CallOk(calls[s]) /\ DOMAIN calls = Slots
  BY <1>1 DEF CallsOk
<1> DEFINE c == calls[s]
           d == [c EXCEPT !.left = {}, !.res = "err"]
<1>3. calls' = [calls EXCEPT ![s] = d]
  <2>1. calls' = [calls EXCEPT ![s].left = {}, ![s].res = "err"]
    BY DEF Fails
  <2>2. QED
    BY <2>1, Zenon
<1>4. DOMAIN c = DOMAIN Form
  BY <1>2 DEF CallOk
<1>5. /\ DOMAIN d = DOMAIN Form /\ d.data = c.data /\ d.res = "err" /\ d.ids = c.ids
      /\ d.op = c.op /\ d.card = c.card /\ d.by = c.by /\ d.field = c.field
      /\ d.val = c.val /\ d.key = c.key /\ d.live = c.live
  BY <1>4, Zenon DEF Form, Call
<1> HIDE DEF d
<1>6. DOMAIN calls' = Slots /\ calls'[s] = d /\ \A r \in Slots \ {s} : calls'[r] = calls[r]
  BY <1>2, <1>3
<1>7. /\ Progress(s) /\ calls'[s].data = c.data /\ calls'[s].res = "err"
      /\ calls'[s].ids = c.ids
  BY <1>5, <1>6, Zenon DEF Progress
<1>8. CallsOk' /\ NoneSent
  <2>1. calls[s].op = "list" => ListsOk(calls'[s].data)
    BY <1>2, <1>7 DEF CallOk
  <2>2. QED
    BY <1>1, <1>7, <2>1, ProgressOk
<1>9. ApiOk'
  BY ConsoleApiAssumption DEF Fails, ApiOk
<1>10. QED
  BY <1>8, <1>9

\* What other people, agents and the gateway do to the rows and the keys.
LEMMA OthersOk ==
  ASSUME ApiOk, card \in Cards, Others \/ Colleague
  PROVE  ApiOk'
<1>0. Elsewhere => others' \in 0 .. MaxOthers /\ UNCHANGED env
  BY ConsoleApiAssumption DEF Elsewhere, ApiOk
<1>1. ASSUME NEW t \in Tables, RowComes(t) PROVE ApiOk'
  <2>1. PICK i \in Ids \ used : Insert(t, i) /\ used' = used \cup {i}
    BY <1>1 DEF RowComes
  <2>2. DOMAIN db' = Tables /\ \A x \in Tables : db'[x] \in Rows(x)
    BY <2>1, InsertOk
  <2>3. QED
    BY <1>1, <2>1, <2>2, ConsoleApiAssumption DEF RowComes, Elsewhere, ApiOk
<1>2. ASSUME NEW t \in Tables, RowGoes(t) PROVE ApiOk'
  <2>1. PICK i \in DOMAIN db[t] : Remove(t, {i})
    BY <1>2 DEF RowGoes
  <2>2. DOMAIN db' = Tables /\ \A x \in Tables : db'[x] \in Rows(x)
    BY <2>1, RemoveOk
  <2>3. QED
    BY <1>2, <2>2, ConsoleApiAssumption DEF RowGoes, Elsewhere, ApiOk
<1>3. ASSUME NEW t \in Tables, NEW i \in DOMAIN db[t], NEW v \in State(t),
             db' = [db EXCEPT ![t][i] = [@ EXCEPT !.state = v]]
      PROVE  DOMAIN db' = Tables /\ \A x \in Tables : db'[x] \in Rows(x)
  <2> DEFINE r == [db[t][i] EXCEPT !.state = v]
             L == [db[t] EXCEPT ![i] = r]
  <2>1. /\ db[t] = [x \in DOMAIN db[t] |-> db[t][x]] /\ DOMAIN db[t] \subseteq Ids
        /\ \A x \in DOMAIN db[t] : db[t][x] \in [state : State(t), memo : 0 .. 1]
    BY RowsIs DEF ApiOk
  <2>2. r \in [state : State(t), memo : 0 .. 1]
    <3>1. db[t][i] \in [state : State(t), memo : 0 .. 1]
      BY <2>1
    <3>2. QED
      BY <3>1, Zenon
  <2>3. db' = [db EXCEPT ![t] = L]
    BY <1>3, Zenon
  <2> HIDE DEF r
  <2>4. /\ L = [x \in DOMAIN L |-> L[x]] /\ DOMAIN L \subseteq Ids
        /\ \A x \in DOMAIN L : L[x] \in [state : State(t), memo : 0 .. 1]
    BY <2>1, <2>2
  <2> HIDE DEF L
  <2>5. QED
    BY <2>3, <2>4, TableSet
<1>4. ASSUME NEW t \in Tables, RowChanges(t) PROVE ApiOk'
  <2>1. PICK i \in DOMAIN db[t], v \in IF t = "enrollment" THEN {Expired} ELSE State(t) :
          db' = [db EXCEPT ![t][i] = [@ EXCEPT !.state = v]]
    BY <1>4 DEF RowChanges
  <2>2. v \in State(t)
    <3>1. Expired \in 0 .. Expired
      BY ConsoleApiAssumption DEF Expired
    <3>2. QED
      BY <2>1, <3>1, StateIs
  <2>3. DOMAIN db' = Tables /\ \A x \in Tables : db'[x] \in Rows(x)
    BY <1>3, <2>1, <2>2
  <2>4. others' \in 0 .. MaxOthers /\ UNCHANGED <<env, keys, used, fetched>>
    BY <1>4, <1>0 DEF RowChanges, Elsewhere
  <2>5. QED
    BY <2>3, <2>4 DEF ApiOk
<1>5. ASSUME KeyGoes \/ KeyComes PROVE ApiOk'
  <2>1. others' \in 0 .. MaxOthers /\ UNCHANGED <<env, db, fetched>>
    BY <1>0, <1>5 DEF KeyGoes, KeyComes, Elsewhere
  <2>2. keys' \subseteq Keys /\ used' \subseteq Ids \cup Keys /\ keys' \subseteq used'
    BY <1>5 DEF KeyGoes, KeyComes, ApiOk
  <2>3. QED
    BY <2>1, <2>2 DEF ApiOk
<1>6. ASSUME NEW i \in Ids, Download(i) PROVE ApiOk'
  BY <1>6, ConsoleApiAssumption DEF Download, Elsewhere, ApiOk
<1>7. ASSUME NEW i \in Ids, consumeEnrollmentToken(i) PROVE ApiOk'
  <2> DEFINE t == "enrollment"
             v == db[t][i].state + 1
  <2>1. i \in DOMAIN db[t] /\ db[t][i].state # Expired
    BY <1>7 DEF consumeEnrollmentToken, isValidEnrollmentCredential
  <2>2. t \in Tables /\ db[t][i].state \in State(t)
    BY <2>1, ReadIs DEF RowsOk, RowOk, Tables
  <2>3. v \in State(t)
    <3>1. Expired \in Nat
      BY ConsoleApiAssumption DEF Expired
    <3>2. QED
      BY <2>1, <2>2, <3>1, StateIs
  <2>4. db' = [db EXCEPT ![t][i] = [@ EXCEPT !.state = v]]
    <3>1. db' = [db EXCEPT !["enrollment"][i].state = @ + 1]
      BY <1>7 DEF consumeEnrollmentToken
    <3>2. QED
      BY <3>1, Zenon
  <2> HIDE DEF v, t
  <2>5. DOMAIN db' = Tables /\ \A x \in Tables : db'[x] \in Rows(x)
    BY <1>3, <2>1, <2>2, <2>3, <2>4
  <2>6. QED
    BY <1>7, <2>5, ConsoleApiAssumption DEF consumeEnrollmentToken, Elsewhere, ApiOk
<1>8. QED
  BY <1>1, <1>2, <1>4, <1>5, <1>6, <1>7 DEF Others, Colleague

(***************************************************************************)
(* The page.  A confirmation is about what is selected, in the agents'     *)
(* drawer about the agent it is open for; a draft about what is shown.     *)
(***************************************************************************)
Subject == IF card \in {"tokens", "channels"} THEN DOMAIN ui.detail ELSE {ui.opened}

Asked ==
    /\ ui.confirm # {} /\ ui.sel # {} => ui.confirm = ui.sel
    /\ card = "agents" /\ ui.confirming # None => ui.confirming = ui.opened
    /\ ui.draft # <<>> => Subject \subseteq {ui.draft[2]}

\* What is on the page when it appears.
LEMMA BlankIs ==
  /\ Blank.list = <<>> /\ Blank.sel = {} /\ Blank.confirm = {} /\ Blank.armed = {}
  /\ Blank.busy = {} /\ Blank.opened = None /\ Blank.detail = <<>> /\ Blank.draft = <<>>
  /\ Blank.confirming = None /\ Blank.fresh = None
BY Zenon DEF Blank

\* It is in order.
LEMMA PageBegins == ASSUME ui' = Blank PROVE PageOk' /\ Asked'
<1>1. ListsOk(<<>>)
  BY DEF ListsOk
<1>2. PageOk'
  BY <1>1, BlankIs DEF PageOk
<1>3. Asked'
  BY BlankIs DEF Asked
<1>4. QED
  BY <1>2, <1>3

\* What the card shows.
LEMMA ListingIs ==
  ASSUME PageOk
  PROVE  card \in Tables => RowsOk(Listing, card)
BY DEF PageOk, ListsOk, Listing, RowsOk

KeepsSelection == ui'.sel = ui.sel /\ ui'.confirm = ui.confirm
KeepsDrawer ==
    ui'.opened = ui.opened /\ ui'.detail = ui.detail /\ ui'.draft = ui.draft /\ ui'.confirming = ui.confirming

\* Its buttons are busy or armed; a key may have been made.
LEMMA PageButtons ==
  ASSUME PageOk, Asked, card' = card, DOMAIN ui' = DOMAIN Blank, KeepsSelection, KeepsDrawer,
         ui'.list = ui.list, ui'.busy \subseteq Flags, ui'.armed \subseteq DOMAIN Listing,
         ui'.fresh \in Keys \cup {None}
  PROVE  PageOk' /\ Asked'
<1>1. Listing' = Listing
  BY DEF Listing
<1>2. PageOk'
  BY <1>1 DEF PageOk, KeepsSelection, KeepsDrawer
<1>3. Asked'
  BY DEF Asked, KeepsSelection, KeepsDrawer, Subject
<1>4. QED
  BY <1>2, <1>3

\* Rows are selected, and a bulk action asked for.
LEMMA PageSelects ==
  ASSUME PageOk, Asked, card' = card, DOMAIN ui' = DOMAIN Blank, KeepsDrawer,
         ui'.list = ui.list, ui'.busy \subseteq Flags, ui'.armed = ui.armed, ui'.fresh = ui.fresh,
         ui'.sel \subseteq Ids, ui'.confirm # {} /\ ui'.sel # {} => ui'.confirm = ui'.sel
  PROVE  PageOk' /\ Asked'
<1>1. Listing' = Listing
  BY DEF Listing
<1>2. PageOk'
  BY <1>1 DEF PageOk, KeepsDrawer
<1>3. Asked'
  BY DEF Asked, KeepsDrawer, Subject
<1>4. QED
  BY <1>2, <1>3

\* A drawer is opened, closed, filled or written in.
LEMMA PageDrawer ==
  ASSUME PageOk, Asked, card' = card, DOMAIN ui' = DOMAIN Blank, KeepsSelection,
         ui'.list = ui.list, ui'.busy \subseteq Flags, ui'.armed \subseteq ui.armed, ui'.fresh = ui.fresh,
         \A x \in DOMAIN ui'.detail : RowOk(ui'.detail[x], card),
         \A x, y \in DOMAIN ui'.detail : x = y,
         ui'.draft # <<>> => ui'.draft[1] \in 0 .. 1,
         card = "agents" /\ ui'.confirming # None => ui'.confirming = ui'.opened,
         ui'.draft # <<>> => Subject' \subseteq {ui'.draft[2]}
  PROVE  PageOk' /\ Asked'
<1>1. Listing' = Listing
  BY DEF Listing
<1>2. PageOk'
  BY <1>1 DEF PageOk, KeepsSelection
<1>3. Asked'
  BY DEF Asked, KeepsSelection
<1>4. QED
  BY <1>2, <1>3

(***************************************************************************)
(* Requests of the page.                                                   *)
(***************************************************************************)

\* What a request may ask, given what the operator was asked and has typed.
Proper(c) ==
    /\ c.op = "delete" /\ c.by = "bulk" /\ Has("confirm") => c.ids = ui.confirm
    /\ c.op = "delete" /\ c.by = "drawer" /\ card = "agents" => c.ids = {ui.confirming}
    /\ c.op = "save" /\ c.by \in {"editor", "sensors"} => c.ids = {ui.draft[2]}

\* Every request that is sent is proper.
Sends == \A s \in Slots : Free(s) /\ ~Free(s)' => Proper(calls'[s])

\* A request in order, of the card that is shown.
Posts(c) == CallOk(c) /\ c.card = card /\ (gate => c.op = "login") /\ Proper(c)

\* Slots keep what they have, get a request in order or nothing, or are not
\* heard any more.
LEMMA Replaced ==
  ASSUME CallsOk, DOMAIN calls' = Slots,
         \A r \in Slots :
            \/ calls'[r] = calls[r] /\ card' = card /\ (gate' => gate)
            \/ calls'[r].op = "none"
            \/ ~Free(r) /\ CallOk(calls'[r]) /\ calls'[r].live = FALSE
            \/ /\ CallOk(calls'[r]) /\ calls'[r].card = card' /\ (gate' => calls'[r].op = "login")
               /\ Proper(calls'[r])
  PROVE  CallsOk' /\ Sends
<1> SUFFICES ASSUME NEW r \in Slots, ~Free(r)'
             PROVE  CallOk(calls'[r]) /\ Here(calls[r])' /\ (Free(r) => Proper(calls'[r]))
  BY DEF CallsOk, Sends, CallOk, Free
<1>1. CASE calls'[r] = calls[r] /\ card' = card /\ (gate' => gate)
  <2>1. ~Free(r)
    BY <1>1 DEF Free
  <2>2. CallOk(calls[r]) /\ Here(calls[r])
    BY <2>1 DEF CallsOk
  <2>3. QED
    BY <1>1, <2>1, <2>2 DEF Here
<1>2. CASE ~Free(r) /\ CallOk(calls'[r]) /\ calls'[r].live = FALSE
  BY <1>2 DEF Here
<1>3. CASE /\ CallOk(calls'[r]) /\ calls'[r].card = card' /\ (gate' => calls'[r].op = "login")
           /\ Proper(calls'[r])
  BY <1>3 DEF Here
<1>4. calls'[r].op # "none"
  BY DEF Free
<1>5. QED
  BY <1>1, <1>2, <1>3, <1>4

\* A slot gets a request, or nothing.
LEMMA Posted ==
  ASSUME CallsOk, NEW s \in Slots, NEW c, c.op # "none" => Posts(c),
         calls' = [calls EXCEPT ![s] = c], card' = card, gate' = gate
  PROVE  CallsOk' /\ Sends
<1>1. DOMAIN calls' = Slots /\ calls'[s] = c /\ \A r \in Slots \ {s} : calls'[r] = calls[r]
  BY DEF CallsOk
<1>2. QED
  BY <1>1, Replaced DEF Posts

\* What an API request is made of.
LEMMA CallIs ==
  ASSUME NEW op, NEW k, NEW ids, NEW key
  PROVE  LET c == Call(op, k, ids, key) IN
         /\ DOMAIN c = DOMAIN Form /\ c.op = op /\ c.card = k /\ c.ids = ids /\ c.key = key
         /\ c.by = "page" /\ c.left = ids /\ c.data = <<>> /\ c.res = "ok"
BY Zenon DEF Call, Form

\* One by the operator.
LEMMA SendIs ==
  ASSUME NEW f, NEW op, NEW ids, NEW by
  PROVE  LET c == Send(f, op, ids, by) IN
         /\ DOMAIN c = DOMAIN Form /\ c.op = op /\ c.card = card /\ c.ids = ids
         /\ c.by = by /\ c.left = ids /\ c.res = "ok" /\ c.key = stored
BY Zenon DEF Send, request, Call, Form

\* One that saves something else than a memo.
LEMMA SavesIs ==
  ASSUME NEW f, NEW ids, NEW by, NEW field, NEW val
  PROVE  LET c == [Send(f, "save", ids, by) EXCEPT !.field = field, !.val = val] IN
         /\ DOMAIN c = DOMAIN Form /\ c.op = "save" /\ c.card = card /\ c.ids = ids
         /\ c.by = by /\ c.left = ids /\ c.res = "ok" /\ c.field = field /\ c.val = val
         /\ c.key = stored
BY Zenon DEF Send, request, Call, Form

\* One for a list, and one for the token that was open.
LEMMA ReadsIs ==
  /\ \A c, f : LET l == ListCall(c, f) IN
        /\ DOMAIN l = DOMAIN Form /\ l.op = "list" /\ l.card = c /\ l.by = "page"
        /\ l.res = "ok" /\ l.data = <<>> /\ l.key = stored
  /\ \A op, ids : LET r == request(op, ids) IN
        /\ DOMAIN r = DOMAIN Form /\ r.op = op /\ r.card = card /\ r.ids = ids
        /\ r.by = "page" /\ r.left = ids /\ r.res = "ok" /\ r.key = stored
BY Zenon DEF ListCall, request, Call, Form

\* The list of the card.
LEMMA ListPosts ==
  ASSUME BrowserOk, ~gate, NEW f PROVE Posts(ListCall(card, f))
<1>1. ListsOk(<<>>)
  BY DEF ListsOk
<1>2. QED
  BY <1>1, ReadsIs DEF Posts, CallOk, Proper, BrowserOk

\* A token for its drawer.
LEMMA GetPosts ==
  ASSUME Types, ~gate, card = "tokens", NEW i PROVE Posts(request("get", {i}))
BY ReadsIs DEF Posts, CallOk, Proper, Types, BrowserOk

\* A file.
LEMMA FilePosts ==
  ASSUME Types, ~gate, NEW i PROVE Posts(request("file", {i}))
BY ReadsIs DEF Posts, CallOk, Proper, Types, BrowserOk

\* What a button asks for.
LEMMA ButtonPosts ==
  ASSUME Types, ~gate, NEW f, NEW op \in {"delete", "use", "create"}, NEW ids, NEW by,
         op = "create" => ids # {},
         op = "delete" /\ by = "bulk" /\ Has("confirm") => ids = ui.confirm,
         op = "delete" /\ by = "drawer" /\ card = "agents" => ids = {ui.confirming}
  PROVE  Posts(Send(f, op, ids, by))
BY SendIs DEF Posts, CallOk, Proper, Types, BrowserOk

\* A row's state is saved.
LEMMA StatePosts ==
  ASSUME Types, ~gate, card \in Tables, NEW f, NEW ids, NEW by \in {"bulk", "row", "drawer"},
         NEW val \in State(card)
  PROVE  Posts([Send(f, "save", ids, by) EXCEPT !.field = "state", !.val = val])
<1> DEFINE c == [Send(f, "save", ids, by) EXCEPT !.field = "state", !.val = val]
<1>1. /\ DOMAIN c = DOMAIN Form /\ c.op = "save" /\ c.card = card /\ c.by = by
      /\ c.res = "ok" /\ c.field = "state" /\ c.val = val /\ c.key = stored
  BY SavesIs
<1> HIDE DEF c
<1>2. Posts(c)
  BY <1>1 DEF Posts, CallOk, Proper, Types, BrowserOk
<1>3. QED
  BY <1>2 DEF c

\* Rows are switched off together.
LEMMA BulkPosts ==
  ASSUME Types, ~gate, card \in {"tokens", "incidents"}, NEW f, NEW ids
  PROVE  Posts([Send(f, "save", ids, "bulk") EXCEPT !.field = "state"])
<1> DEFINE c == [Send(f, "save", ids, "bulk") EXCEPT !.field = "state"]
<1>1. /\ DOMAIN c = DOMAIN Form /\ c.op = "save" /\ c.card = card /\ c.by = "bulk"
      /\ c.res = "ok" /\ c.field = "state" /\ c.val = 0 /\ c.key = stored
  BY Zenon DEF Send, request, Call, Form
<1> HIDE DEF c
<1>2. Posts(c)
  BY <1>1, StateIs DEF Posts, CallOk, Proper, Tables, Types, BrowserOk
<1>3. QED
  BY <1>2 DEF c

\* What was typed is saved.
LEMMA MemoPosts ==
  ASSUME Types, ~gate, card \in Tables, NEW f, NEW i, NEW by \in {"editor", "sensors"},
         NEW val \in 0 .. 1, ui.draft[2] = i
  PROVE  Posts([Send(f, "save", {i}, by) EXCEPT !.val = val])
<1> DEFINE c == [Send(f, "save", {i}, by) EXCEPT !.val = val]
<1>1. /\ DOMAIN c = DOMAIN Form /\ c.op = "save" /\ c.card = card /\ c.by = by
      /\ c.ids = {i} /\ c.res = "ok" /\ c.field = "memo" /\ c.val = val /\ c.key = stored
  BY Zenon DEF Send, request, Call, Form
<1> HIDE DEF c
<1>2. Posts(c)
  BY <1>1 DEF Posts, CallOk, Proper, Types, BrowserOk
<1>3. QED
  BY <1>2 DEF c

\* The operator sends one of them.
LEMMA RequestIs ==
  ASSUME Types, NEW c, ~gate => Posts(c), Request(c)
  PROVE  ~gate /\ ApiOk' /\ CallsOk' /\ BrowserOk' /\ Sends
<1>1. ~gate /\ clicks > 0 /\ clicks' = clicks - 1 /\ Room /\ SendOn(Slot, c)
      /\ UNCHANGED <<apiVars, stored, gate, refused, card, known>>
  BY DEF Request, Clicks
<1>2. Slot \in Slots
  BY <1>1 DEF Room, Slot
<1>3. CallsOk' /\ Sends
  BY <1>1, <1>2, Posted DEF SendOn, Types
<1>4. ApiOk' /\ BrowserOk'
  BY <1>1 DEF Types, ApiOk, BrowserOk, apiVars
<1>5. QED
  BY <1>1, <1>3, <1>4

\* Nothing is sent.
LEMMA Unsent ==
  ASSUME Types, UNCHANGED <<calls, gate, card>>
  PROVE  CallsOk' /\ Sends
<1>1. CallsOk'
  BY DEF Types, CallsOk, CallOk, Here, Free
<1>2. Sends
  BY DEF Sends, Free
<1>3. QED
  BY <1>1, <1>2

\* The operator does something on the page alone.
LEMMA LocalIs ==
  ASSUME Types, Local
  PROVE  ~gate /\ ApiOk' /\ CallsOk' /\ BrowserOk' /\ Sends
<1>1. ~gate /\ clicks > 0 /\ clicks' = clicks - 1 /\ UNCHANGED <<apiVars, calls, stored, gate, refused, card, known>>
  BY DEF Local, Clicks
<1>2. ApiOk' /\ BrowserOk'
  BY <1>1 DEF Types, ApiOk, BrowserOk, apiVars
<1>3. QED
  BY <1>1, <1>2, Unsent

(***************************************************************************)
(* The steps of the operator.                                              *)
(***************************************************************************)
Fine == Types' /\ Asked' /\ Sends

\* Boxes are of rows that are shown.
LEMMA VisibleIs == Visible \subseteq DOMAIN Listing
<1>1. Visible = Unacked \/ Visible = DOMAIN Listing
  <2>1. card = "tokens" => Visible = IF ui.filter = "open" THEN Unacked ELSE DOMAIN Listing
    BY Zenon DEF Visible
  <2>2. card = "incidents" => Visible = Unacked
    BY Zenon DEF Visible
  <2>3. card # "tokens" /\ card # "incidents" => Visible = DOMAIN Listing
    BY Zenon DEF Visible
  <2>4. QED
    BY <2>1, <2>2, <2>3
<1>2. QED
  BY <1>1 DEF Unacked

\* Rows that can be selected have ids.
LEMMA SelectableIs ==
  ASSUME Types, Has("select") PROVE Visible \subseteq Ids
<1>1. card \in Tables
  BY Pages DEF Types, BrowserOk
<1>2. QED
  BY <1>1, VisibleIs, ListingIs DEF Types, RowsOk

\* Ticking boxes and asking for a bulk deletion.
LEMMA SelectSteps ==
  ASSUME Types, Asked, (\E i : Toggle(i)) \/ ToggleAll \/ Clear \/ SelectionBar \/ Cancel
  PROVE  Fine
<1>1. DOMAIN ui = DOMAIN Blank
  BY DEF Types, PageOk
<1>2. ASSUME NEW i, Toggle(i) PROVE Fine
  <2> DEFINE S == IF i \in ui.sel THEN ui.sel \ {i} ELSE ui.sel \cup {i}
  <2>1. ui' = [ui EXCEPT !.confirm = {}, !.sel = S]
    BY <1>2, Zenon DEF Toggle
  <2>4. S \subseteq Ids
    BY <1>2, SelectableIs DEF Toggle, Types, PageOk
  <2> HIDE DEF S
  <2>2. /\ DOMAIN ui' = DOMAIN Blank /\ KeepsDrawer /\ ui'.sel = S /\ ui'.confirm = {}
        /\ ui'.list = ui.list /\ ui'.armed = ui.armed /\ ui'.busy = ui.busy
        /\ ui'.fresh = ui.fresh
    BY <1>1, <2>1, Zenon DEF KeepsDrawer, Blank
  <2>3. ~gate /\ ApiOk' /\ CallsOk' /\ BrowserOk' /\ Sends /\ card' = card
    BY <1>2, LocalIs DEF Toggle, Local
  <2>5. PageOk' /\ Asked'
    BY <2>2, <2>3, <2>4, PageSelects DEF Types, PageOk
  <2>6. QED
    BY <2>3, <2>5 DEF Fine, Types
<1>3. ASSUME ToggleAll PROVE Fine
  <2> DEFINE S == IF Visible \subseteq ui.sel THEN {} ELSE Visible
  <2>1. ui' = [ui EXCEPT !.confirm = {}, !.sel = S]
    BY <1>3, Zenon DEF ToggleAll
  <2>4. S \subseteq Ids
    BY <1>3, SelectableIs DEF ToggleAll
  <2> HIDE DEF S
  <2>2. /\ DOMAIN ui' = DOMAIN Blank /\ KeepsDrawer /\ ui'.sel = S /\ ui'.confirm = {}
        /\ ui'.list = ui.list /\ ui'.armed = ui.armed /\ ui'.busy = ui.busy
        /\ ui'.fresh = ui.fresh
    BY <1>1, <2>1, Zenon DEF KeepsDrawer, Blank
  <2>3. ~gate /\ ApiOk' /\ CallsOk' /\ BrowserOk' /\ Sends /\ card' = card
    BY <1>3, LocalIs DEF ToggleAll, Local
  <2>5. PageOk' /\ Asked'
    BY <2>2, <2>3, <2>4, PageSelects DEF Types, PageOk
  <2>6. QED
    BY <2>3, <2>5 DEF Fine, Types
<1>4. ASSUME Clear PROVE Fine
  <2> DEFINE C == IF card = "tokens" THEN ui.confirm ELSE {}
  <2>1. ui' = [ui EXCEPT !.sel = {}, !.confirm = C]
    BY <1>4, Zenon DEF Clear
  <2> HIDE DEF C
  <2>2. /\ DOMAIN ui' = DOMAIN Blank /\ KeepsDrawer /\ ui'.sel = {} /\ ui'.confirm = C
        /\ ui'.list = ui.list /\ ui'.armed = ui.armed /\ ui'.busy = ui.busy
        /\ ui'.fresh = ui.fresh
    BY <1>1, <2>1, Zenon DEF KeepsDrawer, Blank
  <2>3. ~gate /\ ApiOk' /\ CallsOk' /\ BrowserOk' /\ Sends /\ card' = card
    BY <1>4, LocalIs DEF Clear, Local
  <2>5. PageOk' /\ Asked'
    BY <2>2, <2>3, PageSelects DEF Types, PageOk
  <2>6. QED
    BY <2>3, <2>5 DEF Fine, Types
<1>5. ASSUME SelectionBar PROVE Fine
  <2>1. ui' = [ui EXCEPT !.confirm = ui.sel]
    BY <1>5, Zenon DEF SelectionBar
  <2>2. /\ DOMAIN ui' = DOMAIN Blank /\ KeepsDrawer /\ ui'.confirm = ui.sel
        /\ ui'.sel = ui.sel /\ ui'.list = ui.list /\ ui'.armed = ui.armed
        /\ ui'.busy = ui.busy /\ ui'.fresh = ui.fresh
    BY <1>1, <2>1, Zenon DEF KeepsDrawer, Blank
  <2>3. ~gate /\ ApiOk' /\ CallsOk' /\ BrowserOk' /\ Sends /\ card' = card
    BY <1>5, LocalIs DEF SelectionBar, Local
  <2>5. PageOk' /\ Asked'
    BY <2>2, <2>3, PageSelects DEF Types, PageOk
  <2>6. QED
    BY <2>3, <2>5 DEF Fine, Types
<1>6. ASSUME Cancel PROVE Fine
  <2>1. ui' = [ui EXCEPT !.confirm = {}]
    BY <1>6, Zenon DEF Cancel
  <2>2. /\ DOMAIN ui' = DOMAIN Blank /\ KeepsDrawer /\ ui'.confirm = {}
        /\ ui'.sel = ui.sel /\ ui'.list = ui.list /\ ui'.armed = ui.armed
        /\ ui'.busy = ui.busy /\ ui'.fresh = ui.fresh
    BY <1>1, <2>1, Zenon DEF KeepsDrawer, Blank
  <2>3. ~gate /\ ApiOk' /\ CallsOk' /\ BrowserOk' /\ Sends /\ card' = card
    BY <1>6, LocalIs DEF Cancel, Local
  <2>5. PageOk' /\ Asked'
    BY <2>2, <2>3, PageSelects DEF Types, PageOk
  <2>6. QED
    BY <2>3, <2>5 DEF Fine, Types
<1>7. QED
  BY <1>2, <1>3, <1>4, <1>5, <1>6

\* A button is busy.
LEMMA BeginIs ==
  ASSUME DOMAIN ui = DOMAIN Blank, NEW f, ui' = Begin(f)
  PROVE  /\ DOMAIN ui' = DOMAIN Blank /\ KeepsSelection /\ KeepsDrawer
         /\ ui'.busy = ui.busy \cup ({f} \ {"none"}) /\ ui'.list = ui.list
         /\ ui'.armed = ui.armed /\ ui'.fresh = ui.fresh
BY Zenon DEF Begin, KeepsSelection, KeepsDrawer, Blank

\* Buttons that send a request and are busy until it is answered.
LEMMA Pressed ==
  ASSUME Types, Asked, NEW f, f \in Flags \cup {"none"}, NEW c, ~gate => Posts(c), Request(c),
         ui' = Begin(f)
  PROVE  Fine
<1>1. /\ DOMAIN ui' = DOMAIN Blank /\ KeepsSelection /\ KeepsDrawer
      /\ ui'.busy = ui.busy \cup ({f} \ {"none"}) /\ ui'.list = ui.list
      /\ ui'.armed = ui.armed /\ ui'.fresh = ui.fresh
  BY BeginIs DEF Types, PageOk
<1>2. ~gate /\ ApiOk' /\ CallsOk' /\ BrowserOk' /\ Sends /\ card' = card
  BY RequestIs DEF Request
<1>3. PageOk' /\ Asked'
  <2>1. PageOk /\ ui'.busy \subseteq Flags /\ ui'.armed \subseteq DOMAIN Listing
        /\ ui'.fresh \in Keys \cup {None}
    BY <1>1 DEF Types, PageOk
  <2>2. QED
    BY <1>1, <1>2, <2>1, PageButtons
<1>4. QED
  BY <1>2, <1>3 DEF Fine, Types

\* The flag of a row's buttons.
LEMMA RowFlagIs ==
  ASSUME Types, NEW i, i \in DOMAIN Listing
  PROVE  RowFlag(i) \in Flags \cup {"none"} /\ (card = "channels" => i \in Flags)
<1>1. card = "channels" => i \in Ids
  BY ListingIs DEF Types, RowsOk, Tables
<1>2. QED
  BY <1>1 DEF RowFlag, Flags

\* What an open drawer shows.
LEMMA ShownIs ==
  /\ card \in {"tokens", "channels"} => Shown = DOMAIN ui.detail
  /\ card \in {"agents", "incidents"} => Shown = {ui.opened} \cap DOMAIN Listing
  /\ Shown # {} => card \in {"tokens", "channels", "agents", "incidents"}
<1>1. card \in {"tokens", "channels"} => Shown = DOMAIN ui.detail
  BY Zenon DEF Shown
<1>2. card \in {"agents", "incidents"} => Shown = {ui.opened} \cap DOMAIN Listing
  <2>1. ~("agents" \in {"tokens", "channels"}) /\ ~("incidents" \in {"tokens", "channels"})
    OBVIOUS
  <2>2. card \in {"agents", "incidents"} => ~(card \in {"tokens", "channels"})
    BY <2>1
  <2>3. QED
    BY <2>2, Zenon DEF Shown
<1>3. card \notin {"tokens", "channels"} /\ card \notin {"agents", "incidents"} => Shown = {}
  BY Zenon DEF Shown
<1>4. QED
  BY <1>1, <1>2, <1>3

\* The row it is about.
LEMMA ShownRow ==
  ASSUME Types, NEW i \in Shown
  PROVE  card \in Tables /\ RowOk(Row(i), card) /\ i \in Subject /\ \A j \in Subject : j = i
<1>1. card \in {"tokens", "channels", "agents", "incidents"}
  BY ShownIs
<1>2. CASE card \in {"tokens", "channels"}
  BY <1>2, ShownIs DEF Types, PageOk, Row, Subject, Tables
<1>3. CASE card \in {"agents", "incidents"}
  <2>1. i = ui.opened /\ i \in DOMAIN Listing /\ card \in Tables
    BY <1>3, ShownIs DEF Tables
  <2>2. Row(i) = Listing[i] /\ Subject = {ui.opened}
    BY <1>3 DEF Row, Subject
  <2>3. QED
    BY <2>1, <2>2, ListingIs DEF Types, RowsOk
<1>4. QED
  BY <1>1, <1>2, <1>3

\* The bar over the selected rows deletes what was confirmed.
LEMMA BarSteps ==
  ASSUME Types, Asked, deleteMany \/ BulkSaves
  PROVE  Fine
<1>1. CASE deleteMany
  <2> DEFINE f == Flag("bulk")
  <2>1. /\ ui' = Begin(f) /\ Request(Send(f, "delete", ui.sel, "bulk"))
        /\ Has("confirm") => ui.sel = ui.confirm
    BY <1>1 DEF deleteMany, Asked
  <2>2. f \in Flags \cup {"none"}
    BY DEF Flag, Flags
  <2> HIDE DEF f
  <2>3. ~gate => Posts(Send(f, "delete", ui.sel, "bulk"))
    BY <2>1, ButtonPosts
  <2>4. QED
    BY <2>1, <2>2, <2>3, Pressed
<1>2. CASE BulkSaves
  <2> DEFINE f == IF card = "tokens" THEN "bulk" ELSE "none"
  <2>1. ui' = Begin(f) /\ Request([Send(f, "save", ui.sel, "bulk") EXCEPT !.field = "state"])
    BY <1>2 DEF BulkSaves
  <2>2. f \in Flags \cup {"none"}
    BY DEF Flags
  <2>3. card \in {"tokens", "incidents"}
    BY <1>2, Pages DEF BulkSaves, Types, BrowserOk
  <2> HIDE DEF f
  <2>4. ~gate => Posts([Send(f, "save", ui.sel, "bulk") EXCEPT !.field = "state"])
    BY <2>3, BulkPosts
  <2>5. QED
    BY <2>1, <2>2, <2>4, Pressed
<1>3. QED
  BY <1>1, <1>2

\* Buttons of a row.
LEMMA RowSteps ==
  ASSUME Types, Asked, NEW i, Arm(i) \/ Lapse(i) \/ ConfirmButton(i) \/ RowSaves(i) \/ RowUses(i)
  PROVE  Fine
<1>1. DOMAIN ui = DOMAIN Blank
  BY DEF Types, PageOk
<1>2. CASE Arm(i)
  <2>1. ui' = [ui EXCEPT !.armed = ui.armed \cup {i}]
    BY <1>2, Zenon DEF Arm
  <2>2. /\ DOMAIN ui' = DOMAIN Blank /\ KeepsSelection /\ KeepsDrawer
        /\ ui'.armed = ui.armed \cup {i} /\ ui'.list = ui.list /\ ui'.busy = ui.busy
        /\ ui'.fresh = ui.fresh
    BY <1>1, <2>1, Zenon DEF KeepsSelection, KeepsDrawer, Blank
  <2>3. ~gate /\ ApiOk' /\ CallsOk' /\ BrowserOk' /\ Sends /\ card' = card
    BY <1>2, LocalIs DEF Arm, Local
  <2>4. i \in DOMAIN Listing
    BY <1>2, ShownIs DEF Arm, Sensors
  <2>5. PageOk' /\ Asked'
    BY <2>2, <2>3, <2>4, PageButtons DEF Types, PageOk
  <2>6. QED
    BY <2>3, <2>5 DEF Fine, Types
<1>3. CASE Lapse(i)
  <2>1. ui' = [ui EXCEPT !.armed = ui.armed \ {i}]
    BY <1>3, Zenon DEF Lapse
  <2>2. /\ DOMAIN ui' = DOMAIN Blank /\ KeepsSelection /\ KeepsDrawer
        /\ ui'.armed = ui.armed \ {i} /\ ui'.list = ui.list /\ ui'.busy = ui.busy
        /\ ui'.fresh = ui.fresh
    BY <1>1, <2>1, Zenon DEF KeepsSelection, KeepsDrawer, Blank
  <2>3. UNCHANGED <<apiVars, calls, stored, gate, refused, card, known, clicks>>
    BY <1>3 DEF Lapse
  <2>4. ApiOk' /\ BrowserOk' /\ CallsOk' /\ Sends
    BY <2>3, Unsent DEF Types, ApiOk, BrowserOk, apiVars
  <2>5. PageOk' /\ Asked'
    BY <2>2, <2>3, PageButtons DEF Types, PageOk
  <2>6. QED
    BY <2>4, <2>5 DEF Fine, Types
<1>4. CASE ConfirmButton(i)
  <2> DEFINE f == IF card = "certs" THEN "card" ELSE "none"
  <2>1. ui' = [Begin(f) EXCEPT !.armed = @ \ {i}] /\ Request(Send(f, "delete", {i}, "row"))
    BY <1>4 DEF ConfirmButton
  <2>2. f \in Flags \cup {"none"}
    BY DEF Flags
  <2> HIDE DEF f
  <2>3. /\ DOMAIN ui' = DOMAIN Blank /\ KeepsSelection /\ KeepsDrawer
        /\ ui'.busy = ui.busy \cup ({f} \ {"none"}) /\ ui'.armed = ui.armed \ {i}
        /\ ui'.list = ui.list /\ ui'.fresh = ui.fresh
    BY <1>1, <2>1, Zenon DEF Begin, KeepsSelection, KeepsDrawer, Blank
  <2>4. ~gate => Posts(Send(f, "delete", {i}, "row"))
    BY ButtonPosts
  <2>5. ~gate /\ ApiOk' /\ CallsOk' /\ BrowserOk' /\ Sends /\ card' = card
    BY <2>1, <2>4, RequestIs DEF Request
  <2>6. PageOk' /\ Asked'
    BY <2>2, <2>3, <2>5, PageButtons DEF Types, PageOk
  <2>7. QED
    BY <2>5, <2>6 DEF Fine, Types
<1>5. CASE RowSaves(i)
  <2> DEFINE f == RowFlag(i)
             v == IF Listing[i].state = 0 THEN 1 ELSE 0
  <2>1. /\ i \in DOMAIN Listing /\ ui' = Begin(f)
        /\ Request([Send(f, "save", {i}, "row") EXCEPT !.field = "state", !.val = v])
    BY <1>5 DEF RowSaves
  <2>2. card \in {"incidents", "channels"}
    BY <1>5, Pages DEF RowSaves, Types, BrowserOk
  <2>3. f \in Flags \cup {"none"}
    BY <2>1, RowFlagIs
  <2>4. v \in State(card) /\ card \in Tables
    BY <2>2, StateIs DEF Tables
  <2> HIDE DEF f, v
  <2>5. ~gate => Posts([Send(f, "save", {i}, "row") EXCEPT !.field = "state", !.val = v])
    BY <2>4, StatePosts
  <2>6. QED
    BY <2>1, <2>3, <2>5, Pressed
<1>6. CASE RowUses(i)
  <2> DEFINE f == IF card = "channels" THEN i ELSE "card"
  <2>1. i \in DOMAIN Listing /\ ui' = Begin(f) /\ Request(Send(f, "use", {i}, "row"))
    BY <1>6 DEF RowUses
  <2>2. f \in Flags \cup {"none"}
    BY <2>1, RowFlagIs DEF Flags
  <2> HIDE DEF f
  <2>3. ~gate => Posts(Send(f, "use", {i}, "row"))
    BY ButtonPosts
  <2>4. QED
    BY <2>1, <2>2, <2>3, Pressed
<1>7. QED
  BY <1>2, <1>3, <1>4, <1>5, <1>6

\* Forms, downloads, the filter and the box of a new key.
LEMMA OtherSteps ==
  ASSUME Types, Asked, create \/ CopyKey \/ (\E i : downloadFile(i)) \/ (\E f : SetFilter(f))
  PROVE  Fine
<1>1. DOMAIN ui = DOMAIN Blank
  BY DEF Types, PageOk
<1>2. CASE create
  <2>1. ui' = Begin(Flag("form")) /\ Request(Send(Flag("form"), "create", {None}, "page"))
    BY <1>2 DEF create
  <2>2. Flag("form") \in Flags \cup {"none"}
    BY DEF Flag, Flags
  <2>3. ~gate => Posts(Send(Flag("form"), "create", {None}, "page"))
    BY ButtonPosts
  <2>4. QED
    BY <2>1, <2>2, <2>3, Pressed
<1>3. CASE CopyKey
  <2>1. ui' = [ui EXCEPT !.fresh = None]
    BY <1>3 DEF CopyKey
  <2>2. /\ DOMAIN ui' = DOMAIN Blank /\ KeepsSelection /\ KeepsDrawer
        /\ ui'.fresh = None /\ ui'.list = ui.list /\ ui'.armed = ui.armed
        /\ ui'.busy = ui.busy
    BY <1>1, <2>1, Zenon DEF KeepsSelection, KeepsDrawer, Blank
  <2>3. /\ UNCHANGED <<apiVars, calls, stored, gate, refused, card>>
        /\ clicks > 0 /\ clicks' = clicks - 1 /\ known' = known \cup {ui.fresh} /\ ui.fresh # None
    BY <1>3 DEF CopyKey, Clicks
  <2>4. ApiOk' /\ BrowserOk'
    BY <2>3 DEF Types, ApiOk, BrowserOk, PageOk, apiVars
  <2>5. CallsOk' /\ Sends
    BY <2>3, Unsent
  <2>6. PageOk' /\ Asked'
    BY <2>2, <2>3, PageButtons DEF Types, PageOk
  <2>7. QED
    BY <2>4, <2>5, <2>6 DEF Fine, Types
<1>4. ASSUME NEW i, downloadFile(i) PROVE Fine
  <2>1. ui' = ui /\ Request(request("file", {i}))
    BY <1>4 DEF downloadFile
  <2>2. ~gate /\ ApiOk' /\ CallsOk' /\ BrowserOk' /\ Sends /\ card' = card
    BY <2>1, FilePosts, RequestIs DEF Request
  <2>3. PageOk' /\ Asked'
    BY <1>1, <2>1, <2>2, PageButtons DEF Types, PageOk, KeepsSelection, KeepsDrawer
  <2>4. QED
    BY <2>2, <2>3 DEF Fine, Types
<1>5. ASSUME NEW f, SetFilter(f) PROVE Fine
  <2>1. ui' = [ui EXCEPT !.filter = f]
    BY <1>5 DEF SetFilter
  <2>2. /\ DOMAIN ui' = DOMAIN Blank /\ KeepsSelection /\ KeepsDrawer
        /\ ui'.list = ui.list /\ ui'.armed = ui.armed /\ ui'.busy = ui.busy
        /\ ui'.fresh = ui.fresh
    BY <1>1, <2>1, Zenon DEF KeepsSelection, KeepsDrawer, Blank
  <2>3. ApiOk' /\ CallsOk' /\ BrowserOk' /\ Sends /\ card' = card
    <3>1. CASE Local
      BY <3>1, LocalIs DEF Local
    <3>2. CASE Request(ListCall(card, f))
      BY <3>2, ListPosts, RequestIs DEF Request, Types
    <3>3. QED
      BY <1>5, <3>1, <3>2 DEF SetFilter
  <2>4. PageOk' /\ Asked'
    BY <2>2, <2>3, PageButtons DEF Types, PageOk
  <2>5. QED
    BY <2>3, <2>4 DEF Fine, Types
<1>6. QED
  BY <1>2, <1>3, <1>4, <1>5

\* What an editor that goes leaves of the page.
LEMMA UnmountedIs ==
  ASSUME NEW u, DOMAIN u = DOMAIN Blank
  PROVE  LET w == Unmounted(u) IN
         /\ DOMAIN w = DOMAIN Blank /\ w.list = u.list /\ w.sel = u.sel
         /\ w.confirm = u.confirm /\ w.busy = u.busy \ Slots /\ w.opened = u.opened
         /\ w.detail = u.detail /\ w.fresh = u.fresh /\ w.armed = u.armed
         /\ w.draft = <<>> /\ w.confirming = u.confirming
BY Zenon DEF Unmounted, Blank

\* What the effects of the agents' page leave of a drawer.
LEMMA EffectIs ==
  ASSUME NEW u, DOMAIN u = DOMAIN Blank
  PROVE  LET w == AgentEffect(u) IN
         /\ DOMAIN w = DOMAIN Blank /\ w.list = u.list /\ w.sel = u.sel
         /\ w.confirm = u.confirm /\ w.busy \subseteq u.busy /\ w.opened = u.opened
         /\ w.detail = u.detail /\ w.fresh = u.fresh
         /\ w.armed = IF card = "agents" THEN {} ELSE u.armed
         /\ w.draft = IF card = "agents" THEN <<>> ELSE u.draft
         /\ w.confirming = IF card = "agents" THEN None ELSE u.confirming
<1>1. CASE card = "agents"
  <2> DEFINE v == [u EXCEPT !.confirming = None, !.armed = {}]
  <2>1. AgentEffect(u) = Unmounted(v)
    BY <1>1 DEF AgentEffect
  <2>2. /\ DOMAIN v = DOMAIN Blank /\ v.list = u.list /\ v.sel = u.sel
        /\ v.confirm = u.confirm /\ v.busy = u.busy /\ v.opened = u.opened
        /\ v.detail = u.detail /\ v.fresh = u.fresh
        /\ v.armed = {} /\ v.confirming = None
    BY Zenon DEF Blank
  <2> HIDE DEF v
  <2>3. QED
    BY <1>1, <2>1, <2>2, UnmountedIs
<1>2. CASE card # "agents"
  BY <1>2 DEF AgentEffect
<1>3. QED
  BY <1>1, <1>2

\* Drawers open and close, and are written in.
LEMMA DrawerSteps ==
  ASSUME Types, Asked, NEW i, Open(i) \/ Close \/ Type(i) \/ EditSensors(i) \/ AskDelete(i) \/ CancelDelete
  PROVE  Fine
<1>1. DOMAIN ui = DOMAIN Blank
  BY DEF Types, PageOk
<1> DEFINE D == IF card \in {"tokens", "agents"} THEN ui.draft ELSE <<>>
           B == IF card = "incidents" THEN ui.busy \ Slots ELSE ui.busy
<1>2. CASE Open(i)
  <2> DEFINE T == IF card = "channels" THEN [x \in {i} |-> Listing[i]] ELSE <<>>
             u == [ui EXCEPT !.opened = i, !.confirming = None, !.draft = D, !.busy = B, !.detail = T]
  <2>1. ui' = AgentEffect(u)
    <3>1. ui' = AgentEffect([ui EXCEPT
            !.opened = i, !.confirming = None,
            !.draft = IF card \in {"tokens", "agents"} THEN @ ELSE <<>>,
            !.busy = IF card = "incidents" THEN @ \ Slots ELSE @,
            !.detail = IF card = "channels" THEN [x \in {i} |-> Listing[i]] ELSE <<>>])
      BY <1>2 DEF Open
    <3>2. QED
      BY <3>1, Zenon
  <2>2. \A x \in DOMAIN T : RowOk(T[x], card)
    <3>1. i \in DOMAIN Listing
      BY <1>2 DEF Open
    <3>2. card = "channels" => RowOk(Listing[i], card)
      BY <3>1, ListingIs DEF Types, RowsOk, Tables
    <3>3. QED
      BY <3>2
  <2>3. \A x, y \in DOMAIN T : x = y
    OBVIOUS
  <2>4. card = "tokens" => DOMAIN T = {}
    OBVIOUS
  <2>5. (D # <<>> => D = ui.draft /\ card \in {"tokens", "agents"}) /\ B \subseteq ui.busy
    OBVIOUS
  <2> HIDE DEF D, T, B
  <2>6. /\ DOMAIN u = DOMAIN Blank /\ u.list = ui.list /\ u.sel = ui.sel /\ u.confirm = ui.confirm
        /\ u.busy = B /\ u.opened = i /\ u.detail = T /\ u.fresh = ui.fresh
        /\ u.armed = ui.armed /\ u.draft = D /\ u.confirming = None
    BY <1>1, Zenon DEF Blank
  <2> HIDE DEF u
  <2>7. /\ DOMAIN ui' = DOMAIN Blank /\ ui'.list = ui.list /\ KeepsSelection /\ ui'.busy \subseteq ui.busy
        /\ ui'.opened = i /\ ui'.detail = T /\ ui'.fresh = ui.fresh /\ ui'.armed \subseteq ui.armed
        /\ ui'.confirming = None
        /\ ui'.draft # <<>> => ui'.draft = ui.draft /\ ui.draft # <<>> /\ card = "tokens"
    BY <2>1, <2>5, <2>6, EffectIs DEF KeepsSelection
  <2>8. ApiOk' /\ CallsOk' /\ BrowserOk' /\ Sends /\ card' = card
    <3>1. CASE card = "tokens"
      <4>1. Request(request("get", {i}))
        BY <1>2, <3>1 DEF Open
      <4>2. QED
        BY <3>1, <4>1, GetPosts, RequestIs DEF Request
    <3>2. CASE card # "tokens"
      BY <1>2, <3>2, LocalIs DEF Open, Local
    <3>3. QED
      BY <3>1, <3>2
  <2>9. ui'.draft # <<>> => Subject' = {}
    BY <2>4, <2>7, <2>8 DEF Subject
  <2>10. PageOk' /\ Asked'
    BY <2>2, <2>3, <2>7, <2>8, <2>9, PageDrawer DEF Types, PageOk
  <2>11. QED
    BY <2>8, <2>10 DEF Fine, Types
<1>3. CASE Close
  <2> DEFINE u == [ui EXCEPT !.opened = None, !.detail = <<>>, !.confirming = None,
                       !.draft = D, !.busy = B]
  <2>1. ui' = AgentEffect(u)
    <3>1. ui' = AgentEffect([ui EXCEPT
            !.opened = None, !.detail = <<>>, !.confirming = None,
            !.draft = IF card \in {"tokens", "agents"} THEN @ ELSE <<>>,
            !.busy = IF card = "incidents" THEN @ \ Slots ELSE @])
      BY <1>3 DEF Close
    <3>2. QED
      BY <3>1, Zenon
  <2>2. (D # <<>> => D = ui.draft /\ card \in {"tokens", "agents"}) /\ B \subseteq ui.busy
    OBVIOUS
  <2> HIDE DEF D, B
  <2>3. /\ DOMAIN u = DOMAIN Blank /\ u.list = ui.list /\ u.sel = ui.sel /\ u.confirm = ui.confirm
        /\ u.busy = B /\ u.opened = None /\ u.detail = <<>> /\ u.fresh = ui.fresh
        /\ u.armed = ui.armed /\ u.draft = D /\ u.confirming = None
    BY <1>1, Zenon DEF Blank
  <2> HIDE DEF u
  <2>4. /\ DOMAIN ui' = DOMAIN Blank /\ ui'.list = ui.list /\ KeepsSelection /\ ui'.busy \subseteq ui.busy
        /\ ui'.opened = None /\ ui'.detail = <<>> /\ ui'.fresh = ui.fresh /\ ui'.armed \subseteq ui.armed
        /\ ui'.confirming = None
        /\ ui'.draft # <<>> => ui'.draft = ui.draft /\ ui.draft # <<>> /\ card = "tokens"
    BY <2>1, <2>2, <2>3, EffectIs DEF KeepsSelection
  <2>5. ApiOk' /\ CallsOk' /\ BrowserOk' /\ Sends /\ card' = card
    BY <1>3, LocalIs DEF Close, Local
  <2>6. ui'.draft # <<>> => Subject' = {}
    BY <2>4, <2>5 DEF Subject
  <2>7. PageOk' /\ Asked'
    BY <2>4, <2>5, <2>6, PageDrawer DEF Types, PageOk
  <2>8. QED
    BY <2>5, <2>7 DEF Fine, Types
<1>4. ASSUME i \in Shown, NEW d, d[1] \in 0 .. 1, d[2] = i, ui' = [ui EXCEPT !.draft = d], Local
      PROVE  Fine
  <2>1. \A j \in Subject : j = i
    BY <1>4, ShownRow
  <2>2. /\ DOMAIN ui' = DOMAIN Blank /\ ui'.draft = d /\ ui'.sel = ui.sel
        /\ ui'.confirm = ui.confirm /\ ui'.list = ui.list /\ ui'.armed = ui.armed
        /\ ui'.busy = ui.busy /\ ui'.opened = ui.opened /\ ui'.detail = ui.detail
        /\ ui'.confirming = ui.confirming /\ ui'.fresh = ui.fresh
    BY <1>1, <1>4, Zenon DEF Blank
  <2>3. ApiOk' /\ CallsOk' /\ BrowserOk' /\ Sends /\ card' = card
    BY <1>4, LocalIs DEF Local
  <2>4. Subject' \subseteq {ui'.draft[2]}
    BY <1>4, <2>1, <2>2, <2>3 DEF Subject
  <2>5. PageOk' /\ Asked'
    BY <1>4, <2>2, <2>3, <2>4, PageDrawer DEF Types, PageOk, Asked, KeepsSelection
  <2>6. QED
    BY <2>3, <2>5 DEF Fine, Types
<1>9. CASE Type(i)
  <2> DEFINE d == <<1 - Row(i).memo, i, "memo">>
  <2>1. i \in Shown /\ ui' = [ui EXCEPT !.draft = d] /\ Local
    BY <1>9 DEF Type
  <2>2. RowOk(Row(i), card)
    BY <2>1, ShownRow
  <2>3. d[1] \in 0 .. 1 /\ d[2] = i
    BY <2>2 DEF RowOk
  <2> HIDE DEF d
  <2>4. QED
    BY <1>4, <2>1, <2>3
<1>10. CASE EditSensors(i)
  <2>1. PICK v \in 0 .. 1 : ui' = [ui EXCEPT !.draft = <<v, i, "sensors">>]
    BY <1>10 DEF EditSensors
  <2> DEFINE d == <<v, i, "sensors">>
  <2>2. i \in Shown /\ Local /\ ui' = [ui EXCEPT !.draft = d]
    BY <1>10, <2>1 DEF EditSensors
  <2>3. d[1] \in 0 .. 1 /\ d[2] = i
    OBVIOUS
  <2> HIDE DEF d
  <2>4. QED
    BY <1>4, <2>2, <2>3
<1>5. ASSUME NEW v, ui' = [ui EXCEPT !.confirming = v], Local,
             card = "agents" /\ v # None => v = ui.opened
      PROVE  Fine
  <2>1. /\ DOMAIN ui' = DOMAIN Blank /\ ui'.confirming = v /\ ui'.sel = ui.sel
        /\ ui'.confirm = ui.confirm /\ ui'.list = ui.list /\ ui'.armed = ui.armed
        /\ ui'.busy = ui.busy /\ ui'.opened = ui.opened /\ ui'.detail = ui.detail
        /\ ui'.draft = ui.draft /\ ui'.fresh = ui.fresh
    BY <1>1, <1>5, Zenon DEF Blank
  <2>2. ApiOk' /\ CallsOk' /\ BrowserOk' /\ Sends /\ card' = card
    BY <1>5, LocalIs DEF Local
  <2>3. Subject' = Subject
    BY <2>1, <2>2 DEF Subject
  <2>4. PageOk' /\ Asked'
    BY <1>5, <2>1, <2>2, <2>3, PageDrawer DEF Types, PageOk, Asked, KeepsSelection
  <2>5. QED
    BY <2>2, <2>4 DEF Fine, Types
<1>6. CASE AskDelete(i)
  <2>1. card = "agents" => i = ui.opened
    BY <1>6, ShownIs DEF AskDelete
  <2>2. QED
    BY <1>5, <1>6, <2>1 DEF AskDelete
<1>7. CASE CancelDelete
  BY <1>5, <1>7 DEF CancelDelete
<1>8. QED
  BY <1>2, <1>3, <1>6, <1>7, <1>9, <1>10

\* What an open drawer asks for.
LEMMA DrawerSends ==
  ASSUME Types, Asked, NEW i, Save(i) \/ SaveSensors(i) \/ SetStatus(i) \/ DrawerUses(i) \/ ConfirmDelete(i)
  PROVE  Fine
<1>1. "drawer" \in Flags \cup {"none"} /\ "use" \in Flags \cup {"none"}
  BY DEF Flags
<1>2. CASE Save(i)
  <2> DEFINE f == IF card = "incidents" THEN Slot ELSE "drawer"
             c == [Send(f, "save", {i}, "editor") EXCEPT !.val = ui.draft[1]]
  <2>1. i \in Shown /\ ui.draft # <<>> /\ ui' = Begin(f) /\ Request(c) /\ Room
    BY <1>2 DEF Save
  <2>2. card \in Tables /\ i \in Subject
    BY <2>1, ShownRow
  <2>3. ui.draft[2] = i /\ ui.draft[1] \in 0 .. 1
    BY <2>1, <2>2 DEF Asked, Types, PageOk
  <2>4. f \in Flags \cup {"none"}
    BY <2>1 DEF Room, Slot, Flags
  <2> HIDE DEF f
  <2>5. ~gate => Posts(c)
    BY <2>2, <2>3, MemoPosts
  <2> HIDE DEF c
  <2>6. QED
    BY <2>1, <2>4, <2>5, Pressed
<1>7. CASE SaveSensors(i)
  <2> DEFINE f == Slot
             c == [Send(f, "save", {i}, "sensors") EXCEPT !.val = ui.draft[1]]
  <2>1. i \in Shown /\ ui.draft # <<>> /\ ui' = [Begin(f) EXCEPT !.armed = {}] /\ Request(c)
    BY <1>7 DEF SaveSensors, Sensors
  <2>2. card \in Tables /\ i \in Subject
    BY <2>1, ShownRow
  <2>3. ui.draft[2] = i /\ ui.draft[1] \in 0 .. 1
    BY <2>1, <2>2 DEF Asked, Types, PageOk
  <2>4. f \in Flags
    BY <1>7 DEF SaveSensors, Room, Slot, Flags
  <2> HIDE DEF f
  <2>5. ~gate => Posts(c)
    BY <2>2, <2>3, MemoPosts
  <2> HIDE DEF c
  <2>6. DOMAIN ui = DOMAIN Blank
    BY DEF Types, PageOk
  <2>7. /\ DOMAIN ui' = DOMAIN Blank /\ KeepsSelection /\ KeepsDrawer
        /\ ui'.busy = ui.busy \cup ({f} \ {"none"}) /\ ui'.armed = {}
        /\ ui'.list = ui.list /\ ui'.fresh = ui.fresh
    BY <2>1, <2>6, Zenon DEF Begin, KeepsSelection, KeepsDrawer, Blank
  <2>8. ApiOk' /\ CallsOk' /\ BrowserOk' /\ Sends /\ card' = card
    BY <2>1, <2>5, RequestIs DEF Request
  <2>9. PageOk' /\ Asked'
    BY <2>4, <2>7, <2>8, PageButtons DEF Types, PageOk
  <2>10. QED
    BY <2>8, <2>9 DEF Fine, Types
<1>3. CASE SetStatus(i)
  <2> DEFINE v == 1 - Row(i).state
  <2>1. /\ card = "tokens" /\ i \in Shown /\ ui' = Begin("drawer")
        /\ Request([Send("drawer", "save", {i}, "drawer") EXCEPT !.field = "state", !.val = v])
    BY <1>3 DEF SetStatus
  <2>2. v \in State(card) /\ card \in Tables
    BY <2>1, ShownRow, StateIs DEF RowOk
  <2> HIDE DEF v
  <2>3. ~gate => Posts([Send("drawer", "save", {i}, "drawer") EXCEPT !.field = "state", !.val = v])
    BY <2>2, StatePosts
  <2>4. QED
    BY <1>1, <2>1, <2>3, Pressed
<1>4. CASE DrawerUses(i)
  <2>1. ui' = Begin("use") /\ Request(Send("use", "use", {i}, "drawer"))
    BY <1>4 DEF DrawerUses
  <2>2. ~gate => Posts(Send("use", "use", {i}, "drawer"))
    BY ButtonPosts
  <2>3. QED
    BY <1>1, <2>1, <2>2, Pressed
<1>5. CASE ConfirmDelete(i)
  <2>1. /\ ui.confirming # None /\ i \in Shown
        /\ ui' = Begin("drawer") /\ Request(Send("drawer", "delete", {i}, "drawer"))
    BY <1>5 DEF ConfirmDelete
  <2>2. card = "agents" => i = ui.confirming
    BY <2>1, ShownIs DEF Asked
  <2>3. ~gate => Posts(Send("drawer", "delete", {i}, "drawer"))
    BY <2>2, ButtonPosts
  <2>4. QED
    BY <1>1, <2>1, <2>3, Pressed
<1>6. QED
  BY <1>2, <1>3, <1>4, <1>5, <1>7

(***************************************************************************)
(* Coming and going, and the answers.                                      *)
(***************************************************************************)

\* Requests of components that are gone.
LEMMA DeadIs ==
  ASSUME CallsOk, NEW r \in Slots
  PROVE  Dead[r].op = "none" \/ (~Free(r) /\ CallOk(Dead[r]) /\ Dead[r].live = FALSE)
<1>1. CASE Free(r)
  BY <1>1 DEF Dead, NoCall
<1>2. CASE ~Free(r)
  <2> DEFINE c == calls[r]
             d == [c EXCEPT !.live = FALSE]
  <2>1. CallOk(c) /\ Dead[r] = d
    BY <1>2 DEF CallsOk, Dead
  <2>2. DOMAIN c = DOMAIN Form
    BY <2>1 DEF CallOk
  <2>3. /\ DOMAIN d = DOMAIN Form /\ d.live = FALSE /\ d.op = c.op /\ d.card = c.card
        /\ d.ids = c.ids /\ d.key = c.key /\ d.by = c.by /\ d.field = c.field /\ d.val = c.val
        /\ d.left = c.left /\ d.data = c.data /\ d.res = c.res
    BY <2>2, Zenon DEF Form, Call
  <2> HIDE DEF d
  <2>4. CallOk(d)
    BY <2>1, <2>3 DEF CallOk
  <2>5. QED
    BY <1>2, <2>1, <2>3, <2>4
<1>3. QED
  BY <1>1, <1>2

\* To another page, and out.
LEMMA LeaveSteps ==
  ASSUME Types, Asked, (\E c \in Cards : Navigate(c)) \/ logout
  PROVE  Fine
<1>1. DOMAIN Dead = Slots
  BY DEF Dead
<1>2. ASSUME NEW c \in Cards, Navigate(c) PROVE Fine
  <2> DEFINE l == ListCall(c, "all")
  <2>1. /\ ~gate /\ clicks > 0 /\ clicks' = (IF clicks > 1 THEN 1 ELSE 0) /\ card' = c /\ ui' = Blank
        /\ known' = known \cup ({ui.fresh} \cap Keys) /\ calls' = [Dead EXCEPT ![Slot] = l]
        /\ UNCHANGED <<apiVars, stored, gate, refused>> /\ Room
    BY <1>2 DEF Navigate
  <2>2. CallOk(l) /\ l.card = c /\ l.op = "list" /\ Proper(l)
    <3>1. ListsOk(<<>>)
      BY DEF ListsOk
    <3>2. QED
      BY <3>1, ReadsIs DEF CallOk, Proper, Types, BrowserOk
  <2> HIDE DEF l
  <2>3. Slot \in Slots
    BY <2>1 DEF Room, Slot
  <2>4. DOMAIN calls' = Slots /\ calls'[Slot] = l /\ \A r \in Slots \ {Slot} : calls'[r] = Dead[r]
    BY <1>1, <2>1, <2>3
  <2>5. CallsOk' /\ Sends
    <3>1. \A r \in Slots :
            \/ calls'[r].op = "none"
            \/ ~Free(r) /\ CallOk(calls'[r]) /\ calls'[r].live = FALSE
            \/ r = Slot
      BY <2>4, DeadIs DEF Types
    <3>2. QED
      BY <2>1, <2>2, <2>4, <3>1, Replaced DEF Types
  <2>6. ApiOk' /\ BrowserOk'
    BY <2>1 DEF Types, ApiOk, BrowserOk, apiVars
  <2>7. QED
    BY <2>1, <2>5, <2>6, PageBegins DEF Fine, Types
<1>3. ASSUME logout PROVE Fine
  <2>1. /\ clicks > 0 /\ clicks' = clicks - 1 /\ stored' = None /\ gate' = TRUE /\ refused' = None
        /\ ui' = Blank /\ calls' = Dead /\ known' = known \cup ({stored, ui.fresh} \cap Keys)
        /\ UNCHANGED <<apiVars, card>>
    BY <1>3 DEF logout, Clicks
  <2>2. CallsOk' /\ Sends
    BY <1>1, <2>1, DeadIs, Replaced DEF Types
  <2>3. ApiOk' /\ BrowserOk'
    BY <2>1 DEF Types, ApiOk, BrowserOk, apiVars
  <2>4. QED
    BY <2>1, <2>2, <2>3, PageBegins DEF Fine, Types
<1>4. QED
  BY <1>2, <1>3

\* A page that stays as it is.
LEMMA PageStays ==
  ASSUME Types, Asked, UNCHANGED <<ui, card>>
  PROVE  PageOk' /\ Asked'
<1>1. PageOk'
  BY DEF Types, PageOk, Listing
<1>2. Asked'
  BY DEF Asked, Subject
<1>3. QED
  BY <1>1, <1>2

\* In.
LEMMA EnterStep ==
  ASSUME Types, Asked, NEW k, LoginView(k)
  PROVE  Fine
<1> DEFINE c == Call("login", card, {None}, k)
<1>1. /\ gate /\ clicks > 0 /\ clicks' = clicks - 1 /\ Room /\ calls' = [calls EXCEPT ![Slot] = c]
      /\ k \in known \cup {Junk} \cup {a \in {Admin} : "admin" \in env}
      /\ UNCHANGED <<apiVars, stored, gate, refused, card, ui, known>>
  BY DEF LoginView, SendOn
<1>2. Slot \in Slots
  BY <1>1 DEF Room, Slot
<1>3. Posts(c)
  <2>1. k \in Keys \cup {Admin, Junk} /\ k # None
    BY <1>1, ConsoleApiAssumption DEF Types, BrowserOk
  <2>2. QED
    BY <2>1, CallIs DEF Posts, CallOk, Proper
<1> HIDE DEF c
<1>4. CallsOk' /\ Sends
  BY <1>1, <1>2, <1>3, Posted DEF Types
<1>5. ApiOk' /\ BrowserOk'
  BY <1>1 DEF Types, ApiOk, BrowserOk, apiVars
<1>6. QED
  BY <1>1, <1>4, <1>5, PageStays DEF Fine, Types

\* An answer that is heard while the pages are there.
LEMMA HeardIs ==
  ASSUME Types, NEW s \in Slots, Answered(s)
  PROVE  /\ CallOk(calls[s]) /\ calls[s].left = {} /\ ~Free(s)
         /\ calls[s].live => calls[s].card = card /\ (calls[s].op # "login" => ~gate)
         /\ calls[s].live /\ calls[s].by # "page" => ~gate
BY DEF Types, CallsOk, Answered, Free, Here, CallOk

\* After it, the slot is free or has the list.
LEMMA DropIs ==
  ASSUME Types, NEW s \in Slots, Drop(s) \/ (~gate /\ reload(s)), Quiet
  PROVE  ApiOk' /\ CallsOk' /\ BrowserOk' /\ Sends /\ card' = card
<1>1. UNCHANGED <<apiVars, stored, gate, refused, card, known, clicks>>
  BY DEF Quiet
<1>2. CASE Drop(s)
  <2>1. NoCall.op = "none"
    BY DEF NoCall
  <2>2. QED
    BY <1>1, <1>2, <2>1, Posted DEF Drop, Types, ApiOk, BrowserOk, apiVars
<1>3. CASE ~gate /\ reload(s)
  BY <1>1, <1>3, ListPosts, Posted DEF reload, SendOn, Types, ApiOk, BrowserOk, apiVars
<1>4. QED
  BY <1>2, <1>3

\* What the operator is sent back to the gate for.
LEMMA UnauthorizedStep ==
  ASSUME Types, Asked, NEW s \in Slots, Unauthorized(s)
  PROVE  Fine
<1>1. /\ gate' = TRUE /\ UNCHANGED <<apiVars, stored, card, known, clicks>> /\ NoCall.op = "none"
      /\ refused' = refused \/ refused' = calls[s].key
  BY DEF Unauthorized, NoCall
<1>2. ApiOk' /\ BrowserOk'
  <2>1. calls[s].key \in Keys \cup {Admin, Junk, None}
    BY HeardIs DEF Unauthorized, CallOk
  <2>2. QED
    BY <1>1, <2>1 DEF Types, ApiOk, BrowserOk, apiVars
<1>3. CASE gate
  <2>1. calls' = [calls EXCEPT ![s] = NoCall] /\ ui' = ui /\ gate' = gate
    BY <1>1, <1>3 DEF Unauthorized, Drop, Types, BrowserOk
  <2>2. CallsOk' /\ Sends
    BY <1>1, <2>1, Posted DEF Types
  <2>3. QED
    BY <1>1, <1>2, <2>1, <2>2, PageStays DEF Fine, Types
<1>4. CASE ~gate
  <2>1. calls' = [Dead EXCEPT ![s] = NoCall] /\ ui' = Blank
    BY <1>4 DEF Unauthorized
  <2>2. DOMAIN Dead = Slots
    BY DEF Dead
  <2>3. DOMAIN calls' = Slots /\ calls'[s] = NoCall /\ \A r \in Slots \ {s} : calls'[r] = Dead[r]
    BY <2>1, <2>2
  <2>4. CallsOk' /\ Sends
    BY <1>1, <2>3, DeadIs, Replaced DEF Types
  <2>5. QED
    BY <1>2, <2>1, <2>4, PageBegins DEF Fine, Types
<1>5. QED
  BY <1>3, <1>4

\* The login view lets them in.
LEMMA LoggedInStep ==
  ASSUME Types, Asked, NEW s \in Slots, LoggedIn(s)
  PROVE  Fine
<1> DEFINE k == stored'
           l == [ListCall(card, "all") EXCEPT !.key = k]
<1>1. /\ Answered(s) /\ calls[s].op = "login" /\ stored' = calls[s].key /\ gate' = FALSE
      /\ refused' = None /\ ui' = Blank
      /\ calls' = [calls EXCEPT ![s] = l] /\ UNCHANGED <<apiVars, card, known, clicks>>
  BY DEF LoggedIn
<1>2. stored' \in Keys \cup {Admin, Junk, None}
  BY <1>1, HeardIs DEF CallOk
<1> HIDE DEF k
<1>3. /\ DOMAIN l = DOMAIN Form /\ l.op = "list" /\ l.card = card /\ l.res = "ok" /\ l.data = <<>>
      /\ l.key = k
  BY Zenon DEF ListCall, Call, Form
<1> HIDE DEF l
<1>4. CallOk(l) /\ Proper(l)
  <2>1. ListsOk(<<>>)
    BY DEF ListsOk
  <2>2. QED
    BY <1>2, <1>3, <2>1 DEF CallOk, Proper, k
<1>5. DOMAIN calls' = Slots /\ calls'[s] = l /\ \A r \in Slots \ {s} : calls'[r] = calls[r]
  BY <1>1 DEF Types, CallsOk
<1>6. CallsOk' /\ Sends
  BY <1>1, <1>3, <1>4, <1>5, Replaced DEF Types
<1>7. ApiOk' /\ BrowserOk'
  BY <1>1, <1>2 DEF Types, ApiOk, BrowserOk, apiVars
<1>8. QED
  BY <1>1, <1>6, <1>7, PageBegins DEF Fine, Types

\* The key that is adopted is one.
LEMMA AdoptIs ==
  ASSUME Types, NEW s \in Slots, Answered(s), adopt(s)
  PROVE  stored' \in Keys \cup {Admin, Junk, None}
<1>1. calls[s].op = "create" /\ calls[s].card = "authkeys" /\ calls[s].res = "ok"
        => (CHOOSE k \in calls[s].ids : TRUE) \in Keys
  BY HeardIs DEF CallOk
<1>2. QED
  BY <1>1 DEF adopt, Types, BrowserOk

\* An answer for nobody.
LEMMA IgnoredStep ==
  ASSUME Types, Asked, NEW s \in Slots, Ignored(s)
  PROVE  Fine
<1>1. Answered(s) /\ adopt(s) /\ Drop(s) /\ UNCHANGED <<apiVars, gate, refused, card, ui, known, clicks>>
  BY DEF Ignored
<1>2. CallsOk' /\ Sends
  <2>1. NoCall.op = "none"
    BY DEF NoCall
  <2>2. QED
    BY <1>1, <2>1, Posted DEF Drop, Types
<1>3. ApiOk' /\ BrowserOk'
  BY <1>1, AdoptIs DEF Types, ApiOk, BrowserOk, apiVars
<1>4. QED
  BY <1>1, <1>2, <1>3, PageStays DEF Fine, Types

\* A list, and that it could not be had.
LEMMA ListSteps ==
  ASSUME Types, Asked, NEW s \in Slots, ListArrives(s) \/ ListFails(s)
  PROVE  Fine
<1>1. Answered(s) /\ calls[s].op = "list" /\ Drop(s) /\ Quiet
  BY DEF ListArrives, ListFails, Arrived
<1>2. ApiOk' /\ CallsOk' /\ BrowserOk' /\ Sends /\ card' = card
  BY <1>1, DropIs
<1>3. DOMAIN ui = DOMAIN Blank
  BY DEF Types, PageOk
<1>4. ASSUME NEW L, ListsOk(L), ui'.list = L, DOMAIN ui' = DOMAIN Blank,
             ui'.sel = ui.sel, ui'.confirm = ui.confirm, ui'.busy \subseteq ui.busy,
             ui'.opened = ui.opened, ui'.detail = ui.detail, ui'.fresh = ui.fresh,
             ui'.armed \subseteq DOMAIN (IF card \in DOMAIN L THEN L[card] ELSE <<>>),
             ui'.draft # <<>> => ui'.draft = ui.draft,
             ui'.confirming \in {ui.confirming, None}
      PROVE  Fine
  <2>1. ui'.armed \subseteq DOMAIN Listing'
    BY <1>2, <1>4 DEF Listing
  <2>2. PageOk'
    BY <1>2, <1>4, <2>1 DEF Types, PageOk
  <2>3. Subject' = Subject
    BY <1>2, <1>4 DEF Subject
  <2>4. Asked'
    BY <1>2, <1>4, <2>3 DEF Asked
  <2>5. QED
    BY <1>2, <2>2, <2>4 DEF Fine, Types
<1>5. CASE ListArrives(s)
  <2> DEFINE L == calls[s].data
             ids == DOMAIN (IF card \in DOMAIN L THEN L[card] ELSE <<>>)
             A == ui.armed \cap ids
             v == [ui EXCEPT !.list = L, !.armed = A]
             u == AgentEffect(v)
  <2>1. ui' = u \/ ui' = Unmounted(u)
    <3>1. v = [ui EXCEPT !.list = L, !.armed = @ \cap ids]
      BY Zenon
    <3>2. ui' = IF card = "incidents" /\ ui.opened \notin ids
                THEN Unmounted(AgentEffect([ui EXCEPT !.list = L, !.armed = @ \cap ids]))
                ELSE AgentEffect([ui EXCEPT !.list = L, !.armed = @ \cap ids])
      BY <1>5 DEF ListArrives
    <3> HIDE DEF ids, v
    <3>3. QED
      BY <3>1, <3>2
  <2>2. ListsOk(L) /\ A \subseteq ids
    BY <1>1, HeardIs DEF CallOk
  <2> HIDE DEF L, A, ids
  <2>3. /\ DOMAIN v = DOMAIN Blank /\ v.list = L /\ v.sel = ui.sel /\ v.confirm = ui.confirm
        /\ v.busy = ui.busy /\ v.opened = ui.opened /\ v.detail = ui.detail /\ v.fresh = ui.fresh
        /\ v.armed = A /\ v.draft = ui.draft /\ v.confirming = ui.confirming
    BY <1>3, Zenon DEF Blank
  <2> HIDE DEF v
  <2>4. /\ DOMAIN u = DOMAIN Blank /\ u.list = L /\ u.sel = ui.sel /\ u.confirm = ui.confirm
        /\ u.busy \subseteq ui.busy /\ u.opened = ui.opened /\ u.detail = ui.detail
        /\ u.fresh = ui.fresh /\ u.armed \subseteq A /\ (u.draft # <<>> => u.draft = ui.draft)
        /\ u.confirming \in {ui.confirming, None}
    BY <2>3, EffectIs
  <2> HIDE DEF u
  <2>5. /\ DOMAIN ui' = DOMAIN Blank /\ ui'.list = L /\ ui'.sel = ui.sel
        /\ ui'.confirm = ui.confirm /\ ui'.busy \subseteq ui.busy /\ ui'.opened = ui.opened
        /\ ui'.detail = ui.detail /\ ui'.fresh = ui.fresh /\ ui'.armed \subseteq A
        /\ (ui'.draft # <<>> => ui'.draft = ui.draft)
        /\ ui'.confirming \in {ui.confirming, None}
    BY <2>1, <2>4, UnmountedIs
  <2>6. ui'.armed \subseteq DOMAIN (IF card \in DOMAIN L THEN L[card] ELSE <<>>)
    BY <2>2, <2>5 DEF ids
  <2>7. QED
    BY <1>4, <2>2, <2>5, <2>6
<1>6. CASE ListFails(s)
  <2>1. CASE ui' = ui
    BY <1>2, <2>1, PageStays DEF Fine, Types
  <2>2. CASE ui' = [ui EXCEPT !.list = <<>>, !.armed = {}]
    <3>1. /\ DOMAIN ui' = DOMAIN Blank /\ ui'.list = <<>> /\ ui'.sel = ui.sel
          /\ ui'.confirm = ui.confirm /\ ui'.busy = ui.busy /\ ui'.opened = ui.opened
          /\ ui'.detail = ui.detail /\ ui'.fresh = ui.fresh /\ ui'.armed = {}
          /\ ui'.draft = ui.draft /\ ui'.confirming = ui.confirming
      BY <1>3, <2>2, Zenon DEF Blank
    <3>2. ListsOk(<<>>)
      BY DEF ListsOk
    <3>3. QED
      BY <1>4, <3>1, <3>2
  <2>3. QED
    BY <1>6, <2>1, <2>2 DEF ListFails
<1>7. QED
  BY <1>5, <1>6

\* A token for the drawer.
LEMMA DetailStep ==
  ASSUME Types, Asked, NEW s \in Slots, DetailArrives(s)
  PROVE  Fine
<1>1. Answered(s) /\ calls[s].op = "get" /\ calls[s].live /\ Drop(s) /\ Quiet
  BY DEF DetailArrives, Arrived
<1>2. ApiOk' /\ CallsOk' /\ BrowserOk' /\ Sends /\ card' = card
  BY <1>1, DropIs
<1>3. /\ card = "tokens" /\ \A x, y \in calls[s].ids : x = y
      /\ calls[s].res = "ok" => RowOk(calls[s].data, card)
  BY <1>1, HeardIs DEF CallOk
<1>4. DOMAIN ui = DOMAIN Blank
  BY DEF Types, PageOk
<1>5. CASE calls[s].res = "ok"
  <2> DEFINE T == [x \in calls[s].ids |-> calls[s].data]
  <2>1. ui' = [ui EXCEPT !.draft = <<>>, !.detail = T]
    BY <1>5 DEF DetailArrives
  <2>2. (\A x \in DOMAIN T : RowOk(T[x], card)) /\ \A x, y \in DOMAIN T : x = y
    BY <1>3, <1>5
  <2> HIDE DEF T
  <2>3. /\ DOMAIN ui' = DOMAIN Blank /\ ui'.detail = T /\ ui'.draft = <<>>
        /\ ui'.sel = ui.sel /\ ui'.confirm = ui.confirm /\ ui'.list = ui.list
        /\ ui'.armed = ui.armed /\ ui'.busy = ui.busy /\ ui'.opened = ui.opened
        /\ ui'.confirming = ui.confirming /\ ui'.fresh = ui.fresh
    BY <1>4, <2>1, Zenon DEF Blank
  <2>4. PageOk' /\ Asked'
    BY <1>2, <2>2, <2>3, PageDrawer DEF Types, PageOk, Asked, KeepsSelection
  <2>5. QED
    BY <1>2, <2>4 DEF Fine, Types
<1>6. CASE calls[s].res # "ok"
  <2>1. ui' = [ui EXCEPT !.detail = <<>>]
    BY <1>6 DEF DetailArrives
  <2>2. /\ DOMAIN ui' = DOMAIN Blank /\ ui'.detail = <<>> /\ ui'.sel = ui.sel
        /\ ui'.confirm = ui.confirm /\ ui'.list = ui.list /\ ui'.armed = ui.armed
        /\ ui'.busy = ui.busy /\ ui'.opened = ui.opened /\ ui'.draft = ui.draft
        /\ ui'.confirming = ui.confirming /\ ui'.fresh = ui.fresh
    BY <1>4, <2>1, Zenon DEF Blank
  <2>3. Subject' = {}
    BY <1>2, <1>3, <2>2 DEF Subject
  <2>4. PageOk' /\ Asked'
    BY <1>2, <2>2, <2>3, PageDrawer DEF Types, PageOk, Asked, KeepsSelection
  <2>5. QED
    BY <1>2, <2>4 DEF Fine, Types
<1>7. QED
  BY <1>5, <1>6

\* A row was made; a key is shown once.
LEMMA CreatedStep ==
  ASSUME Types, Asked, NEW s \in Slots, Created(s)
  PROVE  Fine
<1> DEFINE B == ui.busy \ {calls[s].flag}
           F == IF card = "authkeys" THEN CHOOSE k \in calls[s].ids : TRUE ELSE ui.fresh
           k == stored'
           l == [ListCall(card, ui.filter) EXCEPT !.key = k]
<1>1. /\ Answered(s) /\ ~Refused(s) /\ calls[s].live /\ calls[s].op = "create" /\ adopt(s)
      /\ calls' = [calls EXCEPT ![s] = l] /\ UNCHANGED <<apiVars, gate, refused, card, known, clicks>>
  BY DEF Created, Arrived
<1>2. ui' = [ui EXCEPT !.busy = B, !.fresh = F]
  <2>1. ui' = [ui EXCEPT !.busy = @ \ {calls[s].flag},
                         !.fresh = IF card = "authkeys" THEN CHOOSE x \in calls[s].ids : TRUE ELSE @]
    BY DEF Created
  <2>2. QED
    BY <2>1, Zenon
<1>3. ~gate /\ calls[s].card = card /\ CallOk(calls[s]) /\ calls[s].left = {}
  BY <1>1, HeardIs
<1>4. F \in Keys \cup {None} /\ B \subseteq Flags
  <2>1. calls[s].res = "ok"
    BY DEF Created
  <2>2. card = "authkeys" => calls[s].ids \subseteq Keys /\ calls[s].ids # {}
    BY <1>1, <1>3, <2>1 DEF CallOk
  <2>3. QED
    BY <2>2 DEF Types, PageOk
<1>5. DOMAIN ui = DOMAIN Blank
  BY DEF Types, PageOk
<1> HIDE DEF B, F, k
<1>6. /\ DOMAIN ui' = DOMAIN Blank /\ KeepsSelection /\ KeepsDrawer /\ ui'.busy = B
      /\ ui'.fresh = F /\ ui'.list = ui.list /\ ui'.armed = ui.armed
  BY <1>2, <1>5, Zenon DEF KeepsSelection, KeepsDrawer, Blank
<1>7. /\ DOMAIN l = DOMAIN Form /\ l.op = "list" /\ l.card = card /\ l.res = "ok" /\ l.data = <<>>
      /\ l.key = k
  BY Zenon DEF ListCall, Call, Form
<1> HIDE DEF l
<1>8. Posts(l)
  <2>1. ListsOk(<<>>)
    BY DEF ListsOk
  <2>2. QED
    BY <1>1, <1>3, <1>7, <2>1, AdoptIs DEF Posts, CallOk, Proper, k
<1>9. CallsOk' /\ Sends
  BY <1>1, <1>8, Posted DEF Types
<1>10. ApiOk' /\ BrowserOk'
  BY <1>1, AdoptIs DEF Types, ApiOk, BrowserOk, apiVars
<1>11. PageOk' /\ Asked'
  BY <1>1, <1>4, <1>6, PageButtons DEF Types, PageOk
<1>12. QED
  BY <1>9, <1>10, <1>11 DEF Fine, Types

\* A row's button, the bar, and a form that failed.
LEMMA DoneSteps ==
  ASSUME Types, Asked, NEW s \in Slots, RowDone(s) \/ BulkDone(s) \/ BulkFails(s) \/ CreateFails(s)
  PROVE  Fine
<1> DEFINE B == ui.busy \ {calls[s].flag}
<1>1. /\ Answered(s) /\ calls[s].live /\ Quiet
      /\ calls[s].by \in {"row", "bulk"} \/ calls[s].op = "create"
  BY DEF RowDone, BulkDone, BulkFails, CreateFails, Arrived, Finished
<1>2. ~gate
  BY <1>1, HeardIs
<1>3. Drop(s) \/ reload(s)
  BY DEF RowDone, BulkDone, BulkFails, CreateFails
<1>4. ApiOk' /\ CallsOk' /\ BrowserOk' /\ Sends /\ card' = card
  BY <1>1, <1>2, <1>3, DropIs
<1>5. DOMAIN ui = DOMAIN Blank /\ B \subseteq Flags
  BY DEF Types, PageOk
<1>6. CASE RowDone(s) \/ BulkFails(s) \/ CreateFails(s)
  <2>1. ui' = [ui EXCEPT !.busy = B]
    BY <1>6, Zenon DEF RowDone, BulkFails, CreateFails
  <2> HIDE DEF B
  <2>2. /\ DOMAIN ui' = DOMAIN Blank /\ KeepsSelection /\ KeepsDrawer /\ ui'.busy = B
        /\ ui'.list = ui.list /\ ui'.armed = ui.armed /\ ui'.fresh = ui.fresh
    BY <1>5, <2>1, Zenon DEF KeepsSelection, KeepsDrawer, Blank
  <2>3. PageOk' /\ Asked'
    BY <1>4, <1>5, <2>2, PageButtons DEF Types, PageOk
  <2>4. QED
    BY <1>4, <2>3 DEF Fine, Types
<1>7. CASE BulkDone(s)
  <2>1. ui' = [ui EXCEPT !.busy = B, !.sel = {}, !.confirm = {}]
    BY <1>7, Zenon DEF BulkDone
  <2> HIDE DEF B
  <2>2. /\ DOMAIN ui' = DOMAIN Blank /\ KeepsDrawer /\ ui'.busy = B /\ ui'.sel = {}
        /\ ui'.confirm = {} /\ ui'.list = ui.list /\ ui'.armed = ui.armed
        /\ ui'.fresh = ui.fresh
    BY <1>5, <2>1, Zenon DEF KeepsDrawer, Blank
  <2>3. PageOk' /\ Asked'
    BY <1>4, <1>5, <2>2, PageSelects DEF Types, PageOk
  <2>4. QED
    BY <1>4, <2>3 DEF Fine, Types
<1>8. QED
  BY <1>6, <1>7

\* What an open drawer asked for.
LEMMA DrawerDoneStep ==
  ASSUME Types, Asked, NEW s \in Slots, DrawerDone(s)
  PROVE  Fine
<1> DEFINE ok == calls[s].res = "ok"
           gone == ok /\ (calls[s].op = "delete" \/ card = "channels")
           closes == gone \/ (ok /\ Sensors /\ calls[s].by = "sensors")
           B == (ui.busy \ {calls[s].flag}) \ (IF closes THEN Slots ELSE {})
           O == IF gone THEN None ELSE ui.opened
           C == IF gone THEN None ELSE ui.confirming
           T == IF gone THEN <<>> ELSE ui.detail
           D == IF closes THEN <<>> ELSE ui.draft
<1>1. Answered(s) /\ calls[s].live /\ calls[s].by # "page" /\ Quiet
  BY DEF DrawerDone, Finished
<1>2. ~gate
  BY <1>1, HeardIs
<1>3. ApiOk' /\ CallsOk' /\ BrowserOk' /\ Sends /\ card' = card
  <2>1. CASE Drop(s) \/ reload(s)
    BY <1>1, <1>2, <2>1, DropIs
  <2>2. CASE /\ card = "tokens"
             /\ \E r \in Slots \ {s} : Free(r) /\
                   calls' = [calls EXCEPT ![s] = ListCall(card, ui.filter),
                                          ![r] = request("get", {calls[s].opened})]
    <3>1. PICK r \in Slots \ {s} :
            calls' = [calls EXCEPT ![s] = ListCall(card, ui.filter),
                                   ![r] = request("get", {calls[s].opened})]
      BY <2>2
    <3>2. /\ DOMAIN calls' = Slots /\ calls'[s] = ListCall(card, ui.filter)
          /\ calls'[r] = request("get", {calls[s].opened})
          /\ \A t \in Slots \ {r, s} : calls'[t] = calls[t]
      BY <3>1 DEF Types, CallsOk
    <3>3. Posts(calls'[s]) /\ Posts(calls'[r])
      <4>1. Posts(ListCall(card, ui.filter)) /\ Posts(request("get", {calls[s].opened}))
        BY <1>2, <2>2, ListPosts, GetPosts DEF Types
      <4>2. QED
        BY <3>2, <4>1, Zenon
    <3>4. UNCHANGED <<apiVars, stored, gate, refused, card, known, clicks>>
      BY <1>1 DEF Quiet
    <3>5. CallsOk' /\ Sends
      <4>1. \A t \in Slots : calls'[t] = calls[t] \/ Posts(calls'[t])
        BY <3>2, <3>3
      <4>2. QED
        BY <1>2, <3>2, <3>4, <4>1, Replaced DEF Types, Posts
    <3>6. QED
      BY <3>4, <3>5 DEF Types, ApiOk, BrowserOk, apiVars
  <2>3. QED
    BY <2>1, <2>2 DEF DrawerDone
<1>4. ui' = [ui EXCEPT !.busy = B, !.opened = O, !.confirming = C, !.detail = T, !.draft = D]
  <2>1. ui' = [ui EXCEPT
                !.busy = (@ \ {calls[s].flag}) \ (IF closes THEN Slots ELSE {}),
                !.opened = IF gone THEN None ELSE @,
                !.confirming = IF gone THEN None ELSE @,
                !.detail = IF gone THEN <<>> ELSE @,
                !.draft = IF closes THEN <<>> ELSE @]
    BY DEF DrawerDone
  <2> HIDE DEF closes, gone, ok
  <2>2. QED
    BY <2>1, Zenon
<1>5. /\ DOMAIN ui = DOMAIN Blank /\ B \subseteq Flags
      /\ \A x \in DOMAIN T : RowOk(T[x], card)
      /\ \A x, y \in DOMAIN T : x = y
      /\ D # <<>> => D = ui.draft /\ O = ui.opened /\ T = ui.detail
      /\ card = "agents" /\ C # None => C = O
  BY DEF Types, PageOk, Asked
<1> HIDE DEF B, O, C, T, D
<1>6. /\ DOMAIN ui' = DOMAIN Blank /\ ui'.busy = B /\ ui'.opened = O
      /\ ui'.confirming = C /\ ui'.detail = T /\ ui'.draft = D /\ ui'.sel = ui.sel
      /\ ui'.confirm = ui.confirm /\ ui'.list = ui.list /\ ui'.armed = ui.armed
      /\ ui'.fresh = ui.fresh
  BY <1>4, <1>5, Zenon DEF Blank
<1>7. ui'.draft # <<>> => Subject' = Subject /\ ui'.draft = ui.draft
  BY <1>3, <1>5, <1>6 DEF Subject
<1>8. PageOk' /\ Asked'
  BY <1>3, <1>5, <1>6, <1>7, PageDrawer DEF Types, PageOk, Asked, KeepsSelection
<1>9. QED
  BY <1>3, <1>8 DEF Fine, Types

(***************************************************************************)
(* The theorems.                                                           *)
(***************************************************************************)

\* Where it begins.
LEMMA Begins == Init => Types /\ Asked
<1> SUFFICES ASSUME Init PROVE Types /\ Asked
  OBVIOUS
<1>1. ListsOk(<<>>) /\ ui = Blank
  BY DEF ListsOk, Init
<1>2. PageOk /\ Asked
  BY <1>1, BlankIs DEF PageOk, Asked
<1>3. ApiOk
  <2>1. \A t \in Tables : [i \in Initial |-> New(t)] \in Rows(t)
    <3> TAKE t \in Tables
    <3> DEFINE L == [i \in Initial |-> New(t)]
    <3>1. /\ L = [i \in DOMAIN L |-> L[i]] /\ DOMAIN L \subseteq Ids
          /\ \A i \in DOMAIN L : L[i] \in [state : State(t), memo : 0 .. 1]
      BY NewIs, ConsoleApiAssumption
    <3> HIDE DEF L
    <3>2. L \in Rows(t)
      BY <3>1, RowsIs
    <3>3. QED
      BY <3>2 DEF L
  <2>2. QED
    BY <2>1, ConsoleApiAssumption DEF Init, ApiOk
<1>4. BrowserOk
  BY ConsoleApiAssumption, ConsoleAssumption DEF Init, BrowserOk
<1>5. CallsOk
  <2>1. PICK s \in Slots : calls = [r \in Slots |-> IF r = s THEN ListCall(card, "all") ELSE NoCall]
    BY DEF Init
  <2>2. ~gate
    BY DEF Init
  <2>3. Posts(ListCall(card, "all"))
    BY <1>4, <2>2, ListPosts
  <2>4. NoCall.op = "none"
    BY DEF NoCall
  <2>5. QED
    BY <2>1, <2>2, <2>3, <2>4 DEF CallsOk, Posts, Here, Free
<1>6. QED
  BY <1>2, <1>3, <1>4, <1>5 DEF Types

\* What the network does.
LEMMA NetworkStep ==
  ASSUME Types, Asked, Network
  PROVE  Fine
<1>1. PICK s \in Slots :
        ((Serve(s) \/ Fails(s)) /\ UNCHANGED <<stored, gate, refused, card, ui, known, clicks>>) \/ Answer(s)
  BY DEF Network
<1>2. CASE (Serve(s) \/ Fails(s)) /\ UNCHANGED <<stored, gate, refused, card, ui, known, clicks>>
  <2>1. ApiOk' /\ CallsOk' /\ NoneSent
    BY <1>2, ServeOk, FailsOk DEF Types
  <2>2. BrowserOk'
    BY <1>2 DEF Types, BrowserOk
  <2>3. Sends
    BY <2>1 DEF NoneSent, Sends
  <2>4. QED
    BY <1>2, <2>1, <2>2, <2>3, PageStays DEF Fine, Types
<1>3. CASE Answer(s)
  BY <1>3, UnauthorizedStep, LoggedInStep, IgnoredStep, ListSteps, DetailStep, CreatedStep,
     DoneSteps, DrawerDoneStep DEF Answer
<1>4. QED
  BY <1>1, <1>2, <1>3

\* Every step keeps the invariants and sends what it may.
LEMMA Steps == Types /\ Asked /\ [Next]_vars => Fine
<1> SUFFICES ASSUME Types, Asked, [Next]_vars PROVE Fine
  OBVIOUS
<1>1. CASE Operate
  BY <1>1, LeaveSteps, SelectSteps, BarSteps, RowSteps, OtherSteps, DrawerSteps, DrawerSends,
     EnterStep DEF Operate
<1>2. CASE Others \/ Colleague
  <2>1. UNCHANGED <<calls, stored, gate, refused, card, ui, clicks>>
    BY <1>2 DEF Others, Colleague, RowComes, RowGoes, RowChanges, KeyGoes, KeyComes, Download,
       consumeEnrollmentToken, Elsewhere
  <2>2. ApiOk'
    BY <1>2, OthersOk DEF Types, BrowserOk
  <2>3. BrowserOk'
    BY <1>2, <2>1, <2>2 DEF Others, Colleague, Types, BrowserOk, ApiOk
  <2>4. QED
    BY <2>1, <2>2, <2>3, Unsent, PageStays DEF Fine, Types
<1>3. CASE usePoll
  <2>1. /\ ~gate /\ Room /\ calls' = [calls EXCEPT ![Slot] = ListCall(card, ui.filter)]
        /\ UNCHANGED <<apiVars, stored, gate, refused, card, ui, known, clicks>>
    BY <1>3 DEF usePoll, reload, SendOn
  <2>2. Slot \in Slots
    BY <2>1 DEF Room, Slot
  <2>3. CallsOk' /\ Sends
    BY <2>1, <2>2, ListPosts, Posted DEF Types
  <2>4. ApiOk' /\ BrowserOk'
    BY <2>1 DEF Types, ApiOk, BrowserOk, apiVars
  <2>5. QED
    BY <2>1, <2>3, <2>4, PageStays DEF Fine, Types
<1>4. CASE UNCHANGED vars
  <2>1. UNCHANGED <<apiVars, calls, stored, gate, refused, card, ui, known, clicks>>
    BY <1>4 DEF vars
  <2>2. ApiOk' /\ BrowserOk'
    BY <2>1 DEF Types, ApiOk, BrowserOk, apiVars
  <2>3. QED
    BY <2>1, <2>2, Unsent, PageStays DEF Fine, Types
<1>5. QED
  BY <1>1, <1>2, <1>3, <1>4, NetworkStep DEF Next

\* The invariants hold.
LEMMA Holds == Spec => [](Types /\ Asked)
<1>1. Types /\ Asked /\ [Next]_vars => (Types /\ Asked)'
  BY Steps DEF Fine
<1>2. QED
  BY <1>1, Begins, PTL DEF Spec

\* Type correctness: in particular what is confirmed a first time is among the
\* rows that are shown, and behind the login gate nothing but the login is heard
\* (App.tsx, use-poll.ts).
THEOREM TypeCorrect == Spec => []TypeOK
<1>1. Types => TypeOK
  BY DEF Types, ApiOk, BrowserOk, CallsOk, PageOk, Here, Flags, Free, TypeOK
<1>2. QED
  BY <1>1, Holds, PTL

\* Nothing is deleted but what was asked to be confirmed (SelectionBar,
\* TokensPage, AgentDrawer).
THEOREM DeletesConfirmed == Spec => ActsOnArmed
<1> DEFINE Act == \A s \in Slots : Sent(s, "delete") =>
              /\ calls'[s].by = "bulk" /\ Has("confirm") => calls'[s].ids = ui.confirm
              /\ calls'[s].by = "drawer" /\ card = "agents" => calls'[s].ids = {ui.confirming}
<1>1. Types /\ Asked /\ [Next]_vars => [Act]_vars
  BY Steps DEF Fine, Sends, Proper, Sent, Free
<1>2. QED
  BY <1>1, Holds, PTL DEF Spec, ActsOnArmed

\* A draft is saved to the row it was typed for (the effects that seed and reset
\* the editors).
THEOREM DraftsTrue == Spec => DraftTrue
<1> DEFINE Act == \A s \in Slots : Sent(s, "save") /\ calls'[s].by \in {"editor", "sensors"} =>
              calls'[s].ids = {ui.draft[2]}
<1>1. Types /\ Asked /\ [Next]_vars => [Act]_vars
  BY Steps DEF Fine, Sends, Proper, Sent, Free
<1>2. QED
  BY <1>1, Holds, PTL DEF Spec, DraftTrue
=============================================================================
