----------------------------- MODULE ConsoleApi -----------------------------
(***************************************************************************)
(* The console's side of the API (apps/api/src/auth.ts, routes/auth.ts,    *)
(* enrollment.ts): who may call it, and what it does to the rows it keeps. *)
(* A request travels, is carried out in one or several steps, and travels  *)
(* back; several are under way at a time, in any order.                    *)
(***************************************************************************)
EXTENDS Naturals, FiniteSets

CONSTANTS
    Ids,        \* ids of rows, each given once
    Initial,    \* those of the rows that exist at first
    Keys,       \* API keys
    FirstKey,   \* the one that may exist at first
    Admin,      \* F0_ADMIN_TOKEN
    Junk,       \* a string that is no key
    None,
    Slots,      \* bound: requests under way
    MaxOthers   \* bound: what other people, agents, the gateway and the network do

ASSUME ConsoleApiAssumption ==
    /\ Initial \subseteq Ids /\ FirstKey \in Keys /\ Slots \cap Ids = {}
    /\ Admin \notin Keys /\ Junk \notin Keys \cup {Admin}
    /\ None \notin Ids \cup Keys \cup {Admin, Junk}
    /\ MaxOthers \in Nat

VARIABLES
    env,        \* what the process was started with
    keys,       \* rows of api_keys
    db,         \* rows of the other tables
    used,       \* ids and keys that were given once
    fetched,    \* enrollment tokens a host has downloaded the agent with
    calls,      \* the requests of the browser that are under way
    others

apiVars == <<env, keys, db, used, fetched, others>>

Tables == {"agents", "deployments", "releases", "signkeys", "certs",
           "enrollment", "tokens", "incidents", "channels"}

\* state: of an agent online (1), of a deployment pending (1), of a token
\* active (1), of an incident not acknowledged (1), of a channel disabled (0),
\* enabled (1), failing (2), of an enrollment token the uses, or expired.
Expired == MaxOthers + 1
State(t) == CASE t = "channels" -> 0 .. 2
              [] t = "enrollment" -> 0 .. Expired
              [] t \in {"agents", "deployments", "tokens", "incidents"} -> 0 .. 1
              [] OTHER -> {1}
\* memo: what an operator writes: a memo, notes, sensors, a configuration
Rows(t) == UNION {[I -> [state : State(t), memo : 0 .. 1]] : I \in SUBSET Ids}
New(t) == [state |-> IF t = "enrollment" THEN 0 ELSE 1, memo |-> 0]

isOpenMode == env = {} /\ keys = {}
isValidConsoleKey(k) == k \in keys
Console(k) == isOpenMode \/ (k = Admin /\ "admin" \in env) \/ isValidConsoleKey(k)
login(k) == (k = Admin /\ "admin" \in env) \/ isValidConsoleKey(k) \/ isOpenMode

\* The rows the console reads under a name.
Table(t) ==
    CASE t = "authkeys" -> [k \in keys |-> [state |-> 1, memo |-> 0]]
      [] t = "status" -> [o \in {x \in {"open"} : isOpenMode} |-> [state |-> 1, memo |-> 0]]
      [] OTHER -> db[t]

\* GET /api/v1/incidents?acknowledged=false
Listed(t, filter) ==
    LET rows == Table(t)
        I == {i \in DOMAIN rows : t = "incidents" /\ filter = "open" => rows[i].state = 1}
    IN  [i \in I |-> rows[i]]

(* A request: what it asks of a card's rows ids, with the key stored when  *)
(* it was sent. left is what is still to be done; live, that the component *)
(* that sent it is still there.                                            *)
NoCall == [op |-> "none"]
Call(op, card, ids, key) ==
    [op |-> op, card |-> card, ids |-> ids, key |-> key, by |-> "page", flag |-> "none",
     opened |-> None, field |-> "memo", val |-> 0, filter |-> "all", left |-> ids, data |-> <<>>, res |-> "ok", live |-> TRUE]
Answered(s) == calls[s].op # "none" /\ calls[s].left = {}
Waiting(s) == calls[s].op # "none" /\ calls[s].left # {}

\* A request to the API names one row; the bulk routes of tokens and incidents
\* take them all in one.
Parts(c) == IF c.op \in {"delete", "save"} /\ c.card \in {"tokens", "incidents"}
            THEN {c.left} ELSE {{x} : x \in c.left}
Done(s, X, res) ==
    calls' = [calls EXCEPT ![s].left = @ \ X,
                           ![s].res = IF "401" \in {@, res} THEN "401"
                                      ELSE IF "err" \in {@, res} THEN "err" ELSE "ok"]

(* Under way *)

\* makeAuthHook. The login probe has no hook.
Refuse(s) ==
    /\ Waiting(s) /\ calls[s].op # "login" /\ ~Console(calls[s].key)
    /\ \E X \in Parts(calls[s]) : Done(s, X, "401")
    /\ UNCHANGED apiVars

Admitted(s, op) == Waiting(s) /\ calls[s].op = op /\ Console(calls[s].key)

ServeLogin(s) ==
    /\ Waiting(s) /\ calls[s].op = "login"
    /\ Done(s, calls[s].left, IF login(calls[s].key) THEN "ok" ELSE "err")
    /\ UNCHANGED apiVars

ServeList(s) ==
    /\ Admitted(s, "list")
    /\ \E t \in calls[s].left :
        LET d == calls[s].data
        IN  calls' = [calls EXCEPT
                ![s].left = @ \ {t},
                ![s].data = [x \in DOMAIN d \cup {t} |->
                    IF x = t THEN Listed(t, calls[s].filter) ELSE d[x]]]
    /\ UNCHANGED apiVars

\* GET /api/v1/tokens/:id, the downloads of files, and what changes no row: to
\* sign, to test a channel, to clone a page again
ServeGet(s) ==
    /\ Waiting(s) /\ calls[s].op \in {"get", "file", "use"} /\ Console(calls[s].key)
    /\ LET i == CHOOSE x \in calls[s].left : TRUE
           rows == Table(calls[s].card)
       IN  calls' = [calls EXCEPT
                ![s].left = {},
                ![s].res = IF i \in DOMAIN rows THEN "ok" ELSE "err",
                ![s].data = IF i \in DOMAIN rows THEN rows[i] ELSE @]
    /\ UNCHANGED apiVars

Insert(t, i) ==
    db' = [db EXCEPT ![t] = [x \in DOMAIN db[t] \cup {i} |->
                                IF x = i THEN New(t) ELSE db[t][x]]]
Remove(t, X) == db' = [db EXCEPT ![t] = [x \in DOMAIN db[t] \ X |-> db[t][x]]]

ServeCreate(s) ==
    /\ Admitted(s, "create") /\ calls[s].card \in Tables
    /\ \E i \in Ids \ used :
        Insert(calls[s].card, i) /\ used' = used \cup {i}
    /\ Done(s, calls[s].left, "ok")
    /\ UNCHANGED <<env, keys, fetched, others>>

ServeCreateKey(s) ==
    /\ Admitted(s, "create") /\ calls[s].card = "authkeys"
    /\ \E k \in Keys \ used :
        /\ keys' = keys \cup {k} /\ used' = used \cup {k}
        /\ calls' = [calls EXCEPT ![s].left = {}, ![s].ids = {k}]
    /\ UNCHANGED <<env, db, fetched, others>>

ServeDelete(s) ==
    /\ Admitted(s, "delete")
    /\ \E X \in Parts(calls[s]) :
        LET t == calls[s].card
        IN  /\ Done(s, X, IF X \subseteq DOMAIN Table(t) \/ calls[s].by = "bulk"
                          THEN "ok" ELSE "err")
            /\ IF t = "authkeys" THEN keys' = keys \ X /\ UNCHANGED db
                                 ELSE Remove(t, X) /\ UNCHANGED keys
    /\ UNCHANGED <<env, used, fetched, others>>

ServeSave(s) ==
    /\ Admitted(s, "save")
    /\ \E X \in Parts(calls[s]) :
        LET c == calls[s]
            rows == db[c.card]
            Changed(i) == [state |-> IF c.field = "state" THEN c.val ELSE rows[i].state,
                           memo |-> IF c.field = "memo" THEN c.val ELSE rows[i].memo]
        IN  /\ Done(s, X, IF X \subseteq DOMAIN rows \/ c.by = "bulk" THEN "ok" ELSE "err")
            /\ db' = [db EXCEPT ![c.card] =
                    [i \in DOMAIN rows |-> IF i \in X THEN Changed(i) ELSE rows[i]]]
    /\ UNCHANGED <<env, keys, used, fetched, others>>

Serve(s) ==
    \/ Refuse(s) \/ ServeLogin(s) \/ ServeList(s) \/ ServeGet(s) \/ ServeCreate(s)
    \/ ServeCreateKey(s) \/ ServeDelete(s) \/ ServeSave(s)

(* Other people, agents, the gateway and the network *)

Elsewhere == others < MaxOthers /\ others' = others + 1 /\ UNCHANGED <<env, calls>>

RowComes(t) ==
    /\ Elsewhere /\ UNCHANGED <<keys, fetched>>
    /\ \E i \in Ids \ used : Insert(t, i) /\ used' = used \cup {i}

RowGoes(t) ==
    /\ Elsewhere /\ UNCHANGED <<keys, used, fetched>>
    /\ \E i \in DOMAIN db[t] : Remove(t, {i})

RowChanges(t) ==
    /\ Elsewhere /\ UNCHANGED <<keys, used, fetched>>
    /\ \E i \in DOMAIN db[t], v \in IF t = "enrollment" THEN {Expired} ELSE State(t) :
        db' = [db EXCEPT ![t][i] = [@ EXCEPT !.state = v]]

\* A request does not get through, or its answer does not: what was carried out
\* of it stays.
Fails(s) ==
    /\ calls[s].op # "none" /\ calls[s].res = "ok"
    /\ others < MaxOthers /\ others' = others + 1
    /\ calls' = [calls EXCEPT ![s].left = {}, ![s].res = "err"]
    /\ UNCHANGED <<env, keys, db, used, fetched>>

KeyComes ==
    /\ Elsewhere /\ UNCHANGED <<db, fetched>>
    /\ \E k \in Keys \ used : keys' = keys \cup {k} /\ used' = used \cup {k}

KeyGoes ==
    /\ Elsewhere /\ UNCHANGED <<db, used, fetched>>
    /\ \E k \in keys : keys' = keys \ {k}

(* The one-liner on a host: the agent is downloaded with an enrollment     *)
(* token, then it enrolls with it.                                         *)
isValidEnrollmentCredential(t) ==
    t \in DOMAIN db["enrollment"] /\ db["enrollment"][t].state # Expired

Download(t) ==
    /\ Elsewhere /\ isValidEnrollmentCredential(t)
    /\ fetched' = fetched \cup {t}
    /\ UNCHANGED <<keys, db, used>>

consumeEnrollmentToken(t) ==
    /\ Elsewhere /\ t \in fetched /\ isValidEnrollmentCredential(t)
    /\ db' = [db EXCEPT !["enrollment"][t].state = @ + 1]
    /\ UNCHANGED <<keys, used, fetched>>
=============================================================================
