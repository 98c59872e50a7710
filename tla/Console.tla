------------------------------ MODULE Console ------------------------------
(***************************************************************************)
(* The web console (apps/web/src) in one browser: a page with the card the *)
(* operator works with, its requests under way, the key in localStorage    *)
(* and the login gate.  The cards of a page keep their state to themselves,*)
(* so one of them is followed at a time; what the others do to the rows is *)
(* among what other people do.                                             *)
(***************************************************************************)
EXTENDS ConsoleApi

CONSTANTS
    MaxClicks,  \* bound: what the operator does, by the card that is first
    Visited     \* bound: the cards the operator goes to from another one

VARIABLES
    stored,     \* localStorage's f0_api_key
    gate,       \* App's needsAuth: the login view replaces the pages
    refused,    \* history: the key whose refusal raised the gate
    card,
    ui,         \* the state of the card's components
    known,      \* history: keys people have copied
    clicks      \* those the operator has left

vars == <<apiVars, calls, stored, gate, refused, card, ui, known, clicks>>

(* The cards. poll: the list is fetched again and again; select: rows have  *)
(* a box, deleteMany, saveMany: what the bar over them does; confirm: a     *)
(* deletion is asked for twice; delete, save, use: a row's buttons; edit:   *)
(* a drawer, dialog or editor for a row; form: the card creates rows;       *)
(* oneFlag: one busy flag for all.                                          *)
AgentsPage == {"poll", "select", "deleteMany", "confirm", "edit"}
AddAgentDialog == {"delete", "form"}
DeployTokenSection == {"form"}
ReleasesCard == {"select", "deleteMany", "delete", "form", "oneFlag"}
SigningKeysCard == {"select", "deleteMany", "confirm", "delete", "use", "form", "oneFlag"}
CodeSigningCard == SigningKeysCard
TokensPage == {"poll", "select", "saveMany", "deleteMany", "confirm", "edit"}
CreateTokenDialog == {"form"}
IncidentsPage == {"poll", "select", "saveMany", "save", "edit"}
ChannelsPage == {"poll", "delete", "save", "use", "edit", "form"}
ApiKeysCard == {"poll", "delete", "form"}
DashboardPage == {"agents", "incidents", "channels", "status"}

Cards == Tables \cup {"authkeys", "dashboard"}
ASSUME ConsoleAssumption == MaxClicks \in [Cards -> Nat]

Features(c) ==
    CASE c = "agents" -> AgentsPage
      [] c = "enrollment" -> AddAgentDialog
      [] c = "deployments" -> DeployTokenSection
      [] c = "releases" -> ReleasesCard
      [] c = "signkeys" -> SigningKeysCard
      [] c = "certs" -> CodeSigningCard
      [] c = "tokens" -> TokensPage \cup CreateTokenDialog
      [] c = "incidents" -> IncidentsPage
      [] c = "channels" -> ChannelsPage
      [] c = "authkeys" -> ApiKeysCard
      [] c = "dashboard" -> {"poll"}
Has(f) == f \in Features(card)
Reads(c) == IF c = "dashboard" THEN DashboardPage ELSE {c}

\* What useState starts with. With a confirmation that is asked for and with a
\* draft goes, as history, what it was asked or typed for. One draft is followed
\* at a time: what is written, the row, and whether it is the sensors' editor of
\* an agent.
Blank == [list |-> <<>>, sel |-> {}, confirm |-> {}, armed |-> {}, busy |-> {},
          opened |-> None, detail |-> <<>>, draft |-> <<>>, confirming |-> None,
          fresh |-> None, filter |-> "all"]

\* The rows the card shows
Listing == IF card \in DOMAIN ui.list THEN ui.list[card] ELSE <<>>
Unacked == {i \in DOMAIN Listing : Listing[i].state = 1}
\* those whose boxes can be ticked, and those "select all" ticks
Visible ==
    CASE card = "tokens" -> IF ui.filter = "open" THEN Unacked ELSE DOMAIN Listing
      [] card = "incidents" -> Unacked
      [] OTHER -> DOMAIN Listing
\* The row an open drawer, editor or dialog is about: what it works with. The
\* tokens' drawer fetches it, the agents' finds it in the list, the channels'
\* dialog keeps the row that was clicked.
Shown ==
    CASE card \in {"tokens", "channels"} -> DOMAIN ui.detail
      [] card \in {"agents", "incidents"} -> {ui.opened} \cap DOMAIN Listing
      [] OTHER -> {}
Row(i) == IF card \in {"tokens", "channels"} THEN ui.detail[i] ELSE Listing[i]

TypeOK ==
    /\ env \subseteq {"admin", "internal"} /\ keys \subseteq Keys
    /\ DOMAIN db = Tables /\ \A t \in Tables : db[t] \in Rows(t)
    /\ used \subseteq Ids \cup Keys /\ keys \subseteq used
    /\ fetched \subseteq Ids /\ others \in 0 .. MaxOthers
    /\ stored \in Keys \cup {Admin, Junk, None} /\ gate \in BOOLEAN /\ card \in Cards
    /\ refused \in Keys \cup {Admin, Junk, None} /\ known \subseteq Keys /\ clicks \in Nat
    /\ DOMAIN ui = DOMAIN Blank
    /\ ui.sel \subseteq Ids /\ ui.busy \subseteq {"card", "bulk", "drawer", "form", "use"} \cup Ids \cup Slots
    /\ ui.armed \subseteq DOMAIN Listing
    /\ ui.fresh \in Keys \cup {None}
    /\ \A s \in Slots : calls[s].op # "none" /\ calls[s].live /\ gate => calls[s].op = "login"

(* Requests *)

Free(s) == calls[s].op = "none"
\* A request takes the first slot that is free.
Room == \E s \in Slots : Free(s)
Slot == CHOOSE s \in Slots : Free(s)
SendOn(s, c) == calls' = [calls EXCEPT ![s] = c]
\* api.ts request, and the api object's calls
request(op, ids) == [Call(op, card, ids, stored) EXCEPT !.opened = ui.opened]
ListCall(c, filter) == [Call("list", c, Reads(c), stored) EXCEPT !.filter = filter]
reload(s) == SendOn(s, ListCall(card, ui.filter))
Dead == [s \in Slots |-> IF Free(s) THEN NoCall ELSE [calls[s] EXCEPT !.live = FALSE]]

\* Mutant: a page that has its rows is not refreshed.
usePoll_Once ==
    /\ ~gate /\ Has("poll") /\ ui.list = <<>> /\ \A s \in Slots : calls[s].op # "list"
    /\ Room /\ reload(Slot)
    /\ UNCHANGED <<apiVars, stored, gate, refused, card, ui, known, clicks>>

\* Bound: one poll at a time.
usePoll ==
    /\ ~gate /\ \A s \in Slots : calls[s].op # "list"
    /\ \/ Has("poll")
       \/ card = "deployments" /\ Unacked # {}
    /\ Room /\ reload(Slot)
    /\ UNCHANGED <<apiVars, stored, gate, refused, card, ui, known, clicks>>

(* The operator *)

\* A sheet or dialog over the page
Modal ==
    CASE card = "agents" -> Shown # {}
      [] card \in {"tokens", "channels"} -> ui.opened # None
      [] OTHER -> FALSE
Clicks == ~gate /\ clicks > 0 /\ clicks' = clicks - 1
Local == Clicks /\ UNCHANGED <<apiVars, calls, stored, gate, refused, card, known>>
Request(c) ==
    /\ Clicks /\ Room /\ SendOn(Slot, c)
    /\ UNCHANGED <<apiVars, stored, gate, refused, card, known>>

\* setBusy: the three cards of the releases have one flag each, a channel's row
\* has its own.
Flag(f) == IF Has("oneFlag") THEN "card" ELSE f
RowFlag(i) == IF card = "certs" THEN "card" ELSE IF card = "channels" THEN i ELSE "none"
Begin(f) == [ui EXCEPT !.busy = @ \cup ({f} \ {"none"})]
Send(f, op, ids, by) == [request(op, ids) EXCEPT !.by = by, !.flag = f]

\* Bound: one click on the next page.
Navigate(c) ==
    /\ ~gate /\ clicks > 0 /\ clicks' = IF clicks > 1 THEN 1 ELSE 0
    /\ c \in Visited \ {card} /\ ~Modal
    /\ card' = c /\ ui' = Blank
    /\ known' = known \cup ({ui.fresh} \cap Keys)
    /\ Room /\ calls' = [Dead EXCEPT ![Slot] = ListCall(c, "all")]
    /\ UNCHANGED <<apiVars, stored, gate, refused>>

SetFilter(f) ==
    /\ card \in {"tokens", "incidents"} /\ ~Modal /\ f # ui.filter
    /\ ui' = [ui EXCEPT !.filter = f]
    /\ IF card = "tokens" THEN Local ELSE Request(ListCall(card, f))

\* Mutant: a confirmation outlives a change of the selection.
Toggle_KeepsConfirm(i) ==
    /\ Has("select") /\ ~Modal /\ i \in Visible
    /\ ui' = [ui EXCEPT !.sel = IF i \in @ THEN @ \ {i} ELSE @ \cup {i}]
    /\ Local

Toggle(i) ==
    /\ Has("select") /\ ~Modal /\ i \in Visible
    /\ ui' = [ui EXCEPT !.confirm = {}, !.sel = IF i \in @ THEN @ \ {i} ELSE @ \cup {i}]
    /\ Local

ToggleAll ==
    /\ Has("select") /\ ~Modal /\ Visible # {}
    /\ ui' = [ui EXCEPT !.confirm = {}, !.sel = IF Visible \subseteq @ THEN {} ELSE Visible]
    /\ Local

\* The tokens page leaves the confirmation as it is.
Clear ==
    /\ Has("deleteMany") /\ ~Modal /\ ui.sel # {}
    /\ ui' = [ui EXCEPT !.sel = {}, !.confirm = IF card = "tokens" THEN @ ELSE {}]
    /\ Local

SelectionBar ==
    /\ Has("confirm") /\ ~Modal /\ ui.sel # {} /\ ui.confirm = {}
    /\ ui' = [ui EXCEPT !.confirm = ui.sel]
    /\ Local

Cancel ==
    /\ ui.confirm # {} /\ ui.sel # {} /\ ~Modal
    /\ ui' = [ui EXCEPT !.confirm = {}]
    /\ Local

deleteMany ==
    /\ Has("deleteMany") /\ ~Modal /\ ui.sel # {}
    /\ Has("confirm") => ui.confirm # {}
    /\ Flag("bulk") \notin ui.busy
    /\ ui' = Begin(Flag("bulk")) /\ Request(Send(Flag("bulk"), "delete", ui.sel, "bulk"))

\* "revoke selected" of the tokens, and bulkAck, which is never busy
BulkSaves ==
    /\ Has("saveMany") /\ ~Modal /\ ui.sel # {} /\ "bulk" \notin ui.busy
    /\ LET f == IF card = "tokens" THEN "bulk" ELSE "none"
       IN  ui' = Begin(f) /\ Request([Send(f, "save", ui.sel, "bulk") EXCEPT !.field = "state"])

\* The editors of sensors and of notes are components of their own and busy with
\* their own request, by its slot: a new one is not.
Sensors == card = "agents" /\ ui.draft # <<>> /\ ui.draft[3] = "sensors"
Busy == IF Sensors \/ card = "incidents" THEN ui.busy \cap Slots ELSE ui.busy \cap {"drawer"}
Unmounted(u) == [u EXCEPT !.draft = <<>>, !.busy = @ \ Slots]

\* A row's ConfirmButton: the first click arms it, for four seconds.
Arm(i) ==
    /\ i \notin ui.armed /\ RowFlag(i) \notin ui.busy
    /\ \/ Has("delete") /\ ~Modal /\ i \in DOMAIN Listing
       \/ i \in Shown /\ Sensors /\ ui.draft[1] = 0 /\ Busy = {}
    /\ ui' = [ui EXCEPT !.armed = @ \cup {i}]
    /\ Local

Lapse(i) ==
    /\ ~gate /\ i \in ui.armed
    /\ ui' = [ui EXCEPT !.armed = @ \ {i}]
    /\ UNCHANGED <<apiVars, calls, stored, gate, refused, card, known, clicks>>

\* Only the certificates' card is busy meanwhile.
ConfirmButton(i) ==
    /\ Has("delete") /\ ~Modal /\ i \in ui.armed /\ RowFlag(i) \notin ui.busy
    /\ LET f == IF card = "certs" THEN "card" ELSE "none"
       IN  /\ ui' = [Begin(f) EXCEPT !.armed = @ \ {i}]
           /\ Request(Send(f, "delete", {i}, "row"))

\* The ack of an incident, the switch of a channel
RowSaves(i) ==
    /\ Has("save") /\ ~Modal /\ i \in DOMAIN Listing /\ RowFlag(i) \notin ui.busy
    /\ card = "incidents" => Listing[i].state = 1
    /\ ui' = Begin(RowFlag(i))
    /\ Request([Send(RowFlag(i), "save", {i}, "row") EXCEPT
            !.field = "state", !.val = IF Listing[i].state = 0 THEN 1 ELSE 0])

\* To sign the releases with a key or a certificate, to test a channel
RowUses(i) ==
    /\ Has("use") /\ ~Modal /\ i \in DOMAIN Listing
    /\ LET f == IF card = "channels" THEN i ELSE "card"
       IN  f \notin ui.busy /\ ui' = Begin(f) /\ Request(Send(f, "use", {i}, "row"))

\* Creating, building, generating, uploading and deploying
create ==
    /\ Has("form") /\ ~Modal /\ Flag("form") \notin ui.busy
    /\ ui' = Begin(Flag("form")) /\ Request(Send(Flag("form"), "create", {None}, "page"))

\* The box of a new key is left with "done", and the key copied.
CopyKey ==
    /\ Clicks /\ ui.fresh # None
    /\ ui' = [ui EXCEPT !.fresh = None] /\ known' = known \cup {ui.fresh}
    /\ UNCHANGED <<apiVars, calls, stored, gate, refused, card>>

(* Drawers, editors and dialogs *)

\* Mutant: the sensor editor is not seeded again.
AgentEffect_KeepsDraft(u) ==
    IF card = "agents" THEN [u EXCEPT !.confirming = None, !.armed = {}] ELSE u

\* What the effects on [agent] reset when the row is another object: on opening,
\* on closing, and at every answer of a poll.
AgentEffect(u) ==
    IF card = "agents" THEN Unmounted([u EXCEPT !.confirming = None, !.armed = {}]) ELSE u

\* The tokens' drawer forgets the detail, but keeps the memo until the answer.
Open(i) ==
    /\ Has("edit") /\ ~Modal /\ i # ui.opened
    /\ i \in DOMAIN Listing /\ RowFlag(i) \notin ui.busy
    /\ ui' = AgentEffect([ui EXCEPT
            !.opened = i, !.confirming = None,
            !.draft = IF card \in {"tokens", "agents"} THEN @ ELSE <<>>,
            !.busy = IF card = "incidents" THEN @ \ Slots ELSE @,
            !.detail = IF card = "channels" THEN [x \in {i} |-> Listing[i]] ELSE <<>>])
    /\ IF card = "tokens" THEN Request(request("get", {i})) ELSE Local

Close ==
    /\ ui.opened # None /\ (card = "agents" => Modal)
    /\ ui' = AgentEffect([ui EXCEPT
            !.opened = None, !.detail = <<>>, !.confirming = None,
            !.draft = IF card \in {"tokens", "agents"} THEN @ ELSE <<>>,
            !.busy = IF card = "incidents" THEN @ \ Slots ELSE @])
    /\ Local

Type(i) ==
    /\ i \in Shown /\ ui.draft = <<>>
    /\ ui' = [ui EXCEPT !.draft = <<1 - Row(i).memo, i, "memo">>]
    /\ Local

\* The sensors of an agent, which can be left as they are; 0 is that there are none.
EditSensors(i) ==
    /\ card = "agents" /\ i \in Shown /\ ui.draft = <<>>
    /\ \E v \in 0 .. 1 : ui' = [ui EXCEPT !.draft = <<v, i, "sensors">>]
    /\ Local

\* Saving a memo, notes or a configuration
Save(i) ==
    /\ i \in Shown /\ ui.draft # <<>> /\ ~Sensors /\ ui.draft[1] # Row(i).memo
    /\ Busy = {} /\ Room
    /\ LET f == IF card = "incidents" THEN Slot ELSE "drawer"
       IN  /\ ui' = Begin(f)
           /\ Request([Send(f, "save", {i}, "editor") EXCEPT !.val = ui.draft[1]])

\* SensorEditor's save; no sensors at all are saved with a ConfirmButton.
SaveSensors(i) ==
    /\ i \in Shown /\ Sensors /\ Busy = {} /\ Room
    /\ ui.draft[1] = 0 => i \in ui.armed
    /\ ui' = [Begin(Slot) EXCEPT !.armed = {}]
    /\ Request([Send(Slot, "save", {i}, "sensors") EXCEPT !.val = ui.draft[1]])

\* pause, resume and revoke in the tokens' drawer
SetStatus(i) ==
    /\ card = "tokens" /\ i \in Shown /\ "drawer" \notin ui.busy
    /\ ui' = Begin("drawer")
    /\ Request([Send("drawer", "save", {i}, "drawer") EXCEPT
            !.field = "state", !.val = 1 - Row(i).state])

\* The cards in the tokens' drawer: to clone a page again, to upload an image
DrawerUses(i) ==
    /\ card = "tokens" /\ i \in Shown /\ "use" \notin ui.busy
    /\ ui' = Begin("use") /\ Request(Send("use", "use", {i}, "drawer"))

AskDelete(i) ==
    /\ card \in {"agents", "tokens"} /\ i \in Shown /\ ui.confirming = None
    /\ ui' = [ui EXCEPT !.confirming = i]
    /\ Local

CancelDelete ==
    /\ ui.confirming # None /\ Shown # {}
    /\ ui' = [ui EXCEPT !.confirming = None]
    /\ Local

ConfirmDelete(i) ==
    /\ ui.confirming # None /\ i \in Shown /\ "drawer" \notin ui.busy
    /\ ui' = Begin("drawer") /\ Request(Send("drawer", "delete", {i}, "drawer"))

\* A binary, an artifact or an image: fetched past request, so a 401 is only
\* an error.
downloadFile(i) ==
    /\ \/ card = "releases" /\ i \in DOMAIN Listing
       \/ card = "tokens" /\ i \in Shown
    /\ ui' = ui /\ Request(request("file", {i}))

(* Signing in and out *)

logout ==
    /\ Clicks /\ stored # None /\ ~Modal
    /\ stored' = None /\ gate' = TRUE /\ refused' = None /\ ui' = Blank /\ calls' = Dead
    /\ known' = known \cup ({stored, ui.fresh} \cap Keys)
    /\ UNCHANGED <<apiVars, card>>

LoginView(k) ==
    /\ gate /\ clicks > 0 /\ clicks' = clicks - 1
    /\ k \in known \cup {Junk} \cup {a \in {Admin} : "admin" \in env}
    /\ \A s \in Slots : calls[s].op # "login"
    /\ Room /\ SendOn(Slot, Call("login", card, {None}, k))
    /\ UNCHANGED <<apiVars, stored, gate, refused, card, ui, known>>

(* Answers *)

Drop(s) == calls' = [calls EXCEPT ![s] = NoCall]
Quiet == UNCHANGED <<apiVars, stored, gate, refused, card, known, clicks>>
Refused(s) == calls[s].res = "401" /\ calls[s].op # "file"

\* Mutant: the pages stay mounted behind the gate.
Unauthorized_KeepsPages(s) ==
    /\ Answered(s) /\ Refused(s)
    /\ gate' = TRUE /\ refused' = calls[s].key /\ Drop(s)
    /\ UNCHANGED <<apiVars, stored, card, ui, known, clicks>>

\* unauthorizedHandler, whoever sent the request and whenever
Unauthorized(s) ==
    /\ Answered(s) /\ Refused(s)
    /\ gate' = TRUE
    /\ IF gate THEN Drop(s) /\ UNCHANGED <<ui, refused>>
               ELSE calls' = [Dead EXCEPT ![s] = NoCall] /\ ui' = Blank /\ refused' = calls[s].key
    /\ UNCHANGED <<apiVars, stored, card, known, clicks>>

LoggedIn(s) ==
    /\ Answered(s) /\ calls[s].op = "login" /\ calls[s].res = "ok"
    /\ stored' = calls[s].key /\ gate' = FALSE /\ refused' = None /\ ui' = Blank
    /\ calls' = [calls EXCEPT ![s] = [ListCall(card, "all") EXCEPT !.key = stored']]
    /\ UNCHANGED <<apiVars, card, known, clicks>>

\* setApiKey(k.key) comes first, and does not need the component.
adopt(s) ==
    stored' = IF calls[s].op = "create" /\ calls[s].card = "authkeys"
                 /\ calls[s].res = "ok" /\ stored = None
              THEN CHOOSE k \in calls[s].ids : TRUE ELSE stored

\* Nothing happens to a component that is gone; a toast says what went wrong.
Ignored(s) ==
    /\ Answered(s) /\ ~Refused(s)
    /\ calls[s].live => calls[s].op = "file" \/ (calls[s].op = "login" /\ calls[s].res = "err")
    /\ adopt(s) /\ Drop(s)
    /\ UNCHANGED <<apiVars, gate, refused, card, ui, known, clicks>>

Arrived(s, op) == Answered(s) /\ ~Refused(s) /\ calls[s].live /\ calls[s].op = op

\* setData: in the order of the answers
ListArrives(s) ==
    /\ Arrived(s, "list") /\ calls[s].res = "ok"
    /\ LET ids == DOMAIN (IF card \in DOMAIN calls[s].data THEN calls[s].data[card] ELSE <<>>)
           u == AgentEffect([ui EXCEPT !.list = calls[s].data, !.armed = @ \cap ids])
       IN  ui' = IF card = "incidents" /\ ui.opened \notin ids THEN Unmounted(u) ELSE u
    /\ Drop(s) /\ Quiet

\* Three cards then show no rows, the others those they have.
ListFails(s) ==
    /\ Arrived(s, "list") /\ calls[s].res = "err"
    /\ ui' = IF card \in {"enrollment", "signkeys", "certs"}
             THEN [ui EXCEPT !.list = <<>>, !.armed = {}] ELSE ui
    /\ Drop(s) /\ Quiet

DetailArrives(s) ==
    /\ Arrived(s, "get")
    /\ ui' = IF calls[s].res = "ok"
             THEN [ui EXCEPT !.draft = <<>>,
                             !.detail = [x \in calls[s].ids |-> calls[s].data]]
             ELSE [ui EXCEPT !.detail = <<>>]
    /\ Drop(s) /\ Quiet

Created(s) ==
    /\ Arrived(s, "create") /\ calls[s].res = "ok"
    /\ ui' = [ui EXCEPT !.busy = @ \ {calls[s].flag},
                        !.fresh = IF card = "authkeys" THEN CHOOSE k \in calls[s].ids : TRUE ELSE @]
    /\ adopt(s)
    /\ calls' = [calls EXCEPT ![s] = [ListCall(card, ui.filter) EXCEPT !.key = stored']]
    /\ UNCHANGED <<apiVars, gate, refused, card, known, clicks>>

CreateFails(s) ==
    /\ Arrived(s, "create") /\ calls[s].res = "err"
    /\ ui' = [ui EXCEPT !.busy = @ \ {calls[s].flag}]
    /\ Drop(s) /\ Quiet

Finished(s, by) == Answered(s) /\ ~Refused(s) /\ calls[s].live /\ calls[s].by \in by

RowDone(s) ==
    /\ Finished(s, {"row"})
    /\ ui' = [ui EXCEPT !.busy = @ \ {calls[s].flag}]
    /\ IF calls[s].res = "ok" /\ calls[s].op # "use" THEN reload(s) ELSE Drop(s)
    /\ Quiet

\* deleteMany settles whatever becomes of its requests; the one request for
\* tokens or incidents that fails leaves the selection and the confirmation.
BulkDone(s) ==
    /\ Finished(s, {"bulk"}) /\ (calls[s].res = "ok" \/ card \notin {"tokens", "incidents"})
    /\ ui' = [ui EXCEPT !.busy = @ \ {calls[s].flag}, !.sel = {}, !.confirm = {}]
    /\ reload(s) /\ Quiet

BulkFails(s) ==
    /\ Finished(s, {"bulk"}) /\ calls[s].res = "err" /\ card \in {"tokens", "incidents"}
    /\ ui' = [ui EXCEPT !.busy = @ \ {calls[s].flag}]
    /\ Drop(s) /\ Quiet

\* act: onClose() if the row is gone, then refresh() and onChanged(); the
\* refresh asks for the token that was open when the operator clicked. Saved
\* sensors close the editor that is open then.
DrawerDone(s) ==
    /\ Finished(s, {"editor", "sensors", "drawer"})
    /\ LET ok == calls[s].res = "ok"
           gone == ok /\ (calls[s].op = "delete" \/ card = "channels")
           closes == gone \/ (ok /\ Sensors /\ calls[s].by = "sensors")
       IN  /\ ui' = [ui EXCEPT
                !.busy = (@ \ {calls[s].flag}) \ (IF closes THEN Slots ELSE {}),
                !.opened = IF gone THEN None ELSE @,
                !.confirming = IF gone THEN None ELSE @,
                !.detail = IF gone THEN <<>> ELSE @,
                !.draft = IF closes THEN <<>> ELSE @]
           /\ IF ~ok THEN Drop(s)
              ELSE IF card # "tokens" THEN reload(s)
              ELSE \E r \in Slots \ {s} : Free(r) /\
                    calls' = [calls EXCEPT ![s] = ListCall(card, ui.filter),
                                           ![r] = request("get", {calls[s].opened})]
    /\ Quiet

Answer(s) ==
    \/ Unauthorized(s) \/ LoggedIn(s) \/ Ignored(s) \/ ListArrives(s) \/ DetailArrives(s)
    \/ ListFails(s) \/ Created(s) \/ CreateFails(s) \/ RowDone(s) \/ BulkDone(s) \/ BulkFails(s)
    \/ DrawerDone(s)

(* The system *)

Init ==
    /\ env \in SUBSET {"admin", "internal"}
    /\ keys \in {{}, {FirstKey}} /\ stored \in {None, FirstKey}
    /\ card \in Cards
    /\ card # "authkeys" => env = {} /\ keys = {FirstKey} /\ stored = FirstKey
    /\ db = [t \in Tables |-> [i \in Initial |-> New(t)]]
    /\ used = Initial \cup {FirstKey}
    /\ fetched = {} /\ others = 0
    /\ gate = FALSE /\ refused = None /\ ui = Blank /\ known = keys /\ clicks = MaxClicks[card]
    /\ \E s \in Slots : calls = [r \in Slots |-> IF r = s THEN ListCall(card, "all") ELSE NoCall]

Operate ==
    \/ \E c \in Cards : Navigate(c)
    \/ \E f \in {"all", "open"} : SetFilter(f)
    \/ ToggleAll \/ Clear \/ SelectionBar \/ Cancel \/ deleteMany \/ BulkSaves
    \/ create \/ CopyKey \/ Close \/ CancelDelete \/ logout
    \/ \E i \in Ids \cup Keys :
        \/ Toggle(i) \/ Arm(i) \/ Lapse(i) \/ ConfirmButton(i) \/ RowSaves(i) \/ RowUses(i)
        \/ Open(i) \/ Type(i) \/ EditSensors(i) \/ Save(i) \/ SaveSensors(i) \/ SetStatus(i) \/ DrawerUses(i)
        \/ AskDelete(i) \/ ConfirmDelete(i) \/ downloadFile(i)
    \/ \E k \in Keys \cup {Admin, Junk} : LoginView(k)

\* What the card reads is what is followed of the rows.
Others ==
    /\ \/ \E t \in Reads(card) \cap Tables : RowComes(t) \/ RowGoes(t) \/ RowChanges(t)
       \/ KeyGoes
       \/ card = "enrollment" /\ \E i \in Ids : Download(i) \/ consumeEnrollmentToken(i)
    /\ UNCHANGED <<stored, gate, refused, card, ui, clicks, known>>

\* A colleague makes a key and copies it.
Colleague ==
    /\ card = "authkeys" /\ KeyComes
    /\ known' = known \cup keys'
    /\ UNCHANGED <<stored, gate, refused, card, ui, clicks>>

Network == \E s \in Slots :
    \/ (Serve(s) \/ Fails(s)) /\ UNCHANGED <<stored, gate, refused, card, ui, known, clicks>>
    \/ Answer(s)

Next == Operate \/ Others \/ Colleague \/ usePoll \/ Network

Spec == Init /\ [][Next]_vars /\ WF_vars(usePoll)
    /\ \A s \in Slots :
        WF_vars(Serve(s) /\ UNCHANGED <<stored, gate, refused, card, ui, known, clicks>>)
            /\ WF_vars(Answer(s))

(***************************************************************************)
(* Properties                                                              *)
(***************************************************************************)

\* Nothing is deleted for good but what the operator was asked to confirm: the
\* rows of a bulk deletion were the ticked ones when its confirmation was asked
\* for (SelectionBar, TokensPage), and the agent that is retired in the drawer
\* was the one its confirmation was about (AgentDrawer), however polls, answers
\* and clicks fall in between.
Sent(s, op) == Free(s) /\ calls'[s].op = op
ActsOnArmed == [][\A s \in Slots : Sent(s, "delete") =>
    /\ calls'[s].by = "bulk" /\ Has("confirm") => calls'[s].ids = ui.confirm
    /\ calls'[s].by = "drawer" /\ card = "agents" => calls'[s].ids = {ui.confirming}]_vars

\* What was typed for one agent, token, incident or channel is never saved to
\* another one (the effects that seed and reset the editors).
DraftTrue == [][\A s \in Slots : Sent(s, "save") /\ calls'[s].by \in {"editor", "sensors"} =>
    calls'[s].ids = {ui.draft[2]}]_vars

\* "Fetch on mount and every intervalMs. 401s are handled globally" (use-poll.ts):
\* once people leave it alone, a page that polls shows what the API has; old
\* answers that come late are corrected by the next poll, and no deployment stays
\* pending on the screen. Or it is the login gate, because the key in localStorage
\* is not valid (if it is by now, the API was opened to everybody). One gate more
\* is allowed, as the code raises it: the refusal of an older key that comes after
\* another key was taken (App.tsx:19, api.ts:196-199) keeps the page out, although
\* its key is valid, until people log in again.
Fresh(t) == t \in DOMAIN ui.list /\ ui.list[t] = Listed(t, ui.filter)
GateTrue == ~Console(stored) \/ isOpenMode \/ refused # stored
Settles == <>[](\/ gate /\ GateTrue
                \/ Has("poll") /\ Console(stored) /\ \A t \in Reads(card) : Fresh(t)
                \/ card = "deployments"
                    /\ \A i \in Unacked : i \in DOMAIN db[card] /\ db[card][i].state = 1
                \/ ~Has("poll") /\ card # "deployments")

\* "Clear first: without this the drawer renders the previously opened token's
\* data until the new fetch resolves" (tokens.tsx:541): the drawer shows the token
\* it was opened for.
DrawerShows == card = "tokens" /\ ui.opened # None => Shown \subseteq {ui.opened}

\* "adopt it as the session key or every follow-up call 401s and the show-once box
\* is lost" (settings.tsx:69): where keys are the only way in, somebody has one.
OnItsWay == UNION {calls[s].ids \cap Keys : s \in {r \in Slots :
                calls[r].op = "create" /\ Answered(r)}}
SomebodyIn == keys # {} /\ "admin" \notin env =>
    keys \cap (known \cup OnItsWay \cup {stored, ui.fresh}) # {}
=============================================================================
