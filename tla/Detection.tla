----------------------------- MODULE Detection -----------------------------
(***************************************************************************)
(* From what an intruder does to an incident: the listeners of the gateway *)
(* (apps/gateway/src: HTTP, DNS, SMTP) and the sensors of an agent on one  *)
(* side, POST /incidents of the console API (routes/tokens.ts) on the other,*)
(* and between them reports that are sent once, arrive in any order and may *)
(* be lost, while tokens are revoked and deleted.                          *)
(***************************************************************************)
EXTENDS TriggerRules, SmtpSession

CONSTANTS
    Types,      \* the types a token may get
    Hosts,      \* hosts under a base domain that queries name
    Requests,   \* what HTTP requests ask for: host, segment, action, tail
    StatusEdits,\* those an operator sets
    SensorTypes,\* the types of the tokens that sensors are configured with
    AlertOnGet, \* how http_login is configured
    Uploaded,   \* the API has the page or image of a token
    MaxRequests,\* bound: requests and queries
    MaxEvents,  \* bound: events and sensor reports
    MaxWork     \* bound: requests, connections, touches and administration

ASSUME DetectionAssumption ==
    /\ Mailboxes \subseteq Tokens \cup {Other}
    /\ Types \in [Tokens -> SUBSET TypeIds]
    /\ Hosts \subseteq Seq(Tokens \cup {Other})
    /\ Requests \subseteq Hosts \X (Tokens \cup {Other}) \X Actions \X Tails
    /\ StatusEdits \subseteq {"active", "paused", "revoked"}
    /\ SensorTypes \subseteq TypeIds /\ AlertOnGet \in BOOLEAN /\ Uploaded \in BOOLEAN
    /\ MaxRequests \in Nat /\ MaxEvents \in Nat /\ MaxWork \in Nat

Sensor == INSTANCE SensorSessions

VARIABLES
    status,     \* of each token; unused: not minted yet
    typeOf,
    flight,     \* reports on the way to the API
    incidents,  \* rows, by their ids
    filed,      \* rows inserted so far; their ids
    uses,       \* history: planted artifacts of active tokens that were used, and
                \* did not come to an end yet
    n,          \* events so far; they are numbered
    smtp,
    conn,       \* the connection to a sensor
    connToken,  \* the sensor's token
    watch,
    requests,
    work

tokenVars == <<status, typeOf>>
apiVars == <<flight, incidents, filed>>
sensorVars == <<conn, connToken, watch>>
vars == <<tokenVars, apiVars, uses, n, smtp, sensorVars, requests, work>>

AgentEvent == [kind |-> "agent"]
Severities == {"medium", "high"}
Sources == {"gateway", "connection", "file watch"}

TypeOK ==
    /\ status \in [Tokens -> {"unused", "active", "paused", "revoked", "deleted"}]
    /\ typeOf \in [Tokens -> TypeIds \cup {"none"}]
    /\ \A f \in flight : f.tok \in Tokens \cup {Other} /\ f.no \in 1..n /\ f.sev \in Severities
          /\ f.from \in Sources
    /\ filed \in Nat
    /\ incidents \subseteq [id : 1..filed, tok : Tokens, no : 1..n, sev : Severities, agent : BOOLEAN]
    /\ uses \subseteq [tok : Tokens, no : 1..n, served : BOOLEAN]
    /\ n \in 0..MaxEvents
    /\ smtp \in Session
    /\ conn \in Sensor!Session
    /\ connToken \in Tokens \cup {Other}
    /\ watch \in Sensor!Watch(MaxWork)
    /\ requests \in 0..MaxRequests /\ work \in 0..MaxWork

Init ==
    /\ status = [t \in Tokens |-> "unused"]
    /\ typeOf = [t \in Tokens |-> "none"]
    /\ flight = {} /\ incidents = {} /\ filed = 0 /\ uses = {}
    /\ n = 0
    /\ smtp = Closed
    /\ conn = Sensor!End(Sensor!Accepted("ssh")) /\ connToken = Other
    /\ watch = Sensor!Watching
    /\ requests = 0 /\ work = 0

Worked == work < MaxWork /\ work' = work + 1
Works == Worked /\ UNCHANGED requests

-----------------------------------------------------------------------------
(* Tokens, as far as detection depends on them (TokenLifecycle has the rest).*)

Create(t, k) ==
    /\ status[t] = "unused"
    /\ status' = [status EXCEPT ![t] = "active"]
    /\ typeOf' = [typeOf EXCEPT ![t] = k]
    /\ UNCHANGED <<apiVars, uses, n, smtp, sensorVars, requests, work>>

Exists(t) == status[t] \in {"active", "paused", "revoked"}

SetStatus(t, s) ==
    /\ Works
    /\ Exists(t)
    /\ status' = [status EXCEPT ![t] = s]
    /\ UNCHANGED <<typeOf, apiVars, uses, n, smtp, sensorVars>>

\* The incidents of the token go with it.
HardDelete(t) ==
    /\ Works
    /\ Exists(t)
    /\ status' = [status EXCEPT ![t] = "deleted"]
    /\ incidents' = {i \in incidents : i.tok # t}
    /\ UNCHANGED <<typeOf, flight, filed, uses, n, smtp, sensorVars>>

-----------------------------------------------------------------------------
(* The gateway.  An event is handed on without waiting.                    *)

Reports(es, first) ==
    UNION {{[tok |-> f.tok, sev |-> f.sev, no |-> first + i, ev |-> es[i], from |-> "gateway"] :
               f \in Forwards(es[i])} : i \in DOMAIN es}

\* Whether the request is answered with more than a plain 404.
Answered(e) ==
    /\ e.kind = "http" => Served(e)
    /\ e.kind = "http" /\ e.action \in {"image", "site"} => Uploaded

Uses(es, first) ==
    UNION {{[tok |-> t, no |-> first + i, served |-> Answered(es[i])] :
               t \in {u \in Tokens : status[u] = "active"
                                  /\ PlantedUse(getTokenType(typeOf[u]), es[i], u)}} :
           i \in DOMAIN es}

\* The bound leaves room for the two reports of a probe.
Reserved ==
    IF conn.proto \in Sensor!Probes THEN 2 - Cardinality({e \in Sensor!Events : conn.told[e] > 0})
    ELSE 0

\* The events es happen, in this order.
Emits(es) ==
    /\ n + Len(es) + Reserved <= MaxEvents
    /\ n' = n + Len(es)
    /\ flight' = flight \cup Reports(es, n)
    /\ uses' = uses \cup Uses(es, n)
    /\ UNCHANGED <<incidents, filed>>

Asked == Worked /\ requests < MaxRequests /\ requests' = requests + 1

\* A request under a base domain; others are answered 421 and are no event.
HttpRequest(host, segment, action, tail) ==
    /\ Asked
    /\ Emits(<<HttpEvent(host, segment, action, tail)>>)
    /\ UNCHANGED <<tokenVars, smtp, sensorVars>>

\* A query for a name under a base domain.
DnsQuery(host) ==
    /\ Asked
    /\ Emits(<<DnsEvent(host)>>)
    /\ UNCHANGED <<tokenVars, smtp, sensorVars>>

SmtpConnect ==
    /\ ~smtp.open
    /\ Works
    /\ smtp' = Greeted
    /\ UNCHANGED <<tokenVars, apiVars, uses, n, sensorVars>>

SmtpCommand ==
    /\ smtp.open /\ ~smtp.inData
    /\ smtp' \in Command(smtp)
    /\ UNCHANGED <<tokenVars, apiVars, uses, n, sensorVars, requests, work>>

SmtpDataLine ==
    /\ smtp.open /\ smtp.inData
    /\ smtp' = DataLine(smtp)
    /\ UNCHANGED <<tokenVars, apiVars, uses, n, sensorVars, requests, work>>

\* The line with a single dot: finishMessage.
SmtpDot ==
    /\ smtp.open /\ smtp.inData
    /\ Emits([i \in DOMAIN Recipients(smtp) |-> SmtpEvent(Recipients(smtp)[i])])
    /\ smtp' = finishMessage(smtp)
    /\ UNCHANGED <<tokenVars, sensorVars, requests, work>>

\* The client leaves, is silent for too long, or sends a line without an end.
SmtpDrop ==
    /\ smtp.open
    /\ smtp' = Closed
    /\ UNCHANGED <<tokenVars, apiVars, uses, n, sensorVars, requests, work>>

-----------------------------------------------------------------------------
(* Sensors.                                                                *)

\* A connection to a sensor whose set was saved when its token was active.
Connect(proto, t) ==
    /\ conn.stage = "closed" /\ ~conn.waiting
    /\ typeOf[t] \in SensorTypes
    /\ Works
    /\ proto \in Sensor!Probes => n + 2 <= MaxEvents
    /\ conn' = Sensor!Accepted(proto)
    /\ connToken' = t
    /\ UNCHANGED <<tokenVars, apiVars, uses, n, smtp, watch>>

\* A sensor reports for token t; nothing else decides whether it is a hit.
Send(t, sev, from) ==
    /\ n' = n + 1
    /\ flight' = flight \cup {[tok |-> t, sev |-> sev, no |-> n + 1, ev |-> AgentEvent, from |-> from]}
    /\ uses' = IF status[t] = "active"
               THEN uses \cup {[tok |-> t, no |-> n + 1, served |-> TRUE]} ELSE uses
    /\ UNCHANGED <<incidents, filed>>

SensorStep ==
    /\ conn.stage # "closed" /\ ~conn.waiting
    /\ \E s \in Sensor!Steps(conn, AlertOnGet) :
         /\ conn' = s.next
         /\ IF s.report = {} THEN UNCHANGED <<apiVars, uses, n>>
            ELSE \E r \in s.report :
                   /\ conn.proto \in Sensor!Probes \/ n < MaxEvents
                   /\ Send(connToken, r.sev, "connection")
    /\ UNCHANGED <<tokenVars, smtp, connToken, watch, requests, work>>

\* The handler of an RDP connection panics and takes the agent with it: the
\* service manager starts it again, and the watch begins anew.  Of the reports
\* that were under way nobody waits for the answer.
AgentPanics ==
    /\ ~conn.waiting /\ Sensor!Panics(conn)
    /\ conn' = Sensor!Settled(Sensor!End(conn))
    /\ watch' = Sensor!Baselined(watch)
    /\ UNCHANGED <<tokenVars, apiVars, uses, n, smtp, connToken, requests, work>>

Touch ==
    /\ Works
    /\ watch' = [watch EXCEPT !.now = @ + 1]
    /\ UNCHANGED <<tokenVars, apiVars, uses, n, smtp, conn, connToken>>

WatchPoll(t) ==
    /\ typeOf[t] \in SensorTypes
    /\ watch.now # watch.baseline
    /\ n + 1 + Reserved <= MaxEvents
    /\ watch' = Sensor!Poll(watch)
    /\ Send(t, "high", "file watch")
    /\ UNCHANGED <<tokenVars, smtp, conn, connToken, requests, work>>

-----------------------------------------------------------------------------
(* The API.                                                                *)

\* The report leaves the network; a sensor that waited for it goes on.
Ends(f) ==
    /\ flight' = flight \ {f}
    /\ conn' = IF f.from = "connection" THEN Sensor!Settled([conn EXCEPT !.waiting = FALSE]) ELSE conn

\* What was used has its incident, or may have none.
Done(f) == uses' = {u \in uses : u.tok # f.tok \/ u.no # f.no}

Incident(f, sev) ==
    /\ filed' = filed + 1
    /\ incidents' = incidents \cup {[id |-> filed', tok |-> f.tok, no |-> f.no, sev |-> sev,
                                    agent |-> f.from # "gateway"]}

\* Variant: the gateway's match is taken for the token's own.
Ingest_Trusts(f) == Incident(f, f.sev) /\ Done(f)

\* A report for an active token is an incident if it is an agent's, with the
\* severity it names, or if the token's own type matches the event, with the
\* severity of that type.
Ingest(f) ==
    LET d == getTokenType(typeOf[f.tok]) IN
    \/ f.from # "gateway" /\ Incident(f, f.sev) /\ Done(f)
    \/ f.from = "gateway" /\ matchTrigger(d, f.ev, f.tok) /\ Incident(f, d.severity) /\ Done(f)
    \/ f.from = "gateway" /\ ~matchTrigger(d, f.ev, f.tok) /\ UNCHANGED <<incidents, filed, uses>>

\* Variant: whatever the token's status.
Arrives_AnyStatus(f) ==
    /\ Ends(f)
    /\ IF f.tok \in Tokens /\ typeOf[f.tok] # "none" THEN Ingest(f)
       ELSE UNCHANGED <<incidents, filed>> /\ Done(f)
    /\ UNCHANGED <<tokenVars, n, smtp, connToken, watch, requests, work>>

\* POST /incidents.
Arrives(f) ==
    /\ Ends(f)
    /\ IF f.tok \in Tokens /\ status[f.tok] = "active" THEN Ingest(f)
       ELSE UNCHANGED <<incidents, filed>> /\ Done(f)
    /\ UNCHANGED <<tokenVars, n, smtp, connToken, watch, requests, work>>

\* The request fails, is refused or times out; nobody tries again.
Lost(f) ==
    /\ Ends(f)
    /\ Done(f)
    /\ UNCHANGED <<incidents, filed, tokenVars, n, smtp, connToken, watch, requests, work>>

ReportEnds == \E f \in flight : Arrives(f) \/ Lost(f)

-----------------------------------------------------------------------------

ApiNext ==
    \/ \E t \in Tokens : \E k \in Types[t] : Create(t, k)
    \/ \E t \in Tokens, s \in StatusEdits : SetStatus(t, s)
    \/ \E t \in Tokens : HardDelete(t)
    \/ ReportEnds

SmtpNext == SmtpConnect \/ SmtpCommand \/ SmtpDataLine \/ SmtpDot \/ SmtpDrop

GatewayNext ==
    \/ \E r \in Requests : HttpRequest(r[1], r[2], r[3], r[4])
    \/ \E h \in Hosts : DnsQuery(h)
    \/ SmtpNext

SensorNext ==
    \/ \E p \in Sensor!Protocols, t \in Tokens : Connect(p, t)
    \/ SensorStep
    \/ AgentPanics
    \/ Touch
    \/ \E t \in Tokens : WatchPoll(t)

Next == ApiNext \/ GatewayNext \/ SensorNext

\* Reads of a probe's connection have deadlines, and a sensor's report a
\* timeout.
Fairness ==
    /\ WF_vars(conn.proto \in Sensor!Probes /\ SensorStep)
    /\ WF_vars(ReportEnds)

Spec == Init /\ [][Next]_vars /\ Fairness

-----------------------------------------------------------------------------
(* Properties.                                                             *)

\* Whatever is planted for a token fires it: each use of it while the token is
\* active is answered as the artifact should be and, unless its one report is
\* lost or comes after the token was revoked, becomes an incident (generate and
\* matchTrigger of tokens-core, onEvent of the gateway, POST /incidents).
Detected ==
    \A u \in uses :
        /\ u.served \/ ~Uploaded
        /\ \E f \in flight : f.tok = u.tok /\ f.no = u.no

\* One event is at most one incident of a token, however often its id occurs in
\* it, and with the severity of the token's own type although the gateway knows
\* only the first type that matches (server.ts, POST /incidents).
OncePerEvent ==
    \A i, j \in incidents :
        /\ i.tok = j.tok /\ i.no = j.no => i = j
        /\ ~i.agent => i.sev = getTokenType(typeOf[i.tok]).severity

\* The envelope holds the recipients accepted for this message, none of an
\* earlier or aborted one, and no more than MAX_RCPT (smtp.ts).
EnvelopeTrue ==
    /\ smtp.rcptTo = smtp.due
    /\ Len(smtp.rcptTo) <= MAX_RCPT
    /\ smtp.inData => smtp.rcptTo # <<>>

\* Credentials are scored against the challenge that was last sent on their
\* connection, and against zeros only if none was (rdp_credssp.go, smb.go).
ScoredTrue == conn.stage \in {"setup", "failing"} => conn.chal = conn.issued

\* A connection to a probe is reported at most once for what it is, and at most
\* once for the credentials it gave away, after the other (smb.go, rdp.go).  So an
\* RDP connection that takes the CredSSP path is two reports, although the
\* comments of rdp.go (127-129, 145) speak of one incident per connection; the
\* sessions of ssh and of the login page report every command and login.  A
\* watched file is reported at most as often as it was touched (filewatch.go).
ReportedOnce ==
    /\ conn.proto \in Sensor!Probes =>
          /\ \A e \in Sensor!Events : conn.told[e] <= 1
          /\ conn.told["credentials"] > 0 =>
                \E e \in {"negotiate", "connection_request"} : conn.told[e] > 0
    /\ watch.told <= watch.now

\* No client holds a handler of SMB or RDP for ever: the deadlines and the limits
\* of rounds end every connection (tcpserver.go, smb.go, rdp_credssp.go), or the
\* agent ends with it (rdp.go:69).
ProbesEnd == conn.proto \in Sensor!Probes ~> conn.stage = "closed"

\* The tokens and their incidents behave as TokenLifecycle says: only an active
\* token gets an incident, and a deleted one has none.
Lifecycle == INSTANCE TokenLifecycle WITH
    Kinds <- {"redirect"}, Jobs <- {}, NoToken <- Other, MaxVersion <- 1,
    MaxIncidents <- MaxEvents, MaxCrashes <- 0,
    kind <- [t \in Tokens |-> IF typeOf[t] \in {"none", "honeypot"} THEN typeOf[t] ELSE "redirect"],
    file <- [t \in Tokens |-> 0], stamp <- [t \in Tokens |-> "none"],
    incidents <- [t \in Tokens |-> Cardinality({i \in incidents : i.tok = t})],
    target <- 1, jobOf <- [j \in {} |-> Other], jobPage <- [j \in {} |-> 0],
    torn <- {}, crashes <- 0

FollowsLifecycle == Lifecycle!TokenSpec
=============================================================================
