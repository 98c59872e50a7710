------------------------------- MODULE Alerts -------------------------------
(***************************************************************************)
(* Alert delivery of f0_deception: a recorded incident is dispatched to    *)
(* the enabled channels, throttled per (token, source) pair and cut off by *)
(* a circuit breaker per channel (apps/api/src/alerts/dispatcher.ts),      *)
(* while the operator edits the channels (apps/api/src/routes/alerts.ts).  *)
(*                                                                         *)
(* dispatch() runs to its first await in one step, with a snapshot of the  *)
(* channel rows; each delivery then settles in a step of its own, in any   *)
(* order and interleaved with other dispatches and with the operator.      *)
(***************************************************************************)
EXTENDS Naturals, FiniteSets

CONSTANTS
    Channels,      \* channel ids (an id is never used again)
    Pairs,         \* (token, source address) pairs
    Window,        \* length of the throttle window (60 s)
    MaxPerWindow,  \* maxAlertsPerMinute
    MaxFailures,   \* failures that trip the breaker (5 in the code)
    MaxAlerts,     \* bound: incidents dispatched
    MaxTime,       \* bound: the clock
    MaxEdits,      \* bound: operator actions on the channels
    MaxRestarts    \* bound: restarts of the API process

ASSUME AlertsAssumption ==
    /\ Window \in Nat \ {0} /\ MaxPerWindow \in Nat
    /\ MaxFailures \in Nat \ {0}
    /\ MaxAlerts \in Nat /\ MaxTime \in Nat
    /\ MaxEdits \in Nat /\ MaxRestarts \in Nat

VARIABLES
    chan,      \* the alert_channels rows
    throttle,  \* the Map of shouldAlert; count 0: no entry
    sends,     \* deliveries that have not settled, with the row they saw
    now,       \* Date.now()
    log,       \* history: the alerts dispatched since the process started
    streak,    \* history: failures in a row since a success or an edit
    racy,      \* history: channels whose deliveries overlapped a change
    alerts, edits, restarts   \* the bounds' counters

vars == <<chan, throttle, sends, now, log, streak, racy, alerts, edits, restarts>>

NoEntry == [count |-> 0, start |-> 0]
Alert   == [n : 1..MaxAlerts, pair : Pairs, at : 0..MaxTime,
            fate : {"sent", "dropped"}]
Send    == [alert : 1..MaxAlerts, chan : Channels, fails : Nat]

TypeOK ==
    /\ chan \in [Channels -> [st : {"new", "on", "off", "deleted"}, fails : Nat]]
    /\ throttle \in [Pairs -> [count : Nat, start : 0..MaxTime]]
    /\ sends \subseteq Send
    /\ now \in 0..MaxTime
    /\ log \subseteq Alert
    /\ streak \in [Channels -> Nat]
    /\ racy \subseteq Channels
    /\ alerts \in 0..MaxAlerts
    /\ edits \in 0..MaxEdits
    /\ restarts \in 0..MaxRestarts

Init ==
    /\ chan = [c \in Channels |-> [st |-> "new", fails |-> 0]]
    /\ throttle = [k \in Pairs |-> NoEntry]
    /\ sends = {}
    /\ now = 0
    /\ log = {}
    /\ streak = [c \in Channels |-> 0]
    /\ racy = {}
    /\ alerts = 0
    /\ edits = 0
    /\ restarts = 0

Enabled == {c \in Channels : chan[c].st = "on"}
Exists(c) == chan[c].st \in {"on", "off"}
InFlight(c) == \E s \in sends : s.chan = c

Tick ==
    /\ now < MaxTime
    /\ now' = now + 1
    /\ UNCHANGED <<chan, throttle, sends, log, streak, racy, alerts, edits, restarts>>

-----------------------------------------------------------------------------
(* The dispatcher.                                                         *)

\* Variant: a dropped alert prolongs the window.
Throttled_Extends(k) ==
    LET e == throttle[k] IN
    IF e.count = 0 \/ now - e.start >= Window
    THEN [fate |-> "sent", entry |-> [count |-> 1, start |-> now]]
    ELSE IF e.count < MaxPerWindow
    THEN [fate |-> "sent", entry |-> [count |-> e.count + 1, start |-> e.start]]
    ELSE [fate |-> "dropped", entry |-> [count |-> e.count, start |-> now]]

\* Variant: the entry holds the end of the window.
Throttled_Expiry(k) ==
    LET e == throttle[k] IN
    IF e.count = 0 \/ now >= e.start
    THEN [fate |-> "sent", entry |-> [count |-> 1, start |-> now + Window]]
    ELSE IF e.count < MaxPerWindow
    THEN [fate |-> "sent", entry |-> [count |-> e.count + 1, start |-> e.start]]
    ELSE [fate |-> "dropped", entry |-> e]

\* Variant: the window is one instant too short.
Throttled_Short(k) ==
    LET e == throttle[k] IN
    IF e.count = 0 \/ now - e.start >= Window - 1
    THEN [fate |-> "sent", entry |-> [count |-> 1, start |-> now]]
    ELSE IF e.count < MaxPerWindow
    THEN [fate |-> "sent", entry |-> [count |-> e.count + 1, start |-> e.start]]
    ELSE [fate |-> "dropped", entry |-> e]

\* shouldAlert: whether an alert of pair k passes, and the entry it leaves.
\* The first alert of a window passes whatever MaxPerWindow is.
Throttled(k) ==
    LET e == throttle[k] IN
    IF e.count = 0 \/ now - e.start >= Window
    THEN [fate |-> "sent", entry |-> [count |-> 1, start |-> now]]
    ELSE IF e.count < MaxPerWindow
    THEN [fate |-> "sent", entry |-> [count |-> e.count + 1, start |-> e.start]]
    ELSE [fate |-> "dropped", entry |-> e]

\* dispatch() up to its first await: an alert that is throttled ends here,
\* any other starts a delivery on each channel enabled now.
Dispatch(k) ==
    LET t == Throttled(k)
        n == alerts + 1
    IN /\ alerts < MaxAlerts
       /\ alerts' = n
       /\ throttle' = [throttle EXCEPT ![k] = t.entry]
       /\ log' = log \cup {[n |-> n, pair |-> k, at |-> now, fate |-> t.fate]}
       /\ IF t.fate = "sent"
          THEN /\ sends' = sends \cup {[alert |-> n, chan |-> c,
                                        fails |-> chan[c].fails] : c \in Enabled}
               /\ racy' = racy \cup {c \in Enabled : InFlight(c)}
          ELSE UNCHANGED <<sends, racy>>
       /\ UNCHANGED <<chan, now, streak, edits, restarts>>

\* Variant: a success never resets the count.
SendOk_KeepsCount(s) ==
    /\ sends' = sends \ {s}
    /\ streak' = [streak EXCEPT ![s.chan] = 0]
    /\ UNCHANGED <<chan, throttle, now, log, racy, alerts, edits, restarts>>

\* A delivery succeeds: the count is reset if the snapshot had one.
SendOk(s) ==
    /\ sends' = sends \ {s}
    /\ chan' = IF s.fails > 0 /\ Exists(s.chan)
               THEN [chan EXCEPT ![s.chan] = [st |-> chan[s.chan].st, fails |-> 0]]
               ELSE chan
    /\ streak' = [streak EXCEPT ![s.chan] = 0]
    /\ UNCHANGED <<throttle, now, log, racy, alerts, edits, restarts>>

\* A delivery fails: count and switch are written from the snapshot.
SendFails(s) ==
    LET failures == s.fails + 1 IN
    /\ sends' = sends \ {s}
    /\ chan' = IF Exists(s.chan)
               THEN [chan EXCEPT ![s.chan] =
                       [st |-> IF failures < MaxFailures THEN "on" ELSE "off",
                        fails |-> failures]]
               ELSE chan
    /\ streak' = [streak EXCEPT ![s.chan] = @ + 1]
    /\ UNCHANGED <<throttle, now, log, racy, alerts, edits, restarts>>

\* The API process stops and is started again: the throttle is in memory and
\* deliveries under way are forgotten.
RestartApi ==
    /\ restarts < MaxRestarts
    /\ restarts' = restarts + 1
    /\ throttle' = [k \in Pairs |-> NoEntry]
    /\ sends' = {}
    /\ log' = {}
    /\ UNCHANGED <<chan, now, streak, racy, alerts, edits>>

-----------------------------------------------------------------------------
(* The operator.                                                           *)

\* An operator action on c; a delivery under way does not see it.
Edits(c) ==
    /\ edits < MaxEdits
    /\ edits' = edits + 1
    /\ streak' = [streak EXCEPT ![c] = 0]
    /\ racy' = IF InFlight(c) THEN racy \cup {c} ELSE racy
    /\ UNCHANGED <<throttle, sends, now, log, alerts, restarts>>

\* POST /alert-channels
Create(c) ==
    /\ chan[c].st = "new"
    /\ chan' = [chan EXCEPT ![c] = [st |-> "on", fails |-> 0]]
    /\ Edits(c)

\* DELETE /alert-channels/:id
Delete(c) ==
    /\ Exists(c)
    /\ chan' = [chan EXCEPT ![c] = [st |-> "deleted", fails |-> 0]]
    /\ Edits(c)

\* PATCH /alert-channels/:id with `enabled`
SetEnabled(c, st) ==
    /\ Exists(c)
    /\ chan' = [chan EXCEPT ![c] = [st |-> st, fails |-> 0]]
    /\ Edits(c)

\* PATCH /alert-channels/:id with a valid `config`
EditConfig(c) ==
    /\ Exists(c)
    /\ chan' = [chan EXCEPT ![c] = [st |-> chan[c].st, fails |-> 0]]
    /\ Edits(c)

-----------------------------------------------------------------------------

Next ==
    \/ Tick
    \/ \E k \in Pairs : Dispatch(k)
    \/ \E s \in sends : SendOk(s) \/ SendFails(s)
    \/ RestartApi
    \/ \E c \in Channels :
         \/ Create(c) \/ Delete(c) \/ EditConfig(c)
         \/ \E st \in {"on", "off"} : SetEnabled(c, st)

Spec == Init /\ [][Next]_vars

-----------------------------------------------------------------------------
(* Properties.                                                             *)

\* Two alerts are less than a window apart.
Close(a, b) == b.at - a.at < Window /\ a.at <= b.at

\* "At most one alert per unique source per minute" (dispatcher.ts): with one
\* alert per window, two alerts of a pair that passed are a window apart,
\* however the windows fall and until the process is restarted.
OnePerWindow ==
    MaxPerWindow <= 1 =>
        \A a, b \in log :
            /\ a.fate = "sent" /\ b.fate = "sent"
            /\ a.pair = b.pair /\ a.n < b.n
            => ~Close(a, b)

\* The throttle never silences a pair for longer than a window: an alert is
\* dropped only when one of the same pair passed less than a window before.
DroppedOnlyIfRecent ==
    \A b \in log : b.fate = "dropped" =>
        \E a \in log : /\ a.fate = "sent" /\ a.pair = b.pair
                       /\ a.n < b.n /\ Close(a, b)

\* As long as the deliveries of a channel never overlapped each other or an
\* edit, its breaker does what docs/ALERTING.md says: it counts the failures
\* in a row, across restarts, and MaxFailures of them switch the channel off.
BreakerCounts ==
    \A c \in Channels \ racy : Exists(c) =>
        /\ chan[c].fails = streak[c]
        /\ streak[c] >= MaxFailures => chan[c].st = "off"
=============================================================================
