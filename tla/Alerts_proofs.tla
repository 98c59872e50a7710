---------------------------- MODULE Alerts_proofs ----------------------------
(***************************************************************************)
(* Proofs about Alerts, for every number of channels, pairs and alerts,    *)
(* every window and every breaker limit.                                   *)
(***************************************************************************)
EXTENDS Alerts, TLAPS

\* Every variable keeps its type: in particular, a stale snapshot never makes
\* a failure count anything but a number.
THEOREM TypeCorrect == Spec => []TypeOK
<1> USE AlertsAssumption
<1>1. Init => TypeOK
  BY DEF Init, TypeOK, NoEntry
<1>2. TypeOK /\ [Next]_vars => TypeOK'
  <2> SUFFICES ASSUME TypeOK, [Next]_vars PROVE TypeOK'
    OBVIOUS
  <2>1. CASE Tick
    BY <2>1 DEF Tick, TypeOK
  <2>2. ASSUME NEW k \in Pairs, Dispatch(k) PROVE TypeOK'
    <3> DEFINE t == Throttled(k)
               n == alerts + 1
    <3>1. /\ t.fate \in {"sent", "dropped"}
          /\ t.entry \in [count : Nat, start : 0..MaxTime]
      BY DEF Throttled, TypeOK
    <3>2. n \in 1..MaxAlerts /\ alerts' = n
      BY <2>2 DEF Dispatch, TypeOK
    <3> HIDE DEF t
    <3>3. throttle' = [throttle EXCEPT ![k] = t.entry]
      BY <2>2 DEF Dispatch, t
    <3>4. log' = log \cup {[n |-> n, pair |-> k, at |-> now, fate |-> t.fate]}
      BY <2>2 DEF Dispatch, t
    <3>5. log' \subseteq Alert
      BY <3>1, <3>2, <3>4 DEF TypeOK, Alert
    <3>6. sends' \subseteq Send /\ racy' \subseteq Channels
      <4>1. {[alert |-> n, chan |-> c, fails |-> chan[c].fails] : c \in Enabled}
              \subseteq Send
        BY <3>2 DEF TypeOK, Enabled, Send
      <4> QED BY <2>2, <4>1 DEF Dispatch, TypeOK, Enabled
    <3> QED BY <2>2, <3>1, <3>2, <3>3, <3>5, <3>6 DEF Dispatch, TypeOK
  <2>3. ASSUME NEW s \in sends, SendOk(s) PROVE TypeOK'
    BY <2>3 DEF SendOk, TypeOK, Send, Exists
  <2>4. ASSUME NEW s \in sends, SendFails(s) PROVE TypeOK'
    BY <2>4 DEF SendFails, TypeOK, Send, Exists
  <2>5. CASE RestartApi
    BY <2>5 DEF RestartApi, TypeOK, NoEntry
  <2>6. ASSUME NEW c \in Channels,
               \/ Create(c) \/ Delete(c) \/ EditConfig(c)
               \/ \E st \in {"on", "off"} : SetEnabled(c, st)
        PROVE  TypeOK'
    BY <2>6 DEF Create, Delete, EditConfig, SetEnabled, Edits, Exists, TypeOK
  <2>7. CASE UNCHANGED vars
    BY <2>7 DEF vars, TypeOK
  <2> QED BY <2>1, <2>2, <2>3, <2>4, <2>5, <2>6, <2>7 DEF Next
<1> QED BY <1>1, <1>2, PTL DEF Spec

(***************************************************************************)
(* The throttle.  An entry remembers an alert that did pass; when one      *)
(* alert per window is allowed, none of its pair passed after it.          *)
(***************************************************************************)
SentOf(k) == {a \in log : a.fate = "sent" /\ a.pair = k}

ThrottleInv ==
    /\ \A a \in log : a.n <= alerts /\ a.at <= now
    /\ \A k \in Pairs :
        /\ throttle[k].start <= now
        /\ IF throttle[k].count = 0 THEN SentOf(k) = {}
           ELSE \E a \in SentOf(k) : a.at = throttle[k].start
        /\ MaxPerWindow <= 1 =>
             \A a \in SentOf(k) : a.at <= throttle[k].start
    /\ OnePerWindow /\ DroppedOnlyIfRecent

LEMMA DispatchThrottles ==
    ASSUME TypeOK, TypeOK', ThrottleInv, NEW k \in Pairs, Dispatch(k)
    PROVE  ThrottleInv'
<1> USE AlertsAssumption
<1> DEFINE t == Throttled(k)
           n == alerts + 1
           new == [n |-> n, pair |-> k, at |-> now, fate |-> t.fate]
           e == throttle[k]
<1>1. /\ now \in Nat /\ alerts \in Nat /\ e.count \in Nat /\ e.start \in Nat
      /\ \A a \in log : a.n \in Nat /\ a.at \in Nat /\ a.pair \in Pairs
                        /\ a.fate \in {"sent", "dropped"}
  BY DEF TypeOK, Alert
<1>2. \/ /\ e.count = 0 \/ now - e.start >= Window
         /\ t.fate = "sent" /\ t.entry.count = 1 /\ t.entry.start = now
      \/ /\ e.count # 0 /\ now - e.start < Window /\ e.count < MaxPerWindow
         /\ t.fate = "sent" /\ t.entry.count = e.count + 1
         /\ t.entry.start = e.start
      \/ /\ e.count # 0 /\ now - e.start < Window
         /\ t.fate = "dropped" /\ t.entry = e
  BY <1>1 DEF Throttled
<1> HIDE DEF t
<1>3. /\ log' = log \cup {new} /\ now' = now /\ alerts' = n
      /\ throttle' = [throttle EXCEPT ![k] = t.entry]
  BY DEF Dispatch, t
<1>4. /\ throttle'[k] = t.entry
      /\ \A l \in Pairs : l # k => throttle'[l] = throttle[l]
  BY <1>3 DEF TypeOK
<1>5. /\ \A l \in Pairs : l # k => SentOf(l)' = SentOf(l)
      /\ SentOf(k)' = IF t.fate = "sent" THEN SentOf(k) \cup {new} ELSE SentOf(k)
  BY <1>3 DEF SentOf
<1>6. \A a \in log' : a.n <= alerts' /\ a.at <= now'
  BY <1>1, <1>3 DEF ThrottleInv
<1>7. ASSUME NEW l \in Pairs, l # k
      PROVE  /\ throttle'[l].start <= now'
             /\ IF throttle'[l].count = 0 THEN SentOf(l)' = {}
                ELSE \E a \in SentOf(l)' : a.at = throttle'[l].start
             /\ MaxPerWindow <= 1 =>
                  \A a \in SentOf(l)' : a.at <= throttle'[l].start
  BY <1>3, <1>4, <1>5, <1>7 DEF ThrottleInv
<1>8. /\ throttle'[k].start <= now'
      /\ IF throttle'[k].count = 0 THEN SentOf(k)' = {}
         ELSE \E a \in SentOf(k)' : a.at = throttle'[k].start
      /\ MaxPerWindow <= 1 => \A a \in SentOf(k)' : a.at <= throttle'[k].start
  <2>1. CASE t.fate = "sent" /\ t.entry.count = 1 /\ t.entry.start = now
    <3>1. \A a \in SentOf(k) : a.at <= now
      BY DEF ThrottleInv, SentOf
    <3>2. new \in SentOf(k)' /\ new.at = now
      BY <1>5, <2>1
    <3>3. \A a \in SentOf(k)' : a.at <= now
      BY <1>1, <1>5, <3>1
    <3>4. throttle'[k].count = 1 /\ throttle'[k].start = now
      BY <1>4, <2>1
    <3>5. \E a \in SentOf(k)' : a.at = throttle'[k].start
      BY <3>2, <3>4
    <3> HIDE DEF new
    <3> QED BY <1>1, <1>3, <3>3, <3>4, <3>5
  <2>2. CASE /\ e.count # 0 /\ e.count < MaxPerWindow
             /\ t.fate = "sent" /\ t.entry.count = e.count + 1
             /\ t.entry.start = e.start
    <3>1. MaxPerWindow > 1
      BY <1>1, <2>2
    <3> QED BY <1>1, <1>3, <1>4, <1>5, <2>2, <3>1 DEF ThrottleInv
  <2>3. CASE e.count # 0 /\ t.fate = "dropped" /\ t.entry = e
    BY <1>3, <1>4, <1>5, <2>3 DEF ThrottleInv
  <2> QED BY <1>2, <2>1, <2>2, <2>3
<1>9. OnePerWindow'
  <2> SUFFICES ASSUME MaxPerWindow <= 1, NEW a \in log', NEW b \in log',
                      a.fate = "sent", b.fate = "sent", a.pair = b.pair, a.n < b.n
               PROVE  ~Close(a, b)
    BY DEF OnePerWindow, Close
  <2>1. a \in log
    BY <1>1, <1>3, <1>6
  <2>2. CASE b \in log
    BY <2>1, <2>2 DEF ThrottleInv, OnePerWindow
  <2>3. CASE b = new
    <3>1. a \in SentOf(k) /\ t.fate = "sent" /\ b.at = now
      BY <2>1, <2>3 DEF SentOf
    <3>2. a.at <= e.start /\ e.count # 0
      BY <3>1 DEF ThrottleInv
    <3>3. now - e.start >= Window
      BY <1>1, <1>2, <3>1, <3>2
    <3> QED BY <1>1, <2>1, <3>1, <3>2, <3>3 DEF Close
  <2> QED BY <1>3, <2>2, <2>3
<1>10. DroppedOnlyIfRecent'
  <2> SUFFICES ASSUME NEW b \in log', b.fate = "dropped"
               PROVE  \E a \in log' : /\ a.fate = "sent" /\ a.pair = b.pair
                                      /\ a.n < b.n /\ Close(a, b)
    BY DEF DroppedOnlyIfRecent, Close
  <2>1. CASE b \in log
    BY <1>3, <2>1 DEF ThrottleInv, DroppedOnlyIfRecent
  <2>2. CASE b = new
    <3>1. e.count # 0 /\ now - e.start < Window
      BY <1>2, <2>2
    <3>2. PICK a \in SentOf(k) : a.at = e.start
      BY <3>1 DEF ThrottleInv
    <3>3. a \in log /\ a.n <= alerts /\ a.at <= now
      BY <3>2 DEF ThrottleInv, SentOf
    <3> QED BY <1>1, <1>3, <2>2, <3>1, <3>2, <3>3 DEF SentOf, Close
  <2> QED BY <1>3, <2>1, <2>2
<1> QED BY <1>6, <1>7, <1>8, <1>9, <1>10 DEF ThrottleInv

THEOREM ThrottleHolds == Spec => []ThrottleInv
<1> USE AlertsAssumption
<1>1. Init => ThrottleInv
  BY DEF Init, ThrottleInv, SentOf, NoEntry, OnePerWindow, DroppedOnlyIfRecent
<1>2. TypeOK /\ TypeOK' /\ ThrottleInv /\ [Next]_vars => ThrottleInv'
  <2> SUFFICES ASSUME TypeOK, TypeOK', ThrottleInv, [Next]_vars
               PROVE  ThrottleInv'
    OBVIOUS
  <2>1. CASE UNCHANGED <<throttle, log, alerts>> /\ now' \in {now, now + 1}
    BY <2>1 DEF ThrottleInv, SentOf, OnePerWindow, DroppedOnlyIfRecent, Close,
                TypeOK, Alert
  <2>2. CASE \E k \in Pairs : Dispatch(k)
    BY <2>2, DispatchThrottles
  <2>3. CASE RestartApi
    BY <2>3 DEF RestartApi, ThrottleInv, SentOf, NoEntry, OnePerWindow,
                DroppedOnlyIfRecent, TypeOK
  <2>4. ASSUME ~RestartApi, \A k \in Pairs : ~Dispatch(k)
        PROVE  UNCHANGED <<throttle, log, alerts>> /\ now' \in {now, now + 1}
    BY <2>4 DEF Next, vars, Tick, SendOk, SendFails, Create, Delete, EditConfig,
                SetEnabled, Edits
  <2> QED BY <2>1, <2>2, <2>3, <2>4
<1> QED BY <1>1, <1>2, TypeCorrect, PTL DEF Spec

\* At most one alert per source and minute.
THEOREM AtMostOnePerWindow == Spec => []OnePerWindow
<1>1. ThrottleInv => OnePerWindow
  BY DEF ThrottleInv
<1> QED BY <1>1, ThrottleHolds, PTL

\* No pair is silenced for longer than a window.
THEOREM NoLongSilence == Spec => []DroppedOnlyIfRecent
<1>1. ThrottleInv => DroppedOnlyIfRecent
  BY DEF ThrottleInv
<1> QED BY <1>1, ThrottleHolds, PTL

(***************************************************************************)
(* The breaker.  While nothing overlapped on a channel, the one delivery   *)
(* under way on it saw the row as it still is.                             *)
(***************************************************************************)
Calm(c) ==
    /\ Exists(c) => /\ chan[c].fails = streak[c]
                    /\ streak[c] >= MaxFailures => chan[c].st = "off"
    /\ \A s \in sends : s.chan = c =>
         /\ s.fails = chan[c].fails
         /\ \A r \in sends : r.chan = c => r = s

BreakerInv == \A c \in Channels \ racy : Calm(c)

\* A delivery that settles on its own leaves the breaker counting.
LEMMA SettleCalm ==
    ASSUME TypeOK, BreakerInv, NEW s \in sends, SendOk(s) \/ SendFails(s),
           NEW c \in Channels \ racy
    PROVE  Calm(c)'
<1> USE AlertsAssumption
<1>1. Calm(c) /\ streak[c] \in Nat /\ chan[c].fails \in Nat
      /\ chan[c].st \in {"new", "on", "off", "deleted"}
  BY DEF BreakerInv, TypeOK
<1>2. sends' = sends \ {s} /\ s.fails \in Nat /\ s.chan \in Channels
  BY DEF SendOk, SendFails, TypeOK, Send
<1>3. CASE s.chan # c
  <2>1. chan'[c] = chan[c] /\ streak'[c] = streak[c]
    BY <1>2, <1>3 DEF SendOk, SendFails, TypeOK
  <2> QED BY <1>1, <1>2, <2>1 DEF Calm, Exists
<1>4. CASE s.chan = c
  <2>1. \A r \in sends' : r.chan # c
    BY <1>1, <1>2, <1>4 DEF Calm
  <2>2. s.fails = chan[c].fails
    BY <1>1, <1>4 DEF Calm
  <2>3. CASE SendOk(s)
    <3>1. streak'[c] = 0
      BY <1>4, <2>3 DEF SendOk, TypeOK
    <3>2. Exists(c)' => chan'[c].fails = 0
      <4>1. CASE s.fails > 0 /\ Exists(c)
        BY <1>4, <2>3, <4>1 DEF SendOk, TypeOK
      <4>2. CASE ~(s.fails > 0 /\ Exists(c))
        BY <1>1, <1>2, <1>4, <2>2, <2>3, <4>2 DEF SendOk, Exists
      <4> QED BY <4>1, <4>2
    <3> QED BY <2>1, <3>1, <3>2 DEF Calm
  <2>4. CASE SendFails(s)
    <3>1. streak'[c] = streak[c] + 1
      BY <1>4, <2>4 DEF SendFails, TypeOK
    <3>2. CASE ~Exists(c)
      <4>1. ~Exists(c)'
        BY <1>4, <2>4, <3>2 DEF SendFails, Exists
      <4> QED BY <2>1, <4>1 DEF Calm
    <3>3. CASE Exists(c)
      <4>1. /\ chan'[c].fails = s.fails + 1
            /\ s.fails + 1 >= MaxFailures => chan'[c].st = "off"
        BY <1>2, <1>4, <2>4, <3>3 DEF SendFails, TypeOK
      <4> QED BY <1>1, <2>1, <2>2, <3>1, <3>3, <4>1 DEF Calm
    <3> QED BY <3>2, <3>3
  <2> QED BY <2>3, <2>4
<1> QED BY <1>3, <1>4

\* A dispatch adds at most one delivery to a channel that stays calm.
LEMMA DispatchCalm ==
    ASSUME TypeOK, BreakerInv, NEW k \in Pairs, Dispatch(k),
           NEW c \in Channels \ racy'
    PROVE  Calm(c)'
<1>1. c \in Channels \ racy /\ Calm(c)
  BY DEF Dispatch, BreakerInv
<1>2. UNCHANGED <<chan, streak>>
  BY DEF Dispatch
<1>3. CASE sends' = sends
  BY <1>1, <1>2, <1>3 DEF Calm, Exists
<1>4. CASE sends' # sends
  <2> DEFINE new(d) == [alert |-> alerts + 1, chan |-> d, fails |-> chan[d].fails]
  <2>1. /\ sends' = sends \cup {new(d) : d \in Enabled}
        /\ racy' = racy \cup {d \in Enabled : InFlight(d)}
    BY <1>4 DEF Dispatch
  <2>2. \A r \in sends' : r.chan = c =>
          \/ r \in sends
          \/ r = new(c) /\ c \in Enabled
    BY <2>1
  <2>3. c \in Enabled => \A r \in sends : r.chan # c
    BY <2>1 DEF InFlight
  <2> HIDE DEF new
  <2>4. new(c).fails = chan[c].fails
    BY DEF new
  <2>5. \A r \in sends' : r.chan = c =>
          /\ r.fails = chan[c].fails
          /\ \A q \in sends' : q.chan = c => q = r
    BY <1>1, <2>2, <2>3, <2>4 DEF Calm
  <2> QED BY <1>1, <1>2, <2>5 DEF Calm, Exists
<1> QED BY <1>3, <1>4

\* An edit that meets no delivery starts the count afresh.
LEMMA EditCalm ==
    ASSUME TypeOK, BreakerInv, NEW e \in Channels,
           \/ Create(e) \/ Delete(e) \/ EditConfig(e)
           \/ \E st \in {"on", "off"} : SetEnabled(e, st),
           NEW c \in Channels \ racy'
    PROVE  Calm(c)'
<1> USE AlertsAssumption
<1>1. c \in Channels \ racy /\ Calm(c) /\ sends' = sends
      /\ streak' = [streak EXCEPT ![e] = 0]
      /\ (c = e => ~InFlight(c))
  BY DEF Create, Delete, EditConfig, SetEnabled, Edits, BreakerInv
<1>2. \A d \in Channels : d # e => chan'[d] = chan[d]
  BY DEF Create, Delete, EditConfig, SetEnabled, TypeOK
<1>3. chan'[e].fails = 0
  BY DEF Create, Delete, EditConfig, SetEnabled, TypeOK
<1>4. CASE c = e
  BY <1>1, <1>3, <1>4 DEF Calm, InFlight, TypeOK
<1>5. CASE c # e
  <2>1. streak'[c] = streak[c] /\ chan'[c] = chan[c]
    BY <1>1, <1>2, <1>5 DEF TypeOK
  <2> QED BY <1>1, <2>1 DEF Calm, Exists
<1> QED BY <1>4, <1>5

\* Where deliveries do not overlap, the breaker counts the failures in a row
\* and switches the channel off at the limit.
THEOREM SequentialBreaker == Spec => []BreakerCounts
<1> USE AlertsAssumption
<1>1. Init => BreakerInv
  BY DEF Init, BreakerInv, Calm, Exists
<1>2. TypeOK /\ BreakerInv /\ [Next]_vars => BreakerInv'
  <2> SUFFICES ASSUME TypeOK, BreakerInv, [Next]_vars PROVE BreakerInv'
    OBVIOUS
  <2>1. CASE Tick \/ UNCHANGED vars
    BY <2>1 DEF Tick, vars, BreakerInv, Calm, Exists
  <2>2. ASSUME NEW k \in Pairs, Dispatch(k) PROVE BreakerInv'
    BY <2>2, DispatchCalm DEF BreakerInv
  <2>3. ASSUME NEW s \in sends, SendOk(s) \/ SendFails(s) PROVE BreakerInv'
    <3>1. racy' = racy
      BY <2>3 DEF SendOk, SendFails
    <3> QED BY <2>3, <3>1, SettleCalm DEF BreakerInv
  <2>4. CASE RestartApi
    BY <2>4 DEF RestartApi, BreakerInv, Calm, Exists
  <2>5. ASSUME NEW e \in Channels,
               \/ Create(e) \/ Delete(e) \/ EditConfig(e)
               \/ \E st \in {"on", "off"} : SetEnabled(e, st)
        PROVE  BreakerInv'
    BY <2>5, EditCalm DEF BreakerInv
  <2> QED BY <2>1, <2>2, <2>3, <2>4, <2>5 DEF Next
<1>3. BreakerInv => BreakerCounts
  BY DEF BreakerInv, Calm, BreakerCounts
<1> QED BY <1>1, <1>2, <1>3, TypeCorrect, PTL DEF Spec
=============================================================================
