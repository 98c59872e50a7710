----------------------- MODULE SensorRuntime_proofs -----------------------
(* Theorems about SensorRuntime, for any generations, listeners and sets.  *)
EXTENDS SensorRuntime, TLAPS

USE DEF FileAt, baitVars, fileVars, instVars, histVars, runVars, vars

(***************************************************************************)
(* Type correctness.                                                       *)
(***************************************************************************)

\* Whoever touches the file leaves well-typed values (the actions of the
\* file's finder, planted.go).
LEMMA TouchTypes == TypeOK /\ TouchNext /\ UNCHANGED runVars => TypeOK'
<1> SUFFICES ASSUME TypeOK, TouchNext, UNCHANGED runVars PROVE TypeOK'
  OBVIOUS
<1> USE BaitAssumption DEF TypeOK, BaitTypeOK
<1>1. ASSUME NEW kind \in Kinds, Touch(kind)
      PROVE  /\ touches' \in 0..MaxTouches
             /\ Now \in Times
             /\ news' \in [Gens -> SUBSET Kinds]
             /\ blind' \subseteq Gens
  <2>1. touches \in 0..MaxTouches /\ touches < MaxTouches
        /\ touches' = touches + 1
    BY <1>1 DEF Touch
  <2>2. touches' \in 0..MaxTouches /\ Now \in Times
    BY <2>1 DEF Now, Times
  <2>3. news' \in [Gens -> SUBSET Kinds]
    BY <1>1 DEF Touch
  <2>4. blind' \subseteq Gens
    BY <1>1 DEF Touch
  <2>5. QED
    BY <2>2, <2>3, <2>4
<1>2. /\ touches' \in 0..MaxTouches
      /\ Now \in Times
      /\ news' \in [Gens -> SUBSET Kinds]
      /\ blind' \subseteq Gens
      /\ UNCHANGED <<instVars, cause, cancelled>>
  BY <1>1 DEF TouchNext, Read, Write, Delete, Touch, Kinds
<1>3. file' \in [there : {"yes", "no"}, mtime : Times, atime : Times]
  <2>1. CASE Read
    BY <2>1, <1>2 DEF Read
  <2>2. CASE Write
    BY <2>2, <1>2 DEF Write
  <2>3. CASE Delete
    BY <2>3, <1>2 DEF Delete, NoFile, Times
  <2>4. QED
    BY <2>1, <2>2, <2>3 DEF TouchNext
<1>4. QED
  BY <1>2, <1>3

\* A step of the bait sensor keeps the types (planted.go, Start).
LEMMA InstTypes ==
  ASSUME NEW g \in Gens, TypeOK, InstNext(g), UNCHANGED runVars
  PROVE  TypeOK'
<1> USE BaitAssumption DEF TypeOK, BaitTypeOK, Goto
<1>0. Sig \in Sigs /\ NoSig \in Sigs /\ 0 \in Times /\ Planted \in Times
  BY DEF Sig, Sigs, NoSig, Times, Planted
<1>1. CASE Begin(g)
  BY <1>1, <1>0 DEF Begin
<1>2. CASE Baseline(g)
  BY <1>2, <1>0 DEF Baseline
<1>3. CASE Exit(g)
  BY <1>3 DEF Exit
<1>4. CASE Poll(g)
  <2>1. Found[g] \in Kinds
    BY DEF Found, Kinds
  <2>2. /\ cur' \in [Gens -> Sigs]
        /\ seen' \in [Gens -> Kinds \cup {"none"}]
        /\ news' \in [Gens -> SUBSET Kinds]
        /\ cause' \in [Gens -> SUBSET Kinds]
    BY <1>4, <1>0, <2>1 DEF Poll
  <2>3. \E to \in {"arm", "rebase", "report"} : pc' = [pc EXCEPT ![g] = to]
    BY <1>4, <2>1 DEF Poll, Kinds
  <2>4. QED
    BY <1>4, <2>2, <2>3 DEF Poll
<1>5. CASE Arm(g)
  BY <1>5 DEF Arm
<1>6. CASE Chtimes(g)
  BY <1>6, <1>0 DEF Chtimes
<1>7. CASE Rebase(g)
  BY <1>7, <1>0 DEF Rebase
<1>8. CASE Reported(g)
  BY <1>0, <1>8 DEF Reported, NoSig
<1>9. CASE BeginUnarmed(g)
  BY <1>9, <1>0 DEF BeginUnarmed, Meanwhile, Times
<1>10. CASE BeginFails(g)
  BY <1>10 DEF BeginFails
<1>11. CASE ChtimesFails(g)
  BY <1>11 DEF ChtimesFails
<1>12. QED
  BY <1>1, <1>2, <1>3, <1>4, <1>5, <1>6, <1>7, <1>8, <1>9, <1>10, <1>11 DEF InstNext

\* Launching a generation keeps the types (sensors.go, StartAll).
LEMMA LaunchTypes ==
  ASSUME TypeOK, NEW S \in SpecSets \cup {{}}, last + 1 \in Gens, Launch(S)
  PROVE  /\ last' \in Gens /\ gen' \in Gens /\ loop' = "idle"
         /\ tcp' \in [Gens -> [Listeners -> {"none", "starting", "open", "done"}]]
         /\ pc' \in [Gens -> {"none", "begin", "baseline", "wait", "arm",
                              "chtimes", "rebase", "report", "done"}]
BY DEF Launch, TypeOK, BaitTypeOK

\* Where the loop is: a generation is current while it is being stopped, and
\* there is room for the one that follows it.
RoomOk ==
    /\ loop = "starting" => last + 1 \in Gens
    /\ loop \in {"starting", "stopping"} => gen \in Gens

\* The heartbeat loop keeps the types (sensors.go, StartAll and StopAll).
LEMMA LoopTypes ==
  ASSUME TypeOK, RoomOk,
         (\E S \in SpecSets : StartAll(S)) \/ StopAll \/ Stopped \/ GraceExpires
  PROVE  TypeOK' /\ RoomOk'
<1> USE BaitAssumption
<1>1. ASSUME NEW S \in SpecSets, StartAll(S) PROVE TypeOK' /\ RoomOk'
  <2>1. CASE gen = 0
    <3>1. last + 1 \in Gens /\ Launch(S) /\ S \in SpecSets \cup {{}}
      BY <1>1, <2>1 DEF StartAll
    <3>2. /\ last' \in Gens /\ gen' \in Gens /\ loop' = "idle"
          /\ tcp' \in [Gens -> [Listeners -> {"none", "starting", "open", "done"}]]
          /\ pc' \in [Gens -> {"none", "begin", "baseline", "wait", "arm",
                               "chtimes", "rebase", "report", "done"}]
      BY <3>1, LaunchTypes
    <3>3. QED
      BY <1>1, <2>1, <3>2 DEF StartAll, TypeOK, BaitTypeOK, RoomOk
  <2>2. CASE gen # 0
    BY <1>1, <2>2 DEF StartAll, TypeOK, BaitTypeOK, RoomOk
  <2>3. QED
    BY <2>1, <2>2
<1>2. CASE StopAll
  BY <1>2 DEF StopAll, TypeOK, BaitTypeOK, RoomOk
<1>3. ASSUME loop \in {"starting", "stopping"}, Proceed, late' \in {"no", "yes"}
      PROVE  TypeOK' /\ RoomOk'
  <2>1. CASE loop = "starting"
    <3>1. last + 1 \in Gens /\ Launch(want) /\ want \in SpecSets \cup {{}}
      BY <1>3, <2>1 DEF Proceed, RoomOk, TypeOK
    <3>2. /\ last' \in Gens /\ gen' \in Gens /\ loop' = "idle"
          /\ tcp' \in [Gens -> [Listeners -> {"none", "starting", "open", "done"}]]
          /\ pc' \in [Gens -> {"none", "begin", "baseline", "wait", "arm",
                               "chtimes", "rebase", "report", "done"}]
      BY <3>1, LaunchTypes
    <3>3. QED
      BY <1>3, <2>1, <3>2 DEF Proceed, TypeOK, BaitTypeOK, RoomOk
  <2>2. CASE loop = "stopping"
    BY <1>3, <2>2 DEF Proceed, TypeOK, BaitTypeOK, RoomOk
  <2>3. QED
    BY <1>3, <2>1, <2>2
<1>4. CASE Stopped
  BY <1>3, <1>4 DEF Stopped, TypeOK
<1>5. CASE GraceExpires
  BY <1>3, <1>5 DEF GraceExpires
<1>6. QED
  BY <1>1, <1>2, <1>4, <1>5

\* A listener keeps the types (tcpserver.go).
LEMMA ListenerTypes ==
  ASSUME TypeOK, NEW g \in Gens, NEW s \in Listeners,
         Listen(g, s) \/ Close(g, s) \/ AcceptFails(g, s)
  PROVE  TypeOK'
<1> USE BaitAssumption, RuntimeAssumption DEF TypeOK, BaitTypeOK, SetTcp
<1>1. Holders(PortOf[s]) \subseteq Gens \cup {0}
  BY DEF Holders
<1>2. CASE Listen(g, s)
  BY <1>1, <1>2 DEF Listen
<1>3. CASE Close(g, s)
  BY <1>3 DEF Close
<1>4. CASE AcceptFails(g, s)
  BY <1>4 DEF AcceptFails
<1>5. QED
  BY <1>2, <1>3, <1>4

\* The steps that are not the loop's leave the loop's variables alone.
LEMMA RoomKept ==
  ASSUME RoomOk, UNCHANGED <<loop, gen, last>>
  PROVE  RoomOk'
BY DEF RoomOk

\* One step of anybody, types and room.
LEMMA NextTypes == TypeOK /\ RoomOk /\ [Next]_vars => TypeOK' /\ RoomOk'
<1> SUFFICES ASSUME TypeOK, RoomOk, [Next]_vars PROVE TypeOK' /\ RoomOk'
  OBVIOUS
<1>1. CASE (\E S \in SpecSets : StartAll(S)) \/ StopAll \/ Stopped \/ GraceExpires
  BY <1>1, LoopTypes
<1>2. ASSUME NEW g \in Gens, NEW s \in Listeners,
             Listen(g, s) \/ Close(g, s) \/ AcceptFails(g, s)
      PROVE  TypeOK' /\ RoomOk'
  <2>1. UNCHANGED <<loop, gen, last>>
    BY <1>2 DEF Listen, Close, AcceptFails
  <2>2. QED
    BY <1>2, <2>1, ListenerTypes, RoomKept
<1>3. CASE TouchNext /\ UNCHANGED runVars
  BY <1>3, TouchTypes, RoomKept
<1>4. ASSUME NEW g \in Gens, InstNext(g), UNCHANGED runVars
      PROVE  TypeOK' /\ RoomOk'
  BY <1>4, InstTypes, RoomKept
<1>5. CASE UNCHANGED vars
  BY <1>5 DEF TypeOK, BaitTypeOK, RoomOk
<1>6. QED
  BY <1>1, <1>2, <1>3, <1>4, <1>5 DEF Next

\* The first state.
LEMMA InitTypes == Init => TypeOK /\ RoomOk
BY BaitAssumption, RuntimeAssumption
   DEF Init, BaitInit, TypeOK, BaitTypeOK, RoomOk, NoFile, NoSig, Sigs, Times

\* Every variable keeps its type, and a generation that is being stopped
\* exists (sensors.go, runCancel and runWG).
THEOREM TypeCorrect == Spec => []TypeOK
<1>1. Spec => [](TypeOK /\ RoomOk)
  BY InitTypes, NextTypes, PTL DEF Spec
<1>2. QED
  BY <1>1, PTL

(***************************************************************************)
(* Generations and ports.                                                  *)
(***************************************************************************)

\* Only the current generation listens, or is about to.
ListenersCurrent ==
    \A g \in Gens, s \in Listeners : tcp[g][s] \in {"starting", "open"} => g = gen

\* What the steps of the loop do to generations.
GenInv == ListenersCurrent /\ OneGeneration /\ NoSelfCollision

\* The invariant holds at first.
LEMMA InitGen == Init => GenInv
BY DEF Init, BaitInit, GenInv, ListenersCurrent, OneGeneration,
       NoSelfCollision, Running

\* Launching a generation when none listens, and none runs unless a shutdown
\* timed out (sensors.go, StartAll).
LEMMA LaunchGen ==
  ASSUME TypeOK, GenInv, NEW S, last + 1 \in Gens, Launch(S),
         \A g \in Gens, s \in Listeners : tcp[g][s] \notin {"starting", "open"},
         late' = "no" => \A g \in Gens : ~Running(g),
         UNCHANGED failed
  PROVE  GenInv'
<1>1. ListenersCurrent'
  BY DEF Launch, ListenersCurrent, TypeOK
<1>2. OneGeneration'
  <2> SUFFICES ASSUME late' = "no", NEW g \in Gens, Running(g)', g # last + 1
               PROVE  FALSE
    BY DEF OneGeneration, Launch
  <2>1. pc'[g] = pc[g] /\ tcp'[g] = tcp[g]
    BY DEF Launch, TypeOK, BaitTypeOK
  <2>2. QED
    BY <2>1 DEF Running
<1>3. NoSelfCollision'
  BY DEF GenInv, NoSelfCollision
<1>4. QED
  BY <1>1, <1>2, <1>3 DEF GenInv

\* The end of a shutdown in which the listeners are closed, and all of the
\* generation is unless it timed out.
LEMMA ProceedGen ==
  ASSUME TypeOK, RoomOk, GenInv, loop \in {"starting", "stopping"}, Proceed,
         \A s \in Listeners : tcp[gen][s] \notin {"starting", "open"},
         late' = "no" => late = "no" /\ ~Running(gen)
  PROVE  GenInv'
<1>1. gen \in Gens
  BY DEF RoomOk
<1>2. \A g \in Gens, s \in Listeners : tcp[g][s] \notin {"starting", "open"}
  BY DEF GenInv, ListenersCurrent
<1>3. late' = "no" => \A g \in Gens : ~Running(g)
  BY DEF GenInv, OneGeneration
<1>4. CASE loop = "starting"
  <2>1. last + 1 \in Gens /\ Launch(want) /\ UNCHANGED failed
    BY <1>4 DEF RoomOk, Proceed
  <2>2. QED
    BY <2>1, <1>2, <1>3, LaunchGen
<1>5. CASE loop = "stopping"
  <2>1. UNCHANGED <<tcp, pc, failed>>
    BY <1>5 DEF Proceed
  <2>2. QED
    BY <2>1, <1>2, <1>3
       DEF GenInv, ListenersCurrent, OneGeneration, NoSelfCollision, Running
<1>6. QED
  BY <1>4, <1>5

\* The loop keeps generations apart.
LEMMA LoopGen ==
  ASSUME TypeOK, RoomOk, GenInv,
         (\E S \in SpecSets : StartAll(S)) \/ StopAll \/ Stopped \/ GraceExpires
  PROVE  GenInv'
<1>1. ASSUME NEW S \in SpecSets, StartAll(S) PROVE GenInv'
  <2>1. CASE gen = 0
    <3>1. gen \notin Gens
      BY <2>1, BaitAssumption
    <3>2. \A g \in Gens, s \in Listeners : tcp[g][s] \notin {"starting", "open"}
      BY <3>1 DEF GenInv, ListenersCurrent
    <3>3. late' = "no" => \A g \in Gens : ~Running(g)
      BY <1>1, <3>1 DEF GenInv, OneGeneration, StartAll
    <3>4. last + 1 \in Gens /\ Launch(S) /\ UNCHANGED failed
      BY <1>1, <2>1 DEF StartAll
    <3>5. QED
      BY <3>2, <3>3, <3>4, LaunchGen
  <2>2. CASE gen # 0
    <3>1. UNCHANGED <<gen, tcp, pc, failed, late>>
      BY <1>1, <2>2 DEF StartAll
    <3>2. QED
      BY <3>1
         DEF GenInv, ListenersCurrent, OneGeneration, NoSelfCollision, Running
  <2>3. QED
    BY <2>1, <2>2
<1>2. CASE StopAll
  <2>1. UNCHANGED <<gen, tcp, pc, failed, late>>
    BY <1>2 DEF StopAll
  <2>2. QED
    BY <2>1
       DEF GenInv, ListenersCurrent, OneGeneration, NoSelfCollision, Running
<1>3. CASE Stopped
  <2>1. \A s \in Listeners : tcp[gen][s] \notin {"starting", "open"}
    BY <1>3 DEF Stopped, Running
  <2>2. QED
    BY <1>3, <2>1, ProceedGen DEF Stopped
<1>4. CASE GraceExpires
  BY <1>4, ProceedGen DEF GraceExpires
<1>5. QED
  BY <1>1, <1>2, <1>3, <1>4

\* A listener is refused its port by its own generation or by another program.
LEMMA ListenerGen ==
  ASSUME TypeOK, GenInv, NEW g \in Gens, NEW s \in Listeners,
         Listen(g, s) \/ Close(g, s) \/ AcceptFails(g, s)
  PROVE  GenInv'
<1>1. tcp[g][s] \in {"starting", "open"} /\ UNCHANGED <<gen, pc, late>>
  BY DEF Listen, Close, AcceptFails
<1>2. g = gen
  BY <1>1 DEF GenInv, ListenersCurrent
<1>3. \A h \in Gens, t \in Listeners :
        tcp'[h][t] \in {"starting", "open"} => tcp[h][t] \in {"starting", "open"}
  BY <1>1 DEF Listen, Close, AcceptFails, SetTcp, TypeOK
<1>4. ListenersCurrent'
  BY <1>1, <1>3 DEF GenInv, ListenersCurrent
<1>5. OneGeneration'
  BY <1>1, <1>3 DEF GenInv, OneGeneration, Running
<1>6. NoSelfCollision'
  <2>1. Holders(PortOf[s]) \subseteq {0, g}
    BY <1>2 DEF Holders, Holds, GenInv, ListenersCurrent
  <2>2. failed' \subseteq failed \cup {[gen |-> g, sensor |-> s,
                                        by |-> Holders(PortOf[s])]}
    BY DEF Listen, Close, AcceptFails
  <2>3. QED
    BY <2>1, <2>2 DEF GenInv, NoSelfCollision
<1>7. QED
  BY <1>4, <1>5, <1>6 DEF GenInv

\* The steps of a bait sensor and of whoever touches its file.
LEMMA BaitGen ==
  ASSUME TypeOK, GenInv, UNCHANGED runVars,
         \A g \in Gens : pc'[g] \notin {"none", "done"}
                         => pc[g] \notin {"none", "done"}
  PROVE  GenInv'
BY DEF GenInv, ListenersCurrent, OneGeneration, NoSelfCollision, Running

\* A bait sensor that takes a step has been started and has not returned.
LEMMA InstRuns ==
  ASSUME TypeOK, NEW g \in Gens, InstNext(g)
  PROVE  /\ pc[g] \notin {"none", "done"}
         /\ \A h \in Gens : h # g => pc'[h] = pc[h]
BY DEF InstNext, Begin, BeginUnarmed, BeginFails, Baseline, Exit, Poll, Arm,
   Chtimes, ChtimesFails, Rebase, Reported,
       Goto, TypeOK, BaitTypeOK

\* One step of anybody.
LEMMA NextGen == TypeOK /\ RoomOk /\ GenInv /\ [Next]_vars => GenInv'
<1> SUFFICES ASSUME TypeOK, RoomOk, GenInv, [Next]_vars PROVE GenInv'
  OBVIOUS
<1>1. CASE (\E S \in SpecSets : StartAll(S)) \/ StopAll \/ Stopped \/ GraceExpires
  BY <1>1, LoopGen
<1>2. ASSUME NEW g \in Gens, NEW s \in Listeners,
             Listen(g, s) \/ Close(g, s) \/ AcceptFails(g, s)
      PROVE  GenInv'
  BY <1>2, ListenerGen
<1>3. CASE TouchNext /\ UNCHANGED runVars
  <2>1. UNCHANGED pc
    BY <1>3 DEF TouchNext, Read, Write, Delete, Touch
  <2>2. QED
    BY <1>3, <2>1, BaitGen
<1>4. ASSUME NEW g \in Gens, InstNext(g), UNCHANGED runVars PROVE GenInv'
  BY <1>4, InstRuns, BaitGen
<1>5. CASE UNCHANGED vars
  BY <1>5, BaitGen
<1>6. QED
  BY <1>1, <1>2, <1>3, <1>4, <1>5 DEF Next

\* Unless a shutdown timed out, only the current generation runs.
THEOREM Generations == Spec => []OneGeneration
<1>1. Spec => [](TypeOK /\ RoomOk /\ GenInv)
  BY InitTypes, InitGen, NextTypes, NextGen, PTL DEF Spec
<1>2. GenInv => OneGeneration
  BY DEF GenInv
<1>3. QED
  BY <1>1, <1>2, PTL

\* No sensor is refused its port by an earlier generation.
THEOREM NoCollision == Spec => []NoSelfCollision
<1>1. Spec => [](TypeOK /\ RoomOk /\ GenInv)
  BY InitTypes, InitGen, NextTypes, NextGen, PTL DEF Spec
<1>2. GenInv => NoSelfCollision
  BY DEF GenInv
<1>3. QED
  BY <1>1, <1>2, PTL

(***************************************************************************)
(* The reports of the bait sensor.                                         *)
(***************************************************************************)

\* A later touch has a later time (the clock of planted.go's signatures).
TimesPast ==
    /\ file.mtime <= 2 * touches + 2
    /\ \A g \in Gens : /\ base[g].mtime <= 2 * touches + 2
                       /\ cur[g].mtime <= 2 * touches + 2
                       /\ armed[g] <= 2 * touches + 2

\* An instance that will poll again.
Watching(g) == pc[g] = "wait" \/ (pc[g] = "report" /\ seen[g] # "deleted")

\* Every difference it could report was made since it last looked.
Explained(g) ==
    Watching(g) =>
      /\ ~There => "deleted" \in news[g]
      /\ There /\ file.mtime # base[g].mtime => "modified" \in news[g]
      /\ There /\ file.mtime = base[g].mtime /\ file.atime # base[g].atime
           => "read" \in news[g]

\* A file that vanished while it was rearmed was deleted.
Missed(g) ==
    pc[g] \in {"arm", "chtimes", "rebase"} /\ ~There => "deleted" \in news[g]

AlarmParts(g) == Explained(g) /\ Missed(g) /\ AlarmTrue(g)

AlarmInv == TimesPast /\ (late = "no" => \A g \in Gens : AlarmParts(g))

\* The invariant holds at first.
LEMMA InitAlarm == Init => AlarmInv
BY BaitAssumption
   DEF Init, BaitInit, AlarmInv, TimesPast, AlarmParts, Explained, Watching,
       Missed, AlarmTrue, Alarming, NoFile, NoSig

\* A touch by somebody else is in the news of every instance.
LEMMA TouchAlarm ==
  ASSUME TypeOK, AlarmInv, TouchNext, UNCHANGED runVars
  PROVE  AlarmInv'
<1> USE BaitAssumption
<1>1. /\ touches \in Nat /\ touches' = touches + 1
      /\ UNCHANGED <<instVars, cause>>
      /\ \A g \in Gens : news[g] \subseteq news'[g]
  BY DEF TouchNext, Read, Write, Delete, Touch, TypeOK, BaitTypeOK
<1>2. /\ file.mtime \in Nat /\ armed \in [Gens -> Nat]
      /\ \A g \in Gens : base[g].mtime \in Nat /\ cur[g].mtime \in Nat
  BY DEF TypeOK, BaitTypeOK, Times, Sigs
<1>3. TimesPast'
  <2>1. file'.mtime <= 2 * touches + 4
    BY <1>1, <1>2 DEF TouchNext, Read, Write, Delete, Now, NoFile, AlarmInv,
                      TimesPast
  <2>2. ASSUME NEW g \in Gens
        PROVE  /\ base[g].mtime <= 2 * touches + 4
               /\ cur[g].mtime <= 2 * touches + 4
               /\ armed[g] <= 2 * touches + 4
    <3>1. /\ base[g].mtime \in Nat /\ cur[g].mtime \in Nat /\ armed[g] \in Nat
          /\ base[g].mtime <= 2 * touches + 2 /\ cur[g].mtime <= 2 * touches + 2
          /\ armed[g] <= 2 * touches + 2
      BY <1>2 DEF AlarmInv, TimesPast
    <3>2. QED
      BY <1>1, <3>1
  <2>3. 2 * touches' + 2 = 2 * touches + 4
    BY <1>1
  <2>4. QED
    BY <1>1, <2>1, <2>2, <2>3 DEF TimesPast
<1>4. ASSUME NEW g \in Gens, late = "no" PROVE AlarmParts(g)'
  <2>0. AlarmParts(g)
    BY <1>4 DEF AlarmInv
  <2>1. CASE Read
    <3>1. "read" \in news'[g] /\ There /\ There' /\ file'.mtime = file.mtime
      BY <2>1 DEF Read, Touch, There, TypeOK, BaitTypeOK
    <3>2. QED
      BY <2>0, <3>1, <1>1
         DEF AlarmParts, Explained, Watching, Missed, AlarmTrue, Alarming
  <2>2. CASE Write
    <3>1. "modified" \in news'[g] /\ There' /\ file'.mtime = 2 * touches + 3
      BY <2>2 DEF Write, Touch, There, Now
    <3>2. base[g].mtime \in Nat /\ base[g].mtime <= 2 * touches + 2
      BY <1>2 DEF AlarmInv, TimesPast
    <3>3. file'.mtime # base[g].mtime
      BY <3>1, <3>2, <1>1
    <3>4. QED
      BY <2>0, <3>1, <3>3, <1>1
         DEF AlarmParts, Explained, Watching, Missed, AlarmTrue, Alarming
  <2>3. CASE Delete
    <3>1. "deleted" \in news'[g] /\ ~There'
      BY <2>3 DEF Delete, Touch, There, NoFile
    <3>2. QED
      BY <2>0, <3>1, <1>1
         DEF AlarmParts, Explained, Watching, Missed, AlarmTrue, Alarming
  <2>4. QED
    BY <2>1, <2>2, <2>3 DEF TouchNext
<1>5. QED
  BY <1>3, <1>4 DEF AlarmInv

\* The steps of an instance keep the times behind the clock.
LEMMA InstTimes ==
  ASSUME TypeOK, AlarmInv, NEW g \in Gens, InstNext(g)
  PROVE  TimesPast'
<1> USE BaitAssumption DEF AlarmInv, TimesPast, TypeOK, BaitTypeOK
<1>0. /\ touches \in Nat /\ file.mtime \in Nat
      /\ base \in [Gens -> Sigs] /\ cur \in [Gens -> Sigs]
      /\ armed \in [Gens -> Times]
  BY DEF Times
<1>1. CASE Begin(g)
  BY <1>0, <1>1 DEF Begin, Planted
<1>2. CASE Baseline(g)
  BY <1>0, <1>2 DEF Baseline, Sig, NoSig
<1>3. CASE Exit(g)
  BY <1>3 DEF Exit
<1>4. CASE Poll(g)
  BY <1>0, <1>4 DEF Poll, Sig
<1>5. CASE Arm(g)
  BY <1>0, <1>5 DEF Arm
<1>6. CASE Chtimes(g)
  BY <1>0, <1>6 DEF Chtimes
<1>7. CASE Rebase(g)
  BY <1>0, <1>7 DEF Rebase, Sig
<1>8. CASE Reported(g)
  BY <1>0, <1>8 DEF Reported, NoSig
<1>9. CASE BeginUnarmed(g)
  BY <1>0, <1>9 DEF BeginUnarmed, Meanwhile
<1>10. CASE BeginFails(g)
  BY <1>10 DEF BeginFails
<1>11. CASE ChtimesFails(g)
  BY <1>11 DEF ChtimesFails
<1>12. QED
  BY <1>1, <1>2, <1>3, <1>4, <1>5, <1>6, <1>7, <1>8, <1>9, <1>10, <1>11 DEF InstNext

\* The steps of an instance keep its own part (planted.go, Start).
LEMMA InstAlarm ==
  ASSUME TypeOK, NEW g \in Gens, AlarmParts(g), InstNext(g)
  PROVE  AlarmParts(g)'
<1> USE DEF AlarmParts, Explained, Watching, Missed, AlarmTrue, Alarming, Goto,
            TypeOK, BaitTypeOK
<1>1. CASE Begin(g)
  BY <1>1 DEF Begin
<1>2. CASE Baseline(g)
  BY <1>2 DEF Baseline, Sig, There
<1>3. CASE Exit(g)
  BY <1>3 DEF Exit
<1>4. CASE Poll(g)
  <2>1. Found[g] \in news[g]
    BY <1>4 DEF Poll, Found, Sig, There, Sigs
  <2>2. seen'[g] = Found[g] /\ cause'[g] = news[g]
    BY <1>4 DEF Poll
  <2>3. There' <=> There
    BY <1>4 DEF Poll, There
  <2>4. /\ Found[g] = "deleted" => pc'[g] = "report"
        /\ Found[g] # "deleted" => There /\ pc'[g] \in {"arm", "rebase", "report"}
    BY <1>4 DEF Poll, Found
  <2>5. Found[g] # "deleted" => pc'[g] \in {"arm", "rebase"}
    BY <1>4 DEF Poll, Found
  <2>6. QED
    BY <2>1, <2>2, <2>3, <2>4, <2>5
<1>5. CASE Arm(g)
  BY <1>5 DEF Arm, There
<1>6. CASE Chtimes(g)
  BY <1>6 DEF Chtimes, There
<1>7. CASE Rebase(g)
  <2>1. CASE There
    BY <1>7, <2>1 DEF Rebase, Sig, There
  <2>2. CASE ~There
    BY <1>7, <2>2 DEF Rebase, There
  <2>3. QED
    BY <2>1, <2>2
<1>8. CASE Reported(g)
  BY <1>8 DEF Reported, There
<1>9. CASE BeginUnarmed(g)
  BY <1>9 DEF BeginUnarmed
<1>10. CASE BeginFails(g)
  BY <1>10 DEF BeginFails
<1>11. CASE ChtimesFails(g)
  BY <1>11 DEF ChtimesFails, There
<1>12. QED
  BY <1>1, <1>2, <1>3, <1>4, <1>5, <1>6, <1>7, <1>8, <1>9, <1>10, <1>11 DEF InstNext

\* Where an instance is at rest its part holds of any file.
LEMMA RestAlarm ==
  ASSUME NEW g, pc[g] \in {"none", "begin", "done"}
  PROVE  AlarmParts(g)
BY DEF AlarmParts, Explained, Watching, Missed, AlarmTrue, Alarming

\* The steps of an instance find no other one running.
LEMMA InstAlarmAll ==
  ASSUME TypeOK, GenInv, AlarmInv, NEW g \in Gens, InstNext(g),
         UNCHANGED runVars
  PROVE  AlarmInv'
<1>1. ASSUME late = "no", NEW h \in Gens PROVE AlarmParts(h)'
  <2>1. CASE h = g
    BY <1>1, <2>1, InstAlarm DEF AlarmInv
  <2>2. CASE h # g
    <3>1. Running(g) /\ g = gen
      BY <1>1, InstRuns DEF GenInv, OneGeneration, Running
    <3>2. pc[h] \in {"none", "done"}
      BY <1>1, <2>2, <3>1 DEF GenInv, OneGeneration, Running, TypeOK, BaitTypeOK
    <3>3. pc'[h] \in {"none", "begin", "done"}
      BY <2>2, <3>2, InstRuns
    <3>4. QED
      BY <3>3, RestAlarm DEF AlarmParts, Explained, Watching, Missed, AlarmTrue,
                             Alarming
  <2>3. QED
    BY <2>1, <2>2
<1>2. QED
  BY <1>1, InstTimes DEF AlarmInv

\* The steps of the loop and of the listeners only start an instance.
LEMMA RunAlarm ==
  ASSUME AlarmInv, UNCHANGED <<fileVars, base, cur, armed, seen, histVars>>,
         late' = "no" => late = "no",
         \A g \in Gens : pc'[g] = pc[g] \/ pc'[g] \in {"none", "begin"}
  PROVE  AlarmInv'
BY DEF AlarmInv, TimesPast, AlarmParts, Explained, Watching, Missed, AlarmTrue,
       Alarming, There

\* What the loop and the listeners do to the bait sensor.
LEMMA RunSteps ==
  ASSUME TypeOK,
         \/ (\E S \in SpecSets : StartAll(S)) \/ StopAll \/ Stopped \/ GraceExpires
         \/ \E g \in Gens, s \in Listeners :
              Listen(g, s) \/ Close(g, s) \/ AcceptFails(g, s)
  PROVE  /\ UNCHANGED <<fileVars, base, cur, armed, seen, histVars>>
         /\ late' = "no" => late = "no"
         /\ \A g \in Gens : pc'[g] = pc[g] \/ pc'[g] \in {"none", "begin"}
<1>1. ASSUME NEW S, Launch(S)
      PROVE  \A g \in Gens : pc'[g] = pc[g] \/ pc'[g] \in {"none", "begin"}
  BY <1>1 DEF Launch, TypeOK, BaitTypeOK
<1>2. ASSUME NEW S, StartAll(S)
      PROVE  /\ UNCHANGED <<fileVars, base, cur, armed, seen, histVars, late>>
             /\ \A g \in Gens : pc'[g] = pc[g] \/ pc'[g] \in {"none", "begin"}
  BY <1>1, <1>2 DEF StartAll
<1>3. ASSUME Proceed
      PROVE  /\ UNCHANGED <<fileVars, base, cur, armed, seen, histVars>>
             /\ \A g \in Gens : pc'[g] = pc[g] \/ pc'[g] \in {"none", "begin"}
  BY <1>1, <1>3 DEF Proceed
<1>4. QED
  BY <1>2, <1>3 DEF StopAll, Stopped, GraceExpires, Listen, Close, AcceptFails

\* One step of anybody.
LEMMA NextAlarm == TypeOK /\ GenInv /\ AlarmInv /\ [Next]_vars => AlarmInv'
<1> SUFFICES ASSUME TypeOK, GenInv, AlarmInv, [Next]_vars PROVE AlarmInv'
  OBVIOUS
<1>1. CASE \/ (\E S \in SpecSets : StartAll(S)) \/ StopAll \/ Stopped
           \/ GraceExpires
           \/ \E g \in Gens, s \in Listeners :
                Listen(g, s) \/ Close(g, s) \/ AcceptFails(g, s)
  BY <1>1, RunSteps, RunAlarm
<1>2. CASE TouchNext /\ UNCHANGED runVars
  BY <1>2, TouchAlarm
<1>3. ASSUME NEW g \in Gens, InstNext(g), UNCHANGED runVars PROVE AlarmInv'
  BY <1>3, InstAlarmAll
<1>4. CASE UNCHANGED vars
  BY <1>4, RunAlarm
<1>5. QED
  BY <1>1, <1>2, <1>3, <1>4 DEF Next

\* Unless a shutdown timed out, what the bait sensor reports was done to its
\* file since it last looked.
THEOREM AlarmsTrue == Spec => []NoFalseAlarm
<1>1. Spec => [](TypeOK /\ RoomOk /\ GenInv /\ AlarmInv)
  BY InitTypes, InitGen, InitAlarm, NextTypes, NextGen, NextAlarm, PTL DEF Spec
<1>2. AlarmInv => NoFalseAlarm
  BY DEF AlarmInv, AlarmParts, NoFalseAlarm
<1>3. QED
  BY <1>1, <1>2, PTL
(***************************************************************************)
(* The arming of the bait file.                                            *)
(***************************************************************************)

\* A later read has a later access time.
AtimesPast ==
    /\ file.atime <= 2 * touches + 2
    /\ \A g \in Gens : base[g].atime <= 2 * touches + 2 /\ cur[g].atime <= 2 * touches + 2

\* The file is there as a sensor planted it: nobody wrote to it.
Unwritten == There /\ file.mtime = Planted

\* The file is armed whenever an instance is about to take a baseline, and as
\* long as what it last saw is what is there.
SightParts(g) ==
    g \notin blind /\ Unwritten =>
      /\ pc[g] \in {"baseline", "rebase"} => Armed
      /\ pc[g] \in {"wait", "report"} =>
           base[g].mtime = Planted /\ (Sig = base[g] => Armed)

SightInv == AtimesPast /\ (late = "no" => \A g \in Gens : SightParts(g))

\* The invariant holds at first.
LEMMA InitSight == Init => SightInv
BY BaitAssumption
   DEF Init, BaitInit, SightInv, AtimesPast, SightParts, Unwritten, There,
       NoFile, NoSig

\* A touch by somebody else: a read the kernel records is seen, one it does not
\* record changes nothing, and a write ends the premise.
LEMMA TouchSight ==
  ASSUME TypeOK, SightInv, TouchNext, UNCHANGED runVars
  PROVE  SightInv'
<1> USE BaitAssumption
<1>1. /\ touches \in Nat /\ touches' = touches + 1
      /\ UNCHANGED <<instVars, cause>>
      /\ blind' = blind \cup {g \in Gens : Working(g)}
  BY DEF TouchNext, Read, Write, Delete, Touch, TypeOK, BaitTypeOK
<1>2. /\ file.mtime \in Nat /\ file.atime \in Nat
      /\ \A g \in Gens : /\ base[g].mtime \in Nat /\ base[g].atime \in Nat
                         /\ cur[g].atime \in Nat
  BY DEF TypeOK, BaitTypeOK, Times, Sigs
<1>3. AtimesPast'
  <2>1. file'.atime <= 2 * touches + 4
    BY <1>1, <1>2 DEF TouchNext, Read, Write, Delete, Now, NoFile, SightInv,
                      AtimesPast
  <2>2. ASSUME NEW g \in Gens
        PROVE  base[g].atime <= 2 * touches + 4 /\ cur[g].atime <= 2 * touches + 4
    <3>1. /\ base[g].atime \in Nat /\ cur[g].atime \in Nat
          /\ base[g].atime <= 2 * touches + 2 /\ cur[g].atime <= 2 * touches + 2
      BY <1>2 DEF SightInv, AtimesPast
    <3>2. QED
      BY <1>1, <3>1
  <2>3. 2 * touches' + 2 = 2 * touches + 4
    BY <1>1
  <2>4. QED
    BY <1>1, <2>1, <2>2, <2>3 DEF AtimesPast
<1>4. ASSUME NEW g \in Gens, late = "no", g \notin blind', Unwritten'
      PROVE  /\ pc[g] \notin {"baseline", "rebase"}
             /\ pc[g] \in {"wait", "report"} =>
                  base[g].mtime = Planted /\ (Sig' = base[g] => Armed')
  <2>1. SightParts(g) /\ g \notin blind
    BY <1>1, <1>4 DEF SightInv
  <2>2. pc[g] \notin {"baseline", "rebase"}
    BY <1>1, <1>4 DEF Working
  <2>3. CASE Read
    <3>1. Unwritten
      BY <1>4, <2>3 DEF Unwritten, Read, There
    <3>2. CASE Armed
      <4>1. file'.atime = 2 * touches + 3
        BY <2>3, <3>2 DEF Read, Now
      <4>2. base[g].atime \in Nat /\ base[g].atime <= 2 * touches + 2
        BY <1>2 DEF SightInv, AtimesPast
      <4>3. Sig' # base[g]
        BY <1>1, <4>1, <4>2 DEF Sig
      <4>4. QED
        BY <2>1, <2>2, <3>1, <4>3 DEF SightParts
    <3>3. CASE ~Armed
      <4>1. file' = file
        BY <2>3, <3>3 DEF Read
      <4>2. QED
        BY <2>1, <2>2, <3>1, <4>1 DEF SightParts, Sig, Armed
    <3>4. QED
      BY <3>2, <3>3
  <2>4. CASE Write
    <3>1. file'.mtime = 2 * touches + 3
      BY <2>4 DEF Write, Now
    <3>2. QED
      BY <1>1, <1>4, <3>1 DEF Unwritten, Planted
  <2>5. CASE Delete
    BY <1>4, <2>5 DEF Delete, NoFile, Unwritten, There
  <2>6. QED
    BY <2>3, <2>4, <2>5 DEF TouchNext
<1>5. QED
  BY <1>1, <1>3, <1>4 DEF SightInv, SightParts

\* The steps of an instance keep the access times behind the clock.
LEMMA InstAtimes ==
  ASSUME TypeOK, SightInv, NEW g \in Gens, InstNext(g)
  PROVE  AtimesPast'
<1> USE BaitAssumption DEF SightInv, AtimesPast, TypeOK, BaitTypeOK
<1>0. /\ touches \in Nat /\ file.atime \in Nat
      /\ base \in [Gens -> Sigs] /\ cur \in [Gens -> Sigs]
  BY DEF Times
<1>1. CASE Begin(g)
  BY <1>0, <1>1 DEF Begin
<1>2. CASE Baseline(g)
  BY <1>0, <1>2 DEF Baseline, Sig, NoSig
<1>3. CASE Exit(g)
  BY <1>3 DEF Exit
<1>4. CASE Poll(g)
  BY <1>0, <1>4 DEF Poll, Sig
<1>5. CASE Arm(g)
  BY <1>0, <1>5 DEF Arm
<1>6. CASE Chtimes(g)
  BY <1>0, <1>6 DEF Chtimes
<1>7. CASE Rebase(g)
  BY <1>0, <1>7 DEF Rebase, Sig
<1>8. CASE Reported(g)
  BY <1>0, <1>8 DEF Reported, NoSig
<1>9. CASE BeginUnarmed(g)
  BY <1>0, <1>9 DEF BeginUnarmed, Meanwhile
<1>10. CASE BeginFails(g)
  BY <1>10 DEF BeginFails
<1>11. CASE ChtimesFails(g)
  BY <1>11 DEF ChtimesFails
<1>12. QED
  BY <1>1, <1>2, <1>3, <1>4, <1>5, <1>6, <1>7, <1>8, <1>9, <1>10, <1>11 DEF InstNext

\* The steps of an instance keep its own part: Start and armAtime arm the file
\* before the baseline is taken (planted.go).
LEMMA InstSight ==
  ASSUME TypeOK, NEW g \in Gens, SightParts(g), InstNext(g)
  PROVE  SightParts(g)'
<1> USE DEF SightParts, Unwritten, Goto, TypeOK, BaitTypeOK
<1>0. blind \subseteq blind'
  BY DEF InstNext, Begin, BeginUnarmed, BeginFails, Baseline, Exit, Poll, Arm,
   Chtimes, ChtimesFails, Rebase, Reported
<1>1. CASE Begin(g)
  <2>1. file'.atime = 0 /\ file'.mtime \in Nat /\ pc'[g] = "baseline"
    BY <1>1 DEF Begin, Times, Planted
  <2>2. QED
    BY <2>1 DEF Armed
<1>2. CASE Baseline(g)
  BY <1>0, <1>2 DEF Baseline, Sig, There, Armed
<1>3. CASE Exit(g)
  BY <1>3 DEF Exit
<1>4. CASE Poll(g)
  <2>1. pc[g] = "wait" /\ UNCHANGED file
    BY <1>4 DEF Poll
  <2>2. CASE g \notin blind /\ Unwritten
    <3>1. Found[g] = "read"
      BY <2>1, <2>2 DEF Found, Sig
    <3>2. pc'[g] = "arm"
      BY <1>4, <3>1 DEF Poll
    <3>3. QED
      BY <3>2
  <2>3. CASE ~(g \notin blind /\ Unwritten)
    BY <1>0, <2>1, <2>3 DEF There
  <2>4. QED
    BY <2>2, <2>3
<1>5. CASE Arm(g)
  <2>1. pc'[g] = "chtimes" \/ ~There'
    BY <1>5 DEF Arm, There
  <2>2. QED
    BY <2>1
<1>6. CASE Chtimes(g)
  <2>1. pc'[g] = "rebase" /\ (There' => file'.atime = 0 /\ file'.mtime \in Nat)
    BY <1>6 DEF Chtimes, There, Times
  <2>2. QED
    BY <2>1 DEF Armed
<1>7. CASE Rebase(g)
  BY <1>0, <1>7 DEF Rebase, Sig, There, Armed
<1>8. CASE Reported(g)
  BY <1>0, <1>8 DEF Reported, There, Sig, Armed
<1>9. CASE BeginUnarmed(g)
  BY <1>9 DEF BeginUnarmed
<1>10. CASE BeginFails(g)
  BY <1>10 DEF BeginFails
<1>11. CASE ChtimesFails(g)
  BY <1>11 DEF ChtimesFails
<1>12. QED
  BY <1>1, <1>2, <1>3, <1>4, <1>5, <1>6, <1>7, <1>8, <1>9, <1>10, <1>11 DEF InstNext

\* The steps of an instance find no other one running.
LEMMA InstSightAll ==
  ASSUME TypeOK, GenInv, SightInv, NEW g \in Gens, InstNext(g),
         UNCHANGED runVars
  PROVE  SightInv'
<1>1. ASSUME late = "no", NEW h \in Gens PROVE SightParts(h)'
  <2>1. CASE h = g
    BY <1>1, <2>1, InstSight DEF SightInv
  <2>2. CASE h # g
    <3>1. Running(g) /\ g = gen
      BY <1>1, InstRuns DEF GenInv, OneGeneration, Running
    <3>2. pc[h] \in {"none", "done"}
      BY <1>1, <2>2, <3>1 DEF GenInv, OneGeneration, Running, TypeOK, BaitTypeOK
    <3>3. pc'[h] \in {"none", "done"}
      BY <2>2, <3>2, InstRuns
    <3>4. QED
      BY <3>3 DEF SightParts
  <2>3. QED
    BY <2>1, <2>2
<1>2. QED
  BY <1>1, InstAtimes DEF SightInv

\* The steps of the loop and of the listeners only start an instance.
LEMMA RunSight ==
  ASSUME SightInv, UNCHANGED <<fileVars, base, cur, armed, seen, histVars>>,
         late' = "no" => late = "no",
         \A g \in Gens : pc'[g] = pc[g] \/ pc'[g] \in {"none", "begin"}
  PROVE  SightInv'
BY DEF SightInv, AtimesPast, SightParts, Unwritten, There, Sig, Armed

\* One step of anybody.
LEMMA NextSight == TypeOK /\ GenInv /\ SightInv /\ [Next]_vars => SightInv'
<1> SUFFICES ASSUME TypeOK, GenInv, SightInv, [Next]_vars PROVE SightInv'
  OBVIOUS
<1>1. CASE \/ (\E S \in SpecSets : StartAll(S)) \/ StopAll \/ Stopped
           \/ GraceExpires
           \/ \E g \in Gens, s \in Listeners :
                Listen(g, s) \/ Close(g, s) \/ AcceptFails(g, s)
  BY <1>1, RunSteps, RunSight
<1>2. CASE TouchNext /\ UNCHANGED runVars
  BY <1>2, TouchSight
<1>3. ASSUME NEW g \in Gens, InstNext(g), UNCHANGED runVars PROVE SightInv'
  BY <1>3, InstSightAll
<1>4. CASE UNCHANGED vars
  BY <1>4, RunSight
<1>5. QED
  BY <1>1, <1>2, <1>3, <1>4 DEF Next

\* Unless a shutdown timed out, a bait sensor that has seen nothing new in a
\* file nobody wrote to is able to see the next read (planted.go, armAtime).
THEOREM StaysArmed == Spec => []Rearmed
<1>1. Spec => [](TypeOK /\ RoomOk /\ GenInv /\ SightInv)
  BY InitTypes, InitGen, InitSight, NextTypes, NextGen, NextSight, PTL DEF Spec
<1>2. SightInv => Rearmed
  BY DEF SightInv, SightParts, Unwritten, Rearmed, Sighted
<1>3. QED
  BY <1>1, <1>2, PTL
=============================================================================
