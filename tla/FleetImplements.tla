--------------------------- MODULE FleetImplements ---------------------------
(***************************************************************************)
(* The fleet protocol keeps the console's promise: Fleet implements        *)
(* Deployment, under the mapping of Fleet's instance Job.                  *)
(***************************************************************************)
EXTENDS Fleet_proofs

\* What the mapping makes of Fleet's variables.
shown    == [d \in Deps |-> dep[d].st]
assigned == [d \in Deps |-> owner[dep[d].agent]]
tried    == {Attempted(x) : x \in ran}

\* A step that changes no deployment, no owner of one and runs nothing.
LEMMA Stutter ==
    ASSUME TypeOK, TypeOK', IInv, UNCHANGED <<dep, ran>>,
           \A d \in Deps : owner'[dep[d].agent] = owner[dep[d].agent]
    PROVE  UNCHANGED Job!jobVars
BY DEF Job!jobVars

\* Enrolling again, or for the first time, moves no queued deployment.
LEMMA EnrollStutters ==
    ASSUME TypeOK, TypeOK', IInv, NEW h \in Hosts, Enroll(h)
    PROVE  UNCHANGED Job!jobVars
<1>1. UNCHANGED <<dep, ran>>
  BY DEF Enroll
<1>2. ASSUME NEW d \in Deps
      PROVE  owner'[dep[d].agent] = owner[dep[d].agent]
  <2>1. dep[d].agent \in Ids /\ NoHost \notin Hosts
    BY FleetAssumption DEF TypeOK
  <2>2. CASE owner[dep[d].agent] # NoHost
    BY <2>1, <2>2, EnrollKeepsOwners
  <2>3. CASE owner[dep[d].agent] = NoHost
    <3>1. dep[d].agent = 0
      BY <2>1, <2>3 DEF IInv, DepsOk
    <3>2. OwnerOk'
      BY EnrollKeepsOwners
    <3>3. owner'[0] = NoHost
      BY <2>1, <3>1, <3>2 DEF OwnerOk
    <3> QED BY <2>3, <3>1, <3>3
  <2> QED BY <2>2, <2>3
<1> QED BY <1>1, <1>2, Stutter

\* Queuing a deployment for an agent queues it for the agent's host.
LEMMA DeployQueues ==
    ASSUME TypeOK, IInv, NEW h \in Hosts, NEW d \in Deps, Deploy(h, d)
    PROVE  Job!Queue(d, h)
<1>1. /\ row[h].id # 0 /\ dep[d].st = "none"
      /\ dep' = [dep EXCEPT ![d] = [st |-> "pending", agent |-> row[h].id,
                                    key |-> row[h].key]]
      /\ UNCHANGED <<ran, owner>>
  BY DEF Deploy, hostVars
<1>2. owner[row[h].id] = h
  BY <1>1 DEF IInv, RowsOk
<1>3. \A e \in Deps : /\ dep'[e].st = IF e = d THEN "pending" ELSE dep[e].st
                      /\ dep'[e].agent = IF e = d THEN row[h].id ELSE dep[e].agent
  BY <1>1 DEF TypeOK
<1>4. shown' = [shown EXCEPT ![d] = "pending"]
  BY <1>3 DEF shown
<1>5. assigned' = [assigned EXCEPT ![d] = h]
  <2>1. \A e \in Deps : owner'[dep'[e].agent] =
                          IF e = d THEN h ELSE owner[dep[e].agent]
    BY <1>1, <1>2, <1>3
  <2> QED BY <2>1 DEF assigned
<1>6. tried' = tried /\ shown[d] = "none"
  BY <1>1 DEF tried, shown
<1> QED BY <1>4, <1>5, <1>6 DEF Job!Queue, shown, assigned, tried

\* The results loop settles deployments the way the agent's host saw them end,
\* even when only some of the results are applied.
LEMMA ResultsSettle ==
    ASSUME TypeOK, IInv, NEW r \in reqs, NEW results \in SUBSET r.results,
           dep' = IF Accepted(r) THEN Applied(r.id, results) ELSE dep,
           UNCHANGED <<owner, ran>>
    PROVE  Job!Settle
<1>1. tried' = tried
  BY DEF tried
<1>2. ASSUME NEW d \in Deps
      PROVE  /\ owner'[dep'[d].agent] = owner[dep[d].agent]
             /\ \/ dep'[d].st = dep[d].st
                \/ /\ dep[d].st = "pending"
                   /\ dep'[d].st \in {"done", "failed"}
                   /\ [dep |-> d, host |-> owner[dep[d].agent],
                       ended |-> dep'[d].st] \in tried
  <2>1. CASE ~Accepted(r)
    BY <2>1
  <2>2. CASE Accepted(r)
    <3> DEFINE new == Applied(r.id, results)[d]
    <3>1. /\ new.agent = dep[d].agent
          /\ \/ new.st = dep[d].st
             \/ /\ dep[d].st = "pending"
                /\ \E x \in results : x.dep = d
                /\ \/ /\ new.st = "done"
                      /\ [dep |-> d, out |-> "ok"] \in results
                   \/ /\ new.st = "failed"
                      /\ [dep |-> d, out |-> "ok"] \notin results
      BY AppliedFacts
    <3>2. dep'[d] = new
      BY <2>2
    <3> HIDE DEF new
    <3>3. \A x \in results : /\ x \in Results
                             /\ owner[dep[x.dep].agent] = HostOf[r.proc]
                             /\ Ran(r.proc, x)
      <4>1. \A x \in r.results : /\ owner[dep[x.dep].agent] = HostOf[r.proc]
                                 /\ Ran(r.proc, x)
        BY DEF IInv, RequestsOk
      <4>2. r.results \subseteq Results
        BY DEF TypeOK, Requests
      <4> QED BY <4>1, <4>2
    <3>4. ASSUME NEW x \in results, x.dep = d
          PROVE  [dep |-> d, host |-> owner[dep[d].agent],
                  ended |-> IF x.out = "ok" THEN "done" ELSE "failed"] \in tried
      <4> DEFINE y == [dep |-> x.dep, host |-> HostOf[r.proc], out |-> x.out]
      <4>1. y \in ran
        BY <3>3 DEF Ran
      <4>2. Attempted(y) = [dep |-> d, host |-> owner[dep[d].agent],
                    ended |-> IF x.out = "ok" THEN "done" ELSE "failed"]
        BY <3>3, <3>4 DEF Attempted
      <4> QED BY <4>1, <4>2 DEF tried
    <3>5. CASE new.st = "done" /\ [dep |-> d, out |-> "ok"] \in results
               /\ dep[d].st = "pending"
      <4>1. [dep |-> d, host |-> owner[dep[d].agent], ended |-> "done"] \in tried
        BY <3>4, <3>5
      <4> QED BY <3>1, <3>2, <3>5, <4>1
    <3>6. CASE /\ new.st = "failed" /\ [dep |-> d, out |-> "ok"] \notin results
               /\ dep[d].st = "pending" /\ \E x \in results : x.dep = d
      <4>1. PICK x \in results : x.dep = d
        BY <3>6
      <4>2. x = [dep |-> d, out |-> x.out]
        BY <3>3, <4>1 DEF Results
      <4>3. x.out # "ok"
        BY <3>6, <4>1, <4>2
      <4>4. [dep |-> d, host |-> owner[dep[d].agent], ended |-> "failed"] \in tried
        BY <3>4, <4>1, <4>3
      <4> QED BY <3>1, <3>2, <3>6, <4>4
    <3>7. CASE new.st = dep[d].st
      BY <3>1, <3>2, <3>7
    <3> QED BY <3>1, <3>5, <3>6, <3>7
  <2> QED BY <2>1, <2>2
<1>3. assigned' = assigned
  BY <1>2 DEF assigned
<1>4. /\ \A d \in Deps :
           \/ shown'[d] = shown[d]
           \/ /\ shown[d] = "pending" /\ shown'[d] \in {"done", "failed"}
              /\ [dep |-> d, host |-> assigned[d], ended |-> shown'[d]] \in tried
      /\ shown' = [d \in Deps |-> shown'[d]]
  BY <1>2 DEF shown, assigned
<1> QED BY <1>1, <1>3, <1>4
        DEF Job!Settle, Job!Observed, shown, assigned, tried

\* What a process executes is an attempt on the host it was queued for.
LEMMA ExecuteAttempts ==
    ASSUME TypeOK, IInv, NEW p \in Procs, NEW d \in Deps, NEW out \in Outcomes,
           ExecuteOne(p, d, out)
    PROVE  Job!Attempt(d, IF out = "ok" THEN "done" ELSE "failed")
<1> DEFINE s == IF out = "ok" THEN "done" ELSE "failed"
           y == [dep |-> d, host |-> HostOf[p], out |-> out]
<1>1. Own(p, d)
  BY DEF ExecuteOne, IInv, WorkOk
<1>2. dep[d].st # "none" /\ owner[dep[d].agent] = HostOf[p]
  BY <1>1, OwnIsForHost DEF Own
<1>3. ran' = ran \cup {y} /\ UNCHANGED <<dep, owner>>
  BY DEF ExecuteOne, apiVars
<1>4. Attempted(y) = [dep |-> d, host |-> assigned[d], ended |-> s]
  BY <1>2 DEF Attempted, assigned
<1>5. tried' = tried \cup {Attempted(y)}
  BY <1>3 DEF tried
<1>6. shown' = shown /\ assigned' = assigned /\ shown[d] # "none"
  BY <1>2, <1>3 DEF shown, assigned
<1> HIDE DEF s, y
<1>7. Job!Attempt(d, s)
  BY <1>4, <1>5, <1>6 DEF Job!Attempt, shown, assigned, tried
<1> QED BY <1>7 DEF s

\* A deployment is attempted only where it was queued for, and becomes done or
\* failed once, as an attempt on that host ended: for every number of
\* machines, processes, deployments, enrollments, faults and restarts.
THEOREM Refinement == Spec => ImplementsDeployment
<1>1. Init => Job!JobInit
  <2> SUFFICES ASSUME Init PROVE Job!JobInit
    OBVIOUS
  <2>1. shown = [d \in Deps |-> "none"]
    BY DEF Init, shown
  <2>2. assigned = [d \in Deps |-> NoHost]
    BY FleetAssumption DEF Init, assigned, Ids
  <2>3. tried = {}
    BY DEF Init, tried
  <2> QED BY <2>1, <2>2, <2>3 DEF Job!JobInit, shown, assigned, tried
<1>2. /\ TypeOK /\ TypeOK' /\ IInv
      /\ [Next]_vars
      => [Job!JobNext]_(Job!jobVars)
  <2> SUFFICES ASSUME TypeOK, TypeOK', IInv, [Next]_vars
               PROVE  Job!JobNext \/ UNCHANGED Job!jobVars
    OBVIOUS
  <2> USE DEF apiVars, hostVars
  <2>1. ASSUME NEW h \in Hosts, HostNext(h)
        PROVE  Job!JobNext \/ UNCHANGED Job!jobVars
    <3>1. CASE Enroll(h)
      BY <3>1, EnrollStutters
    <3>2. CASE \E d \in Deps : Deploy(h, d)
      BY <3>2, DeployQueues DEF Job!JobNext
    <3>3. CASE \/ SaveState(h) \/ LoseOffer(h) \/ Retire(h)
               \/ \E c \in Configs : PutSensors(h, c)
      <4>1. UNCHANGED <<dep, owner, ran>>
        BY <3>3 DEF SaveState, LoseOffer, Retire, PutSensors
      <4> QED BY <4>1, Stutter
    <3> QED BY <2>1, <3>1, <3>2, <3>3 DEF HostNext
  <2>2. ASSUME NEW p \in Procs, ProcNext(p)
        PROVE  Job!JobNext \/ UNCHANGED Job!jobVars
    <3>1. CASE \E d \in Deps, out \in Outcomes : ExecuteOne(p, d, out)
      <4>1. PICK d \in Deps, out \in Outcomes : ExecuteOne(p, d, out)
        BY <3>1
      <4>2. Job!Attempt(d, IF out = "ok" THEN "done" ELSE "failed")
        BY <4>1, ExecuteAttempts
      <4> QED BY <4>2 DEF Job!JobNext
    <3>2. CASE \/ Start(p) \/ Stop(p) \/ SelfUpdate(p)
               \/ Send(p) \/ GiveUp(p) \/ CallFails(p)
               \/ ReceiveOk(p) \/ ReceiveGone(p) \/ ReceiveRejected(p)
      <4>1. UNCHANGED <<dep, owner, ran>>
        BY <3>2 DEF Start, Stop, SelfUpdate, Send, GiveUp, CallFails,
                    ReceiveOk, ReceiveGone, ReceiveRejected
      <4> QED BY <4>1, Stutter
    <3> QED BY <2>2, <3>1, <3>2 DEF ProcNext
  <2>3. ASSUME NEW r \in reqs, Heartbeat(r) \/ HeartbeatDies(r)
        PROVE  Job!JobNext
    <3>1. UNCHANGED <<owner, ran>>
      BY <2>3 DEF Heartbeat, HeartbeatDies
    <3>2. PICK results \in SUBSET r.results :
            dep' = IF Accepted(r) THEN Applied(r.id, results) ELSE dep
      <4>1. CASE Heartbeat(r)
        BY <4>1 DEF Heartbeat
      <4>2. CASE HeartbeatDies(r)
        <5>1. PICK last \in 0..MaxDeps :
                dep' = IF Accepted(r)
                       THEN Applied(r.id, {x \in r.results : x.dep <= last})
                       ELSE dep
          BY <4>2 DEF HeartbeatDies
        <5> QED BY <5>1
      <4> QED BY <2>3, <4>1, <4>2
    <3> QED BY <3>1, <3>2, ResultsSettle DEF Job!JobNext
  <2>4. CASE UNCHANGED vars
    <3>1. UNCHANGED <<dep, owner, ran>>
      BY <2>4 DEF vars
    <3> QED BY <3>1, Stutter
  <2> QED BY <2>1, <2>2, <2>3, <2>4 DEF Next
<1> QED BY <1>1, <1>2, Inductive, TypeCorrect, PTL
        DEF Spec, ImplementsDeployment, Job!JobSpec
=============================================================================
