----------------------------- MODULE Fleet_proofs -----------------------------
(***************************************************************************)
(* Proofs about Fleet, for every number of machines, processes,            *)
(* deployments, enrollments and faults: types, the carriers of credentials *)
(* and of work, the size of a report, and that nothing is done twice.      *)
(***************************************************************************)
EXTENDS Fleet, FiniteSetTheorems, TLAPS

(***************************************************************************)
(* Type correctness.                                                       *)
(***************************************************************************)
Statuses == {"none", "pending", "done", "failed"}
Rows     == [Deps -> [st : Statuses, agent : Ids, key : Ids]]
Replies  == [code : {"none", "ok", "rejected", "gone"},
             deps : SUBSET Deps, sensors : Configs]

\* The results loop keeps the deployment rows well formed; it leaves agent
\* and key alone and moves only a pending row of `id` that a result names.
LEMMA AppliedFacts ==
    ASSUME TypeOK, NEW id, NEW results
    PROVE  /\ Applied(id, results) \in Rows
           /\ \A d \in Deps :
                LET new == Applied(id, results)[d] IN
                /\ new.agent = dep[d].agent /\ new.key = dep[d].key
                /\ (new.st = "none") <=> (dep[d].st = "none")
                /\ \/ new.st = dep[d].st
                   \/ /\ dep[d].st = "pending" /\ dep[d].agent = id
                      /\ \E x \in results : x.dep = d
                      /\ \/ /\ new.st = "done"
                            /\ [dep |-> d, out |-> "ok"] \in results
                         \/ /\ new.st = "failed"
                            /\ [dep |-> d, out |-> "ok"] \notin results
<1> DEFINE Moves(d) == /\ dep[d].st = "pending"
                       /\ dep[d].agent = id
                       /\ \E x \in results : x.dep = d
           Ok(d) == [dep |-> d, out |-> "ok"] \in results
           New(d) == IF Ok(d) THEN "done" ELSE "failed"
           Row == [st : Statuses, agent : Ids, key : Ids]
<1>1. \A d \in Deps : dep[d] \in Row
  BY DEF TypeOK, Statuses
<1>2. Applied(id, results) =
        [d \in Deps |-> IF Moves(d) THEN Settled(d, New(d)) ELSE dep[d]]
  BY DEF Applied
<1>3. \A d \in Deps : /\ New(d) \in {"done", "failed"}
                      /\ New(d) = "done" <=> Ok(d)
  OBVIOUS
<1>4. \A d \in Deps, s \in {"done", "failed"} :
        /\ Settled(d, s) \in Row
        /\ Settled(d, s).st = s
        /\ Settled(d, s).agent = dep[d].agent
        /\ Settled(d, s).key = dep[d].key
  BY <1>1 DEF Settled, Statuses
<1>5. \A d \in Deps : Moves(d) => dep[d].st = "pending" /\ dep[d].agent = id
                                  /\ \E x \in results : x.dep = d
  OBVIOUS
<1> HIDE DEF Moves, Ok, New, Row
<1>6. Applied(id, results) \in [Deps -> Row]
  BY <1>1, <1>2, <1>3, <1>4
<1>7. ASSUME NEW d \in Deps
      PROVE  LET new == Applied(id, results)[d] IN
             /\ new.agent = dep[d].agent /\ new.key = dep[d].key
             /\ (new.st = "none") <=> (dep[d].st = "none")
             /\ \/ new.st = dep[d].st
                \/ /\ Moves(d)
                   /\ \/ new.st = "done" /\ Ok(d)
                      \/ new.st = "failed" /\ ~Ok(d)
  <2>1. CASE Moves(d)
    BY <1>2, <1>3, <1>4, <1>5, <2>1
  <2>2. CASE ~Moves(d)
    BY <1>2, <2>2
  <2> QED BY <2>1, <2>2
<1> QED BY <1>5, <1>6, <1>7 DEF Rows, Row, Ok

\* Queued rows stay queued, for the same agent and key.
LEMMA AppliedKeeps ==
    ASSUME TypeOK, NEW id, NEW results, NEW d \in Deps
    PROVE  /\ Applied(id, results)[d].agent = dep[d].agent
           /\ Applied(id, results)[d].key = dep[d].key
           /\ Applied(id, results)[d].st = "none" <=> dep[d].st = "none"
<1> DEFINE new == Applied(id, results)[d]
<1>1. /\ new.agent = dep[d].agent /\ new.key = dep[d].key
      /\ (new.st = "none") <=> (dep[d].st = "none")
  BY AppliedFacts
<1> QED BY <1>1

\* A batch holds only pending deployments of the agent.
LEMMA BatchFacts ==
    ASSUME NEW rows, NEW id
    PROVE  /\ Batch(rows, id) \subseteq Deps
           /\ \A d \in Batch(rows, id) :
                rows[d].st = "pending" /\ rows[d].agent = id
BY DEF Batch

\* Every answer of the API is a well-formed reply, and it says what it means.
LEMMA AnswerFacts ==
    ASSUME TypeOK, NEW r \in Requests, NEW rows
    PROVE  /\ Answer(r, rows) \in Replies
           /\ Answer(r, rows).code = "gone" => ~Registered(r.id)
           /\ Answer(r, rows).code = "ok" =>
                /\ Accepted(r)
                /\ Answer(r, rows).deps = Batch(rows, r.id)
<1> USE FleetAssumption DEF Replies
<1>1. \A c \in {"rejected", "gone"} :
        /\ Reply(c) \in Replies /\ Reply(c).code = c
  BY DEF Reply, NoReply, Reply
<1>2. CASE ~Accepted(r)
  BY <1>1, <1>2 DEF Answer, Accepted
<1>3. CASE Accepted(r)
  <2>1. Registered(r.id)
    BY <1>3 DEF Accepted
  <2>2. PICK h \in Hosts : h = (CHOOSE g \in Hosts : row[g].id = r.id)
    BY <2>1 DEF Registered
  <2>3. row[h].sensors \in Configs
    BY DEF TypeOK
  <2>4. Answer(r, rows) = [code |-> "ok", deps |-> Batch(rows, r.id),
                           sensors |-> row[h].sensors]
    BY <1>3, <2>2 DEF Answer, Accepted
  <2> QED BY <1>3, <2>3, <2>4, BatchFacts
<1> QED BY <1>2, <1>3

\* Every variable keeps its type: each reply, row and report is well formed
\* whatever is lost, and no counter leaves its bound.
THEOREM TypeCorrect == Spec => []TypeOK
<1> USE FleetAssumption
<1>1. Init => TypeOK
  BY DEF Init, TypeOK, NoRow, NoCreds, NoReply, Reply, Creds, Ids
<1>2. TypeOK /\ [Next]_vars => TypeOK'
  <2> SUFFICES ASSUME TypeOK, [Next]_vars PROVE TypeOK'
    OBVIOUS
  <2> USE DEF vars, apiVars, hostVars, procVars, netVars, bounds
  <2>0. NoCreds \in Creds /\ NoReply \in Replies
    BY DEF NoCreds, Creds, Ids, NoReply, Reply, Replies
  <2>1. ASSUME NEW h \in Hosts, Enroll(h) PROVE TypeOK'
    <3>1. PICK id \in Ids, k \in Ids :
            /\ k = minted + 1
            /\ id = IF row[h].id # 0 THEN row[h].id ELSE k
      BY <2>1 DEF Enroll, TypeOK, Ids
    <3>2. /\ minted' = k
          /\ row' = [row EXCEPT ![h] = [id |-> id, key |-> k,
                                        sensors |-> row[h].sensors]]
          /\ owner' = [owner EXCEPT ![id] = h]
          /\ offer' = [offer EXCEPT ![h] = [id |-> id, key |-> k]]
      BY <2>1, <3>1 DEF Enroll
    <3>3. row[h].sensors \in Configs
      BY DEF TypeOK
    <3> QED BY <2>1, <3>2, <3>3 DEF Enroll, TypeOK, Creds
  <2>2. ASSUME NEW h \in Hosts, SaveState(h) PROVE TypeOK'
    BY <2>0, <2>2 DEF SaveState, TypeOK
  <2>3. ASSUME NEW h \in Hosts, LoseOffer(h) PROVE TypeOK'
    BY <2>0, <2>3 DEF LoseOffer, TypeOK
  <2>4. ASSUME NEW h \in Hosts, Retire(h) PROVE TypeOK'
    BY <2>4 DEF Retire, TypeOK, NoRow, Ids
  <2>5. ASSUME NEW h \in Hosts, NEW c \in Configs, PutSensors(h, c)
        PROVE TypeOK'
    BY <2>5 DEF PutSensors, TypeOK
  <2>6. ASSUME NEW h \in Hosts, NEW d \in Deps, Deploy(h, d) PROVE TypeOK'
    BY <2>6 DEF Deploy, TypeOK
  <2>7. ASSUME NEW r \in reqs, Heartbeat(r) PROVE TypeOK'
    <3>1. r \in Requests
      BY DEF TypeOK
    <3>2. dep' \in Rows
      BY <2>7, AppliedFacts DEF Heartbeat, TypeOK, Rows, Statuses
    <3>3. resp' \in [Procs -> Replies]
      BY <2>7, <3>1, AnswerFacts DEF Heartbeat, TypeOK, Replies, Requests
    <3> QED BY <2>7, <3>2, <3>3 DEF Heartbeat, TypeOK, Rows, Statuses, Replies
  <2>8. ASSUME NEW r \in reqs, HeartbeatDies(r) PROVE TypeOK'
    <3>1. dep' \in Rows
      BY <2>8, AppliedFacts DEF HeartbeatDies, TypeOK, Rows, Statuses
    <3> QED BY <2>8, <3>1 DEF HeartbeatDies, TypeOK, Rows, Statuses, Fault
  <2>9. ASSUME NEW p \in Procs, Start(p) PROVE TypeOK'
    BY <2>9 DEF Start, Fresh, TypeOK
  <2>10. \A p \in Procs : Closed(p) \subseteq Requests
    BY DEF TypeOK, Closed, Requests
  <2>11. ASSUME NEW p \in Procs, Stop(p) PROVE TypeOK'
    BY <2>0, <2>10, <2>11 DEF Stop, Restart, TypeOK, Replies
  <2>12. ASSUME NEW p \in Procs, SelfUpdate(p) PROVE TypeOK'
    BY <2>12 DEF SelfUpdate, Fresh, Restart, TypeOK
  <2>13. ASSUME NEW p \in Procs, Send(p) PROVE TypeOK'
    BY <2>13 DEF Send, TypeOK, Requests, Creds
  <2>14. ASSUME NEW p \in Procs, GiveUp(p) PROVE TypeOK'
    BY <2>0, <2>10, <2>14 DEF GiveUp, Fault, TypeOK, Replies
  <2>15. ASSUME NEW p \in Procs, CallFails(p) PROVE TypeOK'
    BY <2>15 DEF CallFails, TypeOK
  <2>16. ASSUME NEW p \in Procs, ReceiveOk(p) PROVE TypeOK'
    BY <2>0, <2>16 DEF ReceiveOk, TypeOK, Replies
  <2>17. ASSUME NEW p \in Procs, ReceiveGone(p) PROVE TypeOK'
    BY <2>0, <2>17 DEF ReceiveGone, TypeOK, Replies
  <2>18. ASSUME NEW p \in Procs, ReceiveRejected(p) PROVE TypeOK'
    BY <2>0, <2>18 DEF ReceiveRejected, TypeOK, Replies
  <2>19. ASSUME NEW p \in Procs, NEW d \in Deps, NEW out \in Outcomes,
                ExecuteOne(p, d, out)
         PROVE TypeOK'
    <3>1. /\ [dep |-> d, out |-> out] \in Results
          /\ [dep |-> d, host |-> HostOf[p], out |-> out]
               \in [dep : Deps, host : Hosts, out : AllOutcomes]
      BY DEF Results
    <3> QED BY <2>19, <3>1 DEF ExecuteOne, TypeOK
  <2>20. CASE UNCHANGED vars
    BY <2>20 DEF TypeOK
  <2> QED
    BY <2>1, <2>2, <2>3, <2>4, <2>5, <2>6, <2>7, <2>8, <2>9, <2>11, <2>12,
       <2>13, <2>14, <2>15, <2>16, <2>17, <2>18, <2>19, <2>20
       DEF Next, HostNext, ProcNext
<1> QED BY <1>1, <1>2, PTL DEF Spec

(***************************************************************************)
(* The inductive invariant.  The console's promise is about what ends up   *)
(* in the deployments table, but what keeps it true travels: credentials   *)
(* from a row through the enroll reply and the state file into a process,  *)
(* a deployment from its row through a reply into that process, and its    *)
(* outcome back through a report that may be resent, late or superseded.   *)
(* Each part says what one of these carriers may hold.                     *)
(***************************************************************************)

\* Only ids that were minted have an owner.
OwnerOk == \A i \in Ids : owner[i] # NoHost => i # 0 /\ i <= minted

\* The row found by hostname holds the id issued to that host.
RowsOk == \A h \in Hosts :
    row[h].id # 0 => owner[row[h].id] = h /\ row[h].key <= minted

\* Credentials never leave the host they were issued to.
Held(h, c) == c.id # 0 => owner[c.id] = h
CredsOk ==
    /\ \A h \in Hosts : Held(h, offer[h]) /\ Held(h, file[h])
    /\ \A p \in Procs : Held(HostOf[p], mem[p])

\* A queued deployment names an issued id, and was queued no later than the
\* current key of that agent was minted.
DepsOk == \A d \in Deps :
    /\ IF dep[d].st = "none" THEN dep[d].agent = 0 /\ dep[d].key = 0
       ELSE owner[dep[d].agent] \in Hosts
    /\ \A h \in Hosts : row[h].id = dep[d].agent => dep[d].key <= row[h].key

\* Deployment d is p's to execute.
Own(p, d) == /\ dep[d].st # "none"
             /\ dep[d].agent = mem[p].id
             /\ dep[d].key <= mem[p].key

Ran(p, x) == [dep |-> x.dep, host |-> HostOf[p], out |-> x.out] \in ran

WorkOk == \A p \in Procs :
    /\ \A d \in todo[p] : Own(p, d)
    /\ \A x \in pend[p] : Own(p, x.dep) /\ Ran(p, x)

RepliesOk == \A p \in Procs :
    /\ resp[p].code # "none" => pc[p] = "wait"
    /\ resp[p].code = "ok" => \A d \in resp[p].deps : Own(p, d)
    /\ resp[p].code = "gone" => ~Registered(mem[p].id)

\* A request whose sender still waits carries the sender's credentials; any
\* request reports only what its sender's host did for itself.
RequestsOk == \A r \in reqs :
    /\ r.conn = "open" => /\ pc[r.proc] = "wait"
                          /\ r.id = mem[r.proc].id /\ r.key = mem[r.proc].key
    /\ \A x \in r.results : /\ dep[x.dep].st # "none"
                            /\ owner[dep[x.dep].agent] = HostOf[r.proc]
                            /\ Ran(r.proc, x)

\* A process waits for at most one answer, and it has not come yet.
CallsOk == \A r \in reqs : r.conn = "open" =>
    /\ resp[r.proc].code = "none"
    /\ \A q \in reqs : q.conn = "open" /\ q.proc = r.proc => q = r

IInv == /\ OwnerOk /\ RowsOk /\ CredsOk /\ DepsOk
        /\ WorkOk /\ RepliesOk /\ RequestsOk /\ CallsOk
        /\ DormantOnlyIfRetired

\* An id that belongs to a host is not given to another one, and retiring or
\* enrolling an agent brings no retired id back.
LEMMA EnrollKeepsOwners ==
    ASSUME TypeOK, IInv, NEW h \in Hosts, Enroll(h)
    PROVE  /\ \A i \in Ids : owner[i] # NoHost => owner'[i] = owner[i]
           /\ \A i \in Ids : /\ owner[i] # NoHost \/ i = 0
                             /\ ~Registered(i)
                             => ~Registered(i)'
           /\ OwnerOk' /\ RowsOk' /\ DepsOk'
           /\ Held(h, offer[h])'
<1> USE FleetAssumption
<1>1. PICK id \in Ids, k \in Ids :
        /\ k = minted + 1 /\ minted' = k
        /\ id = IF row[h].id # 0 THEN row[h].id ELSE k
        /\ row' = [row EXCEPT ![h] = [id |-> id, key |-> k,
                                      sensors |-> row[h].sensors]]
        /\ owner' = [owner EXCEPT ![id] = h]
        /\ offer' = [offer EXCEPT ![h] = [id |-> id, key |-> k]]
        /\ dep' = dep
  <2> DEFINE k == minted + 1
             id == IF row[h].id # 0 THEN row[h].id ELSE k
  <2>1. id \in Ids /\ k \in Ids
    BY DEF Enroll, TypeOK, Ids
  <2>2. /\ minted' = k
        /\ row' = [row EXCEPT ![h] = [id |-> id, key |-> k,
                                      sensors |-> row[h].sensors]]
        /\ owner' = [owner EXCEPT ![id] = h]
        /\ offer' = [offer EXCEPT ![h] = [id |-> id, key |-> k]]
        /\ dep' = dep
    BY DEF Enroll
  <2> QED BY <2>1, <2>2
<1>2. id # 0 /\ minted \in Nat /\ k \in Nat
  BY <1>1 DEF TypeOK, Ids
<1>3. owner[id] # NoHost => owner[id] = h
  BY <1>1, <1>2 DEF IInv, OwnerOk, RowsOk, TypeOK, Ids
<1>4. \A i \in Ids : /\ owner[i] # NoHost => owner'[i] = owner[i]
                     /\ owner'[i] = IF i = id THEN h ELSE owner[i]
  BY <1>1, <1>3 DEF TypeOK
<1>5. \A g \in Hosts : /\ row'[g].id = IF g = h THEN id ELSE row[g].id
                       /\ row'[g].key = IF g = h THEN k ELSE row[g].key
  BY <1>1 DEF TypeOK
<1>6. ASSUME NEW i \in Ids, owner[i] # NoHost \/ i = 0, ~Registered(i)
      PROVE  ~Registered(i)'
  <2>1. i # id
    BY <1>1, <1>2, <1>6 DEF IInv, OwnerOk, Registered, Ids, TypeOK
  <2> QED BY <2>1, <1>5, <1>6 DEF Registered
<1>7. OwnerOk'
  BY <1>1, <1>2, <1>4 DEF IInv, OwnerOk, RowsOk, TypeOK, Ids
<1>8. RowsOk'
  <2> SUFFICES ASSUME NEW g \in Hosts, row'[g].id # 0
               PROVE  owner'[row'[g].id] = g /\ row'[g].key <= minted'
    BY DEF RowsOk
  <2>1. CASE g = h
    BY <1>1, <1>2, <1>4, <1>5, <2>1 
  <2>2. CASE g # h
    <3>1. row[g].id \in Ids /\ row[g].id # 0 /\ row[g].key \in Ids
      BY <1>5, <2>2 DEF TypeOK
    <3>2. owner[row[g].id] = g /\ row[g].key <= minted
      BY <3>1 DEF IInv, RowsOk
    <3> QED BY <1>1, <1>2, <1>4, <1>5, <2>2, <3>1, <3>2 DEF Ids
  <2> QED BY <2>1, <2>2
<1>9. DepsOk'
  <2> SUFFICES ASSUME NEW d \in Deps
               PROVE  /\ IF dep[d].st = "none"
                         THEN dep[d].agent = 0 /\ dep[d].key = 0
                         ELSE owner'[dep[d].agent] \in Hosts
                      /\ \A g \in Hosts : row'[g].id = dep[d].agent
                                          => dep[d].key <= row'[g].key
    BY <1>1 DEF DepsOk
  <2>1. dep[d].agent \in Ids /\ dep[d].key \in Ids
    BY DEF TypeOK
  <2>2. IF dep[d].st = "none" THEN dep[d].agent = 0 /\ dep[d].key = 0
        ELSE owner'[dep[d].agent] \in Hosts
    BY <2>1, <1>4 DEF IInv, DepsOk
  <2>3. ASSUME NEW g \in Hosts, row'[g].id = dep[d].agent
        PROVE  dep[d].key <= row'[g].key
    <3>1. CASE g # h
      BY <1>5, <2>3, <3>1 DEF IInv, DepsOk
    <3>2. CASE g = h /\ row[h].id # 0
      <4>1. dep[d].key <= row[h].key /\ row[h].key <= minted /\ row[h].key \in Nat
        <5>1. row[h].id = dep[d].agent
          BY <1>1, <1>5, <2>3, <3>2
        <5>2. row[h].key <= minted
          BY <3>2 DEF IInv, RowsOk
        <5>3. row[h].key \in Nat
          BY DEF TypeOK, Ids
        <5> QED BY <5>1, <5>2, <5>3 DEF IInv, DepsOk
      <4>2. row'[g].key = k
        BY <1>5, <3>2
      <4>3. dep[d].key \in Nat /\ k = minted + 1
        BY <1>1, <2>1 DEF Ids
      <4> QED BY <1>2, <4>1, <4>2, <4>3
    <3>3. CASE g = h /\ row[h].id = 0
      <4>1. dep[d].agent = k
        BY <1>1, <1>5, <2>3, <3>3
      <4>2. owner[k] = NoHost
        BY <1>1, <1>2 DEF IInv, OwnerOk, Ids
      <4>3. dep[d].st = "none"
        BY <4>1, <4>2 DEF IInv, DepsOk
      <4>4. dep[d].agent = 0
        BY <4>3 DEF IInv, DepsOk
      <4> QED BY <1>1, <1>2, <4>1, <4>4
    <3> QED BY <3>1, <3>2, <3>3
  <2> QED BY <2>2, <2>3
<1>10. Held(h, offer[h])'
  BY <1>1, <1>4 DEF Held, TypeOK
<1> QED BY <1>4, <1>6, <1>7, <1>8, <1>9, <1>10

\* Nothing but an enrollment gives out an id or a key.
LEMMA ConsoleKeepsOwners ==
    ASSUME TypeOK, TypeOK', IInv, UNCHANGED <<minted, owner>>,
           \A h \in Hosts : \/ row'[h].id = row[h].id /\ row'[h].key = row[h].key
                            \/ row'[h] = NoRow,
           \A d \in Deps : \/ dep'[d].st # "none" /\ dep[d].st # "none"
                              /\ dep'[d].agent = dep[d].agent
                              /\ dep'[d].key = dep[d].key
                           \/ dep'[d] = dep[d]
                           \/ \E h \in Hosts :
                                /\ row[h].id # 0 /\ row'[h] = row[h]
                                /\ dep[d].st = "none" /\ dep'[d].st = "pending"
                                /\ dep'[d].agent = row[h].id
                                /\ dep'[d].key = row[h].key
    PROVE  /\ OwnerOk' /\ RowsOk' /\ DepsOk'
           /\ \A i \in Ids : ~Registered(i) => ~Registered(i)'
<1> USE FleetAssumption
<1>1. OwnerOk'
  BY DEF IInv, OwnerOk
<1>2. RowsOk'
  BY DEF IInv, RowsOk, NoRow
<1>3. \A i \in Ids : ~Registered(i) => ~Registered(i)'
  BY DEF Registered, NoRow
<1>4. ASSUME NEW d \in Deps
      PROVE  /\ IF dep'[d].st = "none" THEN dep'[d].agent = 0 /\ dep'[d].key = 0
                ELSE owner[dep'[d].agent] \in Hosts
             /\ \A h \in Hosts : row'[h].id = dep'[d].agent
                                 => dep'[d].key <= row'[h].key
  <2>1. /\ dep[d].st \in Statuses /\ dep[d].agent \in Ids /\ dep[d].key \in Ids
        /\ dep'[d].agent \in Ids /\ dep'[d].key \in Ids
        /\ \A h \in Hosts : row'[h].key \in Nat /\ row[h].key \in Nat
    BY DEF TypeOK, Statuses, Ids
  <2>2. owner[0] \notin Hosts
    BY DEF IInv, OwnerOk, TypeOK, Ids
  <2>3. CASE dep'[d].agent = dep[d].agent /\ dep'[d].key = dep[d].key
             /\ (dep'[d].st = "none" <=> dep[d].st = "none")
    <3>1. IF dep'[d].st = "none" THEN dep'[d].agent = 0 /\ dep'[d].key = 0
          ELSE owner[dep'[d].agent] \in Hosts
      BY <2>3 DEF IInv, DepsOk
    <3>2. ASSUME NEW h \in Hosts, row'[h].id = dep'[d].agent
          PROVE  dep'[d].key <= row'[h].key
      <4>1. CASE row'[h].id = row[h].id /\ row'[h].key = row[h].key
        BY <2>3, <3>2, <4>1 DEF IInv, DepsOk
      <4>2. CASE row'[h] = NoRow
        <5>1. dep'[d].agent = 0
          BY <3>2, <4>2 DEF NoRow
        <5>2. dep'[d].key = 0
          BY <2>2, <3>1, <5>1
        <5> QED BY <2>1, <5>2
      <4> QED BY <4>1, <4>2
    <3> QED BY <3>1, <3>2
  <2>4. CASE \E h \in Hosts : /\ row[h].id # 0 /\ row'[h] = row[h]
                              /\ dep[d].st = "none" /\ dep'[d].st = "pending"
                              /\ dep'[d].agent = row[h].id
                              /\ dep'[d].key = row[h].key
    <3>1. PICK h \in Hosts : /\ row[h].id # 0 /\ row'[h] = row[h]
                             /\ dep[d].st = "none" /\ dep'[d].st = "pending"
                             /\ dep'[d].agent = row[h].id
                             /\ dep'[d].key = row[h].key
      BY <2>4
    <3>2. owner[row[h].id] = h
      BY <3>1 DEF IInv, RowsOk
    <3>3. ASSUME NEW g \in Hosts, row'[g].id = dep'[d].agent
          PROVE  g = h
      <4>1. row'[g].id = row[g].id
        BY <3>1, <3>3 DEF NoRow
      <4>2. owner[row[g].id] = g
        BY <3>1, <3>3, <4>1 DEF IInv, RowsOk
      <4> QED BY <3>1, <3>2, <3>3, <4>1, <4>2
    <3>4. dep'[d].key <= row'[h].key
      BY <2>1, <3>1
    <3> QED BY <3>1, <3>2, <3>3, <3>4
  <2> QED BY <2>3, <2>4
<1>5. DepsOk'
  BY <1>4 DEF DepsOk
<1> QED BY <1>1, <1>2, <1>3, <1>5

\* Of a deployment that is queued, agent and key never change.
DepsKept == \A d \in Deps : dep[d].st # "none" =>
    dep'[d].st # "none" /\ dep'[d].agent = dep[d].agent /\ dep'[d].key = dep[d].key
\* Ids that have an owner keep it, and no id that is not registered becomes so.
IdsKept == \A i \in Ids :
    /\ owner[i] # NoHost => owner'[i] = owner[i]
    /\ (owner[i] # NoHost \/ i = 0) /\ ~Registered(i) => ~Registered(i)'

\* A step that leaves the processes and the network alone keeps what they hold.
LEMMA CarriersKept ==
    ASSUME TypeOK, TypeOK', IInv, DepsKept, IdsKept,
           UNCHANGED <<ran, procVars, netVars>>
    PROVE  /\ WorkOk' /\ RepliesOk' /\ RequestsOk' /\ CallsOk'
           /\ DormantOnlyIfRetired'
           /\ \A p \in Procs : Held(HostOf[p], mem[p])'
<1> USE FleetAssumption DEF procVars, netVars
<1>1. \A p \in Procs : mem[p].id \in Ids /\ HostOf[p] # NoHost
  BY DEF TypeOK, Creds
<1>2. \A p \in Procs : owner[mem[p].id] # NoHost \/ mem[p].id = 0
  BY <1>1 DEF IInv, CredsOk, Held
<1>3. \A p \in Procs : ~Registered(mem[p].id) => ~Registered(mem[p].id)'
  BY <1>1, <1>2 DEF IdsKept, Registered
<1>4. \A p \in Procs, d \in Deps : Own(p, d) => Own(p, d)'
  BY DEF Own, DepsKept
<1>5. WorkOk'
  <2>1. \A p \in Procs : todo[p] \subseteq Deps
                         /\ \A x \in pend[p] : x.dep \in Deps
    BY DEF TypeOK, Results
  <2> QED BY <2>1, <1>4 DEF IInv, WorkOk, Ran
<1>6. RepliesOk'
  <2>1. \A p \in Procs : resp[p].deps \subseteq Deps
    BY DEF TypeOK
  <2> QED BY <2>1, <1>3, <1>4 DEF IInv, RepliesOk
<1>7. RequestsOk'
  <2> SUFFICES ASSUME NEW r \in reqs
               PROVE  /\ r.conn = "open" =>
                           /\ pc[r.proc] = "wait"
                           /\ r.id = mem[r.proc].id /\ r.key = mem[r.proc].key
                      /\ \A x \in r.results :
                           /\ dep'[x.dep].st # "none"
                           /\ owner'[dep'[x.dep].agent] = HostOf[r.proc]
                           /\ Ran(r.proc, x)
    BY DEF RequestsOk, Ran
  <2>1. \A x \in r.results : x.dep \in Deps /\ dep[x.dep].agent \in Ids
                             /\ HostOf[r.proc] # NoHost
    BY DEF TypeOK, Requests, Results
  <2> QED BY <2>1 DEF IInv, RequestsOk, DepsKept, IdsKept
<1>8. DormantOnlyIfRetired'
  BY <1>3 DEF IInv, DormantOnlyIfRetired
<1>9. \A p \in Procs : Held(HostOf[p], mem[p])'
  BY <1>1 DEF IInv, CredsOk, Held, IdsKept
<1>10. CallsOk'
  BY DEF IInv, CallsOk
<1> QED BY <1>5, <1>6, <1>7, <1>8, <1>9, <1>10

\* A step of a process leaves the tables alone.
LEMMA TablesKept ==
    ASSUME IInv, UNCHANGED apiVars
    PROVE  /\ OwnerOk' /\ RowsOk' /\ DepsOk'
           /\ \A i : Registered(i)' <=> Registered(i)
BY DEF IInv, OwnerOk, RowsOk, DepsOk, Registered, apiVars

\* Whatever is queued for the agent a process is was queued for its machine.
LEMMA OwnIsForHost ==
    ASSUME TypeOK, IInv, NEW p \in Procs, NEW d \in Deps, Own(p, d)
    PROVE  mem[p].id # 0 /\ owner[dep[d].agent] = HostOf[p]
<1>1. owner[mem[p].id] \in Hosts /\ mem[p].id \in Ids
  BY DEF Own, IInv, DepsOk, TypeOK, Creds
<1>2. mem[p].id # 0
  BY <1>1, FleetAssumption DEF IInv, OwnerOk
<1> QED BY <1>2 DEF Own, IInv, CredsOk, Held

\* Closing connections changes no request otherwise.
LEMMA ClosedFacts ==
    ASSUME TypeOK, NEW p \in Procs, NEW c \in Closed(p)
    PROVE  \E r \in reqs : /\ c.proc = r.proc /\ c.id = r.id /\ c.key = r.key
                           /\ c.results = r.results
                           /\ c.conn = "open" =>
                                r.conn = "open" /\ c.proc # p /\ c = r
BY DEF Closed, TypeOK, Requests

\* The requests after the answer to, or the loss of, one of them.
LEMMA HeartbeatKeeps ==
    ASSUME TypeOK, TypeOK', IInv, NEW r \in reqs, NEW results,
           dep' = IF Accepted(r) THEN Applied(r.id, results) ELSE dep,
           reqs' = reqs \ {r}, UNCHANGED <<row, minted, owner, hostVars, procVars>>
    PROVE  /\ OwnerOk' /\ RowsOk' /\ CredsOk' /\ DepsOk'
           /\ WorkOk' /\ RequestsOk' /\ DormantOnlyIfRetired'
           /\ \A p \in Procs, d \in Deps : Own(p, d) => Own(p, d)'
           /\ \A i : Registered(i)' <=> Registered(i)
<1> USE DEF hostVars, procVars
<1>1. \A d \in Deps : /\ dep'[d].st = "none" <=> dep[d].st = "none"
                      /\ dep'[d].agent = dep[d].agent
                      /\ dep'[d].key = dep[d].key
  <2>1. CASE Accepted(r)
    <3>1. dep' = Applied(r.id, results)
      BY <2>1
    <3>2. \A d \in Deps :
             /\ Applied(r.id, results)[d].agent = dep[d].agent
             /\ Applied(r.id, results)[d].key = dep[d].key
             /\ (Applied(r.id, results)[d].st = "none") <=> (dep[d].st = "none")
      BY AppliedKeeps
    <3> QED BY <3>1, <3>2
  <2>2. CASE ~Accepted(r)
    BY <2>2
  <2> QED BY <2>1, <2>2
<1>2. OwnerOk' /\ RowsOk' /\ CredsOk'
  BY DEF IInv, OwnerOk, RowsOk, CredsOk, Held
<1>3. DepsOk'
  BY <1>1 DEF IInv, DepsOk
<1>4. \A p \in Procs, d \in Deps : Own(p, d) => Own(p, d)'
  BY <1>1 DEF Own
<1>5. WorkOk'
  <2>1. \A p \in Procs : todo[p] \subseteq Deps
                         /\ \A x \in pend[p] : x.dep \in Deps
    BY DEF TypeOK, Results
  <2> QED BY <2>1, <1>4 DEF IInv, WorkOk, Ran
<1>6. RequestsOk'
  <2> SUFFICES ASSUME NEW q \in reqs
               PROVE  \A x \in q.results :
                           /\ dep'[x.dep].st # "none"
                           /\ owner[dep'[x.dep].agent] = HostOf[q.proc]
                           /\ Ran(q.proc, x)
    BY DEF IInv, RequestsOk, Ran
  <2>1. \A x \in q.results : x.dep \in Deps
    BY DEF TypeOK, Requests, Results
  <2> QED BY <2>1, <1>1 DEF IInv, RequestsOk
<1>7. \A i : Registered(i)' <=> Registered(i)
  BY DEF Registered
<1>8. DormantOnlyIfRetired'
  BY <1>7 DEF IInv, DormantOnlyIfRetired
<1> QED BY <1>2, <1>3, <1>4, <1>5, <1>6, <1>7, <1>8

\* The API hands a process only what it owns, and 410 only to a retired one.
LEMMA HeartbeatStep ==
    ASSUME TypeOK, TypeOK', IInv, NEW r \in reqs, Heartbeat(r)
    PROVE  IInv'
<1> USE FleetAssumption
<1>1. r \in Requests /\ r.proc \in Procs
  BY DEF TypeOK, Requests
<1>2. /\ OwnerOk' /\ RowsOk' /\ CredsOk' /\ DepsOk'
      /\ WorkOk' /\ RequestsOk' /\ DormantOnlyIfRetired'
      /\ \A p \in Procs, d \in Deps : Own(p, d) => Own(p, d)'
      /\ \A i : Registered(i)' <=> Registered(i)
  BY HeartbeatKeeps DEF Heartbeat
<1>3. \A p \in Procs : resp[p].deps \subseteq Deps
  BY DEF TypeOK
<1>4. mem' = mem /\ pc' = pc
  BY DEF Heartbeat, procVars
<1>5. CASE r.conn # "open"
  <2>1. resp' = resp /\ reqs' \subseteq reqs
    BY <1>5 DEF Heartbeat
  <2>3. CallsOk'
    BY <2>1 DEF IInv, CallsOk
  <2>2. RepliesOk'
    BY <2>1, <1>2, <1>3, <1>4 DEF IInv, RepliesOk
  <2> QED BY <1>2, <2>2, <2>3 DEF IInv
<1>6. CASE r.conn = "open"
  <2> DEFINE a == Answer(r, dep')
  <2>1. resp' = [resp EXCEPT ![r.proc] = a]
    BY <1>6 DEF Heartbeat
  <2>2. /\ pc[r.proc] = "wait"
        /\ r.id = mem[r.proc].id /\ r.key = mem[r.proc].key
    BY <1>6 DEF IInv, RequestsOk
  <2>3. /\ a.code = "gone" => ~Registered(r.id)
        /\ a.code = "ok" => Accepted(r) /\ a.deps = Batch(dep', r.id)
    BY <1>1, AnswerFacts
  <2> HIDE DEF a
  <2>4. ASSUME a.code = "ok", NEW d \in a.deps PROVE Own(r.proc, d)'
    <3>1. d \in Deps /\ dep'[d].st = "pending" /\ dep'[d].agent = r.id
      BY <2>3, <2>4, BatchFacts
    <3>2. PICK h \in Hosts : row[h].id = r.id /\ row[h].key = r.key
      BY <2>3, <2>4 DEF Accepted, KeyMatches
    <3>3. row' = row
      BY DEF Heartbeat
    <3>4. dep'[d].key <= r.key
      BY <1>2, <3>1, <3>2, <3>3 DEF DepsOk
    <3> QED BY <1>4, <2>2, <3>1, <3>4 DEF Own
  <2>5. \A p \in Procs : resp'[p] = IF p = r.proc THEN a ELSE resp[p]
    BY <1>1, <2>1 DEF TypeOK
  <2>6. ASSUME NEW p \in Procs
        PROVE  /\ resp'[p].code # "none" => pc'[p] = "wait"
               /\ resp'[p].code = "ok" => \A d \in resp'[p].deps : Own(p, d)'
               /\ resp'[p].code = "gone" => ~Registered(mem[p].id)'
    <3>0. row' = row
      BY DEF Heartbeat
    <3>1. CASE p = r.proc
      BY <1>4, <2>2, <2>3, <2>4, <2>5, <3>0, <3>1 DEF Registered
    <3>2. CASE p # r.proc
      BY <1>2, <1>3, <1>4, <2>5, <3>0, <3>2
         DEF IInv, RepliesOk, Registered
    <3> QED BY <3>1, <3>2
  <2>7. RepliesOk'
    BY <2>6 DEF RepliesOk
  <2>8. CallsOk'
    <3>1. reqs' = reqs \ {r} /\ \A q \in reqs : q.proc \in Procs
      BY DEF Heartbeat, TypeOK, Requests
    <3>2. \A q \in reqs' : q.conn = "open" => q.proc # r.proc
      BY <1>6, <3>1 DEF IInv, CallsOk
    <3> QED BY <2>5, <3>1, <3>2 DEF IInv, CallsOk
  <2> QED BY <1>2, <2>7, <2>8 DEF IInv
<1> QED BY <1>5, <1>6

\* The steps of the hosts and of the console.
LEMMA HostStep ==
    ASSUME TypeOK, TypeOK', IInv, NEW h \in Hosts, HostNext(h)
    PROVE  IInv'
<1> USE FleetAssumption DEF apiVars, hostVars, procVars, netVars
<1>1. CASE Enroll(h)
  <2>1. /\ OwnerOk' /\ RowsOk' /\ DepsOk' /\ Held(h, offer[h])'
        /\ \A i \in Ids : owner[i] # NoHost => owner'[i] = owner[i]
        /\ \A i \in Ids : /\ owner[i] # NoHost \/ i = 0
                          /\ ~Registered(i)
                          => ~Registered(i)'
    BY <1>1, EnrollKeepsOwners
  <2>2. DepsKept /\ IdsKept
    BY <1>1, <2>1 DEF DepsKept, IdsKept, Enroll
  <2>3. UNCHANGED <<ran, procVars, netVars>>
    BY <1>1 DEF Enroll
  <2>4. /\ WorkOk' /\ RepliesOk' /\ RequestsOk' /\ CallsOk'
        /\ DormantOnlyIfRetired'
        /\ \A p \in Procs : Held(HostOf[p], mem[p])'
    BY <2>2, <2>3, CarriersKept
  <2>5. \A g \in Hosts : Held(g, offer[g])' /\ Held(g, file[g])'
    <3>1. \A g \in Hosts : g # h => offer'[g] = offer[g]
      BY <1>1 DEF Enroll, TypeOK
    <3>2. \A g \in Hosts : offer[g].id \in Ids /\ file[g].id \in Ids /\ g # NoHost
      BY DEF TypeOK, Creds
    <3>3. \A g \in Hosts : Held(g, file[g])'
      BY <1>1, <2>1, <3>2 DEF IInv, CredsOk, Held, Enroll
    <3>4. \A g \in Hosts : g # h => Held(g, offer[g])'
      BY <2>1, <3>1, <3>2 DEF IInv, CredsOk, Held
    <3> QED BY <2>1, <3>3, <3>4
  <2> QED BY <2>1, <2>4, <2>5 DEF IInv, CredsOk
<1>2. CASE SaveState(h) \/ LoseOffer(h)
  <2>1. /\ OwnerOk' /\ RowsOk' /\ DepsOk'
        /\ DepsKept /\ IdsKept
    BY <1>2, TablesKept DEF SaveState, LoseOffer, DepsKept, IdsKept
  <2>2. UNCHANGED <<ran, procVars, netVars>>
    BY <1>2 DEF SaveState, LoseOffer
  <2>3. /\ WorkOk' /\ RepliesOk' /\ RequestsOk' /\ CallsOk'
        /\ DormantOnlyIfRetired'
        /\ \A p \in Procs : Held(HostOf[p], mem[p])'
    BY <2>1, <2>2, CarriersKept
  <2>4. ASSUME NEW g \in Hosts PROVE Held(g, offer[g])' /\ Held(g, file[g])'
    <3>1. offer'[g] = offer[g] \/ offer'[g] = NoCreds
      BY <1>2 DEF SaveState, LoseOffer, TypeOK
    <3>2. file'[g] = file[g] \/ file'[g] = offer[g]
      BY <1>2 DEF SaveState, LoseOffer, TypeOK
    <3>3. owner' = owner
      BY <1>2 DEF SaveState, LoseOffer
    <3> QED BY <3>1, <3>2, <3>3 DEF IInv, CredsOk, Held, NoCreds
  <2> QED BY <2>1, <2>3, <2>4 DEF IInv, CredsOk
<1>3. CASE \/ Retire(h) \/ \E c \in Configs : PutSensors(h, c)
           \/ \E d \in Deps : Deploy(h, d)
  <2>1. UNCHANGED <<minted, owner, offer, file, ran, procVars, netVars>>
    BY <1>3 DEF Retire, PutSensors, Deploy
  <2>2. /\ \A g \in Hosts : \/ row'[g].id = row[g].id /\ row'[g].key = row[g].key
                            \/ row'[g] = NoRow
        /\ \A d \in Deps : \/ dep'[d] = dep[d]
                           \/ \E g \in Hosts :
                                /\ row[g].id # 0 /\ row'[g] = row[g]
                                /\ dep[d].st = "none" /\ dep'[d].st = "pending"
                                /\ dep'[d].agent = row[g].id
                                /\ dep'[d].key = row[g].key
    <3>1. CASE Retire(h)
      BY <3>1 DEF Retire, TypeOK
    <3>2. ASSUME NEW c \in Configs, PutSensors(h, c)
          PROVE  /\ dep' = dep
                 /\ \A g \in Hosts : /\ row'[g].id = row[g].id
                                     /\ row'[g].key = row[g].key
      BY <3>2 DEF PutSensors, TypeOK
    <3>3. ASSUME NEW e \in Deps, Deploy(h, e)
          PROVE  /\ row' = row /\ row[h].id # 0 /\ dep[e].st = "none"
                 /\ dep'[e].st = "pending" /\ dep'[e].agent = row[h].id
                 /\ dep'[e].key = row[h].key
                 /\ \A d \in Deps : d # e => dep'[d] = dep[d]
      BY <3>3 DEF Deploy, TypeOK
    <3>4. CASE \E c \in Configs : PutSensors(h, c)
      BY <3>2, <3>4
    <3>5. CASE \E d \in Deps : Deploy(h, d)
      BY <3>3, <3>5
    <3> QED BY <1>3, <3>1, <3>4, <3>5
  <2>3. /\ OwnerOk' /\ RowsOk' /\ DepsOk'
        /\ \A i \in Ids : ~Registered(i) => ~Registered(i)'
    BY <2>1, <2>2, ConsoleKeepsOwners
  <2>4. DepsKept /\ IdsKept
    BY <2>1, <2>2, <2>3 DEF DepsKept, IdsKept
  <2>5. /\ WorkOk' /\ RepliesOk' /\ RequestsOk' /\ CallsOk'
        /\ DormantOnlyIfRetired'
        /\ \A p \in Procs : Held(HostOf[p], mem[p])'
    BY <2>1, <2>4, CarriersKept
  <2>6. CredsOk'
    BY <2>1, <2>5 DEF IInv, CredsOk, Held
  <2> QED BY <2>3, <2>5, <2>6 DEF IInv
<1> QED BY <1>1, <1>2, <1>3 DEF HostNext

\* What a process may hold after a step of p: everything else is as before.
LEMMA ProcessKeeps ==
    ASSUME TypeOK, TypeOK', IInv, NEW p \in Procs,
           UNCHANGED <<apiVars, offer, file>>, ran \subseteq ran',
           \A q \in Procs \ {p} :
               /\ pc'[q] = pc[q] /\ mem'[q] = mem[q] /\ todo'[q] = todo[q]
               /\ pend'[q] = pend[q] /\ resp'[q] = resp[q],
           Held(HostOf[p], mem[p])',
           \A d \in todo'[p] : Own(p, d)',
           \A x \in pend'[p] : Own(p, x.dep)' /\ Ran(p, x)',
           resp'[p].code # "none" => resp'[p] = resp[p] /\ mem'[p] = mem[p]
                                     /\ pc'[p] = "wait",
           pc'[p] = "dormant" => ~Registered(mem'[p].id),
           RequestsOk', CallsOk'
    PROVE  IInv'
<1> USE FleetAssumption
<1>1. /\ OwnerOk' /\ RowsOk' /\ DepsOk'
      /\ \A i : Registered(i)' <=> Registered(i)
  BY TablesKept
<1>2. UNCHANGED <<row, dep, owner>>
  BY DEF apiVars
<1>3. CredsOk'
  <2>1. \A q \in Procs \ {p} : Held(HostOf[q], mem[q])'
    BY <1>2 DEF IInv, CredsOk, Held
  <2> QED BY <1>2, <2>1 DEF IInv, CredsOk, Held
<1>4. WorkOk'
  <2>1. ASSUME NEW q \in Procs \ {p}
        PROVE  /\ \A d \in todo'[q] : Own(q, d)'
               /\ \A x \in pend'[q] : Own(q, x.dep)' /\ Ran(q, x)'
    <3>1. /\ \A d \in todo[q] : Own(q, d)
          /\ \A x \in pend[q] : Own(q, x.dep) /\ Ran(q, x)
      BY DEF IInv, WorkOk
    <3>2. mem'[q] = mem[q] /\ todo'[q] = todo[q] /\ pend'[q] = pend[q]
      BY <2>1
    <3>3. \A d \in todo'[q] : Own(q, d)'
      BY <1>2, <3>1, <3>2 DEF Own
    <3>4. \A x \in pend'[q] : Own(q, x.dep)' /\ Ran(q, x)'
      BY <1>2, <3>1, <3>2 DEF Own, Ran
    <3> QED BY <3>3, <3>4
  <2> QED BY <2>1 DEF WorkOk
<1>5. RepliesOk'
  <2>1. ASSUME NEW q \in Procs
        PROVE  /\ resp'[q].code # "none" => pc'[q] = "wait"
               /\ resp'[q].code = "ok" => \A d \in resp'[q].deps : Own(q, d)'
               /\ resp'[q].code = "gone" => ~Registered(mem[q].id)'
    BY <1>2 DEF IInv, RepliesOk, Own, Registered
  <2> QED BY <2>1 DEF RepliesOk
<1>6. DormantOnlyIfRetired'
  <2>1. ASSUME NEW q \in Procs, pc'[q] = "dormant"
        PROVE  ~Registered(mem[q].id)'
    BY <1>2, <2>1 DEF IInv, DormantOnlyIfRetired, Registered
  <2> QED BY <2>1 DEF DormantOnlyIfRetired
<1> QED BY <1>1, <1>3, <1>4, <1>5, <1>6 DEF IInv

\* Requests stay what they are while their senders wait with the same
\* credentials, and when their senders' connections are closed.
LEMMA RequestsKept ==
    ASSUME TypeOK, IInv, NEW p \in Procs, UNCHANGED <<dep, owner>>,
           ran \subseteq ran', reqs' \in {reqs, Closed(p)},
           \A q \in Procs \ {p} : pc'[q] = pc[q] /\ mem'[q] = mem[q],
           \/ reqs' = Closed(p)
           \/ pc[p] = pc'[p] /\ mem'[p] = mem[p]
           \/ \A r \in reqs : r.proc = p => r.conn = "closed",
           \A q \in Procs \ {p} : resp'[q] = resp[q],
           resp'[p] = resp[p] \/ resp'[p].code = "none"
    PROVE  RequestsOk' /\ CallsOk'
<1>5. CallsOk'
  <2>1. ASSUME NEW c \in Closed(p), c.conn = "open" PROVE c \in reqs
    <3>1. \E r \in reqs : c.conn = "open" => c = r
      BY ClosedFacts
    <3> QED BY <2>1, <3>1
  <2>2. \A c \in reqs' : c.conn = "open" => c \in reqs
    BY <2>1
  <2>3. ASSUME NEW r \in reqs', r.conn = "open"
        PROVE  /\ resp'[r.proc].code = "none"
               /\ \A q \in reqs' : q.conn = "open" /\ q.proc = r.proc => q = r
    <3>1. r \in reqs /\ r.proc \in Procs
      BY <2>2, <2>3 DEF TypeOK, Requests
    <3>2. resp[r.proc].code = "none"
      BY <2>3, <3>1 DEF IInv, CallsOk
    <3>3. resp'[r.proc].code = "none"
      BY <3>1, <3>2
    <3> QED BY <2>2, <2>3, <3>1, <3>3 DEF IInv, CallsOk
  <2> QED BY <2>3 DEF CallsOk
<1> SUFFICES ASSUME NEW c \in reqs'
             PROVE  /\ c.conn = "open" =>
                         /\ pc'[c.proc] = "wait"
                         /\ c.id = mem'[c.proc].id /\ c.key = mem'[c.proc].key
                    /\ \A x \in c.results :
                         /\ dep[x.dep].st # "none"
                         /\ owner[dep[x.dep].agent] = HostOf[c.proc]
                         /\ Ran(c.proc, x)'
  BY <1>5 DEF RequestsOk
<1>1. PICK r \in reqs : /\ c.proc = r.proc /\ c.id = r.id /\ c.key = r.key
                        /\ c.results = r.results
                        /\ c.conn = "open" => r.conn = "open"
                        /\ c.conn = "open" /\ reqs' = Closed(p) => c.proc # p
  <2>1. CASE reqs' = Closed(p)
    BY <2>1, ClosedFacts
  <2>2. CASE reqs' = reqs /\ reqs' # Closed(p)
    BY <2>2
  <2> QED BY <2>1, <2>2
<1>2. r.proc \in Procs /\ r.conn \in {"open", "closed"}
  BY DEF TypeOK, Requests
<1>3. \A x \in r.results : /\ dep[x.dep].st # "none"
                           /\ owner[dep[x.dep].agent] = HostOf[r.proc]
                           /\ Ran(r.proc, x)'
  BY DEF IInv, RequestsOk, Ran
<1>4. ASSUME c.conn = "open"
      PROVE  /\ pc'[r.proc] = "wait"
             /\ r.id = mem'[r.proc].id /\ r.key = mem'[r.proc].key
  <2>1. /\ pc[r.proc] = "wait"
        /\ r.id = mem[r.proc].id /\ r.key = mem[r.proc].key
    BY <1>1, <1>4 DEF IInv, RequestsOk
  <2>2. pc'[r.proc] = pc[r.proc] /\ mem'[r.proc] = mem[r.proc]
    BY <1>1, <1>2, <1>4
  <2> QED BY <2>1, <2>2
<1> QED BY <1>1, <1>3, <1>4

\* The steps of a process.
LEMMA ProcStep ==
    ASSUME TypeOK, TypeOK', IInv, NEW p \in Procs, ProcNext(p)
    PROVE  IInv'
<1> USE FleetAssumption DEF apiVars, hostVars, procVars, netVars
<1>0. /\ HostOf[p] \in Hosts /\ todo[p] \subseteq Deps
      /\ \A x \in pend[p] : x.dep \in Deps
      /\ resp[p].deps \subseteq Deps
  BY DEF TypeOK, Results
<1>1. /\ Held(HostOf[p], mem[p]) /\ Held(HostOf[p], file[HostOf[p]])
      /\ Held(HostOf[p], NoCreds)
  BY <1>0 DEF IInv, CredsOk, Held, NoCreds
<1>2. /\ \A d \in todo[p] : Own(p, d)
      /\ \A x \in pend[p] : Own(p, x.dep) /\ Ran(p, x)
      /\ resp[p].code # "none" => pc[p] = "wait"
      /\ resp[p].code = "ok" => \A d \in resp[p].deps : Own(p, d)
      /\ resp[p].code = "gone" => ~Registered(mem[p].id)
      /\ pc[p] = "dormant" => ~Registered(mem[p].id)
  BY DEF IInv, WorkOk, RepliesOk, DormantOnlyIfRetired
<1>3. pc[p] # "wait" => \A r \in reqs : r.proc = p => r.conn = "closed"
  BY DEF IInv, RequestsOk, TypeOK, Requests
<1>4. NoReply.code = "none"
  BY DEF NoReply, Reply
<1>5. CASE Start(p) \/ SelfUpdate(p)
  <2>1. /\ UNCHANGED <<apiVars, hostVars, netVars>> /\ pc'[p] = "top"
        /\ mem'[p] = file[HostOf[p]] /\ todo'[p] = {} /\ pend'[p] = {}
        /\ \A q \in Procs \ {p} :
             /\ pc'[q] = pc[q] /\ mem'[q] = mem[q] /\ todo'[q] = todo[q]
             /\ pend'[q] = pend[q]
        /\ pc[p] # "wait"
    BY <1>5 DEF Start, SelfUpdate, Fresh, TypeOK
  <2>2. RequestsOk' /\ CallsOk'
    BY <2>1, <1>3, RequestsKept
  <2>3. Held(HostOf[p], mem[p])'
    BY <2>1, <1>1 DEF Held
  <2> QED BY <2>1, <2>2, <2>3, <1>2, ProcessKeeps
<1>6. CASE Stop(p)
  <2>1. /\ UNCHANGED <<apiVars, hostVars>> /\ pc'[p] = "down"
        /\ mem'[p] = NoCreds /\ todo'[p] = {} /\ pend'[p] = {}
        /\ resp'[p] = NoReply /\ reqs' = Closed(p)
        /\ \A q \in Procs \ {p} :
             /\ pc'[q] = pc[q] /\ mem'[q] = mem[q] /\ todo'[q] = todo[q]
             /\ pend'[q] = pend[q] /\ resp'[q] = resp[q]
    BY <1>6 DEF Stop, TypeOK
  <2>2. RequestsOk' /\ CallsOk'
    BY <2>1, <1>4, RequestsKept
  <2>3. Held(HostOf[p], mem[p])'
    BY <2>1 DEF Held, NoCreds
  <2> QED BY <2>1, <2>2, <2>3, <1>4, ProcessKeeps
<1>7. CASE Send(p)
  <2> DEFINE new == [proc |-> p, conn |-> "open", id |-> mem[p].id,
                     key |-> mem[p].key, results |-> pend[p]]
  <2>1. /\ UNCHANGED <<apiVars, hostVars, mem, todo, pend, resp>>
        /\ pc'[p] = "wait" /\ reqs' = reqs \cup {new} /\ pc[p] # "wait"
        /\ \A q \in Procs \ {p} : pc'[q] = pc[q]
    BY <1>7 DEF Send, TypeOK
  <2>2. \A x \in new.results : /\ dep[x.dep].st # "none"
                               /\ owner[dep[x.dep].agent] = HostOf[p]
                               /\ Ran(p, x)
    BY <1>0, <1>2, OwnIsForHost DEF Own
  <2>3. ASSUME NEW r \in reqs
        PROVE  /\ r.conn = "open" =>
                    /\ pc'[r.proc] = "wait"
                    /\ r.id = mem[r.proc].id /\ r.key = mem[r.proc].key
               /\ \A x \in r.results :
                    /\ dep[x.dep].st # "none"
                    /\ owner[dep[x.dep].agent] = HostOf[r.proc]
                    /\ Ran(r.proc, x)
    <3>1. r.proc \in Procs
      BY DEF TypeOK, Requests
    <3> QED BY <2>1, <3>1 DEF IInv, RequestsOk
  <2>4. RequestsOk'
    BY <2>1, <2>2, <2>3 DEF RequestsOk, Ran
  <2>5. /\ Held(HostOf[p], mem[p])'
        /\ \A d \in todo'[p] : Own(p, d)'
        /\ \A x \in pend'[p] : Own(p, x.dep)' /\ Ran(p, x)'
    BY <2>1, <1>1, <1>2 DEF Held, Own, Ran
  <2>6. CallsOk'
    <3>1. \A r \in reqs : r.conn = "open" => r.proc # p
      BY <1>3, <2>1
    <3>2. resp[p].code = "none"
      BY <1>2, <2>1 DEF TypeOK
    <3> QED BY <2>1, <3>1, <3>2 DEF IInv, CallsOk
  <2> QED BY <2>1, <2>4, <2>5, <2>6, ProcessKeeps
<1>8. CASE GiveUp(p) \/ CallFails(p) \/ ReceiveGone(p) \/ ReceiveRejected(p)
  <2>1. /\ UNCHANGED <<apiVars, hostVars, mem, todo, pend>>
        /\ \A q \in Procs \ {p} : pc'[q] = pc[q] /\ resp'[q] = resp[q]
    BY <1>8 DEF GiveUp, CallFails, ReceiveGone, ReceiveRejected, TypeOK
  <2>2. /\ pc'[p] \in {"tail", "dormant"} /\ resp'[p].code = "none"
        /\ pc'[p] = "dormant" => ~Registered(mem[p].id)
    BY <1>2, <1>4, <1>8
       DEF GiveUp, CallFails, ReceiveGone, ReceiveRejected, TypeOK
  <2>3. RequestsOk' /\ CallsOk'
    <3>1. CASE GiveUp(p)
      BY <2>1, <2>2, <3>1, RequestsKept DEF GiveUp
    <3>2. CASE ~GiveUp(p)
      <4>1. reqs' = reqs
        BY <1>8, <3>2 DEF CallFails, ReceiveGone, ReceiveRejected
      <4>2. \A r \in reqs : r.proc = p => r.conn = "closed"
        <5>1. CASE resp[p].code # "none"
          BY <5>1 DEF IInv, CallsOk, TypeOK, Requests
        <5>2. CASE resp[p].code = "none"
          BY <1>8, <3>2, <5>2 DEF CallFails, ReceiveGone, ReceiveRejected
        <5> QED BY <5>1, <5>2
      <4> QED BY <2>1, <2>2, <4>1, <4>2, RequestsKept
    <3> QED BY <3>1, <3>2
  <2>4. /\ Held(HostOf[p], mem[p])'
        /\ \A d \in todo'[p] : Own(p, d)'
        /\ \A x \in pend'[p] : Own(p, x.dep)' /\ Ran(p, x)'
    BY <2>1, <1>1, <1>2 DEF Held, Own, Ran
  <2> QED BY <2>1, <2>2, <2>3, <2>4, ProcessKeeps
<1>9. CASE ReceiveOk(p)
  <2>1. /\ UNCHANGED <<apiVars, hostVars, mem, reqs>>
        /\ pc'[p] \in {"tail", "exec"} /\ resp'[p].code = "none"
        /\ pend'[p] = {} /\ todo'[p] = resp[p].deps /\ resp[p].code = "ok"
        /\ \A q \in Procs \ {p} :
             /\ pc'[q] = pc[q] /\ todo'[q] = todo[q]
             /\ pend'[q] = pend[q] /\ resp'[q] = resp[q]
    BY <1>4, <1>9 DEF ReceiveOk, TypeOK
  <2>2. \A r \in reqs : r.proc = p => r.conn = "closed"
    BY <2>1 DEF IInv, CallsOk, TypeOK, Requests
  <2>3. RequestsOk' /\ CallsOk'
    BY <2>1, <2>2, RequestsKept
  <2>4. Held(HostOf[p], mem[p])' /\ \A d \in todo'[p] : Own(p, d)'
    BY <2>1, <1>1, <1>2 DEF Held, Own
  <2> QED BY <2>1, <2>3, <2>4, ProcessKeeps
<1>10. CASE \E d \in Deps, out \in Outcomes : ExecuteOne(p, d, out)
  <2>1. PICK d \in Deps, out \in Outcomes : ExecuteOne(p, d, out)
    BY <1>10
  <2> DEFINE x == [dep |-> d, out |-> out]
  <2>2. /\ UNCHANGED <<apiVars, offer, file, mem, reqs, resp>>
        /\ pc[p] = "exec" /\ pc'[p] \in {"tail", "exec"} /\ d \in todo[p]
        /\ pend'[p] = pend[p] \cup {x} /\ todo'[p] = todo[p] \ {d}
        /\ ran \subseteq ran' /\ Ran(p, x)'
        /\ \A q \in Procs \ {p} :
             pc'[q] = pc[q] /\ todo'[q] = todo[q] /\ pend'[q] = pend[q]
    BY <2>1 DEF ExecuteOne, TypeOK, Ran
  <2>3. RequestsOk' /\ CallsOk'
    BY <2>2, <1>3, RequestsKept
  <2>4. /\ Held(HostOf[p], mem[p])'
        /\ \A e \in todo'[p] : Own(p, e)'
        /\ \A y \in pend'[p] : Own(p, y.dep)' /\ Ran(p, y)'
    BY <2>2, <1>1, <1>2 DEF Held, Own, Ran
  <2>5. resp[p].code = "none"
    BY <1>2, <2>2
  <2> QED BY <2>2, <2>3, <2>4, <2>5, ProcessKeeps
<1> QED BY <1>5, <1>6, <1>7, <1>8, <1>9, <1>10 DEF ProcNext

\* The invariant holds in every reachable state.
THEOREM Inductive == Spec => []IInv
<1>1. Init => IInv
  BY FleetAssumption
     DEF Init, IInv, OwnerOk, RowsOk, CredsOk, Held, DepsOk, WorkOk, RepliesOk,
         RequestsOk, CallsOk, DormantOnlyIfRetired, NoRow, NoCreds, NoReply, Reply
<1>2. TypeOK /\ TypeOK' /\ IInv /\ [Next]_vars => IInv'
  <2> SUFFICES ASSUME TypeOK, TypeOK', IInv, [Next]_vars PROVE IInv'
    OBVIOUS
  <2>1. CASE \E h \in Hosts : HostNext(h)
    BY <2>1, HostStep
  <2>2. CASE \E p \in Procs : ProcNext(p)
    BY <2>2, ProcStep
  <2>3. CASE \E r \in reqs : Heartbeat(r)
    BY <2>3, HeartbeatStep
  <2>4. CASE \E r \in reqs : HeartbeatDies(r)
    <3>1. PICK r \in reqs : HeartbeatDies(r)
      BY <2>4
    <3>2. PICK last \in 0..MaxDeps :
            dep' = IF Accepted(r)
                   THEN Applied(r.id, {x \in r.results : x.dep <= last})
                   ELSE dep
      BY <3>1 DEF HeartbeatDies
    <3>3. /\ reqs' = reqs \ {r}
          /\ UNCHANGED <<row, minted, owner, hostVars, procVars, resp>>
      BY <3>1 DEF HeartbeatDies
    <3>4. /\ OwnerOk' /\ RowsOk' /\ CredsOk' /\ DepsOk'
          /\ WorkOk' /\ RequestsOk' /\ DormantOnlyIfRetired'
          /\ \A p \in Procs, d \in Deps : Own(p, d) => Own(p, d)'
      BY <3>2, <3>3, HeartbeatKeeps
    <3>5. CallsOk'
      BY <3>3 DEF IInv, CallsOk
    <3>6. RepliesOk'
      <4>1. \A p \in Procs : resp[p].deps \subseteq Deps
        BY DEF TypeOK
      <4>2. pc' = pc /\ mem' = mem /\ row' = row /\ resp' = resp
        BY <3>3 DEF procVars
      <4> QED BY <3>4, <4>1, <4>2 DEF IInv, RepliesOk, Registered
    <3> QED BY <3>4, <3>5, <3>6 DEF IInv
  <2>5. CASE UNCHANGED vars
    <3>1. IInv' <=> IInv
      BY <2>5 DEF IInv, OwnerOk, RowsOk, CredsOk, Held, DepsOk, WorkOk, Own, Ran,
           RepliesOk, RequestsOk, CallsOk, DormantOnlyIfRetired, Registered,
           vars, apiVars, hostVars, procVars, netVars, bounds
    <3> QED BY <3>1
  <2> QED BY <2>1, <2>2, <2>3, <2>4, <2>5 DEF Next
<1> QED BY <1>1, <1>2, TypeCorrect, PTL DEF Spec

\* What a process executes or reports was queued for the agent it enrolled as
\* and no later than its key: replacing the key cuts an old process off.
THEOREM Superseded == Spec => []SupersededGetsNothing
<1>1. TypeOK /\ IInv => SupersededGetsNothing
  <2> SUFFICES ASSUME TypeOK, IInv, NEW p \in Procs,
                      NEW d \in todo[p] \cup {x.dep : x \in pend[p]}
               PROVE  dep[d].agent = mem[p].id /\ dep[d].key <= mem[p].key
    BY DEF SupersededGetsNothing
  <2> QED BY DEF IInv, WorkOk, Own
<1> QED BY <1>1, Inductive, TypeCorrect, PTL

\* A process goes dormant only when its agent was retired.
THEOREM Dormant == Spec => []DormantOnlyIfRetired
<1>1. IInv => DormantOnlyIfRetired
  BY DEF IInv
<1> QED BY <1>1, Inductive, PTL

(***************************************************************************)
(* Sizes.  A result takes the place of the deployment it is about, so what  *)
(* is left to do and what is left to report are together never more than    *)
(* the batch they came in.                                                  *)
(***************************************************************************)

\* The pending rows that have fewer than Limit older ones are at most Limit:
\* the number of older ones tells them apart.
LEMMA BatchSize ==
    ASSUME NEW rows, NEW id
    PROVE  IsFiniteSet(Batch(rows, id)) /\ Cardinality(Batch(rows, id)) <= Limit
<1> USE FleetAssumption
<1> DEFINE Pending == {d \in Deps : rows[d].st = "pending" /\ rows[d].agent = id}
           Older(d) == {e \in Pending : e < d}
           B == {d \in Pending : Cardinality(Older(d)) < Limit}
           rank == [d \in B |-> Cardinality(Older(d))]
<1>1. IsFiniteSet(Deps)
  BY FS_Interval DEF Deps
<1>2. \A d \in Deps : /\ IsFiniteSet(Older(d))
                      /\ Cardinality(Older(d)) \in Nat
  <2> TAKE d \in Deps
  <2>1. Older(d) \in SUBSET Deps
    OBVIOUS
  <2>2. IsFiniteSet(Older(d))
    BY <1>1, <2>1, FS_Subset
  <2> QED BY <2>2, FS_CardinalityType
<1>3. /\ B \subseteq Pending /\ B \subseteq Deps /\ Deps \subseteq Nat
      /\ \A d \in B : Cardinality(Older(d)) < Limit
      /\ \A d \in Deps, e \in Pending : e \in Older(d) <=> e < d
  BY DEF Deps
<1>4. ASSUME NEW d \in B, NEW e \in B, d < e
      PROVE  Cardinality(Older(d)) < Cardinality(Older(e))
  <2>1. d \in Nat /\ e \in Nat
    BY <1>3
  <2>2. Older(d) \in SUBSET Older(e)
    <3>1. \A c \in Nat : c < d => c < e
      BY <1>4, <2>1
    <3>2. Older(d) \subseteq Nat
      BY <1>3
    <3> QED BY <3>1, <3>2
  <2>3. d \in Older(e) /\ d \notin Older(d)
    <3> HIDE DEF Older, B, Pending
    <3> QED BY <1>3, <1>4, <2>1
  <2>4. /\ IsFiniteSet(Older(e))
        /\ Cardinality(Older(d)) \in Nat /\ Cardinality(Older(e)) \in Nat
    BY <1>2, <1>3
  <2>5. /\ Cardinality(Older(d)) <= Cardinality(Older(e))
        /\ Cardinality(Older(e)) = Cardinality(Older(d)) => Older(e) = Older(d)
    <3> HIDE DEF Older, B, Pending
    <3> QED BY <2>2, <2>4, FS_Subset
  <2> HIDE DEF Older, B, Pending
  <2> QED BY <2>3, <2>4, <2>5
<1>5. rank \in Injection(B, 0..(Limit - 1))
  <2>1. rank \in [B -> 0..(Limit - 1)]
    <3> HIDE DEF Older, B, Pending
    <3>1. \A d \in B : Cardinality(Older(d)) \in 0..(Limit - 1)
      BY <1>2, <1>3
    <3> QED BY <3>1
  <2>2. ASSUME NEW d \in B, NEW e \in B, rank[d] = rank[e]
        PROVE  d = e
    <3>1. Cardinality(Older(d)) = Cardinality(Older(e))
      BY <2>2
    <3>2. d \in Nat /\ e \in Nat /\ Cardinality(Older(d)) \in Nat
      BY <1>2, <1>3
    <3> HIDE DEF Older, B, Pending
    <3>3. ~(d < e) /\ ~(e < d)
      BY <1>4, <3>1, <3>2
    <3> QED BY <3>2, <3>3
  <2> HIDE DEF rank, B, Older, Pending
  <2> QED BY <2>1, <2>2 DEF Injection, IsInjective
<1>6. /\ IsFiniteSet(0..(Limit - 1))
      /\ Cardinality(0..(Limit - 1)) = Limit
  BY FS_Interval
<1>7. IsFiniteSet(B) /\ Cardinality(B) <= Limit
  <2> HIDE DEF rank, B, Older, Pending
  <2> QED BY <1>5, <1>6, FS_Injection
<1> QED BY <1>7 DEF Batch

Fits(S) == IsFiniteSet(S) /\ Cardinality(S) <= Limit

\* What p has to do and to report.
LoadOk(p) ==
    /\ IsFiniteSet(todo[p]) /\ IsFiniteSet(pend[p])
    /\ Cardinality(todo[p]) + Cardinality(pend[p]) <= Limit

SizeInv ==
    /\ \A p \in Procs : LoadOk(p) /\ Fits(resp[p].deps)
    /\ \A r \in reqs : Fits(r.results)

LEMMA EmptyFits == Fits({}) /\ IsFiniteSet({}) /\ Cardinality({}) = 0
BY FS_EmptySet, FleetAssumption DEF Fits

\* Every answer of the API carries a batch or nothing.
LEMMA AnswerFits ==
    ASSUME NEW r, NEW rows
    PROVE  Fits(Answer(r, rows).deps)
BY EmptyFits, BatchSize DEF Answer, Reply, Fits

\* A process that forgets what it had to do and to report carries no load.
LEMMA ForgetFits ==
    ASSUME TypeOK, SizeInv, NEW p \in Procs,
           todo' = [todo EXCEPT ![p] = {}], pend' = [pend EXCEPT ![p] = {}]
    PROVE  \A q \in Procs : LoadOk(q)'
<1>1. \A q \in Procs : /\ todo'[q] = IF q = p THEN {} ELSE todo[q]
                       /\ pend'[q] = IF q = p THEN {} ELSE pend[q]
  BY DEF TypeOK
<1> QED BY <1>1, EmptyFits, FleetAssumption DEF SizeInv, LoadOk

\* Giving up a call leaves its report as it is.
LEMMA ClosedFits ==
    ASSUME SizeInv, NEW p
    PROVE  \A r \in Closed(p) : Fits(r.results)
BY DEF SizeInv, Closed

\* SizeInv survives every step of the protocol.
LEMMA SizeStep == ASSUME TypeOK, SizeInv, [Next]_vars PROVE SizeInv'
<1> USE DEF vars, apiVars, hostVars, procVars, netVars, bounds
<1>0. NoReply.deps = {}
  BY DEF NoReply, Reply
<1>1. ASSUME UNCHANGED <<todo, pend, reqs, resp>> PROVE SizeInv'
  BY <1>1 DEF SizeInv, LoadOk
<1>2. ASSUME NEW h \in Hosts, HostNext(h) PROVE SizeInv'
  <2>1. UNCHANGED <<todo, pend, reqs, resp>>
    BY <1>2 DEF HostNext, Enroll, SaveState, LoseOffer, Retire, PutSensors, Deploy
  <2> QED BY <1>1, <2>1
<1>3. ASSUME NEW r \in reqs, Heartbeat(r) PROVE SizeInv'
  <2>1. \A p \in Procs : Fits(resp'[p].deps)
    <3>1. resp' = resp \/ resp' = [resp EXCEPT ![r.proc] = Answer(r, dep')]
      BY <1>3 DEF Heartbeat
    <3> QED BY <3>1, AnswerFits DEF SizeInv, TypeOK
  <2> QED BY <1>3, <2>1 DEF Heartbeat, SizeInv, LoadOk
<1>4. ASSUME NEW r \in reqs, HeartbeatDies(r) PROVE SizeInv'
  BY <1>4 DEF HeartbeatDies, SizeInv, LoadOk
<1>5. ASSUME NEW p \in Procs, Start(p) \/ SelfUpdate(p) PROVE SizeInv'
  BY <1>5, ForgetFits DEF Start, SelfUpdate, Fresh, SizeInv
<1>6. ASSUME NEW p \in Procs, Stop(p) PROVE SizeInv'
  <2>1. \A q \in Procs : Fits(resp'[q].deps)
    BY <1>0, <1>6, EmptyFits DEF Stop, SizeInv, TypeOK
  <2> QED BY <1>6, <2>1, ForgetFits, ClosedFits DEF Stop, SizeInv
<1>7. ASSUME NEW p \in Procs, Send(p) PROVE SizeInv'
  <2>1. Fits(pend[p])
    <3>1. Cardinality(todo[p]) \in Nat /\ Cardinality(pend[p]) \in Nat
      BY FS_CardinalityType DEF SizeInv, LoadOk
    <3> QED BY <3>1, FleetAssumption DEF SizeInv, LoadOk, Fits
  <2> QED BY <1>7, <2>1 DEF Send, SizeInv, LoadOk
<1>8. ASSUME NEW p \in Procs, GiveUp(p) PROVE SizeInv'
  <2>1. \A q \in Procs : Fits(resp'[q].deps)
    BY <1>0, <1>8, EmptyFits DEF GiveUp, SizeInv, TypeOK
  <2> QED BY <1>8, <2>1, ClosedFits DEF GiveUp, SizeInv, LoadOk
<1>9. ASSUME NEW p \in Procs, CallFails(p) PROVE SizeInv'
  BY <1>1, <1>9 DEF CallFails
<1>10. ASSUME NEW p \in Procs, ReceiveGone(p) \/ ReceiveRejected(p) PROVE SizeInv'
  <2>1. \A q \in Procs : Fits(resp'[q].deps)
    BY <1>0, <1>10, EmptyFits DEF ReceiveGone, ReceiveRejected, SizeInv, TypeOK
  <2> QED BY <1>10, <2>1 DEF ReceiveGone, ReceiveRejected, SizeInv, LoadOk
<1>11. ASSUME NEW p \in Procs, ReceiveOk(p) PROVE SizeInv'
  <2>1. \A q \in Procs : Fits(resp'[q].deps)
    BY <1>0, <1>11, EmptyFits DEF ReceiveOk, SizeInv, TypeOK
  <2>2. \A q \in Procs : /\ todo'[q] = IF q = p THEN resp[p].deps ELSE todo[q]
                         /\ pend'[q] = IF q = p THEN {} ELSE pend[q]
    BY <1>11 DEF ReceiveOk, TypeOK
  <2>3. Cardinality(resp[p].deps) \in Nat /\ Fits(resp[p].deps)
    BY FS_CardinalityType DEF SizeInv, Fits
  <2>4. \A q \in Procs : LoadOk(q)'
    BY <2>2, <2>3, EmptyFits, FleetAssumption DEF SizeInv, LoadOk, Fits
  <2> QED BY <1>11, <2>1, <2>4 DEF ReceiveOk, SizeInv
<1>12. ASSUME NEW p \in Procs, NEW d \in Deps, NEW out \in Outcomes,
              ExecuteOne(p, d, out)
       PROVE  SizeInv'
  <2> DEFINE x == [dep |-> d, out |-> out]
  <2>1. \A q \in Procs :
          /\ todo'[q] = IF q = p THEN todo[p] \ {d} ELSE todo[q]
          /\ pend'[q] = IF q = p THEN pend[p] \cup {x} ELSE pend[q]
    BY <1>12 DEF ExecuteOne, TypeOK
  <2>2. /\ IsFiniteSet(todo[p]) /\ IsFiniteSet(pend[p]) /\ d \in todo[p]
        /\ Cardinality(todo[p]) + Cardinality(pend[p]) <= Limit
    BY <1>12 DEF ExecuteOne, SizeInv, LoadOk
  <2>3. Cardinality(todo[p]) \in Nat /\ Cardinality(pend[p]) \in Nat
    BY <2>2, FS_CardinalityType
  <2>4. /\ IsFiniteSet(todo[p] \ {d})
        /\ Cardinality(todo[p] \ {d}) = Cardinality(todo[p]) - 1
    BY <2>2, FS_RemoveElement
  <2>5. /\ IsFiniteSet(pend[p] \cup {x})
        /\ Cardinality(pend[p] \cup {x}) \in {Cardinality(pend[p]), Cardinality(pend[p]) + 1}
    BY <2>2, FS_AddElement
  <2> HIDE DEF x
  <2>6. LoadOk(p)'
    BY <2>1, <2>2, <2>3, <2>4, <2>5, FleetAssumption DEF LoadOk
  <2>7. \A q \in Procs : LoadOk(q)'
    BY <2>1, <2>6 DEF SizeInv, LoadOk
  <2> QED BY <1>12, <2>7 DEF ExecuteOne, SizeInv
<1>13. CASE UNCHANGED vars
  BY <1>1, <1>13
<1> QED BY <1>2, <1>3, <1>4, <1>5, <1>6, <1>7, <1>8, <1>9, <1>10, <1>11, <1>12, <1>13
        DEF Next, ProcNext

\* However many heartbeats fail, a report stays within what the schema accepts,
\* for every limit of the batch (agents.ts, limit(20) against max(100)).
THEOREM Reports == Spec => []ReportsFit
<1>1. ASSUME Init PROVE SizeInv
  <2>1. \A p \in Procs : todo[p] = {} /\ pend[p] = {} /\ resp[p].deps = {}
    BY <1>1 DEF Init, NoReply, Reply
  <2>2. reqs = {} /\ 0 + 0 <= Limit
    BY <1>1, FleetAssumption DEF Init
  <2> QED BY <2>1, <2>2, EmptyFits DEF SizeInv, LoadOk
<1>2. SizeInv => ReportsFit
  <2> SUFFICES ASSUME SizeInv, Limit <= MaxResults, NEW r \in reqs
               PROVE  Cardinality(r.results) <= MaxResults
    BY DEF ReportsFit
  <2>1. Cardinality(r.results) \in Nat /\ Cardinality(r.results) <= Limit
    BY FS_CardinalityType DEF SizeInv, Fits
  <2> QED BY <2>1, FleetAssumption
<1> QED BY <1>1, <1>2, TypeCorrect, SizeStep, PTL DEF Spec

(***************************************************************************)
(* Once.  A lone process knows of everything its machine has executed: it   *)
(* still has to report it, or the API has taken the report in.              *)
(***************************************************************************)

Alone(p) == \A q \in Procs : HostOf[q] = HostOf[p] /\ q # p => pc[q] = "down"

Decided(d) == dep[d].st \in {"done", "failed"}

\* p will not be given d again.
Known(p, d) ==
    /\ d \notin todo[p]
    /\ Decided(d) \/ \E x \in pend[p] : x.dep = d
    /\ resp[p].code = "ok" => d \notin resp[p].deps

\* The call that is open reports all there is to report,
OpenOk == \A r \in reqs : r.conn = "open" => r.results = pend[r.proc]
\* and when it is answered, all of it has been taken in.
TakenIn == \A p \in Procs : resp[p].code = "ok" => \A x \in pend[p] : Decided(x.dep)
\* A deployment is executed on its agent's host.
RanOk == \A x \in ran : /\ dep[x.dep].st # "none"
                        /\ owner[dep[x.dep].agent] = x.host
\* Where nothing is restarted, what ran was run by a process that still runs.
RunBy == \A x \in ran : \E q \in Procs : HostOf[q] = x.host /\ pc[q] # "down"
KnownOk == \A p \in Procs : Alone(p) =>
    \A x \in ran : x.host = HostOf[p] => Known(p, x.dep)

OnceInv == OpenOk /\ TakenIn /\ RanOk /\ (restarts = 0 => RunBy /\ KnownOk)

\* A step without a restart stops nothing.
LEMMA NoneStops ==
    ASSUME TypeOK, [Next]_vars, restarts' = 0
    PROVE  /\ restarts = 0
           /\ \A q \in Procs : pc'[q] = "down" => pc[q] = "down"
           /\ \A q \in Procs : Alone(q)' => Alone(q)
<1> USE DEF vars, apiVars, hostVars, procVars, netVars, bounds
<1>1. restarts \in Nat
  BY FleetAssumption DEF TypeOK
<1>2. \A p \in Procs : ~Stop(p) /\ ~SelfUpdate(p)
  BY <1>1 DEF Stop, SelfUpdate, Restart
<1>3. /\ restarts = 0
      /\ \A q \in Procs : pc'[q] = "down" => pc[q] = "down"
  <2>1. CASE UNCHANGED vars
    BY <2>1
  <2>2. ASSUME NEW h \in Hosts, HostNext(h)
        PROVE  restarts = 0 /\ pc' = pc
    BY <2>2 DEF HostNext, Enroll, SaveState, LoseOffer, Retire, PutSensors, Deploy
  <2>3. ASSUME NEW r \in reqs, Heartbeat(r) \/ HeartbeatDies(r)
        PROVE  restarts = 0 /\ pc' = pc
    BY <2>3 DEF Heartbeat, HeartbeatDies, Fault
  <2>4. ASSUME NEW p \in Procs, ProcNext(p)
        PROVE  restarts = 0 /\ \E c \in {"top", "wait", "exec", "tail", "dormant"} :
                                  pc' = [pc EXCEPT ![p] = c]
    BY <1>2, <2>4 DEF ProcNext, Start, Send, GiveUp, CallFails, ReceiveOk, ReceiveGone,
                      ReceiveRejected, ExecuteOne, Fault
  <2> QED BY <2>1, <2>2, <2>3, <2>4 DEF Next, TypeOK
<1> QED BY <1>3 DEF Alone

\* Steps that leave the work, the reports and the rows' statuses alone.
LEMMA OnceFrame ==
    ASSUME TypeOK, OnceInv, [Next]_vars,
           UNCHANGED <<todo, pend, reqs, resp, ran>>,
           \A d \in Deps : dep[d].st # "none" => /\ dep'[d].st = dep[d].st
                                                 /\ dep'[d].agent = dep[d].agent,
           \A i \in Ids : owner[i] # NoHost => owner'[i] = owner[i]
    PROVE  OnceInv'
<1>1. \A x \in ran : x.dep \in Deps /\ x.host \in Hosts /\ NoHost \notin Hosts
  BY FleetAssumption DEF TypeOK
<1>2. \A p \in Procs : \A x \in pend[p] : x.dep \in Deps
  BY DEF TypeOK, Results
<1>3. \A d \in Deps : Decided(d) => Decided(d)'
  BY DEF Decided
<1>4. OpenOk' /\ TakenIn'
  BY <1>2, <1>3 DEF OnceInv, OpenOk, TakenIn
<1>5. RanOk'
  <2> SUFFICES ASSUME NEW x \in ran
               PROVE  dep'[x.dep].st # "none" /\ owner'[dep'[x.dep].agent] = x.host
    BY DEF RanOk
  <2>1. /\ dep[x.dep].st # "none" /\ owner[dep[x.dep].agent] = x.host
        /\ dep[x.dep].agent \in Ids
    BY <1>1 DEF OnceInv, RanOk, TypeOK
  <2> QED BY <1>1, <2>1
<1>6. ASSUME restarts' = 0 PROVE RunBy' /\ KnownOk'
  <2>1. RunBy /\ KnownOk /\ \A q \in Procs : /\ pc'[q] = "down" => pc[q] = "down"
                                             /\ Alone(q)' => Alone(q)
    BY <1>6, NoneStops DEF OnceInv
  <2>2. RunBy'
    BY <2>1 DEF RunBy
  <2>3. KnownOk'
    BY <1>1, <1>3, <2>1 DEF KnownOk, Known
  <2> QED BY <2>2, <2>3
<1> QED BY <1>4, <1>5, <1>6 DEF OnceInv

\* The results loop decides rows, and decides them for good; an open call's
\* report is about rows of the caller, so all of it is decided.
LEMMA LoopDecides ==
    ASSUME TypeOK, IInv, NEW r \in reqs, NEW results \in SUBSET r.results,
           dep' = IF Accepted(r) THEN Applied(r.id, results) ELSE dep
    PROVE  /\ \A d \in Deps : /\ dep'[d].agent = dep[d].agent
                              /\ dep'[d].st = "none" <=> dep[d].st = "none"
                              /\ Decided(d) => Decided(d)'
<1>1. CASE Accepted(r)
  <2>1. dep' = Applied(r.id, results)
    BY <1>1
  <2>2. \A d \in Deps : LET new == Applied(r.id, results)[d] IN
          /\ new.agent = dep[d].agent
          /\ (new.st = "none") <=> (dep[d].st = "none")
          /\ new.st = dep[d].st \/ dep[d].st = "pending"
    <3> TAKE d \in Deps
    <3>1. /\ Applied(r.id, results)[d].agent = dep[d].agent
          /\ (Applied(r.id, results)[d].st = "none") <=> (dep[d].st = "none")
      BY AppliedKeeps
    <3>2. dep[d].st # "pending" => Applied(r.id, results)[d] = dep[d]
      BY DEF Applied
    <3> QED BY <3>1, <3>2
  <2> QED BY <2>1, <2>2 DEF Decided
<1>2. CASE ~Accepted(r)
  BY <1>2 DEF Decided
<1> QED BY <1>1, <1>2

LEMMA ReportDecided ==
    ASSUME TypeOK, IInv, OnceInv, NEW r \in reqs, r.conn = "open", Accepted(r),
           dep' = Applied(r.id, r.results)
    PROVE  \A x \in pend[r.proc] : Decided(x.dep)'
<1> TAKE x \in pend[r.proc]
<1>1. r \in Requests /\ r.proc \in Procs /\ x.dep \in Deps
  BY DEF TypeOK, Requests, Results
<1>2. x \in r.results /\ dep[x.dep].agent = r.id /\ dep[x.dep].st # "none"
  BY <1>1 DEF OnceInv, OpenOk, IInv, WorkOk, Own, RequestsOk
<1>3. dep[x.dep].st \in {"pending", "done", "failed"}
  BY <1>1, <1>2 DEF TypeOK
<1>4. CASE dep[x.dep].st = "pending"
  <2>1. dep'[x.dep] = Settled(x.dep, IF [dep |-> x.dep, out |-> "ok"] \in r.results
                                     THEN "done" ELSE "failed")
    BY <1>1, <1>2, <1>4 DEF Applied
  <2> QED BY <2>1 DEF Decided, Settled
<1>5. CASE dep[x.dep].st # "pending"
  <2>1. Applied(r.id, r.results)[x.dep] = dep[x.dep]
    BY <1>1, <1>5 DEF Applied
  <2> QED BY <1>3, <1>5, <2>1 DEF Decided
<1> QED BY <1>4, <1>5

\* Taking a report in keeps OnceInv: what the next batch holds is not decided.
LEMMA HeartbeatOnce ==
    ASSUME TypeOK, IInv, OnceInv, NEW r \in reqs, Heartbeat(r)
    PROVE  OnceInv'
<1> USE DEF vars, apiVars, hostVars, procVars, netVars, bounds
<1>1. r \in Requests /\ r.proc \in Procs
  BY DEF TypeOK, Requests
<1>2. /\ dep' = IF Accepted(r) THEN Applied(r.id, r.results) ELSE dep
      /\ reqs' = reqs \ {r}
      /\ resp' = IF r.conn = "open" THEN [resp EXCEPT ![r.proc] = Answer(r, dep')] ELSE resp
      /\ UNCHANGED <<owner, ran, pc, todo, pend, restarts>>
  BY DEF Heartbeat
<1>3. \A d \in Deps : /\ dep'[d].agent = dep[d].agent
                      /\ dep'[d].st = "none" <=> dep[d].st = "none"
                      /\ Decided(d) => Decided(d)'
  BY <1>2, LoopDecides
<1>4. \A p \in Procs : resp'[p] = IF r.conn = "open" /\ p = r.proc THEN Answer(r, dep')
                                  ELSE resp[p]
  BY <1>2 DEF TypeOK
<1>5. Answer(r, dep').code = "ok" => Accepted(r) /\ Answer(r, dep').deps = Batch(dep', r.id)
  BY <1>1, AnswerFacts
<1>6. \A d \in Batch(dep', r.id) : ~Decided(d)'
  BY BatchFacts DEF Decided
<1>7. \A p \in Procs : \A x \in pend[p] : x.dep \in Deps
  BY DEF TypeOK, Results
<1>8. OpenOk'
  BY <1>2 DEF OnceInv, OpenOk
<1>9. TakenIn'
  BY <1>2, <1>3, <1>4, <1>5, <1>7, ReportDecided DEF OnceInv, TakenIn
<1>10. RanOk'
  BY <1>2, <1>3 DEF OnceInv, RanOk, TypeOK
<1>11. ASSUME restarts' = 0 PROVE RunBy' /\ KnownOk'
  <2>1. RunBy /\ KnownOk /\ \A q \in Procs : Alone(q)' => Alone(q)
    BY <1>2, <1>11 DEF OnceInv, Alone
  <2>2. ASSUME NEW p \in Procs, Alone(p)', NEW x \in ran, x.host = HostOf[p]
        PROVE  Known(p, x.dep)'
    <3>1. Known(p, x.dep) /\ x.dep \in Deps
      BY <2>1, <2>2 DEF KnownOk, TypeOK
    <3>2. x.dep \notin todo'[p] /\ (Decided(x.dep)' \/ \E y \in pend'[p] : y.dep = x.dep)
      BY <1>2, <1>3, <3>1 DEF Known
    <3>3. resp'[p].code = "ok" => x.dep \notin resp'[p].deps
      <4>1. CASE r.conn = "open" /\ p = r.proc
        <5> SUFFICES ASSUME resp'[p].code = "ok" PROVE x.dep \notin resp'[p].deps
          OBVIOUS
        <5>1. Accepted(r) /\ resp'[p].deps = Batch(dep', r.id)
          BY <1>4, <1>5, <4>1
        <5>2. \A y \in pend[p] : Decided(y.dep)'
          BY <1>2, <4>1, <5>1, ReportDecided
        <5>3. Decided(x.dep)'
          BY <1>2, <3>2, <5>2
        <5> QED BY <1>6, <5>1, <5>3
      <4>2. CASE ~(r.conn = "open" /\ p = r.proc)
        BY <1>4, <3>1, <4>2 DEF Known
      <4> QED BY <4>1, <4>2
    <3> QED BY <3>2, <3>3 DEF Known
  <2>3. RunBy'
    BY <1>2, <2>1 DEF RunBy
  <2> QED BY <1>2, <2>2, <2>3 DEF KnownOk
<1> QED BY <1>8, <1>9, <1>10, <1>11 DEF OnceInv

LEMMA HeartbeatDiesOnce ==
    ASSUME TypeOK, IInv, OnceInv, NEW r \in reqs, HeartbeatDies(r)
    PROVE  OnceInv'
<1> USE DEF vars, apiVars, hostVars, procVars, netVars, bounds
<1>1. PICK last \in 0..MaxDeps :
        dep' = IF Accepted(r) THEN Applied(r.id, {x \in r.results : x.dep <= last})
               ELSE dep
  BY DEF HeartbeatDies
<1>2. /\ reqs' = reqs \ {r}
      /\ UNCHANGED <<owner, ran, pc, todo, pend, resp, restarts>>
  BY DEF HeartbeatDies, Fault
<1>3. \A d \in Deps : /\ dep'[d].agent = dep[d].agent
                      /\ dep'[d].st = "none" <=> dep[d].st = "none"
                      /\ Decided(d) => Decided(d)'
  <2> {x \in r.results : x.dep <= last} \in SUBSET r.results
    OBVIOUS
  <2> QED BY <1>1, LoopDecides
<1>4. \A p \in Procs : \A x \in pend[p] : x.dep \in Deps
  BY DEF TypeOK, Results
<1>5. OpenOk' /\ TakenIn'
  BY <1>2, <1>3, <1>4 DEF OnceInv, OpenOk, TakenIn
<1>6. RanOk'
  BY <1>2, <1>3 DEF OnceInv, RanOk, TypeOK
<1>7. \A x \in ran : x.dep \in Deps
  BY DEF TypeOK
<1>8. restarts' = 0 => RunBy' /\ KnownOk'
  BY <1>2, <1>3, <1>7 DEF OnceInv, RunBy, KnownOk, Known, Alone
<1> QED BY <1>5, <1>6, <1>8 DEF OnceInv

\* A process that starts on a machine where nothing runs has run nothing.
LEMMA StartOnce ==
    ASSUME TypeOK, IInv, OnceInv, NEW p \in Procs, Start(p)
    PROVE  OnceInv'
<1> USE DEF vars, apiVars, hostVars, procVars, netVars, bounds
<1>1. /\ pc[p] = "down" /\ pc' = [pc EXCEPT ![p] = "top"]
      /\ todo' = [todo EXCEPT ![p] = {}] /\ pend' = [pend EXCEPT ![p] = {}]
      /\ UNCHANGED <<dep, owner, ran, reqs, resp, restarts>>
  BY DEF Start, Fresh
<1>2. \A q \in Procs : /\ todo'[q] = IF q = p THEN {} ELSE todo[q]
                       /\ pend'[q] = IF q = p THEN {} ELSE pend[q]
                       /\ pc'[q] = IF q = p THEN "top" ELSE pc[q]
  BY <1>1 DEF TypeOK
<1>3. OpenOk'
  BY <1>1, <1>2 DEF OnceInv, OpenOk, IInv, RequestsOk, TypeOK, Requests
<1>4. TakenIn'
  BY <1>1, <1>2 DEF OnceInv, TakenIn, Decided
<1>5. RanOk'
  BY <1>1 DEF OnceInv, RanOk
<1>6. ASSUME restarts' = 0 PROVE RunBy' /\ KnownOk'
  <2>1. RunBy /\ KnownOk
    BY <1>1, <1>6 DEF OnceInv
  <2>2. RunBy'
    BY <1>1, <1>2, <2>1 DEF RunBy
  <2>3. ASSUME NEW q \in Procs, Alone(q)', NEW x \in ran, x.host = HostOf[q]
        PROVE  Known(q, x.dep)'
    <3>1. Alone(q)
      BY <1>1, <1>2, <2>3 DEF Alone
    <3>2. q # p
      BY <1>1, <2>1, <2>3, <3>1 DEF RunBy, Alone
    <3>3. Known(q, x.dep)
      BY <2>1, <2>3, <3>1 DEF KnownOk
    <3> QED BY <1>1, <1>2, <3>2, <3>3 DEF Known, Decided
  <2> QED BY <1>1, <2>2, <2>3 DEF KnownOk
<1> QED BY <1>3, <1>4, <1>5, <1>6 DEF OnceInv

\* Steps of the agent's call that neither execute nor take an answer in.
LEMMA CallOnce ==
    ASSUME TypeOK, IInv, OnceInv, NEW p \in Procs, Send(p) \/ GiveUp(p),
           [Next]_vars
    PROVE  OnceInv'
<1> USE DEF vars, apiVars, hostVars, procVars, netVars, bounds
<1>1. UNCHANGED <<dep, owner, ran, todo, pend, restarts>>
  BY DEF Send, GiveUp, Fault
<1>2. OpenOk'
  BY DEF Send, GiveUp, Closed, OnceInv, OpenOk
<1>3. \A q \in Procs : resp'[q].code = "ok" => resp'[q] = resp[q]
  BY DEF Send, GiveUp, TypeOK, NoReply, Reply
<1>4. TakenIn'
  BY <1>1, <1>3 DEF OnceInv, TakenIn, Decided
<1>5. RanOk'
  BY <1>1 DEF OnceInv, RanOk
<1>6. ASSUME restarts' = 0 PROVE RunBy' /\ KnownOk'
  <2>1. RunBy /\ KnownOk /\ \A q \in Procs : /\ pc'[q] = "down" => pc[q] = "down"
                                             /\ Alone(q)' => Alone(q)
    BY <1>6, NoneStops DEF OnceInv
  <2>2. RunBy'
    BY <1>1, <2>1 DEF RunBy
  <2>3. KnownOk'
    BY <1>1, <1>3, <2>1 DEF KnownOk, Known, Decided
  <2> QED BY <2>2, <2>3
<1> QED BY <1>2, <1>4, <1>5, <1>6 DEF OnceInv

\* The API dies in a call, the answer is a refusal, or it is the batch.
LEMMA ReceiveOnce ==
    ASSUME TypeOK, IInv, OnceInv, [Next]_vars, NEW p \in Procs,
           ReceiveOk(p) \/ ReceiveGone(p) \/ ReceiveRejected(p)
    PROVE  OnceInv'
<1> USE DEF vars, apiVars, hostVars, procVars, netVars, bounds
<1>1. UNCHANGED <<dep, owner, ran, reqs, restarts>>
  BY DEF ReceiveOk, ReceiveGone, ReceiveRejected
<1>2. resp[p].code # "none"
  BY DEF ReceiveOk, ReceiveGone, ReceiveRejected
<1>3. \A q \in Procs : q # p => todo'[q] = todo[q] /\ pend'[q] = pend[q] /\ resp'[q] = resp[q]
  BY DEF ReceiveOk, ReceiveGone, ReceiveRejected, TypeOK
<1>4. \/ todo'[p] = todo[p] /\ pend'[p] = pend[p]
      \/ resp[p].code = "ok" /\ todo'[p] = resp[p].deps /\ pend'[p] = {}
  BY DEF ReceiveOk, ReceiveGone, ReceiveRejected, TypeOK
<1>5. resp'[p].code = "none"
  BY DEF ReceiveOk, ReceiveGone, ReceiveRejected, TypeOK, NoReply, Reply
<1>6. OpenOk'
  BY <1>1, <1>2, <1>3 DEF OnceInv, OpenOk, IInv, CallsOk, TypeOK, Requests
<1>7. TakenIn'
  BY <1>1, <1>3, <1>5 DEF OnceInv, TakenIn, Decided
<1>8. RanOk'
  BY <1>1 DEF OnceInv, RanOk
<1>9. ASSUME restarts' = 0 PROVE RunBy' /\ KnownOk'
  <2>1. RunBy /\ KnownOk /\ \A q \in Procs : /\ pc'[q] = "down" => pc[q] = "down"
                                             /\ Alone(q)' => Alone(q)
    BY <1>9, NoneStops DEF OnceInv
  <2>2. RunBy'
    BY <1>1, <2>1 DEF RunBy
  <2>3. ASSUME NEW q \in Procs, Alone(q)', NEW x \in ran, x.host = HostOf[q]
        PROVE  Known(q, x.dep)'
    <3>1. Known(q, x.dep)
      BY <2>1, <2>3 DEF KnownOk
    <3>2. CASE q # p
      BY <1>1, <1>3, <3>1, <3>2 DEF Known, Decided
    <3>3. CASE q = p
      <4>1. resp[p].code = "ok" => Decided(x.dep)
        BY <3>1, <3>3 DEF Known, OnceInv, TakenIn
      <4> QED BY <1>1, <1>4, <1>5, <3>1, <3>3, <4>1 DEF Known, Decided
    <3> QED BY <3>2, <3>3
  <2> QED BY <1>1, <2>2, <2>3 DEF KnownOk
<1> QED BY <1>6, <1>7, <1>8, <1>9 DEF OnceInv

\* An execution moves a deployment from what is to do to what is to report.
LEMMA ExecuteOnce ==
    ASSUME TypeOK, IInv, OnceInv, NEW p \in Procs, NEW d \in Deps, NEW out \in Outcomes,
           ExecuteOne(p, d, out)
    PROVE  OnceInv'
<1> USE DEF vars, apiVars, hostVars, procVars, netVars, bounds
<1> DEFINE x == [dep |-> d, out |-> out]
           y == [dep |-> d, host |-> HostOf[p], out |-> out]
<1>1. /\ pc[p] = "exec" /\ d \in todo[p] /\ ran' = ran \cup {y}
      /\ pc' = [pc EXCEPT ![p] = IF todo[p] = {d} THEN "tail" ELSE "exec"]
      /\ UNCHANGED <<dep, owner, reqs, resp, restarts>>
  BY DEF ExecuteOne
<1>2. \A q \in Procs : /\ todo'[q] = IF q = p THEN todo[p] \ {d} ELSE todo[q]
                       /\ pend'[q] = IF q = p THEN pend[p] \cup {x} ELSE pend[q]
                       /\ pc'[q] = "down" <=> pc[q] = "down"
  BY <1>1 DEF ExecuteOne, TypeOK
<1>3. resp[p].code = "none" /\ \A r \in reqs : r.conn = "open" => r.proc # p
  BY <1>1 DEF IInv, RepliesOk, RequestsOk
<1>4. y.dep = d /\ y.host = HostOf[p] /\ x.dep = d
  OBVIOUS
<1>5. OpenOk'
  BY <1>1, <1>2, <1>3 DEF OnceInv, OpenOk, TypeOK, Requests
<1>6. TakenIn'
  BY <1>1, <1>2, <1>3 DEF OnceInv, TakenIn, Decided
<1>7. RanOk'
  <2>1. dep[d].st # "none" /\ dep[d].agent = mem[p].id
    BY <1>1 DEF IInv, WorkOk, Own
  <2>2. owner[dep[d].agent] \in Hosts
    BY <2>1 DEF IInv, DepsOk
  <2>3. mem[p].id # 0
    BY <2>1, <2>2, FleetAssumption DEF IInv, OwnerOk, Ids, TypeOK
  <2>4. owner[dep[d].agent] = HostOf[p]
    BY <2>1, <2>3 DEF IInv, CredsOk, Held
  <2> QED BY <1>1, <1>4, <2>1, <2>4 DEF OnceInv, RanOk
<1>8. ASSUME restarts' = 0 PROVE RunBy' /\ KnownOk'
  <2>1. RunBy /\ KnownOk /\ \A q \in Procs : Alone(q)' => Alone(q)
    BY <1>1, <1>2, <1>8 DEF OnceInv, Alone
  <2>2. RunBy'
    BY <1>1, <1>2, <1>4, <2>1 DEF RunBy
  <2>3. ASSUME NEW q \in Procs, Alone(q)', NEW z \in ran', z.host = HostOf[q]
        PROVE  Known(q, z.dep)'
    <3>1. CASE q = p /\ z.dep = d
      BY <1>1, <1>2, <1>3, <1>4, <3>1 DEF Known
    <3>2. CASE z \in ran /\ ~(q = p /\ z.dep = d)
      <4>1. Known(q, z.dep)
        BY <2>1, <2>3, <3>2 DEF KnownOk
      <4> QED BY <1>1, <1>2, <4>1 DEF Known, Decided
    <3>3. CASE z = y /\ q # p
      BY <1>1, <1>4, <2>1, <2>3, <3>3 DEF Alone
    <3> QED BY <1>1, <1>4, <3>1, <3>2, <3>3
  <2> QED BY <2>2, <2>3 DEF KnownOk
<1> QED BY <1>5, <1>6, <1>7, <1>8 DEF OnceInv

\* A restart forgets, so nothing is said of what a process knows after it.
LEMMA RestartOnce ==
    ASSUME TypeOK, IInv, OnceInv, NEW p \in Procs, Stop(p) \/ SelfUpdate(p)
    PROVE  OnceInv'
<1> USE DEF vars, apiVars, hostVars, procVars, netVars, bounds
<1>1. restarts' # 0
  BY FleetAssumption DEF Stop, SelfUpdate, Restart, TypeOK
<1>2. UNCHANGED <<dep, owner, ran>> /\ pend' = [pend EXCEPT ![p] = {}]
  BY DEF Stop, SelfUpdate, Fresh
<1>3. \A q \in Procs : pend'[q] = IF q = p THEN {} ELSE pend[q]
  BY <1>2 DEF TypeOK
<1>4. \A q \in Procs : resp'[q].code = "ok" => resp'[q] = resp[q]
  BY DEF Stop, SelfUpdate, TypeOK, NoReply, Reply
<1>5. \A r \in reqs' : r.conn = "open" => r.proc # p /\ r.proc \in Procs /\ r.results = pend[r.proc]
  <2>1. CASE Stop(p)
    BY <2>1 DEF Stop, Closed, OnceInv, OpenOk, TypeOK, Requests
  <2>2. CASE SelfUpdate(p)
    BY <2>2 DEF SelfUpdate, OnceInv, OpenOk, IInv, RequestsOk, TypeOK, Requests
  <2> QED BY <2>1, <2>2
<1>6. OpenOk'
  BY <1>3, <1>5 DEF OpenOk
<1>7. TakenIn' /\ RanOk'
  BY <1>2, <1>3, <1>4 DEF OnceInv, TakenIn, RanOk, Decided
<1> QED BY <1>1, <1>6, <1>7 DEF OnceInv

\* OnceInv survives every step of the protocol.
LEMMA OnceStep == ASSUME TypeOK, IInv, OnceInv, [Next]_vars PROVE OnceInv'
<1> USE DEF vars, apiVars, hostVars, procVars, netVars, bounds
<1>1. ASSUME NEW h \in Hosts, HostNext(h) PROVE OnceInv'
  <2>1. UNCHANGED <<todo, pend, reqs, resp, ran>>
    BY <1>1 DEF HostNext, Enroll, SaveState, LoseOffer, Retire, PutSensors, Deploy
  <2>2. \A d \in Deps : dep[d].st # "none" => /\ dep'[d].st = dep[d].st
                                              /\ dep'[d].agent = dep[d].agent
    BY <1>1 DEF HostNext, Enroll, SaveState, LoseOffer, Retire, PutSensors, Deploy, TypeOK
  <2>3. \A i \in Ids : owner[i] # NoHost => owner'[i] = owner[i]
    <3>1. CASE Enroll(h)
      BY <3>1, EnrollKeepsOwners
    <3>2. CASE ~Enroll(h)
      BY <1>1, <3>2 DEF HostNext, SaveState, LoseOffer, Retire, PutSensors, Deploy
    <3> QED BY <3>1, <3>2
  <2> QED BY <2>1, <2>2, <2>3, OnceFrame
<1>2. ASSUME NEW p \in Procs, CallFails(p) PROVE OnceInv'
  BY <1>2, OnceFrame DEF CallFails
<1>3. ASSUME NEW p \in Procs, ProcNext(p) PROVE OnceInv'
  BY <1>2, <1>3, StartOnce, RestartOnce, CallOnce, ReceiveOnce, ExecuteOnce DEF ProcNext
<1>4. CASE UNCHANGED vars
  BY <1>4, OnceFrame
<1> QED BY <1>1, <1>3, <1>4, HeartbeatOnce, HeartbeatDiesOnce DEF Next

\* As long as nothing is restarted, the only process of its machine executes a
\* deployment once, however heartbeats and answers are lost or late.
THEOREM Once == Spec => ExecutedOnce
<1>1. Init => OnceInv
  BY DEF Init, OnceInv, OpenOk, TakenIn, RanOk, RunBy, KnownOk, NoReply, Reply
<1>2. TypeOK /\ IInv /\ OnceInv /\ [Next]_vars =>
        [restarts' = 0 =>
           \A p \in Procs, d \in Deps :
              /\ Executes(p, d)
              /\ \A q \in Procs : HostOf[q] = HostOf[p] /\ q # p => pc[q] = "down"
              => \A x \in ran : x.dep # d]_vars
  <2> SUFFICES ASSUME TypeOK, IInv, OnceInv, [Next]_vars, restarts' = 0,
                      NEW p \in Procs, NEW d \in Deps, d \in todo[p], Alone(p),
                      NEW x \in ran
               PROVE  x.dep # d
    BY DEF Executes, Alone
  <2>1. restarts = 0
    BY NoneStops
  <2>2. SUFFICES ASSUME x.dep = d PROVE FALSE
    OBVIOUS
  <2>3. dep[d].agent = mem[p].id /\ dep[d].st # "none"
    BY DEF IInv, WorkOk, Own
  <2>4. owner[dep[d].agent] \in Hosts
    BY <2>3 DEF IInv, DepsOk
  <2>5. mem[p].id # 0
    BY <2>3, <2>4, FleetAssumption DEF IInv, OwnerOk, Ids, TypeOK
  <2>6. x.host = HostOf[p]
    BY <2>2, <2>3, <2>5 DEF OnceInv, RanOk, IInv, CredsOk, Held
  <2> QED BY <2>1, <2>2, <2>6 DEF OnceInv, KnownOk, Known
<1> QED BY <1>1, <1>2, TypeCorrect, Inductive, OnceStep, PTL DEF Spec, ExecutedOnce
=============================================================================
