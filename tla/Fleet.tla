-------------------------------- MODULE Fleet --------------------------------
(***************************************************************************)
(* The fleet protocol of f0_deception: endpoint agents enroll with the    *)
(* console API, heartbeat it for their sensor set and their pending token *)
(* deployments, plant those, and report the outcomes on a later           *)
(* heartbeat.  API side: apps/api/src/routes/agents.ts (each handler runs *)
(* without an await, so it is one step).  Agent side: agent/main.go,      *)
(* agent/internal/api/client.go and agent/internal/deploy/deploy.go.      *)
(*                                                                         *)
(* An agent process is identified by its slot p; HostOf[p] is the machine *)
(* it runs on, whose state file it reads when it starts.  Two slots on    *)
(* one machine are a service and a second copy started by hand.           *)
(***************************************************************************)
EXTENDS Naturals, FiniteSets

CONSTANTS
    Hosts,       \* machines (their hostname is what enrollment matches on)
    NoHost,      \* owner of an agent id that was never issued
    Procs,       \* agent process slots
    HostOf,      \* the machine of a slot
    Configs,     \* sensor sets an operator may save
    NoSensors,   \* the empty sensor set, also what a fresh process runs
    Outcomes,    \* outcomes executeOne may have: a subset of AllOutcomes
    Limit,       \* deployments handed out per heartbeat (20 in the code)
    MaxResults,  \* results the heartbeat schema accepts (100 in the code)
    MaxDeps,     \* bound: deployments queued
    MaxKeys,     \* bound: enrollments served
    MaxEdits,    \* bound: sensor sets saved
    MaxFaults,   \* bound: messages lost and calls given up
    MaxRestarts  \* bound: processes stopped, crashed or re-executed

\* "overlong": a failure whose message exceeds the schema's 500 characters.
AllOutcomes == {"ok", "err", "overlong"}
Deps == 1..MaxDeps
Ids == 0..MaxKeys      \* 0: no agent id, no key

ASSUME FleetAssumption ==
    /\ NoHost \notin Hosts
    /\ HostOf \in [Procs -> Hosts]
    /\ NoSensors \in Configs
    /\ Outcomes \subseteq AllOutcomes
    /\ Limit \in Nat \ {0} /\ MaxResults \in Nat
    /\ MaxDeps \in Nat /\ MaxKeys \in Nat /\ MaxEdits \in Nat
    /\ MaxFaults \in Nat /\ MaxRestarts \in Nat

VARIABLES
    row,     \* API: the agents row of a hostname; id 0 when there is none
    minted,  \* API: keys minted so far (the random keys are numbered)
    dep,     \* API: the agent_deployments rows
    owner,   \* history: the host an agent id was issued to
    offer,   \* host: credentials in the enroll reply, not saved yet
    file,    \* host: credentials in the state file
    ran,     \* host: every executeOne so far and how it ended
    pc,      \* process: where runAgent is
    mem,     \* process: the credentials it loaded
    specs,   \* process: currentSpecs, the sensor set it runs
    todo,    \* process: deployments received and not executed yet
    pend,    \* process: pendingResults
    reqs,    \* network: heartbeats on their way to the API
    resp,    \* network: the reply on its way to a process
    edits, faults, restarts  \* the bounds' counters

apiVars  == <<row, minted, dep, owner>>
hostVars == <<offer, file, ran>>
procVars == <<pc, mem, specs, todo, pend>>
netVars  == <<reqs, resp>>
bounds   == <<edits, faults, restarts>>
vars == <<apiVars, hostVars, procVars, netVars, bounds>>

NoRow    == [id |-> 0, key |-> 0, sensors |-> NoSensors]
NoCreds  == [id |-> 0, key |-> 0]
Reply(c) == [code |-> c, deps |-> {}, sensors |-> NoSensors]
NoReply  == Reply("none")

Creds    == [id : Ids, key : Ids]
Results  == [dep : Deps, out : AllOutcomes]
Requests == [proc : Procs, conn : {"open", "closed"}, id : Ids, key : Ids,
             results : SUBSET Results]

TypeOK ==
    /\ row \in [Hosts -> [id : Ids, key : Ids, sensors : Configs]]
    /\ minted \in Ids
    /\ dep \in [Deps -> [st : {"none", "pending", "done", "failed"},
                         agent : Ids, key : Ids]]
    /\ owner \in [Ids -> Hosts \cup {NoHost}]
    /\ offer \in [Hosts -> Creds]
    /\ file \in [Hosts -> Creds]
    /\ ran \subseteq [dep : Deps, host : Hosts, out : AllOutcomes]
    /\ pc \in [Procs -> {"down", "top", "wait", "exec", "tail", "dormant"}]
    /\ mem \in [Procs -> Creds]
    /\ specs \in [Procs -> Configs]
    /\ todo \in [Procs -> SUBSET Deps]
    /\ pend \in [Procs -> SUBSET Results]
    /\ reqs \subseteq Requests
    /\ resp \in [Procs -> [code : {"none", "ok", "rejected", "gone"},
                           deps : SUBSET Deps, sensors : Configs]]
    /\ edits \in 0..MaxEdits
    /\ faults \in 0..MaxFaults
    /\ restarts \in 0..MaxRestarts

Init ==
    /\ row = [h \in Hosts |-> NoRow]
    /\ minted = 0
    /\ dep = [d \in Deps |-> [st |-> "none", agent |-> 0, key |-> 0]]
    /\ owner = [i \in Ids |-> NoHost]
    /\ offer = [h \in Hosts |-> NoCreds]
    /\ file = [h \in Hosts |-> NoCreds]
    /\ ran = {}
    /\ pc = [p \in Procs |-> "down"]
    /\ mem = [p \in Procs |-> NoCreds]
    /\ specs = [p \in Procs |-> NoSensors]
    /\ todo = [p \in Procs |-> {}]
    /\ pend = [p \in Procs |-> {}]
    /\ reqs = {}
    /\ resp = [p \in Procs |-> NoReply]
    /\ edits = 0
    /\ faults = 0
    /\ restarts = 0

Fault   == faults < MaxFaults /\ faults' = faults + 1 /\ UNCHANGED restarts
Restart == restarts < MaxRestarts /\ restarts' = restarts + 1 /\ UNCHANGED faults

-----------------------------------------------------------------------------
(* Enrollment: `agent --server S --enroll T` on a host.                    *)

\* POST /agent/enroll.  A hostname that has a row keeps its id and gets a
\* new key; any other gets a new id.  The reply is on its way to the host.
Enroll(h) ==
    LET k  == minted + 1
        id == IF row[h].id # 0 THEN row[h].id ELSE k
    IN /\ minted < MaxKeys
       /\ offer[h] = NoCreds
       /\ minted' = k
       /\ row' = [row EXCEPT ![h] = [id |-> id, key |-> k,
                                  sensors |-> row[h].sensors]]
       /\ owner' = [owner EXCEPT ![id] = h]
       /\ offer' = [offer EXCEPT ![h] = [id |-> id, key |-> k]]
       /\ UNCHANGED <<dep, file, ran, procVars, netVars, bounds>>

\* config.Save: an atomic replacement of the state file.
SaveState(h) ==
    /\ offer[h] # NoCreds
    /\ file' = [file EXCEPT ![h] = offer[h]]
    /\ offer' = [offer EXCEPT ![h] = NoCreds]
    /\ UNCHANGED <<apiVars, ran, procVars, netVars, bounds>>

\* The reply is lost, or the command dies before it has saved.
LoseOffer(h) ==
    /\ offer[h] # NoCreds
    /\ offer' = [offer EXCEPT ![h] = NoCreds]
    /\ UNCHANGED <<apiVars, file, ran, procVars, netVars, bounds>>

-----------------------------------------------------------------------------
(* The operator's console.                                                 *)

\* DELETE /agents/:id removes the agent and its sensors.  Its deployments stay:
\* the table is created without the foreign key that schema.ts declares.
Retire(h) ==
    /\ row[h].id # 0
    /\ row' = [row EXCEPT ![h] = NoRow]
    /\ UNCHANGED <<minted, dep, owner, hostVars, procVars, netVars, bounds>>

\* PUT /agents/:id/sensors replaces the whole set.
PutSensors(h, c) ==
    /\ row[h].id # 0
    /\ edits < MaxEdits
    /\ edits' = edits + 1
    /\ row' = [row EXCEPT ![h] = [id |-> row[h].id, key |-> row[h].key,
                               sensors |-> c]]
    /\ UNCHANGED <<minted, dep, owner, hostVars, procVars, netVars, faults,
                   restarts>>

\* POST /agents/:id/deploy for a token that passes the handler's checks.
\* `key` is history: the key the agent had when the deployment was queued.
Deploy(h, d) ==
    /\ row[h].id # 0
    /\ dep[d].st = "none"
    /\ \A e \in Deps : e < d => dep[e].st # "none"
    /\ dep' = [dep EXCEPT ![d] = [st |-> "pending", agent |-> row[h].id,
                                  key |-> row[h].key]]
    /\ UNCHANGED <<row, minted, owner, hostVars, procVars, netVars, bounds>>

-----------------------------------------------------------------------------
(* POST /agent/heartbeat, API side.                                        *)

\* The body does not pass the schema: answered 401, before anything is read.
Malformed(r) ==
    \/ \E x \in r.results : x.out = "overlong"
    \/ Cardinality(r.results) > MaxResults

Registered(id) == \E h \in Hosts : id # 0 /\ row[h].id = id

\* Variant: the id alone identifies the caller.
KeyMatches_IdOnly(r) == \E h \in Hosts : row[h].id = r.id

\* verifyAgentKey on the row of r.id
KeyMatches(r) == \E h \in Hosts : row[h].id = r.id /\ row[h].key = r.key

Accepted(r) == ~Malformed(r) /\ Registered(r.id) /\ KeyMatches(r)

\* The row of d once its outcome is known.
Settled(d, st) == [st |-> st, agent |-> dep[d].agent, key |-> dep[d].key]

\* Variant: a report also moves rows that are completed already.
Applied_Completed(id, results) ==
    [d \in Deps |->
        IF dep[d].agent = id /\ \E x \in results : x.dep = d
        THEN Settled(d, IF [dep |-> d, out |-> "ok"] \in results
                        THEN "done" ELSE "failed")
        ELSE dep[d]]

\* Variant: the status of the report is stored as it was sent.
Applied_RawStatus(id, results) ==
    [d \in Deps |->
        IF /\ dep[d].st = "pending"
           /\ dep[d].agent = id
           /\ \E x \in results : x.dep = d
        THEN Settled(d, (CHOOSE x \in results : x.dep = d).out)
        ELSE dep[d]]

\* The loop over deployment_results: only the agent's own pending rows move.
Applied(id, results) ==
    [d \in Deps |->
        IF /\ dep[d].st = "pending"
           /\ dep[d].agent = id
           /\ \E x \in results : x.dep = d
        THEN Settled(d, IF [dep |-> d, out |-> "ok"] \in results
                        THEN "done" ELSE "failed")
        ELSE dep[d]]

\* Variant: the batch is not restricted to pending rows.
Batch_AnyStatus(rows, id) ==
    LET Mine == {d \in Deps : rows[d].st # "none" /\ rows[d].agent = id}
    IN {d \in Mine : Cardinality({e \in Mine : e < d}) < Limit}

\* The agent's pending rows, the oldest Limit of them.
Batch(rows, id) ==
    LET Pending == {d \in Deps : rows[d].st = "pending" /\ rows[d].agent = id}
    IN {d \in Pending : Cardinality({e \in Pending : e < d}) < Limit}

\* Variant: wrong credentials are answered like a retired agent.
Answer_GoneOnBadKey(r, rows) ==
    IF Malformed(r) THEN Reply("rejected")
    ELSE IF ~(Registered(r.id) /\ KeyMatches(r)) THEN Reply("gone")
    ELSE [code |-> "ok",
          deps |-> Batch(rows, r.id),
          sensors |-> row[CHOOSE h \in Hosts : row[h].id = r.id].sensors]

\* Variant: a retired agent is answered like wrong credentials.
Answer_NeverGone(r, rows) ==
    IF Malformed(r) \/ ~(Registered(r.id) /\ KeyMatches(r))
    THEN Reply("rejected")
    ELSE [code |-> "ok",
          deps |-> Batch(rows, r.id),
          sensors |-> row[CHOOSE h \in Hosts : row[h].id = r.id].sensors]

\* What the API answers to r when it is left with these deployment rows.
Answer(r, rows) ==
    IF Malformed(r) THEN Reply("rejected")
    ELSE IF ~Registered(r.id) THEN Reply("gone")
    ELSE IF ~KeyMatches(r) THEN Reply("rejected")
    ELSE [code |-> "ok",
          deps |-> Batch(rows, r.id),
          sensors |-> row[CHOOSE h \in Hosts : row[h].id = r.id].sensors]

\* Variant: the batch is selected before the results are applied.
Heartbeat_BatchFirst(r) ==
    /\ dep' = IF Accepted(r) THEN Applied(r.id, r.results) ELSE dep
    /\ reqs' = reqs \ {r}
    /\ resp' = IF r.conn = "open" THEN [resp EXCEPT ![r.proc] = Answer(r, dep)]
               ELSE resp
    /\ UNCHANGED <<row, minted, owner, hostVars, procVars, bounds>>

\* The whole handler.  A caller that gave up never sees the answer.
Heartbeat(r) ==
    /\ dep' = IF Accepted(r) THEN Applied(r.id, r.results) ELSE dep
    /\ reqs' = reqs \ {r}
    /\ resp' = IF r.conn = "open" THEN [resp EXCEPT ![r.proc] = Answer(r, dep')]
               ELSE resp
    /\ UNCHANGED <<row, minted, owner, hostVars, procVars, bounds>>

\* The request is lost, or the API dies in the handler after it has applied
\* the results up to some deployment (the loop is not a transaction).
HeartbeatDies(r) ==
    /\ Fault
    /\ reqs' = reqs \ {r}
    /\ \E last \in 0..MaxDeps :
         dep' = IF Accepted(r)
                THEN Applied(r.id, {x \in r.results : x.dep <= last})
                ELSE dep
    /\ UNCHANGED <<row, minted, owner, hostVars, procVars, resp, edits>>

-----------------------------------------------------------------------------
(* The agent process: runAgent.                                            *)

\* A process that starts, or re-executes itself, knows only the state file.
Fresh(p) ==
    /\ mem' = [mem EXCEPT ![p] = file[HostOf[p]]]
    /\ specs' = [specs EXCEPT ![p] = NoSensors]
    /\ todo' = [todo EXCEPT ![p] = {}]
    /\ pend' = [pend EXCEPT ![p] = {}]

Start(p) ==
    /\ pc[p] = "down"
    /\ file[HostOf[p]] # NoCreds
    /\ pc' = [pc EXCEPT ![p] = "top"]
    /\ Fresh(p)
    /\ UNCHANGED <<apiVars, hostVars, netVars, bounds>>

\* p's connections are closed: its request may still reach the API.
Closed(p) ==
    {[proc |-> r.proc, conn |-> IF r.proc = p THEN "closed" ELSE r.conn,
      id |-> r.id, key |-> r.key, results |-> r.results] : r \in reqs}

\* Killed, crashed or stopped by the service manager.
Stop(p) ==
    /\ pc[p] # "down"
    /\ Restart
    /\ pc' = [pc EXCEPT ![p] = "down"]
    /\ mem' = [mem EXCEPT ![p] = NoCreds]
    /\ specs' = [specs EXCEPT ![p] = NoSensors]
    /\ todo' = [todo EXCEPT ![p] = {}]
    /\ pend' = [pend EXCEPT ![p] = {}]
    /\ reqs' = Closed(p)
    /\ resp' = [resp EXCEPT ![p] = NoReply]
    /\ UNCHANGED <<apiVars, hostVars, edits>>

\* FetchAndApply installed a release at the end of an iteration: execSelf.
SelfUpdate(p) ==
    /\ pc[p] = "tail"
    /\ Restart
    /\ pc' = [pc EXCEPT ![p] = "top"]
    /\ Fresh(p)
    /\ UNCHANGED <<apiVars, hostVars, netVars, edits>>

\* client.Heartbeat sends the pending results.
Send(p) ==
    /\ pc[p] \in {"top", "tail"}
    /\ pc' = [pc EXCEPT ![p] = "wait"]
    /\ reqs' = reqs \cup {[proc |-> p, conn |-> "open", id |-> mem[p].id,
                           key |-> mem[p].key, results |-> pend[p]]}
    /\ UNCHANGED <<apiVars, hostVars, mem, specs, todo, pend, resp, bounds>>

\* httpTimeout: the call is given up while the request or the reply is on
\* its way.  The results are kept for the next heartbeat.
GiveUp(p) ==
    /\ pc[p] = "wait"
    /\ Fault
    /\ pc' = [pc EXCEPT ![p] = "tail"]
    /\ reqs' = Closed(p)
    /\ resp' = [resp EXCEPT ![p] = NoReply]
    /\ UNCHANGED <<apiVars, hostVars, mem, specs, todo, pend, edits>>

\* The connection failed under the call: nothing will ever be received.
CallFails(p) ==
    /\ pc[p] = "wait"
    /\ resp[p].code = "none"
    /\ \A r \in reqs : r.conn = "closed" \/ r.proc # p
    /\ pc' = [pc EXCEPT ![p] = "tail"]
    /\ UNCHANGED <<apiVars, hostVars, mem, specs, todo, pend, netVars, bounds>>

\* Variant: acknowledged results are not cleared.
ReceiveOk_KeepsResults(p) ==
    /\ pc[p] = "wait"
    /\ resp[p].code = "ok"
    /\ specs' = [specs EXCEPT ![p] = resp[p].sensors]
    /\ todo' = [todo EXCEPT ![p] = resp[p].deps]
    /\ pc' = [pc EXCEPT ![p] = IF resp[p].deps = {} THEN "tail" ELSE "exec"]
    /\ resp' = [resp EXCEPT ![p] = NoReply]
    /\ UNCHANGED <<apiVars, hostVars, mem, pend, reqs, bounds>>

\* Variant: an empty sensor set is taken for an absent one.
ReceiveOk_IgnoresEmpty(p) ==
    /\ pc[p] = "wait"
    /\ resp[p].code = "ok"
    /\ pend' = [pend EXCEPT ![p] = {}]
    /\ specs' = IF resp[p].sensors = NoSensors THEN specs
                ELSE [specs EXCEPT ![p] = resp[p].sensors]
    /\ todo' = [todo EXCEPT ![p] = resp[p].deps]
    /\ pc' = [pc EXCEPT ![p] = IF resp[p].deps = {} THEN "tail" ELSE "exec"]
    /\ resp' = [resp EXCEPT ![p] = NoReply]
    /\ UNCHANGED <<apiVars, hostVars, mem, reqs, bounds>>

\* 200: the results are acknowledged, the sensor set is replaced when it
\* differs, and the deployments are about to be executed.
ReceiveOk(p) ==
    /\ pc[p] = "wait"
    /\ resp[p].code = "ok"
    /\ pend' = [pend EXCEPT ![p] = {}]
    /\ specs' = [specs EXCEPT ![p] = resp[p].sensors]
    /\ todo' = [todo EXCEPT ![p] = resp[p].deps]
    /\ pc' = [pc EXCEPT ![p] = IF resp[p].deps = {} THEN "tail" ELSE "exec"]
    /\ resp' = [resp EXCEPT ![p] = NoReply]
    /\ UNCHANGED <<apiVars, hostVars, mem, reqs, bounds>>

\* 410: stop the sensors and idle until the process is stopped.
ReceiveGone(p) ==
    /\ pc[p] = "wait"
    /\ resp[p].code = "gone"
    /\ specs' = [specs EXCEPT ![p] = NoSensors]
    /\ pc' = [pc EXCEPT ![p] = "dormant"]
    /\ resp' = [resp EXCEPT ![p] = NoReply]
    /\ UNCHANGED <<apiVars, hostVars, mem, todo, pend, reqs, bounds>>

\* 401 and every other status: log and retry, with the same results.
ReceiveRejected(p) ==
    /\ pc[p] = "wait"
    /\ resp[p].code = "rejected"
    /\ pc' = [pc EXCEPT ![p] = "tail"]
    /\ resp' = [resp EXCEPT ![p] = NoReply]
    /\ UNCHANGED <<apiVars, hostVars, mem, specs, todo, pend, reqs, bounds>>

\* deploy.Execute, one deployment at a time in the order received.
ExecuteOne(p, d, out) ==
    /\ pc[p] = "exec"
    /\ d \in todo[p]
    /\ \A e \in todo[p] : d <= e
    /\ ran' = ran \cup {[dep |-> d, host |-> HostOf[p], out |-> out]}
    /\ pend' = [pend EXCEPT ![p] = @ \cup {[dep |-> d, out |-> out]}]
    /\ todo' = [todo EXCEPT ![p] = @ \ {d}]
    /\ pc' = [pc EXCEPT ![p] = IF todo[p] = {d} THEN "tail" ELSE "exec"]
    /\ UNCHANGED <<apiVars, offer, file, mem, specs, netVars, bounds>>

-----------------------------------------------------------------------------

HostNext(h) ==
    \/ Enroll(h) \/ SaveState(h) \/ LoseOffer(h) \/ Retire(h)
    \/ \E c \in Configs : PutSensors(h, c)
    \/ \E d \in Deps : Deploy(h, d)

ProcNext(p) ==
    \/ Start(p) \/ Stop(p) \/ SelfUpdate(p)
    \/ Send(p) \/ GiveUp(p) \/ CallFails(p)
    \/ ReceiveOk(p) \/ ReceiveGone(p) \/ ReceiveRejected(p)
    \/ \E d \in Deps, out \in Outcomes : ExecuteOne(p, d, out)

Next ==
    \/ \E h \in Hosts : HostNext(h)
    \/ \E p \in Procs : ProcNext(p)
    \/ \E r \in reqs : Heartbeat(r) \/ HeartbeatDies(r)

Spec == Init /\ [][Next]_vars

(* The requests of one process are answered whatever the others send; every *)
(* process takes its next step and is started by its service manager again. *)
Fairness ==
    \A p \in Procs :
        /\ WF_vars(\E r \in reqs : r.proc = p /\ r.conn = "open" /\ Heartbeat(r))
        /\ WF_vars(Start(p)) /\ WF_vars(Send(p)) /\ WF_vars(CallFails(p))
        /\ WF_vars(ReceiveOk(p)) /\ WF_vars(ReceiveGone(p))
        /\ WF_vars(ReceiveRejected(p))
        /\ WF_vars(\E d \in Deps, out \in Outcomes : ExecuteOne(p, d, out))

FairSpec == Spec /\ Fairness

-----------------------------------------------------------------------------
(* Safety.                                                                 *)

\* An execution, told by the status it is worth.
Attempted(x) == [dep |-> x.dep, host |-> x.host,
                 ended |-> IF x.out = "ok" THEN "done" ELSE "failed"]

\* Seen from the console a deployment is what module Deployment says: it is
\* attempted only on the host it was queued for, and it becomes done (failed)
\* once, only when an attempt on that host did plant it (did fail), whatever
\* is lost, late, repeated or superseded between the heartbeats.
Job == INSTANCE Deployment WITH
         status   <- [d \in Deps |-> dep[d].st],
         target   <- [d \in Deps |-> owner[dep[d].agent]],
         attempts <- {Attempted(x) : x \in ran}
ImplementsDeployment == Job!JobSpec

\* What a process executes, or reports, was queued for the very agent it
\* enrolled as, and not after its key had been replaced by a re-enrollment:
\* an orphaned process gets no new work (agents.ts, verifyAgentKey).
SupersededGetsNothing ==
    \A p \in Procs : \A d \in todo[p] \cup {x.dep : x \in pend[p]} :
        dep[d].agent = mem[p].id /\ dep[d].key <= mem[p].key

\* A process goes dormant for good (main.go, ErrRevoked) only when the agent
\* it is was retired: never because its key was replaced, a report was
\* malformed or an answer was meant for an earlier call.
DormantOnlyIfRetired ==
    \A p \in Procs : pc[p] = "dormant" => ~Registered(mem[p].id)

\* However many heartbeats fail, a report never outgrows what the heartbeat
\* schema accepts (agents.ts, max(100) against limit(20)): the agent replaces
\* its pending results, it does not pile them up.
ReportsFit ==
    Limit <= MaxResults =>
        \A r \in reqs : Cardinality(r.results) <= MaxResults

\* p executes d in this step.
Executes(p, d) == pc[p] = "exec" /\ d \in todo[p] \ todo'[p] /\ ran' # ran

\* As long as no process was restarted, the only one of its machine executes
\* a deployment once, however heartbeats and answers are lost or late: the
\* API takes the results in before it picks the next batch.
ExecutedOnce ==
    [][restarts' = 0 =>
         \A p \in Procs, d \in Deps :
            /\ Executes(p, d)
            /\ \A q \in Procs : HostOf[q] = HostOf[p] /\ q # p => pc[q] = "down"
            => \A x \in ran : x.dep # d]_vars

-----------------------------------------------------------------------------
(* Liveness.                                                               *)

\* Some process of h holds the credentials its agent row has, and goes on so.
Serves(p, h) ==
    /\ HostOf[p] = h /\ row[h].id # 0
    /\ file[h] = [id |-> row[h].id, key |-> row[h].key]
    /\ pc[p] # "down" => mem[p] = file[h]

\* A deployment queued for an agent that stays enrolled is executed and its
\* result reported (agents.ts: "executed on the next heartbeat, result
\* reported on the one after").
DeploymentsComplete ==
    \A d \in Deps, h \in Hosts :
        <>[](/\ dep[d].agent = row[h].id
             /\ \A p \in Procs : HostOf[p] = h => Serves(p, h))
        => [](dep[d].st = "pending" => <>(dep[d].st # "pending"))

\* A process whose agent was retired does not go on running its sensors: it
\* learns of it and stops them (main.go, ErrRevoked), unless it is stopped or
\* restarted first.
RetiredStopsSensors ==
    \A p \in Procs :
        [](pc[p] # "down" /\ ~Registered(mem[p].id)
           => <>(pc[p] \in {"dormant", "down", "top"} /\ specs[p] = NoSensors))

\* Once the operator stops editing, an enrolled process runs the sensor set
\* the console shows (main.go, specsEqual and StartAll).
SensorsConverge ==
    \A p \in Procs, c \in Configs :
        <>[](Serves(p, HostOf[p]) /\ row[HostOf[p]].sensors = c)
        => <>[](specs[p] = c)
=============================================================================
