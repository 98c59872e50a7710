----------------------------- MODULE Deployment -----------------------------
(***************************************************************************)
(* What the console promises its operator about a token deployment,       *)
(* whatever the network and the endpoint agents do in between: it is      *)
(* queued once, it is attempted only on the host it was queued for, and   *)
(* the status shown for it is decided once and was really observed there. *)
(* An attempt may be repeated (the agent restarts before it has reported),*)
(* so nothing is said about how often one is made.                        *)
(***************************************************************************)

CONSTANTS Deps,     \* deployments
          Hosts,    \* endpoints
          NoHost    \* the target of a deployment that is not queued yet

VARIABLES status,   \* what the console shows
          target,   \* the host a deployment was queued for
          attempts  \* the attempts made so far: [dep, host, ended]

jobVars == <<status, target, attempts>>

JobInit ==
    /\ status = [d \in Deps |-> "none"]
    /\ target = [d \in Deps |-> NoHost]
    /\ attempts = {}

\* The operator queues a deployment for a host.
Queue(d, h) ==
    /\ status[d] = "none"
    /\ status' = [status EXCEPT ![d] = "pending"]
    /\ target' = [target EXCEPT ![d] = h]
    /\ UNCHANGED attempts

\* The host it was queued for tries to plant it, and that ends well or badly.
Attempt(d, s) ==
    /\ status[d] # "none"
    /\ attempts' = attempts \cup {[dep |-> d, host |-> target[d], ended |-> s]}
    /\ UNCHANGED <<status, target>>

\* An attempt that ended the way the status s says.
Observed(d, s) == [dep |-> d, host |-> target[d], ended |-> s] \in attempts

\* The console learns how some of the pending deployments ended.
Settle ==
    /\ \A d \in Deps :
         \/ status'[d] = status[d]
         \/ /\ status[d] = "pending"
            /\ status'[d] \in {"done", "failed"}
            /\ Observed(d, status'[d])
    /\ status' = [d \in Deps |-> status'[d]]
    /\ UNCHANGED <<target, attempts>>

JobNext ==
    \/ \E d \in Deps, h \in Hosts : Queue(d, h)
    \/ \E d \in Deps, s \in {"done", "failed"} : Attempt(d, s)
    \/ Settle

JobSpec == JobInit /\ [][JobNext]_jobVars
=============================================================================
