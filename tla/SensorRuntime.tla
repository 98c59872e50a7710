--------------------------- MODULE SensorRuntime ---------------------------
(***************************************************************************)
(* The sensor runtime of the agent (agent/internal/sensors/sensors.go):    *)
(* StartAll replaces the running generation of sensors by a new one after  *)
(* it has stopped and waited for it, but not longer than shutdownGrace.    *)
(* A generation runs listeners (tcpserver.go, ssh.go, httplogin.go) and    *)
(* perhaps the planted credential sensor (PlantedBait).                    *)
(*                                                                         *)
(* The heartbeat loop is the only caller (main.go).                        *)
(***************************************************************************)
EXTENDS PlantedBait

CONSTANTS
    Listeners,  \* listener sensors, as configured
    PortOf,     \* the port of a listener
    Ports,
    Foreign,    \* ports other programs of the machine hold
    Bait,       \* the planted credential sensor
    SpecSets,   \* sensor sets the console may deliver (the enabled specs)
    MaxFaults   \* bound: listeners that fail while they run

ASSUME RuntimeAssumption ==
    /\ Bait \notin Listeners
    /\ SpecSets \subseteq SUBSET (Listeners \cup {Bait})
    /\ PortOf \in [Listeners -> Ports] /\ Foreign \subseteq Ports
    /\ MaxFaults \in Nat

VARIABLES
    loop,    \* the heartbeat loop: idle, in stopCurrentLocked, or dormant
    gen,     \* the current generation; 0: none (runCancel = nil)
    last,    \* generations launched
    want,    \* currentSpecs
    tcp,     \* the listeners of each generation
    failed,  \* history: binds that failed, and who held the port
    late,    \* history: a shutdown timed out
    faults

runVars == <<loop, gen, last, want, tcp, failed, late, faults>>
vars == <<runVars, baitVars>>

Holds(g, s) == tcp[g][s] = "open"

\* The generations that hold port p; 0 is another program.
Holders(p) ==
    {g \in Gens : \E s \in Listeners : Holds(g, s) /\ PortOf[s] = p}
    \cup (IF p \in Foreign THEN {0} ELSE {})

Running(g) ==
    \/ pc[g] \notin {"none", "done"}
    \/ \E s \in Listeners : tcp[g][s] \in {"starting", "open"}

TypeOK ==
    /\ BaitTypeOK
    /\ loop \in {"idle", "starting", "stopping", "dormant"}
    /\ gen \in Gens \cup {0}
    /\ last \in Gens \cup {0}
    /\ want \in SpecSets \cup {{}}
    /\ tcp \in [Gens -> [Listeners -> {"none", "starting", "open", "done"}]]
    /\ failed \subseteq [gen : Gens, sensor : Listeners, by : SUBSET (Gens \cup {0})]
    /\ late \in {"no", "yes"}
    /\ faults \in 0..MaxFaults

Init ==
    /\ BaitInit
    /\ loop = "idle"
    /\ gen = 0
    /\ last = 0
    /\ want = {}
    /\ tcp = [g \in Gens |-> [s \in Listeners |-> "none"]]
    /\ failed = {}
    /\ late = "no"
    /\ faults = 0

-----------------------------------------------------------------------------
(* StartAll and StopAll.                                                   *)

\* Every enabled spec is started in a goroutine of its own.
Launch(S) ==
    LET g == last + 1 IN
    /\ last' = g
    /\ gen' = g
    /\ tcp' = [tcp EXCEPT ![g] =
                 [s \in Listeners |-> IF s \in S THEN "starting" ELSE "none"]]
    /\ pc' = [pc EXCEPT ![g] = IF Bait \in S THEN "begin" ELSE "none"]
    /\ loop' = "idle"

\* A heartbeat delivers a set that differs from the one running.
StartAll(S) ==
    /\ loop = "idle"
    /\ S # want
    /\ last + 1 \in Gens
    /\ want' = S
    /\ IF gen = 0
       THEN /\ Launch(S)
            /\ UNCHANGED <<base, cur, armed, seen, cancelled>>
       ELSE /\ cancelled' = cancelled \cup {gen}
            /\ loop' = "starting"
            /\ UNCHANGED <<gen, last, tcp, instVars>>
    /\ UNCHANGED <<fileVars, histVars, failed, late, faults>>

\* Variant: no check that something runs.
StopAll_NoNilCheck ==
    /\ loop = "idle"
    /\ cancelled' = cancelled \cup {gen}
    /\ loop' = "stopping"
    /\ UNCHANGED <<gen, last, want, tcp, failed, late, faults, fileVars,
                   instVars, histVars>>

\* Variant: cancelled and not waited for.
StopAll_NoWait ==
    /\ loop = "idle"
    /\ cancelled' = IF gen = 0 THEN cancelled ELSE cancelled \cup {gen}
    /\ loop' = "dormant"
    /\ gen' = 0
    /\ UNCHANGED <<last, want, tcp, failed, late, faults, fileVars, instVars,
                   histVars>>

\* A heartbeat is answered 410.
StopAll ==
    /\ loop = "idle"
    /\ cancelled' = IF gen = 0 THEN cancelled ELSE cancelled \cup {gen}
    /\ loop' = IF gen = 0 THEN "dormant" ELSE "stopping"
    /\ UNCHANGED <<gen, last, want, tcp, failed, late, faults, fileVars,
                   instVars, histVars>>

\* The end of stopCurrentLocked, and what StartAll does next.
Proceed ==
    /\ IF loop = "starting"
       THEN Launch(want) /\ UNCHANGED <<base, cur, armed, seen>>
       ELSE loop' = "dormant" /\ gen' = 0 /\ UNCHANGED <<last, tcp, instVars>>
    /\ UNCHANGED <<want, failed, faults, fileVars, histVars, cancelled>>

\* Variant: the old generation is cancelled and not waited for.
Stopped_NoWait ==
    /\ loop \in {"starting", "stopping"}
    /\ Proceed
    /\ UNCHANGED late

\* runWG.Wait() returned.
Stopped ==
    /\ loop \in {"starting", "stopping"}
    /\ ~Running(gen)
    /\ Proceed
    /\ UNCHANGED late

\* shutdownGrace expired.  A report may take longer (httpTimeout, 15 s); a
\* listener is closed at once.
GraceExpires ==
    /\ loop \in {"starting", "stopping"}
    /\ pc[gen] = "report"
    /\ \A s \in Listeners : tcp[gen][s] \in {"none", "done"}
    /\ late' = "yes"
    /\ Proceed

-----------------------------------------------------------------------------
(* The listeners.                                                          *)

SetTcp(g, s, st) == tcp' = [tcp EXCEPT ![g][s] = st]

\* Listen fails when the port is held or the context is cancelled.
Listen(g, s) ==
    /\ tcp[g][s] = "starting"
    /\ IF g \in cancelled \/ Holders(PortOf[s]) # {}
       THEN SetTcp(g, s, "done")
       ELSE SetTcp(g, s, "open")
    /\ failed' = IF g \notin cancelled /\ Holders(PortOf[s]) # {}
                 THEN failed \cup {[gen |-> g, sensor |-> s,
                                    by |-> Holders(PortOf[s])]}
                 ELSE failed
    /\ UNCHANGED <<loop, gen, last, want, late, faults, baitVars>>

\* The context is cancelled: the listener is closed and Start returns.
Close(g, s) ==
    /\ tcp[g][s] = "open"
    /\ g \in cancelled
    /\ SetTcp(g, s, "done")
    /\ UNCHANGED <<loop, gen, last, want, failed, late, faults, baitVars>>

\* Accept fails: Start returns and nothing starts the sensor again.
AcceptFails(g, s) ==
    /\ tcp[g][s] = "open"
    /\ faults < MaxFaults
    /\ faults' = faults + 1
    /\ SetTcp(g, s, "done")
    /\ UNCHANGED <<loop, gen, last, want, failed, late, baitVars>>

-----------------------------------------------------------------------------

Next ==
    \/ \E S \in SpecSets : StartAll(S)
    \/ StopAll \/ Stopped \/ GraceExpires
    \/ \E g \in Gens, s \in Listeners :
         Listen(g, s) \/ Close(g, s) \/ AcceptFails(g, s)
    \/ TouchNext /\ UNCHANGED runVars
    \/ \E g \in Gens : InstNext(g) /\ UNCHANGED runVars

Spec == Init /\ [][Next]_vars

\* Every goroutine runs.  A select that is offered both cases again and again
\* takes each of them.
Fairness ==
    \A g \in Gens :
        /\ WF_vars(InstNext(g) /\ UNCHANGED runVars)
        /\ SF_vars(Exit(g) /\ UNCHANGED runVars)
        /\ \A s \in Listeners : WF_vars(Listen(g, s)) /\ WF_vars(Close(g, s))
        /\ WF_vars(Stopped) /\ WF_vars(GraceExpires)

FairSpec == Spec /\ Fairness

-----------------------------------------------------------------------------
(* Properties.                                                             *)

\* StartAll and StopAll wait: unless a shutdown timed out, what runs belongs
\* to the current generation, and nothing runs in a dormant agent.
OneGeneration ==
    late = "no" => \A g \in Gens : Running(g) => g = gen

\* A sensor is never refused its port by a sensor of an earlier set, even
\* when a shutdown timed out (sensors.go: "address already in use").
NoSelfCollision ==
    \A f \in failed : f.by \subseteq {0, f.gen}

\* No false alarm: as long as no shutdown timed out, what the bait sensor
\* reports was done to the file by somebody else since it last looked.
NoFalseAlarm ==
    late = "no" => \A g \in Gens : AlarmTrue(g)

\* "without this the sensor detects the first read and then goes blind for up to
\* 24 hours" (planted.go): as long as nobody writes to the bait, no shutdown timed
\* out and the sensor may set the times (else it says "reads of this bait will NOT
\* be detected"), every read is followed by the trap being armed again, also across
\* a change of the set that hands the bait from one generation to the next.
Rearmed == late = "no" => \A g \in Gens : Sighted(g)

\* A generation that is stopped does end, ports and all.
StoppedEnds == \A g \in Gens : g \in cancelled ~> ~Running(g)
=============================================================================
