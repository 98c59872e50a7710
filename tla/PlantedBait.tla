---------------------------- MODULE PlantedBait ----------------------------
(***************************************************************************)
(* The planted credential sensor (agent/internal/sensors/planted.go): a   *)
(* bait file whose modification and access times are polled.  Under        *)
(* relatime, the Linux default, a read moves the access time only while it *)
(* is not newer than the modification time, so the sensor keeps it behind. *)
(*                                                                         *)
(* One instance per generation of sensors; the generations share the file. *)
(* Times are numbers that every touch of the file advances.                *)
(***************************************************************************)
EXTENDS Naturals, FiniteSets

CONSTANTS
    Gens,        \* generations of sensors
    MaxTouches,  \* bound: touches of the file by anyone but the sensor
    Refused      \* bound: generations that may be refused a write to the file

ASSUME BaitAssumption ==
    Gens \subseteq Nat \ {0} /\ MaxTouches \in Nat /\ Refused \subseteq Gens

VARIABLES
    file,       \* the bait file: there, mtime, atime
    touches,    \* touches so far, the clock
    pc,         \* where Start of an instance is
    base,       \* its baseline
    cur,        \* the signature of its last poll
    armed,      \* the mtime armAtime read
    seen,       \* what it is about to report
    news,       \* history: kinds of touches since it last looked at the file
    cause,      \* history: news when it found its report
    blind,      \* history: instances that could not arm the file, or during
                \* whose own steps somebody touched it
    cancelled   \* generations whose context is cancelled

fileVars == <<file, touches>>
instVars == <<pc, base, cur, armed, seen>>
histVars == <<news, cause, blind>>
baitVars == <<fileVars, instVars, histVars, cancelled>>

Times   == 0..(2 * MaxTouches + 2)
Kinds   == {"read", "modified", "deleted"}
Sigs    == [mtime : Times, atime : Times]
Planted == 1                       \* the backdated mtime of a planted file
FileAt(m, a) == [there |-> "yes", mtime |-> m, atime |-> a]
NoFile  == [there |-> "no", mtime |-> 0, atime |-> 0]
NoSig   == [mtime |-> 0, atime |-> 0]

Sig   == [mtime |-> file.mtime, atime |-> file.atime]
There == file.there = "yes"

\* The kernel records the next read (relatime).
Armed == file.atime <= file.mtime

BaitTypeOK ==
    /\ file \in [there : {"yes", "no"}, mtime : Times, atime : Times]
    /\ touches \in 0..MaxTouches
    /\ pc \in [Gens -> {"none", "begin", "baseline", "wait", "arm", "chtimes",
                        "rebase", "report", "done"}]
    /\ base \in [Gens -> Sigs]
    /\ cur \in [Gens -> Sigs]
    /\ armed \in [Gens -> Times]
    /\ seen \in [Gens -> Kinds \cup {"none"}]
    /\ news \in [Gens -> SUBSET Kinds]
    /\ cause \in [Gens -> SUBSET Kinds]
    /\ blind \subseteq Gens
    /\ cancelled \subseteq Gens

BaitInit ==
    /\ file = NoFile
    /\ touches = 0
    /\ pc = [g \in Gens |-> "none"]
    /\ base = [g \in Gens |-> NoSig]
    /\ cur = [g \in Gens |-> NoSig]
    /\ armed = [g \in Gens |-> 0]
    /\ seen = [g \in Gens |-> "none"]
    /\ news = [g \in Gens |-> {}]
    /\ cause = [g \in Gens |-> {}]
    /\ blind = {}
    /\ cancelled = {}

-----------------------------------------------------------------------------
(* Whoever finds the file.                                                 *)

\* An instance is between a look at the file and the baseline it takes.
Working(g) == pc[g] \in {"baseline", "arm", "chtimes", "rebase"}

Touch(kind) ==
    /\ touches < MaxTouches
    /\ touches' = touches + 1
    /\ news' = [g \in Gens |-> news[g] \cup {kind}]
    /\ blind' = blind \cup {g \in Gens : Working(g)}
    /\ UNCHANGED <<instVars, cause, cancelled>>

\* The time of the next touch, and one between the last touch and it: both are
\* later than Planted.
Now == 2 * touches + 3
Meanwhile == 2 * touches + 2

Read ==
    /\ There
    /\ file' = IF Armed THEN FileAt(file.mtime, Now) ELSE file
    /\ Touch("read")

\* A write, or a new file where there was none.
Write ==
    /\ file' = IF There THEN FileAt(Now, file.atime)
               ELSE FileAt(Now, Now)
    /\ Touch("modified")

Delete ==
    /\ There
    /\ file' = NoFile
    /\ Touch("deleted")

-----------------------------------------------------------------------------
(* One instance.                                                           *)

Goto(g, to) == pc' = [pc EXCEPT ![g] = to]

\* Plant the file where there is none and arm it.  What is touched before
\* the baseline is not watched, so the probe in between is not a step.
Begin(g) ==
    /\ pc[g] = "begin"
    /\ file' = FileAt(IF There THEN file.mtime ELSE Planted, 0)
    /\ Goto(g, "baseline")
    /\ UNCHANGED <<touches, base, cur, armed, seen, histVars, cancelled>>

\* Chtimes is refused: the sensor logs it, reads the file itself to see whether
\* reads can be detected, and goes on.
BeginUnarmed(g) ==
    /\ pc[g] = "begin" /\ g \in Refused
    /\ file' = IF There /\ ~Armed THEN file
               ELSE FileAt(IF There THEN file.mtime ELSE Meanwhile, Meanwhile)
    /\ blind' = blind \cup {g}
    /\ Goto(g, "baseline")
    /\ UNCHANGED <<touches, base, cur, armed, seen, news, cause, cancelled>>

\* The file cannot be written: Start returns the error.
BeginFails(g) ==
    /\ pc[g] = "begin" /\ g \in Refused /\ ~There
    /\ Goto(g, "done")
    /\ UNCHANGED <<fileVars, base, cur, armed, seen, histVars, cancelled>>

\* The baseline; Start fails when the file is gone already.
Baseline(g) ==
    /\ pc[g] = "baseline"
    /\ base' = [base EXCEPT ![g] = IF There THEN Sig ELSE NoSig]
    /\ news' = [news EXCEPT ![g] = {}]
    /\ Goto(g, IF There THEN "wait" ELSE "done")
    /\ UNCHANGED <<fileVars, cur, armed, seen, cause, blind, cancelled>>

\* Variant: the context is looked at only when the file is gone.
Exit_WhenGone(g) ==
    /\ pc[g] = "wait"
    /\ g \in cancelled /\ ~There
    /\ Goto(g, "done")
    /\ UNCHANGED <<fileVars, base, cur, armed, seen, histVars, cancelled>>

\* The select sees the cancelled context.
Exit(g) ==
    /\ pc[g] = "wait"
    /\ g \in cancelled
    /\ Goto(g, "done")
    /\ UNCHANGED <<fileVars, base, cur, armed, seen, histVars, cancelled>>

\* What a poll that finds a difference reports.
Found ==
    [g \in Gens |-> IF ~There THEN "deleted"
                    ELSE IF Sig.mtime # base[g].mtime THEN "modified" ELSE "read"]

\* Mutant: the file is not armed again after a read.
Poll_NoRearm(g) ==
    /\ pc[g] = "wait"
    /\ ~There \/ Sig # base[g]
    /\ cur' = [cur EXCEPT ![g] = Sig]
    /\ seen' = [seen EXCEPT ![g] = Found[g]]
    /\ cause' = [cause EXCEPT ![g] = news[g]]
    /\ news' = [news EXCEPT ![g] = {}]
    /\ Goto(g, IF Found[g] = "deleted" THEN "report" ELSE "rebase")
    /\ UNCHANGED <<fileVars, base, armed, blind, cancelled>>

\* A tick that finds a difference.  The select may see the tick first when
\* the context is cancelled as well.
Poll(g) ==
    /\ pc[g] = "wait"
    /\ ~There \/ Sig # base[g]
    /\ cur' = [cur EXCEPT ![g] = Sig]
    /\ seen' = [seen EXCEPT ![g] = Found[g]]
    /\ cause' = [cause EXCEPT ![g] = news[g]]
    /\ news' = [news EXCEPT ![g] = {}]
    /\ Goto(g, IF Found[g] = "read" THEN "arm"
               ELSE IF Found[g] = "modified" THEN "rebase" ELSE "report")
    /\ UNCHANGED <<fileVars, base, armed, blind, cancelled>>

\* armAtime after a read: the modification time it reads ...
Arm(g) ==
    /\ pc[g] = "arm"
    /\ armed' = [armed EXCEPT ![g] = file.mtime]
    /\ Goto(g, IF There THEN "chtimes" ELSE "rebase")
    /\ UNCHANGED <<fileVars, base, cur, seen, histVars, cancelled>>

\* ... is written back, with an access time an hour before it.
Chtimes(g) ==
    /\ pc[g] = "chtimes"
    /\ file' = IF There THEN FileAt(armed[g], 0) ELSE file
    /\ Goto(g, "rebase")
    /\ UNCHANGED <<touches, base, cur, armed, seen, histVars, cancelled>>

\* It is refused: the sensor logs that reads will not be detected, and goes on.
ChtimesFails(g) ==
    /\ pc[g] = "chtimes" /\ g \in Refused /\ There
    /\ blind' = blind \cup {g}
    /\ Goto(g, "rebase")
    /\ UNCHANGED <<fileVars, base, cur, armed, seen, news, cause, cancelled>>

\* Variant: the baseline is the signature of the poll, taken before arming.
Rebase_Polled(g) ==
    /\ pc[g] = "rebase"
    /\ base' = [base EXCEPT ![g] = cur[g]]
    /\ news' = [news EXCEPT ![g] = IF There THEN {} ELSE @]
    /\ Goto(g, "report")
    /\ UNCHANGED <<fileVars, cur, armed, seen, cause, blind, cancelled>>

\* The new baseline is taken after arming.
Rebase(g) ==
    /\ pc[g] = "rebase"
    /\ base' = [base EXCEPT ![g] = IF There THEN Sig ELSE cur[g]]
    /\ news' = [news EXCEPT ![g] = IF There THEN {} ELSE @]
    /\ Goto(g, "report")
    /\ UNCHANGED <<fileVars, cur, armed, seen, cause, blind, cancelled>>

\* The report returns, delivered or not: both end the same way here, and what
\* the poll kept for itself is gone.
Reported(g) ==
    /\ pc[g] = "report"
    /\ seen' = [seen EXCEPT ![g] = "none"]
    /\ cur' = [cur EXCEPT ![g] = NoSig]
    /\ armed' = [armed EXCEPT ![g] = 0]
    /\ cause' = [cause EXCEPT ![g] = {}]
    /\ Goto(g, IF seen[g] = "deleted" THEN "done" ELSE "wait")
    /\ UNCHANGED <<fileVars, base, news, blind, cancelled>>

InstNext(g) ==
    \/ Begin(g) \/ BeginUnarmed(g) \/ BeginFails(g) \/ Baseline(g) \/ Exit(g) \/ Poll(g)
    \/ Arm(g) \/ Chtimes(g) \/ ChtimesFails(g) \/ Rebase(g) \/ Reported(g)

TouchNext == Read \/ Write \/ Delete

-----------------------------------------------------------------------------

Alarming(g) == pc[g] \in {"arm", "chtimes", "rebase", "report"}

\* What an instance reports did happen since its last baseline.
AlarmTrue(g) == Alarming(g) => seen[g] \in cause[g]

\* An instance that has seen nothing new in a file nobody wrote to is able to
\* see the next read, unless it could not arm the file or somebody touched it
\* within its own few calls.
Sighted(g) ==
    pc[g] = "wait" /\ g \notin blind /\ There /\ file.mtime = Planted /\ Sig = base[g]
        => Armed
=============================================================================
