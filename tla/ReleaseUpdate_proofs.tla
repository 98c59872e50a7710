------------------------ MODULE ReleaseUpdate_proofs ------------------------
(***************************************************************************)
(* Proofs about ReleaseUpdate: type correctness, and that an agent only    *)
(* installs what was signed and can always be recovered, wherever an       *)
(* update of it is interrupted.                                            *)
(***************************************************************************)
EXTENDS ReleaseUpdate, TLAPS

Processes == [pc : Pcs, os : Files, disk : MaybeBinary, aside : MaybeBinary,
              mark : Marks, run : Binary, m : Manifest \cup {NoManifest},
              new : MaybeBinary]
Scripts == [st : {"idle", "hash", "write"}, v : Versions, todo : SUBSET Files,
            files : Entries]

\* What an agent holds of an update was signed with the key it runs with, and is
\* not of the version it runs.
Vouched(p) ==
    /\ p.pc \in {"manifest", "staged", "aside"} =>
          /\ p.m \in Manifest /\ p.m.key = p.run.key /\ p.m.v # p.run.v
          /\ \A f \in Files : p.m.files[f] # Absent =>
                <<p.m.key, f, p.m.files[f]>> \in sealed
    /\ p.pc \in {"staged", "aside"} => p.new # Absent /\ p.new = p.m.files[p.os]
    /\ p.pc = "renamed" => p.mark = "unset"
    /\ p.pc = "aside" => p.mark = "held"
    /\ p.pc = "swapped" => p.disk # Absent /\ p.mark # "unset"
    /\ p.mark = "unset" =>
          p.os \notin Exe /\ p.disk # Absent /\ <<p.run.key, p.os, p.disk>> \in sealed
    /\ p.mark = "held" => p.os \in Exe /\ p.aside # Absent
    /\ p.disk = Absent => p.mark = "held"

AgentsOk == \A a \in Agents : Vouched(agent[a])

ManifestSealed ==
    manifest # NoManifest =>
       \A f \in Files : manifest.files[f] # Absent =>
          <<manifest.key, f, manifest.files[f]>> \in sealed

\* What the script is about to write is signed.
ScriptSealed ==
    script.st = "write" =>
       \A f \in Files : script.files[f] # Absent =>
          <<FirstKey, f, script.files[f]>> \in sealed

\* What was copied out to be signed is a binary of the directory.
JobOk ==
    codesign.st = "copied" => codesign.src \in Binary /\ codesign.at <= Len(Order)

IInv == TypeOK /\ AgentsOk /\ ManifestSealed /\ ScriptSealed /\ JobOk

USE DEF vars, console

\* The names of the binaries are the files.
LEMMA OrderFacts == Len(Order) \in Nat /\ \A i \in 1..Len(Order) : Order[i] \in Files
BY ReleaseAssumption DEF Files

\* A binary made of its parts is one.
LEMMA ImageType ==
    ASSUME NEW n \in 0..MaxWork, NEW v \in Versions, NEW k \in Keys \cup {NoKey},
           NEW c \in Certs \cup {NoCert}
    PROVE  Image(n, v, k, c) \in Binary
BY DEF Image, Binary

\* The type invariant holds in every initial state.
LEMMA InitType == Init => TypeOK
<1> SUFFICES ASSUME Init PROVE TypeOK
  OBVIOUS
<1>0. MaxWork \in Nat /\ MaxFaults \in Nat /\ 0 \in 0..MaxWork
  BY ReleaseAssumption
<1>1. dir \in Entries /\ manifest \in Manifest \cup {NoManifest}
  BY DEF Init, Entries, Nothing
<1>2. live \subseteq Keys \cup Certs /\ made \in 0..MaxWork /\ faults \in 0..MaxFaults
  BY <1>0, ReleaseAssumption DEF Init
<1>3. build \in [Builds -> [st : {"idle", "make"}, v : Versions,
                             n : 0..MaxWork, at : 0..(Len(Order) + 1)]]
  BY <1>0, OrderFacts, ReleaseAssumption DEF Init, NoBuild
<1>4. codesign \in [st : {"idle", "next", "copied"}, cert : Certs \cup {NoCert},
                     at : 0..(Len(Order) + 1), src : MaybeBinary]
  BY <1>0, OrderFacts DEF Init, NoJob, MaybeBinary
<1>5. agent \in [Agents -> Processes]
  <2>1. PICK os \in Files : agent = [a \in Agents |->
           Proc("poll", os, Image(0, FirstVersion, FirstKey, NoCert), Absent, "none",
                Image(0, FirstVersion, FirstKey, NoCert), NoManifest, Absent)]
    BY DEF Init
  <2>2. Image(0, FirstVersion, FirstKey, NoCert) \in Binary
    BY ImageType, <1>0, ReleaseAssumption
  <2>3. Proc("poll", os, Image(0, FirstVersion, FirstKey, NoCert), Absent, "none",
             Image(0, FirstVersion, FirstKey, NoCert), NoManifest, Absent) \in Processes
    BY <2>2 DEF Proc, Processes, Pcs, Marks, MaybeBinary
  <2> QED BY <2>1, <2>3
<1>6. sealed \subseteq Keys \X Files \X Binary
  BY DEF Init
<1>7. script \in Scripts
  BY ReleaseAssumption DEF Init, NoScript, Script, Scripts, Nothing, Entries
<1> QED BY <1>1, <1>2, <1>3, <1>4, <1>5, <1>6, <1>7 DEF TypeOK, Processes, Scripts

-----------------------------------------------------------------------------
\* The steps of an agent

\* The agent's next state, and what it was in the state before.
LEMMA BecomeInv ==
    ASSUME IInv, NEW a \in Agents, NEW p, Become(a, p),
           p \in Processes, Vouched(p), faults' \in 0..MaxFaults
    PROVE  IInv'
<1>1. agent' \in [Agents -> Processes] /\ agent'[a] = p
  BY DEF IInv, TypeOK, Become, Processes
<1>2. TypeOK'
  BY <1>1 DEF IInv, TypeOK, Become, Processes
<1>3. AgentsOk'
  <2> SUFFICES ASSUME NEW x \in Agents PROVE Vouched(agent[x])'
    BY DEF AgentsOk
  <2>1. sealed' = sealed
    BY DEF Become
  <2>2. CASE x = a
    BY <2>1, <2>2, <1>1 DEF Vouched
  <2>3. CASE x # a
    <3>1. agent'[x] = agent[x]
      BY <2>3 DEF Become, IInv, TypeOK
    <3> QED BY <3>1, <2>1 DEF IInv, AgentsOk, Vouched
  <2> QED BY <2>2, <2>3
<1>4. ManifestSealed' /\ ScriptSealed' /\ JobOk'
  BY DEF Become, IInv, ManifestSealed, ScriptSealed, JobOk
<1> QED BY <1>2, <1>3, <1>4 DEF IInv

\* An agent back in its loop holds no update.
LEMMA QuietOk ==
    ASSUME NEW p \in Processes, NEW disk \in MaybeBinary, NEW aside \in MaybeBinary,
           NEW mark \in Marks, NEW run \in Binary,
           disk = Absent => mark = "held",
           mark = "held" => p.os \in Exe /\ aside # Absent,
           mark = "unset" =>
              p.os \notin Exe /\ disk # Absent /\ <<run.key, p.os, disk>> \in sealed
    PROVE  /\ Quiet(p, disk, aside, mark, run) \in Processes
           /\ Vouched(Quiet(p, disk, aside, mark, run))
           /\ Quiet(p, disk, aside, mark, run).disk = disk
<1> DEFINE q == Quiet(p, disk, aside, mark, run)
<1>1. q = [pc |-> "poll", os |-> p.os, disk |-> disk, aside |-> aside,
           mark |-> mark, run |-> run, m |-> NoManifest, new |-> Absent]
  BY DEF Quiet, Proc
<1>2. q \in Processes
  BY <1>1 DEF Processes, Pcs, MaybeBinary
<1>3. /\ q.pc = "poll" /\ q.os = p.os /\ q.disk = disk /\ q.aside = aside
      /\ q.mark = mark /\ q.run = run
  BY <1>1
<1> HIDE DEF q
<1>4. Vouched(q)
  BY <1>3 DEF Vouched
<1> QED BY <1>2, <1>3, <1>4 DEF q

\* One with a program that can be started and none that is held is in order.
LEMMA QuietWhole ==
    ASSUME NEW p \in Processes, NEW disk \in Binary, NEW aside \in MaybeBinary,
           NEW run \in Binary
    PROVE  /\ Quiet(p, disk, aside, "none", run) \in Processes
           /\ Vouched(Quiet(p, disk, aside, "none", run))
           /\ Quiet(p, disk, aside, "none", run).disk = disk
<1>1. "none" \in Marks /\ "none" # "held" /\ "none" # "unset"
  BY DEF Marks
<1>2. disk \in MaybeBinary /\ disk # Absent
  BY AbsentAssumption DEF MaybeBinary
<1> DEFINE mark == "none"
<1>3. /\ mark \in Marks /\ (disk = Absent => mark = "held")
      /\ (mark = "held" => p.os \in Exe /\ aside # Absent)
      /\ (mark = "unset" =>
            p.os \notin Exe /\ disk # Absent /\ <<run.key, p.os, disk>> \in sealed)
  BY <1>1, <1>2
<1> HIDE DEF mark
<1>4. /\ Quiet(p, disk, aside, mark, run) \in Processes
      /\ Vouched(Quiet(p, disk, aside, mark, run))
      /\ Quiet(p, disk, aside, mark, run).disk = disk
  BY <1>2, <1>3, QuietOk
<1> QED BY <1>4 DEF mark

\* So does one that gives an update up and goes on.
LEMMA GivesUpOk ==
    ASSUME NEW p \in Processes, Vouched(p)
    PROVE  GivesUp(p) \in Processes /\ Vouched(GivesUp(p)) /\ GivesUp(p).disk = p.disk
<1>1. /\ p.disk \in MaybeBinary /\ p.aside \in MaybeBinary /\ p.mark \in Marks
      /\ p.run \in Binary
  BY DEF Processes
<1> QED BY <1>1, QuietOk DEF GivesUp, Vouched

\* A process starts with what is at its path.
LEMMA StartsOk ==
    ASSUME IInv, NEW a \in Agents, Starts(a), agent[a].disk # Absent,
           faults' \in 0..MaxFaults
    PROVE  IInv' /\ agent'[a].disk = agent[a].disk
<1> DEFINE p == agent[a]
<1>1. PICK left \in {Absent, p.aside} : Become(a, Quiet(p, p.disk, left, "none", p.disk))
  BY DEF Starts
<1>2. p \in Processes /\ Vouched(p)
  BY DEF IInv, TypeOK, AgentsOk, Processes
<1>3. p.disk \in Binary /\ p.disk \in MaybeBinary /\ left \in MaybeBinary
  BY <1>2 DEF Processes, MaybeBinary
<1>4. /\ Quiet(p, p.disk, left, "none", p.disk) \in Processes
      /\ Vouched(Quiet(p, p.disk, left, "none", p.disk))
      /\ Quiet(p, p.disk, left, "none", p.disk).disk = p.disk
  BY <1>2, <1>3, QuietWhole
<1>5. agent'[a] = Quiet(p, p.disk, left, "none", p.disk)
  BY <1>1 DEF Become, IInv, TypeOK
<1> QED BY <1>1, <1>4, <1>5, BecomeInv

\* Every step of an agent keeps the invariant and installs only what was signed.
LEMMA AgentInv ==
    ASSUME IInv, NEW a \in Agents, AgentNext(a)
    PROVE  /\ IInv'
           /\ agent'[a].disk \notin {agent[a].disk, agent[a].aside, Absent} =>
                 <<agent[a].run.key, agent[a].os, agent'[a].disk>> \in sealed
<1> DEFINE p == agent[a]
           q == agent'[a]
           Good == q.disk \notin {p.disk, p.aside, Absent} =>
                      <<p.run.key, p.os, q.disk>> \in sealed
<1>1. p \in Processes /\ Vouched(p) /\ faults \in 0..MaxFaults /\ MaxFaults \in Nat
  BY ReleaseAssumption DEF IInv, TypeOK, AgentsOk, Processes
<1>2. /\ p.pc \in Pcs /\ p.os \in Files /\ p.disk \in MaybeBinary
      /\ p.aside \in MaybeBinary /\ p.mark \in Marks /\ p.run \in Binary
      /\ p.m \in Manifest \cup {NoManifest} /\ p.new \in MaybeBinary
      /\ Absent \in MaybeBinary
  BY <1>1 DEF Processes, MaybeBinary
<1>3. agent \in [Agents -> Processes]
  BY DEF IInv, TypeOK, Processes
<1>4. faults < MaxFaults /\ faults' = faults + 1 => faults' \in 0..MaxFaults
  BY <1>1
<1>5. ASSUME NEW x, Become(a, x) PROVE q = x
  BY <1>5, <1>3 DEF Become
<1>6. ASSUME Become(a, GivesUp(p)), faults' \in 0..MaxFaults PROVE IInv' /\ Good
  BY <1>6, <1>1, <1>5, GivesUpOk, BecomeInv
<1>7. faults' = faults => faults' \in 0..MaxFaults
  BY <1>1
<1>a. CASE FetchManifest(a)
  <2> DEFINE x == At(p, "manifest", manifest, Absent)
  <2>1. Become(a, x) /\ faults' = faults /\ p.pc = "poll"
        /\ manifest # NoManifest /\ manifest.key = p.run.key /\ manifest.v # p.run.v
    BY <1>a DEF FetchManifest, Verifies, Newer
  <2>2. manifest \in Manifest
    BY <2>1 DEF IInv, TypeOK
  <2>3. x \in Processes /\ x.disk = p.disk
    BY <2>2, <1>2 DEF Processes, At, Proc, Pcs, MaybeBinary
  <2>4. Vouched(x)
    BY <2>1, <2>2, <1>1 DEF IInv, ManifestSealed, Vouched, At, Proc
  <2> QED BY <2>1, <2>3, <2>4, <1>7, <1>5, BecomeInv
<1>b. CASE FetchArtifact(a)
  <2>1. p.pc = "manifest" /\ faults' = faults
    BY <1>b DEF FetchArtifact
  <2>2. CASE Matches(p.m, p.os, dir[p.os])
    <3> DEFINE x == At(p, "staged", p.m, dir[p.os])
    <3>1. Become(a, x)
      BY <1>b, <2>2 DEF FetchArtifact
    <3>2. dir[p.os] \in MaybeBinary
      BY <1>2 DEF IInv, TypeOK, Entries, MaybeBinary
    <3>3. x \in Processes /\ x.disk = p.disk
      BY <1>2, <3>2 DEF Processes, At, Proc, Pcs
    <3>4. Vouched(x)
      BY <2>1, <2>2, <1>1 DEF Vouched, At, Proc, Matches
    <3> QED BY <3>1, <3>3, <3>4, <2>1, <1>7, <1>5, BecomeInv
  <2>3. CASE ~Matches(p.m, p.os, dir[p.os])
    BY <1>b, <2>3, <2>1, <1>6, <1>7 DEF FetchArtifact
  <2> QED BY <2>2, <2>3
<1>c. CASE FetchFails(a) \/ ChmodFails(a) \/ ExecFails(a)
  <2>1. Become(a, GivesUp(p)) /\ faults' \in 0..MaxFaults
    BY <1>c, <1>4 DEF FetchFails, ChmodFails, ExecFails
  <2> QED BY <2>1, <1>6
<1>d. CASE Rename(a)
  <2> DEFINE x == Proc("renamed", p.os, p.new, p.aside, "unset", p.run, p.m, Absent)
  <2>1. Become(a, x) /\ p.pc = "staged" /\ p.os \notin Exe /\ faults' = faults
    BY <1>d DEF Rename
  <2>2. <<p.run.key, p.os, p.new>> \in sealed /\ p.new # Absent
    BY <2>1, <1>1, <1>2 DEF Vouched
  <2>3. x \in Processes
    BY <1>2 DEF Processes, Proc, Pcs, Marks, MaybeBinary
  <2>4. /\ x.pc = "renamed" /\ x.os = p.os /\ x.disk = p.new
        /\ x.mark = "unset" /\ x.run = p.run
    BY DEF Proc
  <2> HIDE DEF x
  <2>5. Vouched(x)
    BY <2>1, <2>2, <2>4 DEF Vouched
  <2> QED BY <2>1, <2>2, <2>3, <2>4, <2>5, <1>7, <1>5, BecomeInv
<1>e. CASE Chmod(a)
  <2> DEFINE x == Proc("swapped", p.os, p.disk, p.aside, "none", p.run, p.m, Absent)
  <2>1. Become(a, x) /\ p.pc = "renamed" /\ faults' = faults
    BY <1>e DEF Chmod
  <2>2. x \in Processes
    BY <1>2 DEF Processes, Proc, Pcs, Marks, MaybeBinary
  <2>3. x.pc = "swapped" /\ x.disk = p.disk /\ x.mark = "none"
    BY DEF Proc
  <2> HIDE DEF x
  <2>4. Vouched(x)
    BY <2>1, <2>3, <1>1 DEF Vouched
  <2> QED BY <2>1, <2>2, <2>3, <2>4, <1>7, <1>5, BecomeInv
<1>f. CASE MoveAside(a)
  <2>1. p.pc = "staged" /\ faults' = faults /\ p.os \in Exe
    BY <1>f DEF MoveAside
  <2>2. CASE Movable(p)
    <3> DEFINE x == Proc("aside", p.os, Absent, p.disk, "held", p.run, p.m, p.new)
    <3>1. Become(a, x) /\ p.disk # Absent
      BY <1>f, <2>2 DEF MoveAside, Movable
    <3>2. x \in Processes
      BY <1>2 DEF Processes, Proc, Pcs, Marks, MaybeBinary
    <3>3. /\ x.pc = "aside" /\ x.os = p.os /\ x.disk = Absent /\ x.aside = p.disk
          /\ x.mark = "held" /\ x.run = p.run /\ x.m = p.m /\ x.new = p.new
      BY DEF Proc
    <3> HIDE DEF x
    <3>4. Vouched(x)
      BY <3>1, <3>3, <2>1, <1>1 DEF Vouched
    <3> QED BY <3>1, <3>2, <3>3, <3>4, <2>1, <1>7, <1>5, BecomeInv
  <2>3. CASE ~Movable(p)
    <3> DEFINE x == Quiet(p, p.disk, Leftover(p), p.mark, p.run)
    <3>1. Become(a, x)
      BY <1>f, <2>3 DEF MoveAside
    <3>2. Leftover(p) \in MaybeBinary /\ (p.mark = "held" => Leftover(p) = p.aside)
      BY <1>2 DEF Leftover
    <3>3. x \in Processes /\ Vouched(x) /\ x.disk = p.disk
      BY <3>2, <1>1, <1>2, QuietOk DEF Vouched
    <3> QED BY <3>1, <3>3, <2>1, <1>7, <1>5, BecomeInv
  <2> QED BY <2>2, <2>3
<1>g. CASE Install(a)
  <2> DEFINE x == Proc("swapped", p.os, p.new, p.aside, p.mark, p.run, p.m, Absent)
  <2>1. Become(a, x) /\ p.pc = "aside" /\ faults' = faults
    BY <1>g DEF Install
  <2>2. <<p.run.key, p.os, p.new>> \in sealed /\ p.new # Absent /\ p.mark = "held"
    BY <2>1, <1>1, <1>2 DEF Vouched
  <2>3. x \in Processes
    BY <1>2 DEF Processes, Proc, Pcs, MaybeBinary
  <2>4. /\ x.pc = "swapped" /\ x.os = p.os /\ x.disk = p.new /\ x.aside = p.aside
        /\ x.mark = p.mark /\ x.run = p.run
    BY DEF Proc
  <2> HIDE DEF x
  <2>5. Vouched(x)
    BY <2>1, <2>2, <2>4, <1>1 DEF Vouched
  <2> QED BY <2>1, <2>2, <2>3, <2>4, <2>5, <1>7, <1>5, BecomeInv
<1>h. CASE RollBack(a)
  <2>1. p.pc = "aside" /\ faults' \in 0..MaxFaults /\ p.mark = "held" /\ p.aside # Absent
    BY <1>h, <1>1, <1>4 DEF RollBack, Vouched
  <2>2. CASE Become(a, Quiet(p, p.aside, Absent, "none", p.run))
    <3>1. /\ Quiet(p, p.aside, Absent, "none", p.run) \in Processes
          /\ Vouched(Quiet(p, p.aside, Absent, "none", p.run))
          /\ Quiet(p, p.aside, Absent, "none", p.run).disk = p.aside
      <4>1. p.aside \in Binary
        BY <2>1, <1>2 DEF MaybeBinary
      <4> QED BY <4>1, <1>1, <1>2, QuietWhole
    <3> QED BY <3>1, <2>1, <2>2, <1>5, BecomeInv
  <2>3. CASE Become(a, GivesUp(p))
    BY <2>1, <2>3, <1>6
  <2> QED BY <1>h, <2>2, <2>3 DEF RollBack
<1>i. CASE ExecSelf(a)
  <2>1. Starts(a) /\ p.disk # Absent /\ faults' = faults
    BY <1>i, <1>1 DEF ExecSelf, Vouched
  <2> QED BY <2>1, <1>7, StartsOk
<1>j. CASE Restart(a)
  <2>1. faults' \in 0..MaxFaults
    BY <1>j, <1>4 DEF Restart
  <2>2. CASE Startable(p) /\ Starts(a)
    BY <2>1, <2>2, StartsOk DEF Startable
  <2>3. CASE Become(a, At(p, "down", NoManifest, Absent))
    <3> DEFINE x == At(p, "down", NoManifest, Absent)
    <3>1. x \in Processes
      BY <1>2 DEF Processes, At, Proc, Pcs, MaybeBinary
    <3>2. /\ x.pc = "down" /\ x.os = p.os /\ x.disk = p.disk /\ x.aside = p.aside
          /\ x.mark = p.mark /\ x.run = p.run
      BY DEF At, Proc
    <3> HIDE DEF x
    <3>3. Vouched(x)
      BY <3>2, <1>1 DEF Vouched
    <3>4. Become(a, x)
      BY <2>3 DEF x
    <3> QED BY <3>1, <3>2, <3>3, <3>4, <2>1, <1>5, BecomeInv
  <2> QED BY <1>j, <2>2, <2>3 DEF Restart
<1> QED BY <1>a, <1>b, <1>c, <1>d, <1>e, <1>f, <1>g, <1>h, <1>i, <1>j
        DEF AgentNext, Updating

-----------------------------------------------------------------------------
\* The steps of the console

\* What a key has signed only grows, so agents stay as they are.
LEMMA AgentsKept ==
    ASSUME IInv, agent' = agent, sealed \subseteq sealed'
    PROVE  AgentsOk'
<1> SUFFICES ASSUME NEW a \in Agents PROVE Vouched(agent[a])'
  BY DEF AgentsOk
<1>1. Vouched(agent[a])
  BY DEF IInv, AgentsOk
<1> QED BY <1>1 DEF Vouched

\* A step of the console that neither signs a manifest nor drops it.
LEMMA ConsoleInv ==
    ASSUME IInv, agent' = agent, sealed' = sealed, manifest' = manifest, TypeOK',
           script' = script, codesign' = codesign \/ JobOk'
    PROVE  IInv'
<1>1. AgentsOk'
  BY AgentsKept
<1>2. ManifestSealed' /\ ScriptSealed' /\ JobOk'
  BY DEF IInv, ManifestSealed, ScriptSealed, JobOk
<1> QED BY <1>1, <1>2 DEF IInv

\* A build request changes.
LEMMA BuildType ==
    ASSUME TypeOK, NEW b \in Builds, NEW v \in Versions, NEW n \in 0..MaxWork,
           NEW i \in 0..(Len(Order) + 1)
    PROVE  /\ [build EXCEPT ![b] = Building(v, n, i)] \in
                 [Builds -> [st : {"idle", "make"}, v : Versions,
                             n : 0..MaxWork, at : 0..(Len(Order) + 1)]]
           /\ [build EXCEPT ![b] = NoBuild] \in
                 [Builds -> [st : {"idle", "make"}, v : Versions,
                             n : 0..MaxWork, at : 0..(Len(Order) + 1)]]
<1>1. 0 \in 0..MaxWork /\ 0 \in 0..(Len(Order) + 1)
  BY OrderFacts, ReleaseAssumption
<1>2. Building(v, n, i) \in [st : {"idle", "make"}, v : Versions,
                             n : 0..MaxWork, at : 0..(Len(Order) + 1)]
  BY DEF Building
<1>3. NoBuild \in [st : {"idle", "make"}, v : Versions,
                   n : 0..MaxWork, at : 0..(Len(Order) + 1)]
  BY <1>1, ReleaseAssumption DEF NoBuild
<1> QED BY <1>2, <1>3 DEF TypeOK

\* Builds keep the invariant.
LEMMA BuildsInv ==
    ASSUME IInv, NEW b \in Builds,
           \/ \E v \in Versions : Build(b, v)
           \/ Compile(b) \/ CompileFails(b) \/ BuildOk(b) \/ BuildFails(b)
    PROVE  IInv'
<1>0. /\ MaxWork \in Nat /\ MaxFaults \in Nat /\ Len(Order) \in Nat /\ TypeOK
      /\ made \in 0..MaxWork /\ faults \in 0..MaxFaults
  BY OrderFacts, ReleaseAssumption DEF IInv, TypeOK
<1>1. /\ build[b].v \in Versions /\ build[b].n \in 0..MaxWork
      /\ build[b].at \in 0..(Len(Order) + 1)
  BY <1>0 DEF TypeOK
<1>a. CASE \E v \in Versions : Build(b, v)
  <2>1. PICK v \in Versions : Build(b, v)
    BY <1>a
  <2>2. made + 1 \in 0..MaxWork /\ 1 \in 0..(Len(Order) + 1)
    BY <2>1, <1>0 DEF Build
  <2>3. TypeOK'
    BY <2>1, <2>2, <1>0, BuildType DEF Build, TypeOK
  <2> QED BY <2>1, <2>3, ConsoleInv DEF Build
<1>b. CASE Compile(b)
  <2> DEFINE job == build[b]
  <2>1. job.st = "make" /\ job.at \in 0..Len(Order) /\ job.at + 1 \in 0..(Len(Order) + 1)
    BY <1>b, <1>0, <1>1 DEF Compile
  <2>2. Image(job.n, job.v, NoKey, NoCert) \in Binary
    BY <1>1, ImageType
  <2>3. dir' \in Entries
    BY <1>b, <2>2, <1>0 DEF Compile, Put, TypeOK, Entries
  <2>4. TypeOK'
    BY <1>b, <2>1, <2>3, <1>0, <1>1, BuildType DEF Compile, TypeOK
  <2> QED BY <1>b, <2>4, ConsoleInv DEF Compile
<1>c. CASE CompileFails(b)
  <2> DEFINE job == build[b]
  <2>1. job.at + 1 \in 0..(Len(Order) + 1) /\ faults' \in 0..MaxFaults
    BY <1>c, <1>0, <1>1 DEF CompileFails
  <2>2. TypeOK'
    BY <1>c, <2>1, <1>0, <1>1, BuildType DEF CompileFails, TypeOK
  <2> QED BY <1>c, <2>2, ConsoleInv DEF CompileFails
<1>d. CASE BuildOk(b)
  <2>1. 0 \in 0..(Len(Order) + 1)
    BY <1>0
  <2>2. TypeOK'
    BY <1>d, <2>1, <1>0, <1>1, BuildType DEF BuildOk, TypeOK
  <2>3. AgentsOk'
    BY <1>d, AgentsKept DEF BuildOk
  <2>4. ManifestSealed' /\ ScriptSealed' /\ JobOk'
    BY <1>d DEF BuildOk, ManifestSealed, ScriptSealed, IInv, JobOk
  <2> QED BY <2>2, <2>3, <2>4 DEF IInv
<1>e. CASE BuildFails(b)
  <2>1. 0 \in 0..(Len(Order) + 1) /\ faults' \in 0..MaxFaults
    BY <1>e, <1>0 DEF BuildFails
  <2>2. TypeOK'
    BY <1>e, <2>1, <1>0, <1>1, BuildType DEF BuildFails, TypeOK
  <2> QED BY <1>e, <2>2, ConsoleInv DEF BuildFails
<1> QED BY <1>a, <1>b, <1>c, <1>d, <1>e

\* Changes of files, and of the rows of keys and certificates, keep it.
LEMMA FilesInv ==
    ASSUME IInv,
           \/ \E f \in Files, v \in Versions, k \in Keys : PlaceBinary(f, v, k)
           \/ \E f \in Files : DeleteFile(f)
           \/ DeleteManifest
           \/ \E k \in Keys \cup Certs : DeleteRow(k)
           \/ \E k \in Keys : GenerateKey(k)
           \/ \E c \in Certs : StoreCert(c)
    PROVE  IInv'
<1>0. MaxWork \in Nat /\ TypeOK /\ made \in 0..MaxWork
  BY ReleaseAssumption DEF IInv, TypeOK
<1>a. ASSUME NEW f \in Files, NEW v \in Versions, NEW k \in Keys, PlaceBinary(f, v, k)
      PROVE  IInv'
  <2>1. made + 1 \in 0..MaxWork
    BY <1>a, <1>0 DEF PlaceBinary
  <2>2. Image(made + 1, v, k, NoCert) \in Binary
    BY <2>1, ImageType
  <2>3. dir' \in Entries
    BY <1>a, <2>2, <1>0 DEF PlaceBinary, Put, TypeOK, Entries
  <2>4. TypeOK'
    BY <1>a, <2>1, <2>3, <1>0 DEF PlaceBinary, TypeOK
  <2> QED BY <1>a, <2>4, ConsoleInv DEF PlaceBinary
<1>b. ASSUME NEW f \in Files, DeleteFile(f) PROVE IInv'
  <2>1. dir' \in Entries
    BY <1>b, <1>0 DEF DeleteFile, Put, TypeOK, Entries
  <2>2. TypeOK'
    BY <1>b, <2>1, <1>0 DEF DeleteFile, TypeOK
  <2> QED BY <1>b, <2>2, ConsoleInv DEF DeleteFile
<1>c. CASE DeleteManifest
  <2>1. TypeOK'
    BY <1>c, <1>0 DEF DeleteManifest, TypeOK
  <2>2. AgentsOk'
    BY <1>c, AgentsKept DEF DeleteManifest
  <2>3. ManifestSealed' /\ ScriptSealed' /\ JobOk'
    BY <1>c DEF DeleteManifest, ManifestSealed, ScriptSealed, IInv, JobOk
  <2> QED BY <2>1, <2>2, <2>3 DEF IInv
<1>d. ASSUME NEW k \in Keys \cup Certs, DeleteRow(k) PROVE IInv'
  <2>1. TypeOK'
    BY <1>d, <1>0 DEF DeleteRow, TypeOK
  <2> QED BY <1>d, <2>1, ConsoleInv DEF DeleteRow, IInv
<1>e. ASSUME NEW k \in Keys, GenerateKey(k) PROVE IInv'
  <2>1. TypeOK'
    BY <1>e, <1>0 DEF GenerateKey, TypeOK
  <2> QED BY <1>e, <2>1, ConsoleInv DEF GenerateKey, IInv
<1>f. ASSUME NEW c \in Certs, StoreCert(c) PROVE IInv'
  <2>1. TypeOK'
    BY <1>f, <1>0 DEF StoreCert, TypeOK
  <2> QED BY <1>f, <2>1, ConsoleInv DEF StoreCert, IInv
<1> QED BY <1>a, <1>b, <1>c, <1>d, <1>e, <1>f

\* Signing a manifest in the console keeps it: every entry is recorded.
LEMMA SignDirInv ==
    ASSUME IInv, NEW k \in Keys, NEW v \in Versions, SignDir(k, v)
    PROVE  IInv'
<1>0. MaxWork \in Nat /\ TypeOK /\ made \in 0..MaxWork
  BY ReleaseAssumption DEF IInv, TypeOK
<1>1. made' \in 0..MaxWork
  BY <1>0 DEF SignDir
<1>2. manifest' = [key |-> k, v |-> v, files |-> dir]
  BY DEF SignDir
<1>3. manifest' \in Manifest
  BY <1>2, <1>0 DEF TypeOK, Manifest
<1>4. sealed' \subseteq Keys \X Files \X Binary /\ sealed \subseteq sealed'
  BY <1>0 DEF SignDir, TypeOK, Names, Entries
<1>5. TypeOK'
  BY <1>0, <1>1, <1>3, <1>4 DEF SignDir, TypeOK
<1>6. AgentsOk'
  BY <1>4, AgentsKept DEF SignDir
<1>7. ManifestSealed'
  BY <1>2 DEF SignDir, ManifestSealed, Names
<1>8. ScriptSealed' /\ JobOk'
  BY <1>4 DEF SignDir, ScriptSealed, IInv, JobOk
<1> QED BY <1>5, <1>6, <1>7, <1>8 DEF IInv

\* The script keeps it: what it writes is what it has signed.
LEMMA ScriptInv ==
    ASSUME IInv,
           \/ \E v \in Versions : ScriptStarts(v)
           \/ ScriptHashes \/ ScriptSigns \/ ScriptWrites \/ ScriptFails
    PROVE  IInv'
<1>0. /\ MaxWork \in Nat /\ MaxFaults \in Nat /\ TypeOK /\ made \in 0..MaxWork
      /\ faults \in 0..MaxFaults /\ script \in Scripts /\ dir \in Entries
      /\ FirstKey \in Keys /\ sealed \subseteq Keys \X Files \X Binary
  BY ReleaseAssumption DEF IInv, TypeOK, Scripts
<1>1. /\ script.v \in Versions /\ script.files \in Entries
      /\ Nothing \in Entries /\ Names \subseteq Files
  BY <1>0 DEF Scripts, Nothing, Entries, Names
<1>2. NoScript \in Scripts /\ NoScript.st = "idle"
  BY <1>1, ReleaseAssumption DEF NoScript, Script, Scripts
<1>a. ASSUME NEW v \in Versions, ScriptStarts(v) PROVE IInv'
  <2>1. script' \in Scripts /\ script'.st = "hash" /\ made' \in 0..MaxWork
    BY <1>a, <1>0, <1>1 DEF ScriptStarts, Script, Scripts
  <2>2. TypeOK'
    BY <1>a, <2>1, <1>0 DEF ScriptStarts, ScriptKept, TypeOK, Scripts
  <2>3. AgentsOk'
    BY <1>a, AgentsKept DEF ScriptStarts, ScriptKept
  <2>4. ManifestSealed' /\ ScriptSealed' /\ JobOk'
    BY <1>a, <2>1 DEF ScriptStarts, ScriptKept, IInv, ManifestSealed, ScriptSealed, JobOk
  <2> QED BY <2>2, <2>3, <2>4 DEF IInv
<1>b. CASE ScriptHashes
  <2>1. PICK f \in script.todo :
           script' = IF dir[f] = Absent THEN NoScript
                     ELSE Script("hash", script.v, script.todo \ {f},
                                 [script.files EXCEPT ![f] = dir[f]])
    BY <1>b DEF ScriptHashes
  <2>2. f \in Files /\ script.todo \subseteq Files
    BY <2>1, <1>0 DEF Scripts
  <2>3. [script.files EXCEPT ![f] = dir[f]] \in Entries
    BY <2>2, <1>0, <1>1 DEF Entries
  <2>4. /\ Script("hash", script.v, script.todo \ {f},
                  [script.files EXCEPT ![f] = dir[f]]) \in Scripts
        /\ Script("hash", script.v, script.todo \ {f},
                  [script.files EXCEPT ![f] = dir[f]]).st = "hash"
    BY <2>2, <2>3, <1>1 DEF Script, Scripts
  <2>5. script' \in Scripts /\ script'.st # "write"
    BY <2>1, <2>4, <1>2
  <2>6. TypeOK'
    BY <1>b, <2>5, <1>0 DEF ScriptHashes, ScriptKept, TypeOK, Scripts
  <2>7. AgentsOk'
    BY <1>b, AgentsKept DEF ScriptHashes, ScriptKept
  <2>8. ManifestSealed' /\ ScriptSealed' /\ JobOk'
    BY <1>b, <2>5 DEF ScriptHashes, ScriptKept, IInv, ManifestSealed, ScriptSealed, JobOk
  <2> QED BY <2>6, <2>7, <2>8 DEF IInv
<1>c. CASE ScriptSigns
  <2>1. script' \in Scripts /\ script'.files = script.files
    BY <1>c, <1>1 DEF ScriptSigns, Script, Scripts
  <2>2. sealed' \subseteq Keys \X Files \X Binary /\ sealed \subseteq sealed'
    BY <1>c, <1>0, <1>1 DEF ScriptSigns, Entries
  <2>3. \A f \in Files : script.files[f] # Absent =>
           <<FirstKey, f, script.files[f]>> \in sealed'
    BY <1>c DEF ScriptSigns
  <2>4. TypeOK'
    BY <1>c, <2>1, <2>2, <1>0 DEF ScriptSigns, ScriptKept, TypeOK, Scripts
  <2>5. AgentsOk'
    BY <1>c, <2>2, AgentsKept DEF ScriptSigns, ScriptKept
  <2>6. ManifestSealed' /\ JobOk'
    BY <1>c, <2>2 DEF ScriptSigns, ScriptKept, IInv, ManifestSealed, JobOk
  <2>7. ScriptSealed'
    BY <2>1, <2>3 DEF ScriptSealed
  <2> QED BY <2>4, <2>5, <2>6, <2>7 DEF IInv
<1>d. CASE ScriptWrites
  <2>1. script' \in Scripts /\ script'.st = "idle"
    BY <1>d, <1>2 DEF ScriptWrites
  <2>2. manifest' = [key |-> FirstKey, v |-> script.v, files |-> script.files]
    BY <1>d DEF ScriptWrites
  <2>3. manifest' \in Manifest
    BY <2>2, <1>0, <1>1 DEF Manifest
  <2>4. TypeOK'
    BY <1>d, <2>1, <2>3, <1>0 DEF ScriptWrites, ScriptKept, TypeOK, Scripts
  <2>5. AgentsOk'
    BY <1>d, AgentsKept DEF ScriptWrites, ScriptKept
  <2>6. ManifestSealed'
    BY <1>d, <2>2 DEF ScriptWrites, IInv, ManifestSealed, ScriptSealed
  <2>7. ScriptSealed' /\ JobOk'
    BY <1>d, <2>1 DEF ScriptWrites, ScriptKept, IInv, ScriptSealed, JobOk
  <2> QED BY <2>4, <2>5, <2>6, <2>7 DEF IInv
<1>e. CASE ScriptFails
  <2>1. script' \in Scripts /\ script'.st = "idle" /\ faults' \in 0..MaxFaults
    BY <1>e, <1>0, <1>2 DEF ScriptFails
  <2>2. manifest' = manifest \/ manifest' = NoManifest
    BY <1>e DEF ScriptFails
  <2>3. TypeOK'
    BY <1>e, <2>1, <2>2, <1>0 DEF ScriptFails, ScriptKept, TypeOK, Scripts
  <2>4. AgentsOk'
    BY <1>e, AgentsKept DEF ScriptFails, ScriptKept
  <2>5. ManifestSealed' /\ ScriptSealed' /\ JobOk'
    BY <1>e, <2>1, <2>2 DEF ScriptFails, ScriptKept, IInv, ManifestSealed, ScriptSealed,
       JobOk
  <2> QED BY <2>3, <2>4, <2>5 DEF IInv
<1> QED BY <1>a, <1>b, <1>c, <1>d, <1>e

\* Code signing keeps it.
LEMMA CodesignInv ==
    ASSUME IInv,
           \/ \E c \in Certs : Codesign(c)
           \/ CopyOut \/ CopyBack \/ CodesignEnds \/ CodesignFails
    PROVE  IInv'
<1> DEFINE Jobs == [st : {"idle", "next", "copied"}, cert : Certs \cup {NoCert},
                    at : 0..(Len(Order) + 1), src : MaybeBinary]
<1>0. /\ MaxWork \in Nat /\ MaxFaults \in Nat /\ Len(Order) \in Nat /\ TypeOK
      /\ made \in 0..MaxWork /\ faults \in 0..MaxFaults /\ codesign \in Jobs
      /\ Absent \in MaybeBinary
  BY OrderFacts, ReleaseAssumption DEF IInv, TypeOK, MaybeBinary
<1>1. ASSUME NEW st \in {"idle", "next", "copied"}, NEW c \in Certs \cup {NoCert},
             NEW i \in 0..(Len(Order) + 1), NEW x \in MaybeBinary
      PROVE  Signing(st, c, i, x) \in Jobs
  BY DEF Signing
<1>2. NoJob \in Jobs
  BY <1>0 DEF NoJob
<1>3. codesign.cert \in Certs \cup {NoCert} /\ codesign.at \in 0..(Len(Order) + 1)
      /\ codesign.src \in MaybeBinary
  BY <1>0
<1>a. ASSUME NEW c \in Certs, Codesign(c) PROVE IInv'
  <2>1. 1 \in 0..(Len(Order) + 1) /\ made' \in 0..MaxWork
    BY <1>a, <1>0 DEF Codesign
  <2>2. codesign' \in Jobs
    BY <1>a, <2>1, <1>0, <1>1 DEF Codesign
  <2>3. TypeOK'
    BY <1>a, <2>1, <2>2, <1>0 DEF Codesign, TypeOK
  <2>4. JobOk'
    BY <1>a DEF Codesign, Signing, JobOk
  <2> QED BY <1>a, <2>3, <2>4, ConsoleInv DEF Codesign, IInv
<1>b. CASE CopyOut
  <2> DEFINE f == Order[codesign.at]
  <2>1. codesign.at + 1 \in 0..(Len(Order) + 1)
    BY <1>b, <1>0, <1>3 DEF CopyOut
  <2>2. CASE Skip(f)
    <3>1. codesign' = Signing("next", codesign.cert, codesign.at + 1, Absent)
      BY <1>b, <2>2 DEF CopyOut
    <3>2. codesign' \in Jobs
      BY <3>1, <2>1, <1>0, <1>1, <1>3
    <3>3. TypeOK'
      BY <1>b, <3>2, <1>0 DEF CopyOut, TypeOK
    <3>4. JobOk'
      BY <3>1 DEF Signing, JobOk
    <3> QED BY <1>b, <3>3, <3>4, ConsoleInv DEF CopyOut, IInv
  <2>3. CASE ~Skip(f)
    <3>1. codesign' = Signing("copied", codesign.cert, codesign.at, dir[f])
      BY <1>b, <2>3 DEF CopyOut
    <3>2. f \in Files
      BY <2>3, ReleaseAssumption DEF Skip
    <3>3. dir[f] \in MaybeBinary
      BY <3>2, <1>0 DEF TypeOK, Entries, MaybeBinary
    <3>4. codesign' \in Jobs
      BY <3>1, <3>3, <1>1, <1>3
    <3>5. TypeOK'
      BY <1>b, <3>4, <1>0 DEF CopyOut, TypeOK
    <3>6. JobOk'
      <4>1. dir[f] \in Binary
        BY <2>3, <3>3 DEF Skip, MaybeBinary
      <4> QED BY <1>b, <3>1, <4>1 DEF CopyOut, Signing, JobOk
    <3> QED BY <1>b, <3>5, <3>6, ConsoleInv DEF CopyOut, IInv
  <2> QED BY <2>2, <2>3
<1>c. CASE CopyBack
  <2>1. codesign.src \in Binary /\ codesign.at + 1 \in 0..(Len(Order) + 1)
    BY <1>c, <1>0, <1>3 DEF CopyBack, IInv, JobOk
  <2>2. SignedCopy \in Binary
    BY <2>1, <1>3, ImageType DEF SignedCopy, Binary
  <2>3. dir' \in Entries
    BY <1>c, <2>2, <1>0 DEF CopyBack, Put, TypeOK, Entries
  <2>4. codesign' \in Jobs
    BY <1>c, <2>1, <1>0, <1>1, <1>3 DEF CopyBack
  <2>5. TypeOK'
    BY <1>c, <2>3, <2>4, <1>0 DEF CopyBack, TypeOK
  <2>6. JobOk'
    BY <1>c DEF CopyBack, Signing, JobOk
  <2> QED BY <1>c, <2>5, <2>6, ConsoleInv DEF CopyBack
<1>d. CASE CodesignEnds
  <2>1. TypeOK'
    BY <1>d, <1>0, <1>2 DEF CodesignEnds, TypeOK
  <2>2. JobOk'
    BY <1>d DEF CodesignEnds, NoJob, JobOk
  <2> QED BY <1>d, <2>1, <2>2, ConsoleInv DEF CodesignEnds, IInv
<1>e. CASE CodesignFails
  <2>1. faults' \in 0..MaxFaults
    BY <1>e, <1>0 DEF CodesignFails
  <2>2. TypeOK'
    BY <1>e, <2>1, <1>0, <1>2 DEF CodesignFails, TypeOK
  <2>3. JobOk'
    BY <1>e DEF CodesignFails, NoJob, JobOk
  <2> QED BY <1>e, <2>2, <2>3, ConsoleInv DEF CodesignFails, IInv
<1> QED BY <1>a, <1>b, <1>c, <1>d, <1>e

-----------------------------------------------------------------------------
\* The invariant holds at the start.
LEMMA InitInv == Init => IInv
<1> SUFFICES ASSUME Init PROVE IInv
  OBVIOUS
<1>1. TypeOK
  BY InitType
<1>2. ManifestSealed /\ ScriptSealed /\ JobOk
  BY DEF Init, ManifestSealed, ScriptSealed, JobOk, NoJob, NoScript, Script
<1>3. AgentsOk
  <2> SUFFICES ASSUME NEW a \in Agents PROVE Vouched(agent[a])
    BY DEF AgentsOk
  <2>1. agent[a].pc = "poll" /\ agent[a].disk \in Binary /\ agent[a].mark = "none"
    <3>1. 0 \in 0..MaxWork
      BY ReleaseAssumption
    <3>2. Image(0, FirstVersion, FirstKey, NoCert) \in Binary
      BY <3>1, ImageType, ReleaseAssumption
    <3> QED BY <3>2 DEF Init, Proc
  <2> QED BY <2>1, AbsentAssumption DEF Vouched
<1> QED BY <1>1, <1>2, <1>3 DEF IInv

\* Every step keeps it.
LEMMA StepInv == IInv /\ [Next]_vars => IInv'
<1> SUFFICES ASSUME IInv, [Next]_vars PROVE IInv'
  OBVIOUS
<1>1. CASE ConsoleNext
  BY <1>1, SignDirInv, ScriptInv, BuildsInv, FilesInv, CodesignInv DEF ConsoleNext
<1>2. ASSUME NEW a \in Agents, AgentNext(a) PROVE IInv'
  BY <1>2, AgentInv
<1>3. CASE UNCHANGED vars
  BY <1>3 DEF IInv, TypeOK, AgentsOk, Vouched, ManifestSealed, ScriptSealed, JobOk
<1> QED BY <1>1, <1>2, <1>3 DEF Next

\* The release directory, the manifest and the agents keep their types.
THEOREM TypeCorrect == Spec => []TypeOK
<1>1. IInv => TypeOK
  BY DEF IInv
<1> QED BY <1>1, InitInv, StepInv, PTL DEF Spec

\* An agent installs only what the key of the running program has signed for its
\* own platform (update/fetch.go and update.go).
THEOREM InstallsSigned == Spec => SignedOnly
<1> DEFINE Step == \A a \in Agents :
              LET p == agent[a]
                  b == agent'[a].disk
              IN  b \notin {p.disk, p.aside, Absent} =>
                     <<p.run.key, p.os, b>> \in sealed
<1>1. IInv /\ [Next]_vars => [Step]_vars
  <2> SUFFICES ASSUME IInv, Next, NEW a \in Agents,
                      agent'[a].disk \notin {agent[a].disk, agent[a].aside, Absent}
               PROVE  <<agent[a].run.key, agent[a].os, agent'[a].disk>> \in sealed
    OBVIOUS
  <2>1. ASSUME agent' = agent PROVE FALSE
    BY <2>1
  <2>2. ConsoleNext => agent' = agent
    BY DEF ConsoleNext, Build, Compile, CompileFails, BuildOk, BuildFails,
       PlaceBinary, DeleteFile, DeleteManifest, GenerateKey, DeleteRow, StoreCert,
       SignDir, ScriptStarts, ScriptHashes, ScriptSigns, ScriptWrites,
       ScriptFails, ScriptKept,
       Codesign, CopyOut, CopyBack, CodesignEnds, CodesignFails
  <2>3. PICK x \in Agents : AgentNext(x)
    BY <2>1, <2>2 DEF Next
  <2>4. CASE x = a
    BY <2>3, <2>4, AgentInv
  <2>5. CASE x # a
    <3>1. agent'[a] = agent[a]
      BY <2>3, <2>5 DEF AgentNext, Updating, FetchManifest, FetchArtifact, FetchFails,
         Rename, Chmod, ChmodFails, MoveAside, Install, RollBack, ExecSelf, ExecFails,
         Restart, Starts, Become, IInv, TypeOK
    <3> QED BY <3>1
  <2> QED BY <2>4, <2>5
<1>2. Spec => []IInv
  BY InitInv, StepInv, PTL DEF Spec
<1> QED BY <1>1, <1>2, PTL DEF Spec, SignedOnly

\* Wherever an update is interrupted or fails (update.go and fetch.go), an agent
\* that cannot be started again is repaired from what is on its machine: the
\* program moved aside on Windows, elsewhere the new program itself, which was
\* signed with the key of the one that installed it and lacks only its mode.
THEOREM AlwaysRecoverable == Spec => []Recoverable
<1>1. IInv => Recoverable
  BY DEF IInv, AgentsOk, Vouched, Recoverable, Startable
<1> QED BY <1>1, InitInv, StepInv, PTL DEF Spec
=============================================================================
