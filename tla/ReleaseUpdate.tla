---------------------------- MODULE ReleaseUpdate ----------------------------
(***************************************************************************)
(* Agent releases: the console builds, code-signs and deletes binaries in  *)
(* a release directory and signs a manifest of them                        *)
(* (apps/api/src/routes/releases.ts, release-signing.ts, codesign.ts), and  *)
(* agents update themselves from a static server of it                     *)
(* (agent/internal/update).                                                *)
(***************************************************************************)
EXTENDS Naturals, Sequences

CONSTANTS
    Agents,
    Order,      \* PLATFORMS of the Makefile: the binaries, in build order
    Exe,        \* the Windows ones
    Signable,   \* Exe, and the Mach-O ones where rcodesign is installed
    Versions,
    FirstVersion, \* of the agents that were deployed first
    Keys,       \* Ed25519 release keys
    FirstKey,   \* the key embedded in them
    Certs,      \* code-signing certificates
    Builds,     \* build requests that may be under way together
    NoKey, NoCert, Absent, NoManifest,
    MaxWork,    \* bound: builds, signings and code signings
    MaxFaults   \* bound: faults on the way and on agents

Files == {Order[i] : i \in 1..Len(Order)}

ASSUME ReleaseAssumption ==
    /\ Order \in Seq(STRING) /\ Len(Order) > 0
    /\ Exe \subseteq Signable /\ Signable \subseteq Files
    /\ FirstVersion \in Versions /\ FirstKey \in Keys /\ NoKey \notin Keys
    /\ NoCert \notin Certs
    /\ MaxWork \in Nat /\ MaxFaults \in Nat

\* A binary is told apart by what its hash tells apart: the build it comes
\* from, the version and the key linked into it, the certificate it carries.
Binary == [by : 0..MaxWork, v : Versions, key : Keys \cup {NoKey},
           cert : Certs \cup {NoCert}]
Image(n, v, k, c) == [by |-> n, v |-> v, key |-> k, cert |-> c]

ASSUME AbsentAssumption == Absent \notin Binary

Entries == [Files -> Binary \cup {Absent}]
Manifest == [key : Keys, v : Versions, files : Entries]

ASSUME ManifestAssumption == NoManifest \notin Manifest

VARIABLES
    dir,        \* binaries of the release directory
    manifest,   \* its release-manifest.json
    live,       \* key and certificate rows
    made,       \* builds, signings and code signings so far
    build,      \* build requests
    codesign,   \* the code-signing request
    script,     \* a run of sign_release.sh
    agent,      \* agent processes, and what is on their machines
    faults,
    sealed      \* history: what each key has signed

console == <<dir, manifest, live, made, build, codesign, script>>
vars == <<console, agent, faults, sealed>>

NoBuild == [st |-> "idle", v |-> FirstVersion, n |-> 0, at |-> 0]
Building(v, n, i) == [st |-> "make", v |-> v, n |-> n, at |-> i]
NoJob == [st |-> "idle", cert |-> NoCert, at |-> 0, src |-> Absent]
Signing(st, c, i, b) == [st |-> st, cert |-> c, at |-> i, src |-> b]
Script(st, v, todo, files) ==
    [st |-> st, v |-> v, todo |-> todo, files |-> files]
Nothing == [f \in Files |-> Absent]
NoScript == Script("idle", FirstVersion, {}, Nothing)

\* A process, the program it runs (run), the one at its path (disk), the one
\* moved aside on Windows, and what is odd about them (mark): the one at the
\* path is not executable yet (unset), or the running one is the one that was
\* moved aside (held).
Proc(pc, os, disk, aside, mark, run, m, new) ==
    [pc |-> pc, os |-> os, disk |-> disk, aside |-> aside, mark |-> mark,
     run |-> run, m |-> m, new |-> new]

Pcs == {"poll", "manifest", "staged", "renamed", "aside", "swapped", "down"}
Marks == {"none", "unset", "held"}
MaybeBinary == Binary \cup {Absent}

TypeOK ==
    /\ dir \in Entries
    /\ manifest \in Manifest \cup {NoManifest}
    /\ live \subseteq Keys \cup Certs
    /\ made \in 0..MaxWork
    /\ build \in [Builds -> [st : {"idle", "make"}, v : Versions,
                             n : 0..MaxWork, at : 0..(Len(Order) + 1)]]
    /\ codesign \in [st : {"idle", "next", "copied"}, cert : Certs \cup {NoCert},
                     at : 0..(Len(Order) + 1), src : MaybeBinary]
    /\ script \in [st : {"idle", "hash", "write"}, v : Versions,
                   todo : SUBSET Files, files : Entries]
    /\ agent \in [Agents -> [pc : Pcs, os : Files, disk : MaybeBinary,
                             aside : MaybeBinary, mark : Marks, run : Binary,
                             m : Manifest \cup {NoManifest}, new : MaybeBinary]]
    /\ faults \in 0..MaxFaults
    /\ sealed \subseteq Keys \X Files \X Binary

Init ==
    /\ dir = Nothing /\ manifest = NoManifest
    /\ live = {FirstKey}
    /\ made = 0
    /\ build = [b \in Builds |-> NoBuild]
    /\ codesign = NoJob /\ script = NoScript
    /\ \E os \in Files :
          LET old == Image(0, FirstVersion, FirstKey, NoCert)
          IN  agent = [a \in Agents |->
                         Proc("poll", os, old, Absent, "none", old, NoManifest, Absent)]
    /\ faults = 0
    /\ sealed = {}

-----------------------------------------------------------------------------
\* The console

Names == {f \in Files : dir[f] # Absent}
Put(f, b) == dir' = [dir EXCEPT ![f] = b]

\* POST /agent-releases/build runs make and waits for it.
Build(b, v) ==
    /\ build[b].st = "idle" /\ made < MaxWork
    /\ made' = made + 1
    /\ build' = [build EXCEPT ![b] = Building(v, made + 1, 1)]
    /\ UNCHANGED <<dir, manifest, live, codesign, script, agent, faults,
                   sealed>>

\* One turn of the Makefile's loop.  It links no update key in.
Compile(b) ==
    LET job == build[b] IN
    /\ job.st = "make" /\ job.at <= Len(Order)
    /\ Put(Order[job.at], Image(job.n, job.v, NoKey, NoCert))
    /\ build' = [build EXCEPT ![b] = Building(job.v, job.n, job.at + 1)]
    /\ UNCHANGED <<manifest, live, made, codesign, script, agent, faults,
                   sealed>>

\* The loop goes on after a platform that does not compile, and the old
\* binary stays; only the last one decides how make ends.
CompileFails(b) ==
    LET job == build[b] IN
    /\ job.st = "make" /\ job.at < Len(Order)
    /\ faults < MaxFaults /\ faults' = faults + 1
    /\ build' = [build EXCEPT ![b] = Building(job.v, job.n, job.at + 1)]
    /\ UNCHANGED <<dir, manifest, live, made, codesign, script, agent, sealed>>

\* The console drops the manifest of the binaries that make has replaced.
BuildOk(b) ==
    /\ build[b].st = "make" /\ build[b].at > Len(Order)
    /\ build' = [build EXCEPT ![b] = NoBuild]
    /\ manifest' = NoManifest
    /\ UNCHANGED <<dir, live, made, codesign, script, agent, faults, sealed>>

\* make fails, or takes longer than 300 s: the manifest stays.
BuildFails(b) ==
    /\ build[b].st = "make"
    /\ faults < MaxFaults /\ faults' = faults + 1
    /\ build' = [build EXCEPT ![b] = NoBuild]
    /\ UNCHANGED <<dir, manifest, live, made, codesign, script, agent, sealed>>

\* A binary that was built outside the console and put into the directory.
PlaceBinary(f, v, k) ==
    /\ made < MaxWork /\ made' = made + 1
    /\ Put(f, Image(made + 1, v, k, NoCert))
    /\ UNCHANGED <<manifest, live, build, codesign, script, agent, faults,
                   sealed>>

DeleteFile(f) ==
    /\ dir[f] # Absent
    /\ Put(f, Absent)
    /\ UNCHANGED <<manifest, live, made, build, codesign, script, agent,
                   faults, sealed>>

DeleteManifest ==
    /\ manifest # NoManifest
    /\ manifest' = NoManifest
    /\ UNCHANGED <<dir, live, made, build, codesign, script, agent, faults,
                   sealed>>

\* release_keys and code_signing_certs: rows are made and deleted, and their
\* ids are not used again.
GenerateKey(k) ==
    /\ k \notin live /\ \A e \in sealed : e[1] # k
    /\ live' = live \cup {k}
    /\ UNCHANGED <<dir, manifest, made, build, codesign, script, agent,
                   faults, sealed>>

DeleteRow(k) ==
    /\ k \in live
    /\ live' = live \ {k}
    /\ UNCHANGED <<dir, manifest, made, build, codesign, script, agent,
                   faults, sealed>>

StoreCert(c) ==
    /\ c \notin live
    /\ live' = live \cup {c}
    /\ UNCHANGED <<dir, manifest, made, build, codesign, script, agent,
                   faults, sealed>>

\* signReleaseDir hashes whatever is there, at whatever version it is told, and
\* writes the manifest, without an await in between.
SignDir(k, v) ==
    /\ k \in live /\ Names # {} /\ made < MaxWork
    /\ made' = made + 1
    /\ manifest' = [key |-> k, v |-> v, files |-> dir]
    /\ sealed' = sealed \cup {<<k, f, dir[f]>> : f \in Names}
    /\ UNCHANGED <<dir, live, build, codesign, script, agent, faults>>

-----------------------------------------------------------------------------
\* sign_release.sh is a process of its own, run by hand in the directory with
\* the first private key in a file: the shell lists the binaries, they are
\* hashed one after the other (in any order here), the hashes are signed and
\* only then the manifest is written.  One run at a time.

ScriptKept == UNCHANGED <<dir, live, build, codesign, agent>>

ScriptStarts(v) ==
    /\ script.st = "idle" /\ Names # {}
    /\ made < MaxWork /\ made' = made + 1
    /\ script' = Script("hash", v, Names, Nothing)
    /\ ScriptKept /\ UNCHANGED <<manifest, faults, sealed>>

ScriptHashes ==
    /\ script.st = "hash"
    /\ \E f \in script.todo :
          script' = IF dir[f] = Absent THEN NoScript
                    ELSE Script("hash", script.v, script.todo \ {f},
                                [script.files EXCEPT ![f] = dir[f]])
    /\ ScriptKept /\ UNCHANGED <<manifest, made, faults, sealed>>

ScriptSigns ==
    /\ script.st = "hash" /\ script.todo = {}
    /\ script' = Script("write", script.v, {}, script.files)
    /\ sealed' = sealed \cup {<<FirstKey, f, script.files[f]>> :
                                 f \in {g \in Files : script.files[g] # Absent}}
    /\ ScriptKept /\ UNCHANGED <<manifest, made, faults>>

ScriptWrites ==
    /\ script.st = "write"
    /\ manifest' = [key |-> FirstKey, v |-> script.v, files |-> script.files]
    /\ script' = NoScript
    /\ ScriptKept /\ UNCHANGED <<made, faults, sealed>>

\* It dies.  A manifest that was being written is cut off and verifies for no
\* agent: no manifest.
ScriptFails ==
    /\ script.st # "idle"
    /\ faults < MaxFaults /\ faults' = faults + 1
    /\ manifest' \in {manifest} \cup {m \in {NoManifest} : script.st = "write"}
    /\ script' = NoScript
    /\ ScriptKept /\ UNCHANGED <<made, sealed>>

-----------------------------------------------------------------------------
\* signReleaseBinaries: the certificate is read once, then one file after the
\* other is copied out, signed, verified and copied back.

Codesign(c) ==
    /\ codesign.st = "idle" /\ c \in live /\ Names # {}
    /\ made < MaxWork /\ made' = made + 1
    /\ codesign' = Signing("next", c, 1, Absent)
    /\ UNCHANGED <<dir, manifest, live, build, script, agent, faults, sealed>>

Skip(f) == dir[f] = Absent \/ f \notin Signable

CopyOut ==
    /\ codesign.st = "next" /\ codesign.at <= Len(Order)
    /\ LET f == Order[codesign.at] IN
       codesign' = IF Skip(f)
                   THEN Signing("next", codesign.cert, codesign.at + 1, Absent)
                   ELSE Signing("copied", codesign.cert, codesign.at, dir[f])
    /\ UNCHANGED <<dir, manifest, live, made, build, script, agent, faults,
                   sealed>>

SignedCopy == Image(codesign.src.by, codesign.src.v, codesign.src.key, codesign.cert)

CopyBack ==
    /\ codesign.st = "copied"
    /\ Put(Order[codesign.at], SignedCopy)
    /\ codesign' = Signing("next", codesign.cert, codesign.at + 1, Absent)
    /\ UNCHANGED <<manifest, live, made, build, script, agent, faults, sealed>>

CodesignEnds ==
    /\ codesign.st = "next" /\ codesign.at > Len(Order)
    /\ codesign' = NoJob
    /\ UNCHANGED <<dir, manifest, live, made, build, script, agent, faults,
                   sealed>>

CodesignFails ==
    /\ codesign.st # "idle"
    /\ faults < MaxFaults /\ faults' = faults + 1
    /\ codesign' = NoJob
    /\ UNCHANGED <<dir, manifest, live, made, build, script, agent, sealed>>

-----------------------------------------------------------------------------
\* The agent

Become(a, p) ==
    /\ agent' = [agent EXCEPT ![a] = p]
    /\ UNCHANGED <<console, sealed>>

Quiet(p, disk, aside, mark, run) ==
    Proc("poll", p.os, disk, aside, mark, run, NoManifest, Absent)
GivesUp(p) == Quiet(p, p.disk, p.aside, p.mark, p.run)
At(p, pc, m, new) == Proc(pc, p.os, p.disk, p.aside, p.mark, p.run, m, new)

\* VerifyManifest, and the test of the version.
Verifies(p, m) == m # NoManifest /\ m.key = p.run.key
Newer(p, m) == m.v # p.run.v

FetchManifest(a) ==
    LET p == agent[a] IN
    /\ p.pc = "poll" /\ p.run.key # NoKey
    /\ Verifies(p, manifest) /\ Newer(p, manifest)
    /\ Become(a, At(p, "manifest", manifest, Absent))
    /\ UNCHANGED faults

\* Mutant: the hash of the download is not compared.
Matches_AnyHash(m, f, b) == b # Absent

\* The hash of the download decides.
Matches(m, f, b) == b # Absent /\ b = m.files[f]

FetchArtifact(a) ==
    LET p == agent[a]
        b == dir[p.os]
    IN
    /\ p.pc = "manifest"
    /\ Become(a, IF Matches(p.m, p.os, b) THEN At(p, "staged", p.m, b)
                 ELSE GivesUp(p))
    /\ UNCHANGED faults

\* The download fails, or the first rename.
FetchFails(a) ==
    LET p == agent[a] IN
    /\ p.pc \in {"manifest", "staged"}
    /\ faults < MaxFaults /\ faults' = faults + 1
    /\ Become(a, GivesUp(p))

-----------------------------------------------------------------------------
\* Apply.  A download is made with mode 0600: it is renamed into place, and made
\* executable there.

Rename(a) ==
    LET p == agent[a] IN
    /\ p.pc = "staged" /\ p.os \notin Exe
    /\ Become(a, Proc("renamed", p.os, p.new, p.aside, "unset", p.run, p.m, Absent))
    /\ UNCHANGED faults

Chmod(a) ==
    LET p == agent[a] IN
    /\ p.pc = "renamed"
    /\ Become(a, Proc("swapped", p.os, p.disk, p.aside, "none", p.run, p.m, Absent))
    /\ UNCHANGED faults

\* The agent goes on in the old image, and its next poll tries again.
ChmodFails(a) ==
    LET p == agent[a] IN
    /\ p.pc = "renamed"
    /\ faults < MaxFaults /\ faults' = faults + 1
    /\ Become(a, GivesUp(p))

\* On Windows the mode means nothing, and there are two renames: what was moved
\* aside before is removed, unless it is still running.
Leftover(p) == IF p.mark = "held" THEN p.aside ELSE Absent
Movable(p) == p.disk # Absent /\ Leftover(p) = Absent

\* Mutant: the program is removed, not moved aside.
MoveAside_Removes(a) ==
    LET p == agent[a] IN
    /\ p.pc = "staged" /\ p.os \in Exe
    /\ Become(a, IF Movable(p)
                 THEN Proc("aside", p.os, Absent, Absent, "held", p.run, p.m, p.new)
                 ELSE Quiet(p, p.disk, Leftover(p), p.mark, p.run))
    /\ UNCHANGED faults

MoveAside(a) ==
    LET p == agent[a] IN
    /\ p.pc = "staged" /\ p.os \in Exe
    /\ Become(a, IF Movable(p)
                 THEN Proc("aside", p.os, Absent, p.disk, "held", p.run, p.m, p.new)
                 ELSE Quiet(p, p.disk, Leftover(p), p.mark, p.run))
    /\ UNCHANGED faults

Install(a) ==
    LET p == agent[a] IN
    /\ p.pc = "aside"
    /\ Become(a, Proc("swapped", p.os, p.new, p.aside, p.mark, p.run, p.m, Absent))
    /\ UNCHANGED faults

\* The second rename fails and the first is undone, or that fails as well: its
\* error is discarded.
RollBack(a) ==
    LET p == agent[a] IN
    /\ p.pc = "aside"
    /\ faults < MaxFaults /\ faults' = faults + 1
    /\ \/ Become(a, Quiet(p, p.aside, Absent, "none", p.run))
       \/ Become(a, GivesUp(p))

-----------------------------------------------------------------------------
\* Restarts.  A process that starts runs what is on disk and removes what was
\* moved aside; whether it can be removed yet is not looked at.

Starts(a) ==
    LET p == agent[a] IN
    \E left \in {Absent, p.aside} : Become(a, Quiet(p, p.disk, left, "none", p.disk))

\* Mutant: the error of exec is discarded, and the old image runs on.
ExecSelf_OldImage(a) ==
    /\ agent[a].pc = "swapped"
    /\ Become(a, Quiet(agent[a], agent[a].disk, Absent, "none", agent[a].run))
    /\ UNCHANGED faults

ExecSelf(a) ==
    /\ agent[a].pc = "swapped"
    /\ Starts(a)
    /\ UNCHANGED faults

\* The mode cannot be set on Windows, or the replacement not be started: the old
\* image goes on.
ExecFails(a) ==
    LET p == agent[a] IN
    /\ p.pc = "swapped"
    /\ faults < MaxFaults /\ faults' = faults + 1
    /\ Become(a, GivesUp(p))

Startable(p) == p.disk # Absent /\ p.mark # "unset"

\* Mutant: a process starts whether there is a program or not.
Restart_Anyway(a) ==
    /\ agent[a].pc # "down"
    /\ faults < MaxFaults /\ faults' = faults + 1
    /\ Starts(a)

\* A crash or a restart of the machine, at any point of an update.
Restart(a) ==
    LET p == agent[a] IN
    /\ p.pc # "down"
    /\ faults < MaxFaults /\ faults' = faults + 1
    /\ \/ Startable(p) /\ Starts(a)
       \/ ~Startable(p) /\ Become(a, At(p, "down", NoManifest, Absent))

-----------------------------------------------------------------------------
ConsoleNext ==
    \/ \E b \in Builds, v \in Versions : Build(b, v)
    \/ \E b \in Builds : Compile(b) \/ CompileFails(b) \/ BuildOk(b) \/ BuildFails(b)
    \/ \E f \in Files, v \in Versions, k \in Keys : PlaceBinary(f, v, k)
    \/ \E f \in Files : DeleteFile(f)
    \/ DeleteManifest
    \/ \E k \in Keys : GenerateKey(k) \/ DeleteRow(k)
    \/ \E k \in Keys, v \in Versions : SignDir(k, v)
    \/ \E v \in Versions : ScriptStarts(v)
    \/ ScriptHashes \/ ScriptSigns \/ ScriptWrites \/ ScriptFails
    \/ \E c \in Certs : StoreCert(c) \/ DeleteRow(c) \/ Codesign(c)
    \/ CopyOut \/ CopyBack \/ CodesignEnds \/ CodesignFails

Updating(a) ==
    \/ FetchManifest(a) \/ FetchArtifact(a) \/ Rename(a) \/ Chmod(a)
    \/ MoveAside(a) \/ Install(a) \/ ExecSelf(a)

AgentNext(a) ==
    \/ Updating(a)
    \/ FetchFails(a) \/ ChmodFails(a) \/ RollBack(a) \/ ExecFails(a) \/ Restart(a)

Next == ConsoleNext \/ \E a \in Agents : AgentNext(a)

Fairness == \A a \in Agents : WF_vars(Updating(a))
Spec == Init /\ [][Next]_vars /\ Fairness

-----------------------------------------------------------------------------
\* Properties

\* What appears in place of an agent's binary was hashed, for the agent's own
\* platform, in a manifest signed with the key of the program that installs it,
\* or it is the binary that was there before.
SignedOnly ==
    [][\A a \in Agents :
          LET p == agent[a]
              b == agent'[a].disk
          IN  b \notin {p.disk, p.aside, Absent} =>
                 <<p.run.key, p.os, b>> \in sealed]_vars

\* Whatever is interrupted, and whatever fails: where an agent's path holds
\* nothing that can be started, what repairs it by hand is there.  On Windows
\* that is the program moved aside; elsewhere it is the new program itself, signed
\* with the key of the one that installed it, which lacks only its mode.
Recoverable ==
    \A a \in Agents :
       LET p == agent[a] IN
       ~Startable(p) => IF p.os \in Exe THEN p.aside # Absent
                        ELSE <<p.run.key, p.os, p.disk>> \in sealed

\* Apply replaces the target "atomically" (update.go:101; of Windows the comment
\* below that line says otherwise): a process that stops at any point of an
\* update can be started again, from the old program or from the new one.
ReplacesAtomically ==
    \A a \in Agents : agent[a].pc = "down" => agent[a].os \in Exe

\* A manifest and a binary that stay published, signed with the key of a running
\* agent and agreeing on the version, end up running on it, unless it runs an
\* image that Windows moved aside and could not leave.  Faults are bounded, so
\* the last attempt meets none.
Published(a) ==
    LET p == agent[a] IN
    /\ manifest # NoManifest
    /\ dir[p.os] # Absent
    /\ manifest.files[p.os] = dir[p.os]
    /\ manifest.v = dir[p.os].v
    /\ manifest.key = p.run.key \/ p.run.v = manifest.v
    /\ p.pc # "down" /\ ~(p.pc = "poll" /\ p.mark = "held")

UpdatesConverge ==
    \A a \in Agents :
       (<>[]Published(a)) => []<>(Published(a) /\ agent[a].run.v = manifest.v)
=============================================================================
