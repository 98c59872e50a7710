# A TLA+ verification of f0_deception

f0_deception is a deception platform. A console API hands out canary tokens
and honeypot sensors, a gateway turns whatever touches a token into an event,
the API turns events into incidents and alerts, and endpoint agents run the
sensors and plant tokens on machines. This directory holds TLA+ modules
translated from the source, the TLC runs that check them on small instances,
and theorems about them that TLAPS has checked for every value of their
constants.

Paths below are relative to the repository (`src/` in `PROJECT.json`).

## 1. Inventory

### Components, their state and how they interact

| Component | State | Operations | Talks to |
|---|---|---|---|
| Fleet protocol, API side (`apps/api/src/routes/agents.ts`) | tables `agents` (id, hostname, key hash), `agent_sensors`, `agent_deployments` | enroll, heartbeat, retire, put sensors, deploy, rename, lists | agent processes (HTTP), console |
| Agent process (`agent/main.go`, `internal/api/client.go`) | credentials loaded at start, `currentSpecs`, `pendingResults`, poll interval | the loop of `runAgent`, enrollment command, self re-execution | API, sensor runtime, executor, updater |
| Agent state file (`internal/config/config.go`) | server, agent id, key | load, save (atomic rename) | enrollment command, agent process |
| Deployment executor (`internal/deploy/deploy.go`) | files it writes | `Execute`, `executeOne` | agent process |
| Sensor runtime (`internal/sensors/sensors.go`, `tcpserver.go`) | current generation: cancel function and wait group | `StartAll`, `StopAll` | agent process, each sensor |
| Sensors (`ssh.go`, `httplogin.go`, `smb*.go`, `rdp*.go`, `planted.go`, `filewatch.go`) | listener or ticker, file baseline | `Start`, report | runtime, `ReportIncident` |
| Self-update (`internal/update`) | binary on disk, manifest | fetch, verify, swap, re-exec | release download of the API |
| Alert dispatcher (`apps/api/src/alerts/dispatcher.ts`) | throttle map in memory; `enabled`, `consecutive_failures` of `alert_channels` | `shouldAlert`, `dispatch`, settling of a delivery, `testChannel` | ingest, channel administration, senders |
| Channel administration (`routes/alerts.ts`) | `alert_channels` | create, edit, enable, delete, test | dispatcher |
| Alert senders (`alerts/webhook.ts`, `email.ts`, `syslog.ts`, `siem.ts`) | none | send | outside services |
| Tokens and incidents (`routes/tokens.ts`) | `tokens`, `incidents`, artifact files | create, edit, revoke, delete, clone, ingest, incident triage | gateway, dispatcher, sensors (PUT provisions tokens), deployments |
| Trigger rules (`packages/tokens-core`) | none (pure) | `matchTrigger`, generation | gateway, ingest |
| Gateway pipeline (`apps/gateway/src/server.ts`, `http.ts`, `dns.ts`) | none | parse, filter, forward once | API ingest |
| Gateway SMTP (`smtp.ts`) | one session per connection: envelope, data, counters | the verbs, data lines, timeout | gateway pipeline |
| Gateway artifacts (`artifacts.ts`) | two TTL caches | respond to a token's URL | API |
| Releases (`routes/releases.ts`, `release-signing.ts`) | release directory, manifest, signing key | build, sign, delete, download, presets | console, agents |
| Code signing (`codesign.ts`, `routes/codesign.ts`) | certificates, signed binaries | import, sign, verify | releases |
| Console authentication (`auth.ts`, `routes/auth.ts`) | `api_keys`, two credentials of the environment | the auth hook, the login probe, keys | every console route |
| Enrollment tokens (`enrollment.ts`, `routes/enrollment.ts`) | `enrollment_tokens` | create, delete, download, consume | enroll |
| Statistics, status, geolocation | none of their own | queries | console |
| Installers and services (`install_*.go`, `deploy/`) | the host's service manager | install, uninstall | agent process |
| Web console (`apps/web/src`) | per card: list, selection, confirmation, drawer, draft; the key in localStorage; the login gate | polls, requests and their answers, every button | API |
| MCP server | none | calls of the API | API |

### What is hard about it

* The agent and the API agree on deployments over a channel that loses,
  delays and (after a give-up) overlaps calls. The agent's knowledge of what it
  executed lives in memory until a later heartbeat; the API's handler applies
  results row by row without a transaction and picks the next batch after it.
* A host can be enrolled again at any time, with a process of the old key still
  running and a second process on the same machine; retirement must silence an
  agent for good, and nothing else may.
* Alert deliveries are concurrent with each other and with the operator, and
  write channel rows from a snapshot taken before their `await`.
* Sensor generations, release manifests, gateway caches and token references are
  caches of something that changes elsewhere.
* A release is published by independent requests that write one directory file
  by file, in any order and without a lock, and an agent replaces its own binary
  from it.
* What is planted for a token, what the gateway recognises and what the API
  accepts are three pieces of code that must agree, with single, unordered
  reports between them.
* Every page of the console holds a copy of rows that polls, other requests and
  other people change under the operator's hand; answers arrive in any order.

The list of hazards with their lines is `PROJECT.json`, `hazards`. Those that
no property covers carry a note.

### What makes each component correct

* Fleet: a deployment is attempted only on the host it was queued for; its
  status is decided once and is what an attempt there came to; a lone process
  does not execute one twice as long as nothing restarts; a superseded process
  gets no new work; only retirement makes an agent dormant; a report always fits
  the schema; queued work completes, retired agents stop their sensors and
  enrolled ones converge to the console's sensor set.
* Alerts: the throttle lets one alert per window through and never silences a
  pair for longer; the breaker counts failures in a row and only disables.
* Sensor runtime: at most one generation holds ports unless a shutdown timed
  out; a stopped runtime ends up holding none. Planted credentials: after every
  report the trap is armed again.
* Tokens: clones, uploads and deletions leave no artifact and no incident
  behind; a clone shown as ok can be served; what a sensor or a deployment refers
  to exists and is active.
* Releases: an agent installs only what the key of its running program signed
  for its platform; an agent whose program cannot be started can be repaired; a
  release that stays published ends up running.
* SMTP: the recipients of an event are those of its own message, within the limit.
* Detection: what is planted for an active token fires it, once per event, with
  the severity of its type; a probe is reported once as a connection and once
  with its credentials, scored against its own challenge, and comes to an end.
* Gateway caches: what is served is not older than the time to live and one fetch.
* Console: nothing is deleted but what was asked to be confirmed; a draft is
  saved to the row it was typed for; a page that polls ends up true; with keys as
  the only way in, somebody has one.

## 2. Modules

| Module | What it is | Status |
|---|---|---|
| `Deployment` | abstract specification of one token deployment as the console shows it | done |
| `Fleet` | API handlers, agent processes, state files and network of the fleet protocol | done |
| `MCFleet` | its TLC instances | done |
| `Fleet_proofs` | type correctness, inductive invariant, two safety invariants; the size of a report, and that nothing is done twice | done |
| `FleetImplements` | `Fleet` implements `Deployment`, proved | done |
| `Alerts` | throttle, dispatch, breaker and channel administration | done |
| `MCAlerts`, `Alerts_proofs` | its instances and its proofs | done |
| `PlantedBait` | one planted credential sensor per generation and the file they share | done |
| `SensorRuntime` | composes it with the heartbeat loop, generations, ports and the shutdown grace | done |
| `MCSensors`, `SensorRuntime_proofs` | its instances and its proofs | done |
| `TokenLifecycle` | token rows, their file and incidents, and the clones of web pages | done |
| `GatewayCache` | composes it with the caches of the gateway | done |
| `MCGateway`, `GatewayCache_proofs` | the instance of both, and the proofs of both | done |
| `ReleaseUpdate` | build, sign, code-sign and delete against updating agents | done |
| `MCReleases`, `ReleaseUpdate_proofs` | its instances and its proofs | done |
| `TriggerRules` | the token types as pure definitions: what is planted, what matches, what is served, what the gateway forwards | done |
| `SmtpSession`, `SensorSessions` | one SMTP connection of the gateway; one connection to a sensor of an agent, and the file watch | done |
| `Detection`, `MCDetection` | composes the three with tokens and ingest; implements `TokenLifecycle` | done |
| `Detection_proofs` | its proofs, the refinement among them | done |
| `ConsoleApi` | the API as the console sees it: rows, keys, enrollment tokens, requests that are served late | done |
| `Console`, `MCConsole` | the web console in one browser over it | done |
| `Console_proofs` | its proofs | done |

`TriggerRules`, `SmtpSession` and `SensorSessions` are `EXTENDS`ed or instantiated
by `Detection` and have no behaviour of their own; `Console` extends `ConsoleApi`,
`GatewayCache` extends `TokenLifecycle`, `SensorRuntime` extends `PlantedBait`.

Planned: that what `Console` does to the API is one of `ConsoleApi`'s requests
and nothing else, as an implication of specifications like the one proved for
`GatewayCache` and `TokenLifecycle`.

### `Fleet` and the code

One action per handler or step of the loop:

* `Enroll` is `POST /agent/enroll`: the hostname decides between the existing
  row (id kept, key replaced) and a new one. The random key is the number of the
  enrollment, so keys are ordered by age. The reply is `offer`; `SaveState` is
  `config.Save`; `LoseOffer` is a lost reply or a command that dies first.
* `Retire`, `PutSensors`, `Deploy` are the console's calls. A sensor set is an
  opaque value, because the protocol only replaces and compares it.
* `Heartbeat(r)` is the whole handler: schema, row lookup (410), key check (401),
  the loop over the results, the batch, the reply. It has no `await`, so it is
  one step. `HeartbeatDies` is a request that is lost or a process that dies in
  the loop, with some prefix of the results applied.
* `Start`, `Send`, `ReceiveOk`, `ReceiveGone`, `ReceiveRejected`, `GiveUp`,
  `CallFails`, `ExecuteOne`, `SelfUpdate` and `Stop` are the agent's loop. `pc`
  says where it is: `top` and `tail` bracket the heartbeat, `exec` is inside
  `deploy.Execute`, `dormant` is the wait after `ErrRevoked`. A process that
  starts or re-executes itself knows only the state file.
* `resp[p]` is the reply on its way to a process. A request whose caller gave up
  is `closed`: it may still reach the API, but no one reads the answer.

`owner`, `ran` and the field `key` of a deployment are history: the host an
agent id was issued to, the executions and their outcomes, and the key the agent
had when a deployment was queued.

`Deployment` is the abstract specification: a deployment has a target host;
attempts happen only there; its status leaves `pending` once, to what some attempt
came to. The mapping is `Job` in `Fleet`.

### `Alerts` and the code

`Dispatch(k)` is `dispatch()` up to its first `await`: the throttle decides, then
a delivery starts on each channel that is enabled, with a snapshot of the row.
`SendOk` and `SendFails` settle one delivery and write the row from that snapshot,
as the code does. `RestartApi` loses the throttle and the deliveries.
`Create`, `Delete`, `SetEnabled`, `EditConfig` are the handlers of
`routes/alerts.ts`. `log`, `streak` and `racy` are history: the alerts of this
process, the failures in a row of a channel, and the channels where a delivery
overlapped another delivery or an edit.

### `SensorRuntime`, `PlantedBait` and the code

`StartAll(S)` and `StopAll` are the calls of the heartbeat loop
(`agent/main.go`, lines 154-158 and 171-181); no one else calls them, so the lock
`runMu` is the variable `loop`. `stopCurrentLocked` cancels in the call and ends
in `Stopped` (the wait group) or `GraceExpires` (the timer), after which
`Proceed` launches the next generation or leaves the agent dormant. A listener
is `starting`, `open` or `done`; `Listen` fails when the port is held, by another
listener of its set, an older generation or a foreign program.

`GraceExpires` is enabled only while the bait sensor is inside a report. That is
the code's arithmetic: a report is a call with a timeout of 15 s
(`internal/api/client.go`), the grace period is 10 s, and closing a listener
takes no such time. For the same reason a cancelled listener that has not bound
yet does not bind: a generation is cancelled a poll interval after its launch at
the earliest. The handlers of accepted connections are not in the wait group and
hold no port; they are left out.

`PlantedBait` is `PlantedCredentialSensor.Start`, one action per look at or
change of the file, because others may touch it in between: `Begin` (plant and
arm), `Baseline`, `Poll`, `Arm` and `Chtimes` (`armAtime`), `Rebase`,
`Reported`, `Exit`. A generation may be refused its writes (`Refused`): `Start`
then returns the error (`BeginFails`), or goes on with a warning and the access
time its own probe left (`BeginUnarmed`), and `armAtime` warns that reads will not
be detected (`ChtimesFails`). Times are numbers, and the kernel's relatime rule is
`Armed`; the daily refresh that relatime adds is left out. `news`, `cause` and
`blind` are history: who did what to the file since an instance last looked, and
which instances could not arm it or were disturbed while they did. `Rearmed` is
about the others: of a refusal the code itself says that the sensor is blind.

### `TokenLifecycle`, `GatewayCache` and the code

A handler of `routes/tokens.ts` runs to its end without an `await`, so it is one
step, except for the clone of a web page: `CreateSite` and `Reclone` start one,
`ReadTarget` is the answer of the cloned site, `CloneOk` and `CloneFails` are the
continuation after the `await`s. A clone therefore ends in whatever the rest of
the API has made of its token meanwhile. `CloneOk` has two outcomes because
`token_files.token_id` references `tokens(id)` with foreign keys on: where the
token is gone the insert throws, and the stamp of the `catch` updates no row.
`ApiDies` may fall between the delete and the insert of a file, or between the
insert and the stamp; `torn` remembers the first.

Files are versions, because nothing depends on their content: versions of the
cloned site, which its owner changes, and of uploaded images. The operator's
types are those with a different life: `cloned_website`, `custom_image`,
`document` (any type whose file is generated with its row) and `redirect` (any
type without a file); `honeypot` rows come from `PutSensors`. Whether an event
matches its token's triggers does not depend on this state: `Ingest` may happen
or not.

`GatewayCache` adds the two caches of `artifacts.ts`, `pageCache` (for pages and
for images) and `configCache`. A request that finds no valid entry begins a
fetch (`Ask`); the API answers when it gets to it (`Answer`), and the answer
arrives later (`Arrive`), so two fetches of one entry may overlap and arrive in
either order. `Reply` is what the three internal routes answer. `changed` is
history: when the answer for a token last changed. `Tick` does not let a fetch
outlive its timeout: the abort and the continuation are taken to run within the
instant, which is the model's unit of time.

### `ReleaseUpdate` and the code

The console side is one action per write. `Build` starts a request
(`routes/releases.ts`), `Compile` and `CompileFails` are the turns of the
Makefile's loop (line 24), which has no `set -e`: a platform that fails to
compile is left as it was and the loop goes on, so only the last one decides.
`BuildOk` removes the manifest, `BuildFails` does not. `DeleteFile`,
`DeleteManifest`, `GenerateKey`, `StoreCert`, `DeleteRow` are the other handlers,
and `Codesign`, `CopyOut`, `CopyBack`, `CodesignEnds` and `CodesignFails` the
request that signs one file after the other through a temporary copy
(`codesign.ts`). A binary is what its hash tells apart: the build it comes from,
the version and the key linked in, the certificate.

There are two signers. The console's (`SignDir`) reads the directory, signs and
writes in one step, although it hashes one file after the other: the handler has
no `await`. `sign_release.sh` is a process of its own that holds the embedded key:
`ScriptStarts` lists the binaries, `ScriptHashes` hashes them one by one (in any
order here), `ScriptSigns` signs the hashes, `ScriptWrites` writes the manifest;
`ScriptFails` is its death, in the last step with a manifest cut off, which
verifies for nobody. Everything else may fall in between. One run at a time: two
share `/tmp/f0-release.sig`, and a manifest with the other's signature verifies for
nobody either. Agents fetch from a static server of the directory, which stands
for the upload that `docs/INSTALL.md` describes.

An agent is a record: `pc`, its platform, the binary on disk, the one Windows
moved aside, the image it runs, the manifest and the download it holds, and a
mark: the program at its path has not been made executable (`unset`), or the
running image is the one that was moved aside (`held`). `FetchManifest`,
`FetchArtifact`, `Rename` and `Chmod` (Linux), `MoveAside`, `Install` and
`RollBack` (Windows), `ExecSelf`, `ExecFails` and `Restart` are the steps of
`internal/update`. The download has mode 0600 (`os.CreateTemp`), so between `Rename`
and `Chmod` nothing at the path can be executed; `ChmodFails` leaves that so, with
the old image going on and its next poll trying again. On Windows the mode means
nothing. `RollBack` has the outcome where the rename back fails too, whose error
`update.go` line 114 discards, and a process that starts may or may not be able to
remove what was moved aside (`Starts`), whose error `CleanupOld` discards.
`sealed` (what each key signed) is history.

A stale manifest is possible: of a build that failed in part, of a script that
hashed before a build and wrote after it, after code signing, and of binaries
placed by hand. The comment in `releases.ts` (lines 75-76), "drop it so it
can't be served stale", holds of the manifest that is there when a build succeeds
and of no other; no property says more. What agents rely on is that they compare
the hash of what they downloaded and do not install it if it differs
(`SignedOnly`).

What the model made plain, and no property is about: a build by the console
embeds no update key, so its agents never update again; a Windows agent that
swapped its binary but could not execute the new one keeps the moved-aside
image, and every later update fails until it is restarted (a premise of
`UpdatesConverge`); a manifest signed for another version than its binaries say
makes agents install them again at every poll.

### `TriggerRules`, `SmtpSession`, `SensorSessions`, `Detection` and the code

`TriggerRules` has `getTokenType`, `matchTrigger` and the candidates of the
gateway as operators over abstract events: a host is the sequence of its labels
below a base domain, a path a segment, an action and what follows it. `PlantedUse`
says which events the artifacts of a type cause, from `generate` in
`tokens-core`; `Served` which requests `artifacts.ts` answers; `Forwards` what
`onEvent` hands on. `Detected` compares the three. Two differences it leaves out
because no artifact points there: `/id/cmd?x` is served but not matched, and
artifacts are served on any sub-domain although links always use the base domain.

`SmtpSession` is one connection of `smtp.ts`, one operator per command, with the
data lines and the limits. The counter of recipients is never reset, so the limit
is per connection; `EnvelopeTrue` needs only that it bounds the message.

`SensorSessions` gives the next states of a connection to SSH, HTTP login, SMB
and RDP, round by round, and which of them report. Some of the rounds are what
the code does rather than what the protocol means: an SMB2 header whose size is
64 is classified as SMB1 because `smb.go` line 59 compares with 0x24; the offers of
an RDP client are what `rdp.go` line 83 takes them for, which looks at the high
byte of the request's length where the protocols should be; an AUTHENTICATE
without a NEGOTIATE before it is scored against a challenge of zeros.

An RDP client that sends a header and nothing after it leaves nothing to look at:
the read loop breaks ("still report what we have", `rdp.go` line 65) and line 69
reads the first byte of an empty message. The handler's goroutine has no recover,
so the agent ends and its service manager starts it again: `AgentPanics` ends the
connection, with nobody waiting for its reports, and the file watch takes a new
baseline.

`Detection` has one action per request, query, command, round, poll and answer.
A report is in `flight` until it `Arrives` or is `Lost`: it is sent once, from the
gateway without anyone waiting for it, from a sensor with the session waiting.
`incidents` is the table: a row has the id it was given (`filed` counts them), so
that two rows of one event would be two rows, as they would be in the code.
`uses` is history: what was done with a planted artifact of an active token and
has not come to an end. `FollowsLifecycle` is the refinement: with files and
clones fixed, the tokens and incidents of `Detection` behave as `TokenLifecycle`.

### `ConsoleApi`, `Console` and the code

The rows of a page are a function from ids to a state and a memo (an edit of any
text). A request is a slot of `calls`: sent with the key of that moment, served
in any order (`Serve`; what a page sends row by row, row by row), answered later
(`Answer`), and it may fail on the way or on the way back (`Fails`), with what was
carried out of it staying carried out. A component that unmounts leaves its
requests in place and ignores their answers (`live`). `Console(k)` is the auth
hook's decision, open mode included, which is evaluated for each request.

The pages are written with the same hooks and the same components in different
combinations, so a card is a set of features (`AgentsPage`, `TokensPage`, ...) and
the actions ask for the feature they belong to (`Has`); where two pages do the
same thing differently the action has a disjunct for each. `usePoll` is the hook
of `use-poll.ts`; `Toggle`, `ToggleAll`, `Clear`, `SelectionBar`, `deleteMany`,
`BulkSaves` are the bar over a list; `Arm`, `Lapse`, `ConfirmButton` the button
that asks twice; `Open`, `Close`, `Type`, `Save`, `SetStatus`, `DrawerUses`,
`AskDelete`, `CancelDelete`, `ConfirmDelete` drawers and editors; `EditSensors` and
`SaveSensors` the editor of an agent's sensors, which, like that of an incident's
notes, is a component with a busy flag of its own: the flag is the slot of its
request, so that an editor that is mounted again is not busy; `create` and
`CopyKey` forms and the box that shows a key once; `LoginView`, `logout` and
`Unauthorized` the gate. Each kind of answer has an action for its success and one
for its failure: a list that fails empties three of the cards and leaves the
others as they are (`ListFails`), a bulk action of tokens or incidents that fails
keeps the selection and the confirmation and reloads nothing (`BulkFails`), while
`deleteMany` settles whatever becomes of its requests (`BulkDone`). The second
components of `confirming` and of a draft, `refused` (the key whose refusal raised
the gate) and `known` are history.

Limits: one card is followed at a time, because cards share nothing but the key;
what the others do to rows is among what other people do. `Slot` takes the first
free slot, which loses nothing since slots are interchangeable. One draft is
followed at a time in a drawer that has two editors.

`Settles` allows one gate that a reader may not expect, because the code raises it:
the 401 of a request sent with an older key, when it arrives after another key was
taken, clears the page although the key stored by then is valid (`App.tsx` line 19
does not ask which key was refused), and nothing but a login brings it back.
`GateTrue` says exactly this: at the end the key is not valid, or the API is open,
or the key that was refused is not the one that is stored.

What the model made plain, and no property is about: a poll resets the agents'
drawer and discards what is being typed there (`DraftTrue` says that it does not
go elsewhere); cards that do not poll may stay stale when two of their reloads
are answered out of order; notes, sensor sets and channels are overwritten
without a look at concurrent edits; the dashboard's four reads are not of one
instant; `F0_INTERNAL_SECRET` alone, with no key and no admin token, closes the
console to everybody; an enrollment token is reusable until it expires or is
deleted (`consumeEnrollmentToken`), although `agent/main.go` line 30 calls it
one-time.

## 3. Runs

| Run | Question | Bounds, and why they suffice |
|---|---|---|
| `fleet_safety` | Do the safety properties and the refinement hold with a service and a hand-started copy on one machine? | one host, two processes, two enrollments (a key is superseded), two deployments with batches of one (so a batch is cut and two heartbeats are needed), both outcomes, one fault (a lost, late or half-applied heartbeat). No restart, so that `ExecutedOnce` speaks of every step; `Stop` and `SelfUpdate` are exercised by `fleet_live` and by the theorems |
| `fleet_live` | Do deployments complete, retired agents stop, sensor sets converge? | one process, two enrollments, two deployments, two sensor edits (one to the empty set), one fault, one restart |
| `fleet_overlong` | Same, when a result may exceed the schema: violated | smallest instance; no fault, no restart needed |
| `alerts` | Is the throttle's promise kept at window boundaries, and does the breaker count failures in a row when nothing overlaps? | window of two instants over a clock of four, two pairs, two channels, limit two, four alerts (the second window of a pair is reached while the other pair is throttled), two edits, a restart |
| `sensors` | Do generations follow one another without overlap, does the bait report what happened, and is it armed again after every report, also when the next generation takes the file over? | two generations, two listeners on one port, two sets that both have the bait, so that one file passes from a generation to the next, one of them with both listeners of the port, two touches of the file (a report races with one touch, and an unarmed file shows with a second), one failed accept; the first generation may be refused its writes, the second may not, so that it has to arm what the first left unarmed |
| `releases` | What may an agent install, what repairs one that cannot start, does a published release end up running? | one agent on either platform (agents share nothing but what they read), two platforms in build order (a build is interrupted between them), one key besides none, one certificate, one build request and one run of the script under way, three builds or signings, one fault |
| `releases_crash` | Is the program replaced atomically, as documented? violated | the same |
| `detection` | Does what is planted fire, once and rightly; are probes reported once and ended; do the tokens behave as `TokenLifecycle` says? | one token of each of the 16 types beside an e-mail token (two candidates in one event), hosts of up to two labels, every action with every tail, two recipients, one data line, two events that overlap, two steps of an intruder or an operator. Sensors are configured with honeypot tokens that are given their status by the same actions as any |
| `console` | Does every card act on what the operator saw, and end up true? | every card; three row ids of which two exist at first, two keys; two requests under way; one change by somebody else; one request of anybody's that fails instead; four clicks on the agents' page (select, ask, unselect, confirm; open, type and save), one on the dashboard (it has no more), two elsewhere, so that a bulk deletion and a drawer's save are sent from the agents' page only, and for the other pages the theorems stand alone; one left after a navigation, which goes to the deployments (the other card that ends in the middle of a poll); one poll at a time |
| `console_lockout` | Is the first key adopted, as documented? violated | one click, nobody else |
| `console_drawer` | Does a drawer show the token it was opened for, as documented? violated | three clicks on the tokens' page: open, close, open |
| `gateway` | Does a deleted token leave nothing behind, can a clone shown as ok be served, and how old can what is served be? | one token (entries do not depend on each other) of any of three kinds the operator makes, two clones of it that overlap, two versions, one incident, two fetches that overlap, the page and the image cache, time to live and timeout of one instant over a clock of two, one crash. What needs two tokens (a bulk call that names both) and the configuration cache, which differs in the constants only, are covered by the theorems |

Deadlock is not checked: a system whose agents are retired, or whose bounded
counters are spent, may stop. The counters are bounds on the environment only
(faults, restarts, edits, enrollments, deployments, alerts, time) and each is a
constant.

Symmetry is used where the permuted values are interchangeable and no liveness
property is checked.

### Fairness

`Fleet!Fairness` assumes weak fairness of each process's own steps, of its start
and of the API's answer to a call that is still open. The code's justification:
the loop never blocks for ever (every call has `httpTimeout`), the installed
service is restarted for ever (`Restart=always` in `agent/install_linux.go`, the
recovery actions in `agent/install_windows.go`), and the API answers what it
receives. Nothing is assumed of the operator, of enrollment, of losses or of
self-update. Each liveness property adds the environment it needs as a premise:
`DeploymentsComplete` and `SensorsConverge` speak of a host that goes on serving
its row's credentials.

`SensorRuntime!Fairness` assumes weak fairness of every goroutine, of the end of
a shutdown, and strong fairness of the select's exit: Go's select picks among the
ready cases at random, so a cancelled context that is ready at every tick is
chosen some time. `StoppedEnds` needs no more: a report returns, delivered or
not, because its call has a timeout.

`ReleaseUpdate!Fairness` assumes weak fairness of an agent's own update steps,
which no one else can delay; faults are bounded, so the last attempt meets none.
`Detection!Fairness` assumes it of a probe's reads, which have deadlines, and of
the end of a report, which has a timeout. `Console` assumes it of the polls (an
interval timer) and of the service and the answer of each request; of the
operator nothing is assumed.

## 4. Theorems

All proofs hold for every set of hosts and processes, every batch limit and
every bound, from `FleetAssumption` (the constants have their types, a batch is
not empty), `AlertsAssumption`, `BaitAssumption` and `RuntimeAssumption`,
`TokenAssumption` and `CacheAssumption`, `ReleaseAssumption` (with
`AbsentAssumption` and `ManifestAssumption`: what stands for no binary is none),
`DetectionAssumption` (with `SmtpAssumption` and `RulesAssumption`: limits are
numbers, what is no token is none), or `ConsoleApiAssumption` and `ConsoleAssumption` (ids,
keys and the other strings are told apart; bounds are numbers).

* `Fleet_proofs!TypeCorrect`: `Spec => []TypeOK`.
* `Fleet_proofs!Inductive`: `Spec => []IInv`. The safety properties are not
  inductive: a request under way, a reply or the state file can each re-introduce
  an old credential or an old deployment. `IInv` therefore says what each carrier
  may hold: an id was issued to one host (`OwnerOk`), rows, files, offers and
  memories hold only what was issued (`RowsOk`, `CredsOk`), queued rows name an
  issued id and a key that existed (`DepsOk`), work in progress, replies and
  requests carry only work of the carrier's own agent and no younger than its key
  (`WorkOk`, `RepliesOk`, `RequestsOk`), and a process has at most one open call
  (`CallsOk`).
* `Fleet_proofs!Superseded`, `Fleet_proofs!Dormant`: the two invariants, from
  `IInv`.
* `Fleet_proofs!Reports`: `Spec => []ReportsFit`, from `SizeInv`: what is left
  to do and what is left to report are together never more than a batch, since a
  result takes the place of its deployment; and a batch holds at most `Limit`
  rows, because the number of older pending ones tells its rows apart
  (`BatchSize`).
* `Fleet_proofs!Once`: `Spec => ExecutedOnce`, from `OnceInv`: a lone process
  knows of everything its machine has executed (`Known`: it still has to report
  it, or the row is decided). An answer that brings a batch is an answer to the
  open call, whose report holds all there is to report (`OpenOk`), and the
  handler has taken it in before it picks the batch (`TakenIn`).
* `FleetImplements!Refinement`: `Spec => ImplementsDeployment`. Only `Deploy`,
  `Heartbeat`, `HeartbeatDies` and `ExecuteOne` are visible; every other step
  stutters. The results of a request are attempts that were made on the owner's
  host (`RequestsOk`), which is what makes a decided status true.
* `Alerts_proofs!TypeCorrect`, `AtMostOnePerWindow`, `NoLongSilence`: from
  `ThrottleInv`, which ties each throttle entry to the alert in the log that
  opened its window.
* `Alerts_proofs!SequentialBreaker`: `Spec => []BreakerCounts`; the snapshot of a
  delivery equals the row as long as its channel is not in `racy`.
* `SensorRuntime_proofs!TypeCorrect`: needs `RoomOk`, that a generation exists
  while it is being stopped.
* `SensorRuntime_proofs!Generations`, `NoCollision`: from `GenInv`, which adds
  that listeners are the current generation's even after a timed-out shutdown.
* `SensorRuntime_proofs!AlarmsTrue`: `Spec => []NoFalseAlarm`, from `AlarmInv`:
  every difference between the file and an instance's baseline is explained by a
  touch since it last looked (`Explained`), a file that vanished while it was
  armed was deleted (`Missed`), and times never run ahead of the clock. It uses
  `Generations`: with two instances at work one would report the other's arming.
* `SensorRuntime_proofs!StaysArmed`: `Spec => []Rearmed`, from `SightInv`. It adds
  that the file is armed at the moment a baseline is taken, that an unwritten file
  has the baseline's modification time, so that a difference in it is reported as
  a read and leads to arming, and that a read the kernel records is newer than any
  baseline. It uses `Generations` as well: an older instance takes a file that is
  planted anew for one that was written.
* `GatewayCache_proofs!TokenTypes`, `DeletedLeavesNothing`, `StampsTell`: over
  `TokenSpec`, from `TokenInv`. It adds that a clone under way is of a cloned
  page: otherwise its end could stamp a row of another type.
* `GatewayCache_proofs!TypeCorrect`, `Fresh`: over `Spec`, from `CacheInv`.
  `CacheFresh` speaks of cached entries only and is not inductive: what a fetch
  carries is cached later. `GetOk` says that a fetch is no older than its
  timeout and brings what the API answers now or answered after it began;
  `EntryOk` that an entry no longer true expires within the time to live and one
  timeout of the change. A step of the API that changes its answer does so now
  (`NotedCache`), which makes both true again.
* `GatewayCache_proofs!BehavesAsTokens`: `Spec => TokenSpec`, step by step; what is
  proved of the tokens by themselves holds behind the gateway too.

* `ReleaseUpdate_proofs!TypeCorrect`, `InstallsSigned`, `AlwaysRecoverable`: from
  `IInv`. `SignedOnly` is about a step, and the step installs what was verified two
  steps before, so the invariant says what an agent may hold meanwhile (`AgentsOk`:
  a manifest that its running key sealed, a download that the manifest names,
  something aside whenever nothing is in place, and a program without its mode only
  where a sealed one was just renamed), that a manifest on disk was sealed
  (`ManifestSealed`), that the script has sealed what it is about to write
  (`ScriptSealed`), and that a code-signing job works on what it copied (`JobOk`).

* `Detection_proofs!Envelope`, `Scored`, `NothingTwice`: from `Sessions`, which
  speaks of each session by where it is. In an SMTP session (`SmtpOk`) the
  recipients are the ones the mail owes, there are no more of them than the
  session's counter, which RSET does not clear and RCPT bounds, and DATA has at
  least one (sender, subject and text are not modelled); a connection has reported
  nothing before its first report and at most a connection and credentials after it, and which of the two is decided by
  its stage and protocol (`SmbOk`, `RdpOk`), since `ReportedOnce` alone does not
  say what the next round may still report. Every round of every protocol has a
  lemma (`NtlmStep`, `CredentialStep`, `RdpUpgradeStep`, ...) that says what it
  makes of that, and `StepsOk` puts them together. That the agent may end under a
  connection (`PanicEnds`) leaves all of it as it is.
* `Detection_proofs!OnceFiled`, `PlantedDetected`: from `Flows`. That an event is
  filed once follows from what is on the way: no two reports are of one event and
  token, and none of one that is a row (`Unfiled`); a step gives the reports of an
  event a fresh number. `Detected` needs more than it says: that the report will
  also be taken by ingest, which matches the event against the token's own type
  although the gateway forwarded it for the first type that claimed it (`Pending`).
  `PlantedFires` is the lemma it rests on: whatever `generate` plants for a type,
  for each of the sixteen, makes a candidate of the gateway and matches.
* `Detection_proofs!TypeCorrect`: needs `Budget`: before a connection is accepted
  there is room for the two reports it may owe, so numbers stay in their bound.
* `Detection_proofs!KeepsToLifecycle`: `Spec => FollowsLifecycle`, by the kinds of
  steps of `Flows`. An incident is one row more for its token (`LifeIngests`, which
  needs that a new row's id is new) and a deletion takes a token's rows with it;
  everything else stutters.
* `Console_proofs!TypeCorrect`, `DeletesConfirmed`, `DraftsTrue`: from `Types` and
  `Asked`. The two action properties speak of the moment a request is sent, and
  what it says was decided clicks and answers before. `Asked` is what survives in
  between: a confirmation that is shown is of the selection as it is (every change
  of the one drops the other, except that the tokens' "clear" leaves a
  confirmation over nothing), a question in the agents' drawer is about the agent
  it is open for, and a draft is about all the drawer can show (`Subject`: for
  agents and incidents the row that was opened, even while no list holds it).
  `Types` ties answers to pages: a request that is still heard is of the card that
  is shown, so that its rows are of that card's table (`CallsOk`), and a drawer
  holds at most one row. Each step is shown to keep both and to send only what is
  `Proper`.

Checked by TLC only: liveness, which is outside the prover's reach
(`DeploymentsComplete`, `RetiredStopsSensors`, `SensorsConverge`, `StoppedEnds`,
`UpdatesConverge`, `ProbesEnd`, `Settles`). Every safety property of a passing run
is stated by a theorem.

## 5. Findings

* `fleet_overlong`: one result longer than the schema's 500 characters makes
  every later heartbeat of that agent 401; the agent resends it for ever.
* `releases_crash`: `Apply` is documented to replace the program atomically, but it
  renames a file of mode 0600 into place and makes it executable afterwards. A
  process that dies in between leaves a program that cannot be executed, and its
  service is not started again until somebody sets the mode.
* `console_lockout`: the first key of an open console is adopted only if the
  browser stores none. One that stores an old key, or whatever was typed into the
  login view in open mode, keeps it; the next call is refused, the gate takes the
  box with the new key away, and nobody can enter.
* `console_drawer`: the answer for a token whose drawer was closed, when it comes
  last, is shown in the drawer of the next token, whose buttons then act on the
  first.

Further observations, made while the modules were written, that no run is kept
for:

* `dispatcher.ts`: failures that overlap are counted once, since each delivery
  writes from the row it read before its `await`, so five in a row need not
  disable a channel; for the same reason a failed delivery writes `enabled: true`
  over a switch-off that happened meanwhile. `BreakerCounts` therefore speaks of
  channels without overlap. The window of the throttle is fixed, not rolling as
  documented.
* `planted.go`: a file that is written and read between two polls is reported as
  modified and not armed again; the reads that follow go unseen. `Rearmed` speaks
  of files that nobody wrote to. It also supposes that no shutdown timed out:
  where two generations watch one file, a file that the new one plants is a write
  to the old one, which is reported and not armed again.
* `artifacts.ts`: after a re-clone the gateway serves the old copy for up to a
  minute, which `CacheFresh` allows and the console's text does not mention.
* `Makefile` line 24: a build that fails for some platforms but not for the last
  one counts as successful, and a build that fails keeps the manifest of
  binaries it has replaced in part.
* `rdp.go` lines 130-143: a client that offers NLA and completes the TLS handshake
  is reported as a connection and again with its credentials, so it is two
  incidents. The comments say that the bare connection is reported only when the
  NLA path is not taken (lines 127-129) and that there is one incident per
  connection (line 145). `ReportedOnce` is what the code keeps to: each kind once,
  and credentials after the connection.
* `rdp.go` lines 59-69: a header with nothing after it ends the agent (section 2);
  the comment on line 65 says that what there is will still be reported.
* `smtp.ts` lines 136-140: mail to a domain outside `F0_MAIL_DOMAINS` is accepted and
  dropped. `generate` takes the configured `mail_domain` of an e-mail token, or
  the base domain, without a look at that list; the model takes the address to be
  in it, so `Detected` does not speak of a token whose domain is not. An
  `F0_MAIL_DOMAINS` that is set but empty, which is what `docker-compose.yml` passes
  on when it is not configured, leaves no mail domain at all.
* `rdp.go` lines 106-126: a client that asks for both TLS and CredSSP gets the
  bare confirmation, although the comment says that a client that asks for
  CredSSP must be answered with PROTOCOL_HYBRID and the code below goes on to
  the TLS upgrade for it.

## 6. What is not modelled

* Alert senders, statistics, status, geolocation and capabilities: pure I/O, pure
  formatting, or queries that change nothing.
* Installers and service integration: system calls. `Fleet` uses of them that a
  stopped service is started again.
* The MCP server (a thin client of the API) and the deployment scripts (no
  run-time state).
* Protocol encodings (SSH, SMB, RDP, NTLM, TLS) and the formatting of artifacts,
  alerts and documents; sender, subject and text of a mail; layout, charts and the
  map of the web console.
* Within the modelled parts: the rename of an agent, the token checks of `deploy`,
  `testChannel`, the interval the API sends, the merge of masked channel secrets
  (one step on one row), the check that a sensor's token is active when a set is
  saved (`Detection` lets tokens be revoked and deleted under running sensors), QR
  tokens whose file is made after an `await`, rate limits, several cards of a page at once; the clock of `Alerts` does not step back.
