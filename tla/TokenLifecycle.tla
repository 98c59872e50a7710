--------------------------- MODULE TokenLifecycle ---------------------------
(***************************************************************************)
(* The tokens of the console API (apps/api/src/routes/tokens.ts): rows,    *)
(* their stored file, their incidents, and the clones of web pages, which  *)
(* are fetched in the background of everything else and end whenever the   *)
(* cloned site answers.                                                     *)
(*                                                                         *)
(* A handler is one step, except where it awaits the cloned site.  Files   *)
(* are versions: of the cloned site, or of an uploaded image.              *)
(***************************************************************************)
EXTENDS Naturals, FiniteSets

CONSTANTS
    Tokens,        \* token ids, each minted at most once
    Kinds,         \* types the operator creates
    Jobs,          \* clones that may be under way together
    NoToken,
    MaxVersion,    \* bound: versions of files
    MaxIncidents,  \* bound: incidents of a token
    MaxCrashes     \* bound: times the API process dies

ASSUME TokenAssumption ==
    /\ NoToken \notin Tokens
    /\ Kinds \subseteq {"cloned_website", "custom_image", "document", "redirect"}
    /\ MaxVersion \in Nat \ {0} /\ MaxIncidents \in Nat /\ MaxCrashes \in Nat

VARIABLES
    status,     \* of each token; unused: not minted yet
    kind,
    file,       \* token_files, idx 0; 0: none
    stamp,      \* clone_status in the config
    incidents,
    target,     \* the cloned site, as it is now
    jobOf,      \* whose clone a job is
    jobPage,    \* the version it has read; 0: it is still fetching
    torn,       \* history: the API died between deleting a file and storing it
    crashes

rowVars == <<status, kind, file, stamp, incidents>>
jobVars == <<jobOf, jobPage>>
tokenVars == <<rowVars, jobVars, target, torn, crashes>>

Statuses == {"active", "paused", "revoked"}
Versions == 1..MaxVersion

\* There is a row.
Exists(t) == status[t] \in Statuses

\* Only the row of a cloned page carries the outcome of a clone.
Stamped(t) == Exists(t) /\ kind[t] = "cloned_website"

TokenTypeOK ==
    /\ status \in [Tokens -> Statuses \cup {"unused", "deleted"}]
    /\ kind \in [Tokens -> Kinds \cup {"none", "cloned_website", "honeypot"}]
    /\ file \in [Tokens -> 0..MaxVersion]
    /\ stamp \in [Tokens -> {"none", "ok", "failed"}]
    /\ incidents \in [Tokens -> 0..MaxIncidents]
    /\ target \in Versions
    /\ jobOf \in [Jobs -> Tokens \cup {NoToken}]
    /\ jobPage \in [Jobs -> 0..MaxVersion]
    /\ torn \subseteq Tokens
    /\ crashes \in 0..MaxCrashes
    /\ \A t \in Tokens : stamp[t] # "none" => Stamped(t)

TokenInit ==
    /\ status = [t \in Tokens |-> "unused"]
    /\ kind = [t \in Tokens |-> "none"]
    /\ file = [t \in Tokens |-> 0]
    /\ stamp = [t \in Tokens |-> "none"]
    /\ incidents = [t \in Tokens |-> 0]
    /\ target = 1
    /\ jobOf = [j \in Jobs |-> NoToken]
    /\ jobPage = [j \in Jobs |-> 0]
    /\ torn = {}
    /\ crashes = 0

-----------------------------------------------------------------------------
(* Creation.                                                               *)

\* A row of type k, with its generated file if it has one.
Mint(t, k) ==
    /\ status[t] = "unused"
    /\ status' = [status EXCEPT ![t] = "active"]
    /\ kind' = [kind EXCEPT ![t] = k]

\* A clone of t begins to fetch its target.
StartClone(t, j) ==
    /\ jobOf[j] = NoToken
    /\ jobOf' = [jobOf EXCEPT ![j] = t]
    /\ jobPage' = [jobPage EXCEPT ![j] = 0]

\* POST /tokens.
Create(t, k) ==
    /\ k # "cloned_website"
    /\ Mint(t, k)
    /\ file' = [file EXCEPT ![t] = IF k = "document" THEN 1 ELSE 0]
    /\ UNCHANGED <<stamp, incidents, jobVars, target, torn, crashes>>

\* POST /tokens of a cloned page: the row is there before the page is.
CreateSite(t, j) ==
    /\ Mint(t, "cloned_website")
    /\ StartClone(t, j)
    /\ UNCHANGED <<file, stamp, incidents, target, torn, crashes>>

\* PUT /agents/:id/sensors: a set that names a token which is not active is
\* refused; a sensor that names none gets a token of its own.
PutSensors(named, new) ==
    /\ \A t \in named : status[t] = "active"
    /\ \A t \in new : status[t] = "unused"
    /\ status' = [t \in Tokens |-> IF t \in new THEN "active" ELSE status[t]]
    /\ kind' = [t \in Tokens |-> IF t \in new THEN "honeypot" ELSE kind[t]]
    /\ UNCHANGED <<file, stamp, incidents, jobVars, target, torn, crashes>>

-----------------------------------------------------------------------------
(* Administration.                                                         *)

\* PATCH /tokens/:id/status, and DELETE /tokens/:id, which revokes.
SetStatus(t, s) ==
    /\ Exists(t)
    /\ status' = [status EXCEPT ![t] = s]
    /\ UNCHANGED <<kind, file, stamp, incidents, jobVars, target, torn, crashes>>

\* POST /tokens/bulk: one statement.
RevokeAll(ts) ==
    /\ status' = [t \in Tokens |-> IF t \in ts /\ Exists(t) THEN "revoked"
                                   ELSE status[t]]
    /\ UNCHANGED <<kind, file, stamp, incidents, jobVars, target, torn, crashes>>

\* DELETE /tokens/:id?hard=true and POST /tokens/bulk: a transaction deletes
\* each row with its file and its incidents.
HardDelete(ts) ==
    /\ \E t \in ts : Exists(t)
    /\ status' = [t \in Tokens |-> IF t \in ts /\ Exists(t) THEN "deleted"
                                   ELSE status[t]]
    /\ file' = [t \in Tokens |-> IF t \in ts THEN 0 ELSE file[t]]
    /\ incidents' = [t \in Tokens |-> IF t \in ts THEN 0 ELSE incidents[t]]
    /\ stamp' = [t \in Tokens |-> IF t \in ts THEN "none" ELSE stamp[t]]
    /\ UNCHANGED <<kind, jobVars, target, torn, crashes>>

\* POST /tokens/:id/image.
UploadImage(t, v) ==
    /\ Exists(t) /\ kind[t] = "custom_image"
    /\ file' = [file EXCEPT ![t] = v]
    /\ UNCHANGED <<status, kind, stamp, incidents, jobVars, target, torn, crashes>>

\* POST /incidents, from the gateway or from a sensor, about what it saw when
\* it saw it: anything that is not an active token by now is answered 404.
Ingest(t) ==
    /\ status[t] = "active"
    /\ incidents[t] < MaxIncidents
    /\ incidents' = [incidents EXCEPT ![t] = @ + 1]
    /\ UNCHANGED <<status, kind, file, stamp, jobVars, target, torn, crashes>>

-----------------------------------------------------------------------------
(* Clones.                                                                 *)

\* Variant: the old page is deleted before the new one is fetched.
Reclone_DropsPage(t, j) ==
    /\ Exists(t) /\ kind[t] = "cloned_website"
    /\ StartClone(t, j)
    /\ file' = [file EXCEPT ![t] = 0]
    /\ UNCHANGED <<status, kind, stamp, incidents, target, torn, crashes>>

\* POST /tokens/:id/reclone.
Reclone(t, j) ==
    /\ Exists(t) /\ kind[t] = "cloned_website"
    /\ StartClone(t, j)
    /\ UNCHANGED <<rowVars, target, torn, crashes>>

\* The owner of the cloned site changes it.
TargetChanges ==
    /\ target < MaxVersion
    /\ target' = target + 1
    /\ UNCHANGED <<rowVars, jobVars, torn, crashes>>

\* The site answers; its page is on the way to the API from here on.
ReadTarget(j) ==
    /\ jobOf[j] # NoToken /\ jobPage[j] = 0
    /\ jobPage' = [jobPage EXCEPT ![j] = target]
    /\ UNCHANGED <<rowVars, jobOf, target, torn, crashes>>

EndClone(j) ==
    /\ jobOf' = [jobOf EXCEPT ![j] = NoToken]
    /\ jobPage' = [jobPage EXCEPT ![j] = 0]

\* Variant: token_files without its foreign key.
CloneOk_NoForeignKey(j) ==
    /\ jobOf[j] # NoToken /\ jobPage[j] # 0
    /\ file' = [file EXCEPT ![jobOf[j]] = jobPage[j]]
    /\ stamp' = IF Exists(jobOf[j]) THEN [stamp EXCEPT ![jobOf[j]] = "ok"]
                ELSE stamp
    /\ torn' = torn \ {jobOf[j]}
    /\ EndClone(j)
    /\ UNCHANGED <<status, kind, incidents, target, crashes>>

\* The page replaces the stored one and the outcome is stamped.  Where the
\* token was deleted meanwhile the foreign key refuses the page, and the stamp
\* finds no row.
CloneOk(j) ==
    /\ jobOf[j] # NoToken /\ jobPage[j] # 0
    /\ IF Exists(jobOf[j])
       THEN /\ file' = [file EXCEPT ![jobOf[j]] = jobPage[j]]
            /\ stamp' = [stamp EXCEPT ![jobOf[j]] = "ok"]
            /\ torn' = torn \ {jobOf[j]}
       ELSE UNCHANGED <<file, stamp, torn>>
    /\ EndClone(j)
    /\ UNCHANGED <<status, kind, incidents, target, crashes>>

\* The fetch fails or takes too long.
CloneFails(j) ==
    /\ jobOf[j] # NoToken
    /\ stamp' = IF Exists(jobOf[j]) THEN [stamp EXCEPT ![jobOf[j]] = "failed"]
                ELSE stamp
    /\ EndClone(j)
    /\ UNCHANGED <<status, kind, file, incidents, target, torn, crashes>>

-----------------------------------------------------------------------------

\* The process dies and takes its clones with it.
Dies ==
    /\ crashes < MaxCrashes
    /\ crashes' = crashes + 1
    /\ jobOf' = [j \in Jobs |-> NoToken]
    /\ jobPage' = [j \in Jobs |-> 0]
    /\ UNCHANGED <<status, kind, stamp, incidents, target>>

\* It dies between the statements that replace a file, which are not a
\* transaction: the old file is gone, or a page is stored and not stamped.
ApiDies ==
    /\ Dies
    /\ \/ UNCHANGED <<file, torn>>
       \/ \E t \in Tokens :
            /\ Exists(t)
            /\ kind[t] = "custom_image" \/ \E j \in Jobs : jobOf[j] = t /\ jobPage[j] # 0
            /\ file' = [file EXCEPT ![t] = 0]
            /\ torn' = torn \cup {t}
       \/ \E j \in Jobs :
            /\ jobOf[j] # NoToken /\ jobPage[j] # 0
            /\ Exists(jobOf[j])
            /\ file' = [file EXCEPT ![jobOf[j]] = jobPage[j]]
            /\ UNCHANGED torn

RowNext ==
    \/ \E t \in Tokens, k \in Kinds : Create(t, k)
    \/ \E t \in Tokens, j \in Jobs : CreateSite(t, j) \/ Reclone(t, j)
    \/ \E named, new \in SUBSET Tokens : PutSensors(named, new)
    \/ \E t \in Tokens, s \in Statuses : SetStatus(t, s)
    \/ \E ts \in SUBSET Tokens : RevokeAll(ts) \/ HardDelete(ts)
    \/ \E t \in Tokens, v \in Versions : UploadImage(t, v)
    \/ \E t \in Tokens : Ingest(t)
    \/ TargetChanges
    \/ \E j \in Jobs : ReadTarget(j) \/ CloneOk(j) \/ CloneFails(j)

TokenNext == RowNext \/ ApiDies

TokenSpec == TokenInit /\ [][TokenNext]_tokenVars

-----------------------------------------------------------------------------
(* Properties.                                                             *)

\* Hard delete removes the token, its files and its incident history, and
\* nothing that was under way brings any of it back (tokens.ts).
NoOrphans ==
    \A t \in Tokens : ~Exists(t) => file[t] = 0 /\ incidents[t] = 0

\* A token whose clone is shown as ok has a page to serve, also while it is
\* cloned again, unless the API died while it replaced the page.
StampTells ==
    \A t \in Tokens : stamp[t] = "ok" /\ t \notin torn => file[t] # 0
=============================================================================
