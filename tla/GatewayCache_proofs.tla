------------------------ MODULE GatewayCache_proofs ------------------------
(* Theorems about TokenLifecycle and GatewayCache, for any tokens, clones,  *)
(* fetches and times to live.                                              *)
EXTENDS GatewayCache, TLAPS

USE DEF rowVars, jobVars, tokenVars, cacheVars, gatewayVars, vars

(***************************************************************************)
(* The tokens of the API.                                                  *)
(***************************************************************************)

\* A clone is of the row of a cloned page, or of one that was deleted.
JobsOk ==
    \A j \in Jobs : jobOf[j] # NoToken =>
        kind[jobOf[j]] = "cloned_website" /\ status[jobOf[j]] # "unused"

TokenInv == TokenTypeOK /\ JobsOk /\ NoOrphans /\ StampTells

\* The tables are empty at first.
LEMMA InitTokens == TokenInit => TokenInv
BY TokenAssumption
   DEF TokenInit, TokenInv, TokenTypeOK, JobsOk, NoOrphans, StampTells, Exists,
       Stamped, Statuses, Versions

\* The handlers that create a token (tokens.ts POST, agents.ts PUT sensors).
LEMMA CreationTokens ==
  ASSUME TokenInv,
         \/ \E t \in Tokens, k \in Kinds : Create(t, k)
         \/ \E t \in Tokens, j \in Jobs : CreateSite(t, j)
         \/ \E named, new \in SUBSET Tokens : PutSensors(named, new)
  PROVE  TokenInv'
<1> USE TokenAssumption
        DEF TokenInv, TokenTypeOK, JobsOk, NoOrphans, StampTells, Exists,
            Stamped, Statuses, Versions, Mint
<1>1. ASSUME NEW t \in Tokens, NEW k \in Kinds, Create(t, k) PROVE TokenInv'
  BY <1>1 DEF Create
<1>2. ASSUME NEW t \in Tokens, NEW j \in Jobs, CreateSite(t, j) PROVE TokenInv'
  BY <1>2 DEF CreateSite, StartClone
<1>3. ASSUME NEW named \in SUBSET Tokens, NEW new \in SUBSET Tokens,
             PutSensors(named, new)
      PROVE  TokenInv'
  BY <1>3 DEF PutSensors
<1>4. QED
  BY <1>1, <1>2, <1>3

\* The handlers that change a token (tokens.ts).
LEMMA AdminTokens ==
  ASSUME TokenInv,
         \/ \E t \in Tokens, s \in Statuses : SetStatus(t, s)
         \/ \E ts \in SUBSET Tokens : RevokeAll(ts) \/ HardDelete(ts)
         \/ \E t \in Tokens, v \in Versions : UploadImage(t, v)
         \/ \E t \in Tokens : Ingest(t)
  PROVE  TokenInv'
<1> USE TokenAssumption
        DEF TokenInv, TokenTypeOK, JobsOk, NoOrphans, StampTells, Exists,
            Stamped, Statuses, Versions
<1>1. ASSUME NEW t \in Tokens, NEW s \in Statuses, SetStatus(t, s)
      PROVE  TokenInv'
  BY <1>1 DEF SetStatus
<1>2. ASSUME NEW ts \in SUBSET Tokens, RevokeAll(ts) PROVE TokenInv'
  BY <1>2 DEF RevokeAll
<1>3. ASSUME NEW ts \in SUBSET Tokens, HardDelete(ts) PROVE TokenInv'
  BY <1>3 DEF HardDelete
<1>4. ASSUME NEW t \in Tokens, NEW v \in Versions, UploadImage(t, v)
      PROVE  TokenInv'
  BY <1>4 DEF UploadImage
<1>5. ASSUME NEW t \in Tokens, Ingest(t) PROVE TokenInv'
  BY <1>5 DEF Ingest
<1>6. HIDE DEF TokenInv
<1>7. QED
  BY <1>1, <1>2, <1>3, <1>4, <1>5

\* The steps of a clone (tokens.ts, cloneWebsiteForToken).
LEMMA CloneTokens ==
  ASSUME TokenInv,
         \/ \E t \in Tokens, j \in Jobs : Reclone(t, j)
         \/ TargetChanges
         \/ \E j \in Jobs : ReadTarget(j) \/ CloneOk(j) \/ CloneFails(j)
  PROVE  TokenInv'
<1> USE TokenAssumption
        DEF TokenInv, TokenTypeOK, JobsOk, NoOrphans, StampTells, Exists,
            Stamped, Statuses, Versions, EndClone
<1>1. ASSUME NEW t \in Tokens, NEW j \in Jobs, Reclone(t, j) PROVE TokenInv'
  BY <1>1 DEF Reclone, StartClone
<1>2. CASE TargetChanges
  BY <1>2 DEF TargetChanges
<1>3. ASSUME NEW j \in Jobs, ReadTarget(j) PROVE TokenInv'
  BY <1>3 DEF ReadTarget
<1>4. ASSUME NEW j \in Jobs, CloneOk(j) PROVE TokenInv'
  <2>1. CASE Exists(jobOf[j])
    BY <1>4, <2>1 DEF CloneOk
  <2>2. CASE ~Exists(jobOf[j])
    BY <1>4, <2>2 DEF CloneOk
  <2>3. QED
    BY <2>1, <2>2
<1>5. ASSUME NEW j \in Jobs, CloneFails(j) PROVE TokenInv'
  BY <1>5 DEF CloneFails
<1>6. QED
  BY <1>1, <1>2, <1>3, <1>4, <1>5

\* The API dies, perhaps in the middle of replacing a file.
LEMMA DeathTokens == ASSUME TokenInv, ApiDies PROVE TokenInv'
<1> USE TokenAssumption
        DEF TokenInv, TokenTypeOK, JobsOk, NoOrphans, StampTells, Exists,
            Stamped, Statuses, Versions, Dies
<1>1. Dies
  BY DEF ApiDies
<1>2. CASE UNCHANGED <<file, torn>>
  BY <1>1, <1>2
<1>3. ASSUME NEW t \in Tokens, file' = [file EXCEPT ![t] = 0],
             torn' = torn \cup {t}
      PROVE  TokenInv'
  BY <1>1, <1>3
<1>4. ASSUME NEW j \in Jobs, jobOf[j] # NoToken, jobPage[j] # 0,
             Exists(jobOf[j]), file' = [file EXCEPT ![jobOf[j]] = jobPage[j]],
             UNCHANGED torn
      PROVE  TokenInv'
  BY <1>1, <1>4
<1>5. QED
  BY <1>2, <1>3, <1>4 DEF ApiDies

\* One step of the API or of a cloned site.
LEMMA NextTokens ==
  ASSUME TokenInv, TokenNext \/ UNCHANGED tokenVars
  PROVE  TokenInv'
<1>1. CASE UNCHANGED tokenVars
  BY <1>1 DEF TokenInv, TokenTypeOK, JobsOk, NoOrphans, StampTells, Exists,
              Stamped, Statuses, Versions
<1>2. CASE RowNext
  BY <1>2, CreationTokens, AdminTokens, CloneTokens DEF RowNext
<1>3. CASE ApiDies
  BY <1>3, DeathTokens
<1>4. QED
  BY <1>1, <1>2, <1>3 DEF TokenNext

\* The API's tables keep their types, and a clone's outcome is stamped on the
\* row of a cloned page only.
THEOREM TokenTypes == TokenSpec => []TokenTypeOK
<1>1. TokenSpec => []TokenInv
  BY InitTokens, NextTokens, PTL DEF TokenSpec
<1>2. TokenInv => TokenTypeOK
  BY DEF TokenInv
<1>3. QED
  BY <1>1, <1>2, PTL

\* Nothing of a deleted token is left, or comes back.
THEOREM DeletedLeavesNothing == TokenSpec => []NoOrphans
<1>1. TokenSpec => []TokenInv
  BY InitTokens, NextTokens, PTL DEF TokenSpec
<1>2. TokenInv => NoOrphans
  BY DEF TokenInv
<1>3. QED
  BY <1>1, <1>2, PTL

\* A clone shown as ok can be served, unless the API died replacing it.
THEOREM StampsTell == TokenSpec => []StampTells
<1>1. TokenSpec => []TokenInv
  BY InitTokens, NextTokens, PTL DEF TokenSpec
<1>2. TokenInv => StampTells
  BY DEF TokenInv
<1>3. QED
  BY <1>1, <1>2, PTL

(***************************************************************************)
(* The caches of the gateway.                                              *)
(***************************************************************************)

\* A fetch is as old as its timeout at most, and brings what the API answers,
\* or answered when or after the fetch began.
GetOk(g) ==
    get[g] # NoGet =>
      /\ get[g].since <= now
      /\ now <= get[g].since + Patience[get[g].cache]
      /\ get[g].st = "answered" =>
           \/ get[g].v = Reply(get[g].cache, get[g].of)
           \/ get[g].since <= changed[get[g].cache][get[g].of]

\* What is cached expires within the time to live, and soon after the API
\* changed its answer.
EntryOk(c, t) ==
    entry[c][t] # 0 =>
      /\ expires[c][t] <= now + TTL
      /\ \/ entry[c][t] = Reply(c, t)
         \/ expires[c][t] <= changed[c][t] + TTL + Patience[c]

CacheInv ==
    /\ TypeOK
    /\ TokenInv
    /\ \A g \in Gets : GetOk(g)
    /\ \A c \in Caches, t \in Tokens : EntryOk(c, t)

\* The types of a fetch that is under way.
GetFields(g) ==
    /\ get[g].st \in {"asked", "answered"}
    /\ get[g].cache \in Caches
    /\ get[g].of \in Tokens
    /\ get[g].v \in 0..MaxVersion
    /\ get[g].since \in Times

LEMMA GetTyped ==
  ASSUME TypeOK, NEW g \in Gets
  PROVE  /\ get[g] # NoGet => GetFields(g)
         /\ get[g].st \in {"asked", "answered"} => get[g] # NoGet
         /\ get[g] # NoGet => get[g].st # "idle"
BY DEF TypeOK, NoGet, GetFields

\* What the internal routes answer is a version.
LEMMA ReplyTyped ==
  ASSUME TokenTypeOK, NEW c, NEW t \in Tokens
  PROVE  Reply(c, t) \in 0..MaxVersion
BY TokenAssumption DEF Reply, TokenTypeOK

\* The caches are empty at first.
LEMMA InitCache == Init => CacheInv
<1> SUFFICES ASSUME Init PROVE CacheInv
  OBVIOUS
<1>1. TokenInv /\ TokenTypeOK
  BY InitTokens DEF Init, TokenInv
<1>2. TypeOK
  <2>1. /\ 0 \in Times /\ 0 \in 0..MaxVersion /\ 0 \in 0..(MaxTime + TTL)
    BY CacheAssumption, TokenAssumption DEF Times
  <2>2. QED
    BY <1>1, <2>1 DEF Init, TypeOK
<1>3. QED
  BY <1>1, <1>2 DEF Init, CacheInv, GetOk, EntryOk

\* A step of the API keeps what is under way and what is cached: where its
\* answer changes, it changes now.
LEMMA NotedCache ==
  ASSUME CacheInv, TokenInv', Noted, UNCHANGED <<now, cacheVars>>,
         \A g \in Gets : get'[g] = get[g] \/ get'[g] = NoGet,
         get' \in [Gets -> {get[g] : g \in Gets} \cup {NoGet}]
  PROVE  CacheInv'
<1> USE CacheAssumption
<1>1. now \in Nat /\ TTL \in Nat
  BY DEF CacheInv, TypeOK, Times
<1>2. ASSUME NEW c \in Caches, NEW t \in Tokens
      PROVE  /\ changed'[c][t] = IF Reply(c, t)' = Reply(c, t) THEN changed[c][t]
                                 ELSE now
             /\ changed[c][t] \in Times
  BY <1>2 DEF Noted, CacheInv, TypeOK
<1>3. TypeOK'
  <2>1. changed' \in [Caches -> [Tokens -> Times]]
    BY DEF Noted, CacheInv, TypeOK
  <2>2. get' \in [Gets -> {NoGet} \cup
                  [st : {"asked", "answered"}, cache : Caches, of : Tokens,
                   v : 0..MaxVersion, since : Times]]
    BY DEF CacheInv, TypeOK
  <2>3. QED
    BY <2>1, <2>2 DEF CacheInv, TypeOK, TokenInv
<1>4. ASSUME NEW g \in Gets PROVE GetOk(g)'
  <2>1. CASE get'[g] = NoGet
    BY <2>1 DEF GetOk
  <2>2. CASE get'[g] = get[g] /\ get[g] # NoGet
    <3>1. GetOk(g) /\ GetFields(g)
      BY <2>2, GetTyped DEF CacheInv
    <3>2. get[g].cache \in Caches /\ get[g].of \in Tokens
      BY <3>1 DEF GetFields
    <3>3. \/ Reply(get[g].cache, get[g].of)' = Reply(get[g].cache, get[g].of)
             /\ changed'[get[g].cache][get[g].of] = changed[get[g].cache][get[g].of]
          \/ changed'[get[g].cache][get[g].of] = now
      BY <2>2, <3>2, <1>2
    <3>4. QED
      BY <2>2, <3>1, <3>3 DEF GetOk
  <2>3. QED
    BY <2>1, <2>2
<1>5. ASSUME NEW c \in Caches, NEW t \in Tokens PROVE EntryOk(c, t)'
  <2>1. UNCHANGED <<entry, expires, now>>
    OBVIOUS
  <2>2. EntryOk(c, t) /\ expires[c][t] \in Nat /\ Patience[c] \in Nat
    BY DEF CacheInv, TypeOK
  <2>3. CASE Reply(c, t)' = Reply(c, t)
    BY <2>1, <2>2, <2>3, <1>2 DEF EntryOk
  <2>4. CASE Reply(c, t)' # Reply(c, t)
    <3>1. changed'[c][t] = now
      BY <2>4, <1>2
    <3>2. entry[c][t] # 0 => expires[c][t] <= now + TTL + Patience[c]
      BY <2>2, <1>1 DEF EntryOk
    <3>3. QED
      BY <2>1, <2>2, <3>1, <3>2 DEF EntryOk
  <2>5. QED
    BY <2>3, <2>4
<1>6. QED
  BY <1>3, <1>4, <1>5 DEF CacheInv

\* The steps of the gateway do not change what the API answers.
LEMMA ReplySame ==
  ASSUME UNCHANGED tokenVars, NEW c, NEW t
  PROVE  Reply(c, t)' = Reply(c, t)
BY DEF Reply

LEMMA TokensSame ==
  ASSUME TokenInv, UNCHANGED tokenVars
  PROVE  TokenInv'
BY NextTokens

\* A request that is not served from the cache.
LEMMA AskCache ==
  ASSUME CacheInv, NEW g \in Gets, NEW c \in Caches, NEW t \in Tokens,
         Ask(g, c, t)
  PROVE  CacheInv'
<1> USE CacheAssumption
<1>0. /\ UNCHANGED <<tokenVars, changed, now, cacheVars>> /\ TokenInv'
      /\ now \in Nat /\ now \in Times /\ Patience[c] \in Nat
  BY TokensSame DEF Ask, CacheInv, TypeOK, Times
<1>1. /\ get'[g] = [st |-> "asked", cache |-> c, of |-> t, v |-> 0, since |-> now]
      /\ \A h \in Gets \ {g} : get'[h] = get[h]
  BY DEF Ask, GetOf, CacheInv, TypeOK
<1>2. TypeOK'
  <2>1. get' \in [Gets -> {NoGet} \cup
                  [st : {"asked", "answered"}, cache : Caches, of : Tokens,
                   v : 0..MaxVersion, since : Times]]
    BY <1>0, TokenAssumption DEF Ask, GetOf, CacheInv, TypeOK
  <2>2. QED
    BY <1>0, <2>1 DEF CacheInv, TypeOK, TokenInv
<1>3. ASSUME NEW h \in Gets PROVE GetOk(h)'
  <2>1. CASE h = g
    BY <2>1, <1>0, <1>1 DEF GetOk
  <2>2. CASE h # g
    BY <2>2, <1>0, <1>1, ReplySame DEF GetOk, CacheInv
  <2>3. QED
    BY <2>1, <2>2
<1>4. ASSUME NEW d \in Caches, NEW u \in Tokens PROVE EntryOk(d, u)'
  BY <1>0, ReplySame DEF EntryOk, CacheInv
<1>5. QED
  BY <1>0, <1>2, <1>3, <1>4 DEF CacheInv

\* The API answers a fetch.
LEMMA AnswerCache ==
  ASSUME CacheInv, NEW g \in Gets, Answer(g)
  PROVE  CacheInv'
<1> USE CacheAssumption
<1>0. UNCHANGED <<tokenVars, changed, now, cacheVars>> /\ TokenInv'
  BY TokensSame DEF Answer, CacheInv
<1>1. get[g] # NoGet /\ GetFields(g) /\ GetOk(g)
  BY GetTyped DEF Answer, CacheInv
<1>2. Reply(get[g].cache, get[g].of) \in 0..MaxVersion
  BY <1>1, ReplyTyped DEF GetFields, CacheInv, TokenInv
<1>3. /\ get'[g] = [st |-> "answered", cache |-> get[g].cache, of |-> get[g].of,
                    v |-> Reply(get[g].cache, get[g].of), since |-> get[g].since]
      /\ \A h \in Gets \ {g} : get'[h] = get[h]
  BY DEF Answer, GetOf, CacheInv, TypeOK
<1>4. TypeOK'
  <2>1. get' \in [Gets -> {NoGet} \cup
                  [st : {"asked", "answered"}, cache : Caches, of : Tokens,
                   v : 0..MaxVersion, since : Times]]
    BY <1>1, <1>2 DEF Answer, GetOf, CacheInv, TypeOK, GetFields
  <2>2. QED
    BY <1>0, <2>1 DEF CacheInv, TypeOK, TokenInv
<1>5. ASSUME NEW h \in Gets PROVE GetOk(h)'
  <2>1. CASE h = g
    BY <2>1, <1>0, <1>1, <1>3, ReplySame DEF GetOk
  <2>2. CASE h # g
    BY <2>2, <1>0, <1>3, ReplySame DEF GetOk, CacheInv
  <2>3. QED
    BY <2>1, <2>2
<1>6. ASSUME NEW d \in Caches, NEW u \in Tokens PROVE EntryOk(d, u)'
  BY <1>0, ReplySame DEF EntryOk, CacheInv
<1>7. QED
  BY <1>0, <1>4, <1>5, <1>6 DEF CacheInv

\* A fetch ends, whatever becomes of its answer.
LEMMA GetEnds ==
  ASSUME CacheInv, NEW g \in Gets, get' = [get EXCEPT ![g] = NoGet],
         UNCHANGED <<tokenVars, changed, now>>
  PROVE  /\ \A h \in Gets : GetOk(h)'
         /\ get' \in [Gets -> {NoGet} \cup
                        [st : {"asked", "answered"}, cache : Caches,
                         of : Tokens, v : 0..MaxVersion, since : Times]]
<1>1. get'[g] = NoGet /\ \A h \in Gets \ {g} : get'[h] = get[h]
  BY DEF CacheInv, TypeOK
<1>2. ASSUME NEW h \in Gets PROVE GetOk(h)'
  BY <1>1, ReplySame DEF GetOk, CacheInv
<1>3. get' \in [Gets -> {NoGet} \cup
                  [st : {"asked", "answered"}, cache : Caches, of : Tokens,
                   v : 0..MaxVersion, since : Times]]
  BY DEF CacheInv, TypeOK
<1>4. QED
  BY <1>2, <1>3

\* An answer is cached: it was right when the fetch began, or later.
LEMMA StoreCache ==
  ASSUME CacheInv, NEW c \in Caches, NEW t \in Tokens, NEW v \in 1..MaxVersion,
         NEW since \in Times, now <= since + Patience[c],
         v = Reply(c, t) \/ since <= changed[c][t],
         Store(c, t, v), UNCHANGED <<tokenVars, changed, now>>
  PROVE  /\ entry' \in [Caches -> [Tokens -> 0..MaxVersion]]
         /\ expires' \in [Caches -> [Tokens -> 0..(MaxTime + TTL)]]
         /\ \A d \in Caches, u \in Tokens :
              /\ entry'[d][u] = 0 <=> expires'[d][u] = 0
              /\ EntryOk(d, u)'
<1>1. /\ now \in Nat /\ now <= MaxTime /\ MaxTime \in Nat /\ TTL \in Nat /\ TTL # 0
      /\ since \in Nat /\ changed[c][t] \in Nat /\ Patience[c] \in Nat
      /\ v # 0 /\ v \in 0..MaxVersion
  <2>1. now \in Times /\ changed[c][t] \in Times
    BY DEF CacheInv, TypeOK
  <2>2. v # 0 /\ v \in 0..MaxVersion
    BY TokenAssumption
  <2>3. MaxTime \in Nat /\ TTL \in Nat /\ TTL # 0 /\ Patience[c] \in Nat
    BY CacheAssumption
  <2>4. now \in Nat /\ now <= MaxTime /\ since \in Nat /\ changed[c][t] \in Nat
    BY <2>1, <2>3 DEF Times
  <2>5. QED
    BY <2>2, <2>3, <2>4
<1>2. now + TTL \in 0..(MaxTime + TTL) /\ now + TTL # 0
  BY <1>1
<1>3. /\ entry' \in [Caches -> [Tokens -> 0..MaxVersion]]
      /\ expires' \in [Caches -> [Tokens -> 0..(MaxTime + TTL)]]
  BY <1>1, <1>2 DEF Store, CacheInv, TypeOK
<1>4. /\ entry'[c][t] = v /\ expires'[c][t] = now + TTL
      /\ \A d \in Caches, u \in Tokens : d # c \/ u # t =>
           entry'[d][u] = entry[d][u] /\ expires'[d][u] = expires[d][u]
  BY DEF Store, CacheInv, TypeOK
<1>5. ASSUME NEW d \in Caches, NEW u \in Tokens, d # c \/ u # t
      PROVE  (entry'[d][u] = 0 <=> expires'[d][u] = 0) /\ EntryOk(d, u)'
  <2>1. entry'[d][u] = entry[d][u] /\ expires'[d][u] = expires[d][u]
    BY <1>4, <1>5
  <2>2. (entry[d][u] = 0 <=> expires[d][u] = 0) /\ EntryOk(d, u)
    BY DEF CacheInv, TypeOK
  <2>3. QED
    BY <2>1, <2>2, ReplySame DEF EntryOk
<1>6. EntryOk(c, t)'
  <2>1. since <= changed[c][t] => now + TTL <= changed[c][t] + TTL + Patience[c]
    BY <1>1
  <2>2. expires'[c][t] <= now + TTL
    BY <1>1, <1>4
  <2>3. \/ entry'[c][t] = Reply(c, t)'
        \/ expires'[c][t] <= changed[c][t] + TTL + Patience[c]
    BY <1>4, <2>1, ReplySame
  <2>4. QED
    BY <2>2, <2>3 DEF EntryOk
<1>7. entry'[c][t] = 0 <=> expires'[c][t] = 0
  BY <1>1, <1>2, <1>4
<1>8. QED
  BY <1>3, <1>5, <1>6, <1>7

\* An answer arrives.
LEMMA ArriveCache ==
  ASSUME CacheInv, NEW g \in Gets, Arrive(g)
  PROVE  CacheInv'
<1>1. UNCHANGED <<tokenVars, changed, now>> /\ TokenInv'
  BY TokensSame DEF Arrive, CacheInv
<1>2. GetFields(g) /\ GetOk(g) /\ get[g] # NoGet /\ get[g].st = "answered"
  BY GetTyped DEF Arrive, CacheInv
<1>3. /\ \A h \in Gets : GetOk(h)'
      /\ get' \in [Gets -> {NoGet} \cup
                     [st : {"asked", "answered"}, cache : Caches,
                      of : Tokens, v : 0..MaxVersion, since : Times]]
  BY <1>1, GetEnds DEF Arrive
<1>4. CASE get[g].v = 0
  <2>1. UNCHANGED cacheVars
    BY <1>4 DEF Arrive
  <2>2. TypeOK'
    BY <1>1, <1>3, <2>1 DEF CacheInv, TypeOK, TokenInv
  <2>3. ASSUME NEW d \in Caches, NEW u \in Tokens PROVE EntryOk(d, u)'
    BY <1>1, <2>1, ReplySame DEF EntryOk, CacheInv
  <2>4. QED
    BY <1>1, <1>3, <2>2, <2>3 DEF CacheInv
<1>5. CASE get[g].v # 0
  <2>1. Store(get[g].cache, get[g].of, get[g].v)
    BY <1>5 DEF Arrive
  <2>2. get[g].v \in 1..MaxVersion
    BY <1>2, <1>5, TokenAssumption DEF GetFields
  <2>3. /\ now <= get[g].since + Patience[get[g].cache]
        /\ \/ get[g].v = Reply(get[g].cache, get[g].of)
           \/ get[g].since <= changed[get[g].cache][get[g].of]
    BY <1>2 DEF GetOk
  <2>4. /\ entry' \in [Caches -> [Tokens -> 0..MaxVersion]]
        /\ expires' \in [Caches -> [Tokens -> 0..(MaxTime + TTL)]]
        /\ \A d \in Caches, u \in Tokens :
             /\ entry'[d][u] = 0 <=> expires'[d][u] = 0
             /\ EntryOk(d, u)'
    BY <1>1, <1>2, <2>1, <2>2, <2>3, StoreCache DEF GetFields
  <2>5. TypeOK'
    BY <1>1, <1>3, <2>4 DEF CacheInv, TypeOK, TokenInv
  <2>6. QED
    BY <1>1, <1>3, <2>4, <2>5 DEF CacheInv
<1>6. QED
  BY <1>4, <1>5

\* A fetch fails.
LEMMA FailsCache ==
  ASSUME CacheInv, NEW g \in Gets, Fails(g)
  PROVE  CacheInv'
<1>1. UNCHANGED <<tokenVars, changed, now, cacheVars>> /\ TokenInv'
  BY TokensSame DEF Fails, CacheInv
<1>2. /\ \A h \in Gets : GetOk(h)'
      /\ get' \in [Gets -> {NoGet} \cup
                     [st : {"asked", "answered"}, cache : Caches,
                      of : Tokens, v : 0..MaxVersion, since : Times]]
  BY <1>1, GetEnds DEF Fails
<1>3. TypeOK'
  BY <1>1, <1>2 DEF CacheInv, TypeOK, TokenInv
<1>4. ASSUME NEW d \in Caches, NEW u \in Tokens PROVE EntryOk(d, u)'
  BY <1>1, ReplySame DEF EntryOk, CacheInv
<1>5. QED
  BY <1>1, <1>2, <1>3, <1>4 DEF CacheInv

\* Time passes.
LEMMA TickCache == ASSUME CacheInv, Tick PROVE CacheInv'
<1> USE CacheAssumption
<1>0. /\ UNCHANGED <<tokenVars, changed, cacheVars, get>> /\ TokenInv'
      /\ now \in Nat /\ now' = now + 1 /\ now' \in Times
  BY TokensSame DEF Tick, CacheInv, TypeOK, Times
<1>1. TypeOK'
  BY <1>0 DEF CacheInv, TypeOK, TokenInv
<1>2. ASSUME NEW g \in Gets PROVE GetOk(g)'
  <2>1. CASE get[g] # NoGet
    <3>1. GetFields(g) /\ GetOk(g) /\ now < get[g].since + Patience[get[g].cache]
      BY <2>1, GetTyped DEF CacheInv, Tick
    <3>2. get[g].since \in Nat /\ Patience[get[g].cache] \in Nat
      <4>1. get[g].cache \in Caches /\ get[g].since \in 0..MaxTime
        BY <3>1 DEF GetFields, Times
      <4>2. Patience[get[g].cache] \in Nat
        BY <4>1
      <4>3. get[g].since \in Nat
        BY <4>1
      <4>4. QED
        BY <4>2, <4>3
    <3>3. get[g].since <= now + 1 /\ now + 1 <= get[g].since + Patience[get[g].cache]
      BY <1>0, <2>1, <3>1, <3>2 DEF GetOk
    <3>4. QED
      BY <1>0, <2>1, <3>1, <3>3, ReplySame DEF GetOk
  <2>2. CASE get[g] = NoGet
    BY <1>0, <2>2 DEF GetOk
  <2>3. QED
    BY <2>1, <2>2
<1>3. ASSUME NEW c \in Caches, NEW t \in Tokens PROVE EntryOk(c, t)'
  <2>1. EntryOk(c, t) /\ expires[c][t] \in Nat /\ TTL \in Nat
    BY DEF CacheInv, TypeOK
  <2>2. entry[c][t] # 0 => expires[c][t] <= now + 1 + TTL
    BY <1>0, <2>1 DEF EntryOk
  <2>3. QED
    BY <1>0, <2>1, <2>2, ReplySame DEF EntryOk
<1>4. QED
  BY <1>0, <1>1, <1>2, <1>3 DEF CacheInv

\* The gateway starts again.
LEMMA RestartCache == ASSUME CacheInv, RestartGateway PROVE CacheInv'
<1>1. UNCHANGED <<tokenVars, changed, now>> /\ TokenInv'
  BY TokensSame DEF RestartGateway, CacheInv
<1>2. TypeOK'
  BY <1>1, CacheAssumption, TokenAssumption
     DEF RestartGateway, CacheInv, TypeOK, TokenInv
<1>3. QED
  BY <1>1, <1>2 DEF RestartGateway, CacheInv, GetOk, EntryOk

\* One step of anybody.
LEMMA NextCache == CacheInv /\ [Next]_vars => CacheInv'
<1> SUFFICES ASSUME CacheInv, [Next]_vars PROVE CacheInv'
  OBVIOUS
<1>1. CASE RowNext /\ Noted /\ UNCHANGED gatewayVars
  <2>1. TokenInv'
    BY <1>1, NextTokens DEF TokenNext, CacheInv
  <2>2. get' \in [Gets -> {get[g] : g \in Gets} \cup {NoGet}]
    BY <1>1 DEF CacheInv, TypeOK
  <2>3. QED
    BY <1>1, <2>1, <2>2, NotedCache
<1>2. CASE ApiRestarts
  <2>1. TokenInv'
    BY <1>2, NextTokens DEF ApiRestarts, TokenNext, CacheInv
  <2>2. /\ \A g \in Gets : get'[g] = get[g] \/ get'[g] = NoGet
        /\ get' \in [Gets -> {get[g] : g \in Gets} \cup {NoGet}]
    BY <1>2 DEF ApiRestarts
  <2>3. QED
    BY <1>2, <2>1, <2>2, NotedCache DEF ApiRestarts
<1>3. ASSUME NEW g \in Gets, NEW c \in Caches, NEW t \in Tokens, Ask(g, c, t)
      PROVE  CacheInv'
  BY <1>3, AskCache
<1>4. ASSUME NEW g \in Gets, Answer(g) \/ Arrive(g) \/ Fails(g)
      PROVE  CacheInv'
  BY <1>4, AnswerCache, ArriveCache, FailsCache
<1>5. CASE Tick \/ RestartGateway
  BY <1>5, TickCache, RestartCache
<1>6. CASE UNCHANGED vars
  <2>1. TokenInv' /\ TypeOK'
    BY <1>6, TokensSame DEF CacheInv, TypeOK, TokenInv
  <2>2. QED
    BY <1>6, <2>1, ReplySame DEF CacheInv, GetOk, EntryOk
<1>7. QED
  BY <1>1, <1>2, <1>3, <1>4, <1>5, <1>6 DEF Next

\* Tables, caches and fetches keep their types; what is not cached does not
\* expire.
THEOREM TypeCorrect == Spec => []TypeOK
<1>1. Spec => []CacheInv
  BY InitCache, NextCache, PTL DEF Spec
<1>2. CacheInv => TypeOK
  BY DEF CacheInv
<1>3. QED
  BY <1>1, <1>2, PTL

\* A token that was revoked, deleted or replaced is served no longer than the
\* time to live and the timeout of one fetch.
THEOREM Fresh == Spec => []CacheFresh
<1>1. Spec => []CacheInv
  BY InitCache, NextCache, PTL DEF Spec
<1>2. CacheInv => CacheFresh
  <2> SUFFICES ASSUME CacheInv, NEW c \in Caches, NEW t \in Tokens, Valid(c, t),
                      entry[c][t] # Reply(c, t)
               PROVE  now < changed[c][t] + TTL + Patience[c]
    BY DEF CacheFresh
  <2>1. /\ now < expires[c][t]
        /\ expires[c][t] <= changed[c][t] + TTL + Patience[c]
    BY DEF Valid, CacheInv, EntryOk
  <2>2. /\ now \in Nat /\ expires[c][t] \in Nat /\ changed[c][t] \in Nat
        /\ TTL \in Nat /\ Patience[c] \in Nat
    BY CacheAssumption DEF CacheInv, TypeOK, Times
  <2>3. QED
    BY <2>1, <2>2
<1>3. QED
  BY <1>1, <1>2, PTL

\* The API behind the gateway is the API by itself: the caches and the fetches
\* add no step to it and take none away, so that nothing of a deleted token is
\* left there either, and a clone shown as ok can be served.
THEOREM BehavesAsTokens ==
  Spec => TokenSpec /\ []NoOrphans /\ []StampTells
<1>1. Init => TokenInit
  BY DEF Init
<1>2. [Next]_vars => [TokenNext]_tokenVars
  <2> SUFFICES ASSUME [Next]_vars PROVE TokenNext \/ UNCHANGED tokenVars
    OBVIOUS
  <2>1. CASE RowNext /\ Noted /\ UNCHANGED gatewayVars
    BY <2>1 DEF TokenNext
  <2>2. CASE ApiRestarts
    BY <2>2 DEF ApiRestarts, TokenNext
  <2>3. ASSUME NEW g \in Gets, NEW c \in Caches, NEW t \in Tokens, Ask(g, c, t)
        PROVE  UNCHANGED tokenVars
    BY <2>3 DEF Ask
  <2>4. ASSUME NEW g \in Gets, Answer(g) \/ Arrive(g) \/ Fails(g)
        PROVE  UNCHANGED tokenVars
    BY <2>4 DEF Answer, Arrive, Fails
  <2>5. CASE Tick \/ RestartGateway
    BY <2>5 DEF Tick, RestartGateway
  <2>6. CASE UNCHANGED vars
    BY <2>6
  <2>7. QED
    BY <2>1, <2>2, <2>3, <2>4, <2>5, <2>6 DEF Next
<1>3. Spec => TokenSpec
  BY <1>1, <1>2, PTL DEF Spec, TokenSpec
<1>4. QED
  BY <1>3, DeletedLeavesNothing, StampsTell, PTL
=============================================================================
