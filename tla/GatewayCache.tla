---------------------------- MODULE GatewayCache ----------------------------
(***************************************************************************)
(* The artifact responder of the gateway (apps/gateway/src/artifacts.ts)   *)
(* against the tokens of the API: token configurations, cloned pages and   *)
(* uploaded images are fetched from the API and kept for a while.          *)
(***************************************************************************)
EXTENDS TokenLifecycle

CONSTANTS
    Caches,     \* config, site, image: what is cached
    Gets,       \* fetches from the API that may be under way together
    TTL,        \* CONFIG_TTL_MS
    Patience,   \* the timeout of a fetch, per cache
    MaxTime     \* bound: the clock

ASSUME CacheAssumption ==
    /\ Caches \subseteq {"config", "site", "image"}
    /\ TTL \in Nat \ {0} /\ MaxTime \in Nat
    /\ Patience \in [Caches -> Nat]

VARIABLES
    now,
    entry,     \* cached version of a token; 0: none
    expires,
    get,       \* fetches
    changed    \* history: when the API's answer last changed

cacheVars == <<entry, expires>>
gatewayVars == <<now, cacheVars, get>>
vars == <<tokenVars, gatewayVars, changed>>

Times == 0..MaxTime
NoGet == [st |-> "idle", cache |-> "none", of |-> NoToken, v |-> 0, since |-> 0]
GetOf(st, c, t, v, since) ==
    [st |-> st, cache |-> c, of |-> t, v |-> v, since |-> since]

TypeOK ==
    /\ TokenTypeOK
    /\ now \in Times
    /\ entry \in [Caches -> [Tokens -> 0..MaxVersion]]
    /\ expires \in [Caches -> [Tokens -> 0..(MaxTime + TTL)]]
    /\ \A c \in Caches, t \in Tokens : entry[c][t] = 0 <=> expires[c][t] = 0
    /\ get \in [Gets -> {NoGet} \cup
                  [st : {"asked", "answered"}, cache : Caches, of : Tokens,
                   v : 0..MaxVersion, since : Times]]
    /\ changed \in [Caches -> [Tokens -> Times]]

Init ==
    /\ TokenInit
    /\ now = 0
    /\ entry = [c \in Caches |-> [t \in Tokens |-> 0]]
    /\ expires = [c \in Caches |-> [t \in Tokens |-> 0]]
    /\ get = [g \in Gets |-> NoGet]
    /\ changed = [c \in Caches |-> [t \in Tokens |-> 0]]

-----------------------------------------------------------------------------

\* What the API's internal routes answer: nothing but of active tokens, and a
\* file only of its own type.  The configuration does not change.
Reply(c, t) ==
    IF status[t] # "active" THEN 0
    ELSE IF c = "config" THEN 1
    ELSE IF /\ c = "site" => kind[t] = "cloned_website"
            /\ c = "image" => kind[t] = "custom_image"
         THEN file[t] ELSE 0

\* Variant: whatever was cached once.
Valid_NoExpiry(c, t) == entry[c][t] # 0

\* A request is served from the cache.
Valid(c, t) == entry[c][t] # 0 /\ now < expires[c][t]

\* A request is not: the API is asked.
Ask(g, c, t) ==
    /\ get[g] = NoGet
    /\ ~Valid(c, t)
    /\ get' = [get EXCEPT ![g] = GetOf("asked", c, t, 0, now)]
    /\ UNCHANGED <<tokenVars, changed, now, cacheVars>>

\* The API answers.
Answer(g) ==
    /\ get[g].st = "asked"
    /\ get' = [get EXCEPT ![g] =
                 GetOf("answered", get[g].cache, get[g].of,
                       Reply(get[g].cache, get[g].of), get[g].since)]
    /\ UNCHANGED <<tokenVars, changed, now, cacheVars>>

\* The answer is cached for the time to live.
Store(c, t, v) ==
    /\ entry' = [entry EXCEPT ![c] = [entry[c] EXCEPT ![t] = v]]
    /\ expires' = [expires EXCEPT ![c] = [expires[c] EXCEPT ![t] = now + TTL]]

\* Variant: a refusal is cached as well.
Arrive_CachesRefusal(g) ==
    /\ get[g].st = "answered"
    /\ Store(get[g].cache, get[g].of, get[g].v)
    /\ get' = [get EXCEPT ![g] = NoGet]
    /\ UNCHANGED <<tokenVars, changed, now>>

\* The answer arrives; a refusal is not cached, and drops nothing.
Arrive(g) ==
    /\ get[g].st = "answered"
    /\ IF get[g].v = 0 THEN UNCHANGED cacheVars
       ELSE Store(get[g].cache, get[g].of, get[g].v)
    /\ get' = [get EXCEPT ![g] = NoGet]
    /\ UNCHANGED <<tokenVars, changed, now>>

\* The fetch fails or times out: nothing is served.
Fails(g) ==
    /\ get[g] # NoGet
    /\ get' = [get EXCEPT ![g] = NoGet]
    /\ UNCHANGED <<tokenVars, changed, now, cacheVars>>

\* Time passes; a fetch does not outlive its timeout.
Tick ==
    /\ now < MaxTime
    /\ \A g \in {h \in Gets : get[h].st # "idle"} :
         now < get[g].since + Patience[get[g].cache]
    /\ now' = now + 1
    /\ UNCHANGED <<tokenVars, changed, cacheVars, get>>

\* The gateway starts with empty caches.
RestartGateway ==
    /\ entry' = [c \in Caches |-> [t \in Tokens |-> 0]]
    /\ expires' = [c \in Caches |-> [t \in Tokens |-> 0]]
    /\ get' = [g \in Gets |-> NoGet]
    /\ UNCHANGED <<tokenVars, changed, now>>

\* What the API does may change its answers.
Noted ==
    changed' = [c \in Caches |-> [t \in Tokens |->
                  IF Reply(c, t)' = Reply(c, t) THEN changed[c][t] ELSE now]]

\* The API's death ends the fetches it has not answered.
ApiRestarts ==
    /\ ApiDies
    /\ get' = [g \in Gets |-> IF get[g].st = "asked" THEN NoGet ELSE get[g]]
    /\ Noted
    /\ UNCHANGED <<now, cacheVars>>

Next ==
    \/ RowNext /\ Noted /\ UNCHANGED gatewayVars
    \/ ApiRestarts
    \/ \E g \in Gets, c \in Caches, t \in Tokens : Ask(g, c, t)
    \/ \E g \in Gets : Answer(g) \/ Arrive(g) \/ Fails(g)
    \/ Tick \/ RestartGateway

Spec == Init /\ [][Next]_vars

-----------------------------------------------------------------------------
(* Properties.                                                             *)

\* What is served from a cache is what the API would answer now, or was until
\* less than the time to live and one fetch ago: a token that is revoked,
\* deleted or replaced is served no longer than that.
CacheFresh ==
    \A c \in Caches, t \in Tokens :
        Valid(c, t) => \/ entry[c][t] = Reply(c, t)
                       \/ now < changed[c][t] + TTL + Patience[c]
=============================================================================
