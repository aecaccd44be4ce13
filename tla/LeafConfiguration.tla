------------------------- MODULE LeafConfiguration -------------------------
(***************************************************************************)
(* The Entity Configuration cache of a Leaf (packages/leaf/src/            *)
(* entity-configuration.ts): concurrent requests share one build, and      *)
(* refreshEntityConfiguration supersedes the builds before it.             *)
(*                                                                         *)
(* A build is named after the caller that starts it and awaits it.  What   *)
(* it signs is abstracted to the version of the key set it read: the       *)
(* number of changes the key provider had seen.                            *)
(***************************************************************************)
EXTENDS Integers

CONSTANTS
    Callers,        \* of getEntityConfiguration and of the refresh
    None,           \* null
    TtlSeconds,     \* entityConfigurationTtlSeconds
    MaxGeneration,  \* bound: refreshes
    MaxVersion,     \* bound: changes of the key provider
    MaxTime         \* bound: the last instant of the clock

ASSUME NoneAssumption == None \notin Callers
ASSUME NumberAssumption ==
    /\ TtlSeconds \in Nat \ {0}
    /\ MaxGeneration \in Nat /\ MaxVersion \in Nat /\ MaxTime \in Nat

VARIABLES
    generation,     \* the counter of refreshes
    cached,         \* version of cachedJwt, or -1 for null
    cachedExp,      \* cachedExp; meaningless while cached is null
    inflight,       \* the build calls may join, or None
    build,          \* caller -> the build it started and awaits
    pc,             \* caller -> "idle" or "awaiting"
    awaits,         \* caller -> the build it awaits
    version,        \* the key provider's changes so far
    now,            \* nowSeconds()
    \* Kept for the properties only:
    refreshed,      \* the version when the last refresh was called
    due             \* caller -> the value of refreshed when it called

leaf == <<generation, cached, cachedExp, inflight>>
client == <<pc, awaits, due>>
vars == <<leaf, build, client, version, now, refreshed>>

NoJwt == -1
NoBuild == [step |-> "none", generation |-> 0, version |-> 0, exp |-> 0]
Steps == {"none", "keys", "signing", "built", "broken"}
----------------------------------------------------------------------------
(* Caller c awaits a build; `least' is what the build has to show.         *)
Await(c, b, least) ==
    /\ pc' = [pc EXCEPT ![c] = "awaiting"]
    /\ awaits' = [awaits EXCEPT ![c] = b]
    /\ due' = [due EXCEPT ![c] = least]

(* A new build of the given generation, awaited as `inflight'.             *)
StartBuild(c, g, least) ==
    /\ build' = [build EXCEPT ![c] = [step |-> "keys", generation |-> g,
                                      version |-> 0, exp |-> 0]]
    /\ inflight' = c
    /\ Await(c, c, least)

Usable == cached # NoJwt /\ now < cachedExp

(* Mutant: an expired or missing cache always starts a build.              *)
GetEntityConfigurationAlone(c) ==
    /\ pc[c] = "idle" /\ ~Usable
    /\ StartBuild(c, generation, refreshed)
    /\ UNCHANGED <<generation, cached, cachedExp, version, now, refreshed>>

(* getEntityConfiguration: the cached JWT at once, the build under way, or *)
(* a build of its own.                                                     *)
GetEntityConfiguration(c) ==
    /\ pc[c] = "idle"
    /\ \/ /\ Usable
          /\ UNCHANGED <<leaf, build, client>>
       \/ /\ ~Usable /\ inflight # None
          /\ Await(c, inflight, refreshed)
          /\ UNCHANGED <<leaf, build>>
       \/ /\ ~Usable /\ inflight = None
          /\ StartBuild(c, generation, refreshed)
          /\ UNCHANGED <<generation, cached, cachedExp>>
    /\ UNCHANGED <<version, now, refreshed>>

(* refreshEntityConfiguration: a new generation with an empty cache.       *)
RefreshEntityConfiguration(c) ==
    /\ pc[c] = "idle" /\ generation < MaxGeneration
    /\ generation' = generation + 1
    /\ cached' = NoJwt /\ cachedExp' = 0
    /\ StartBuild(c, generation + 1, version)
    /\ refreshed' = version
    /\ UNCHANGED <<version, now>>

At(b, step) == build[b].step = step
----------------------------------------------------------------------------
(* buildEntityConfiguration.  The key set is read, or the provider fails   *)
(* or returns one that does not validate.                                  *)
ReadKeys(b, ok) ==
    /\ At(b, "keys")
    /\ build' = [build EXCEPT ![b] =
                   IF ok THEN [@ EXCEPT !.step = "signing", !.version = version,
                                        !.exp = now + TtlSeconds]
                   ELSE [@ EXCEPT !.step = "broken"]]
    /\ UNCHANGED <<leaf, client, version, now, refreshed>>

(* Mutant: the cache is filled whatever the generation.                    *)
SignUnguarded(b, ok) ==
    /\ At(b, "signing")
    /\ build' = [build EXCEPT ![b].step = IF ok THEN "built" ELSE "broken"]
    /\ cached' = IF ok THEN build[b].version ELSE cached
    /\ cachedExp' = IF ok THEN build[b].exp ELSE cachedExp
    /\ UNCHANGED <<generation, inflight, client, version, now, refreshed>>

(* The signature is made: the cache takes it unless a refresh came first.  *)
Sign(b, ok) ==
    /\ At(b, "signing")
    /\ build' = [build EXCEPT ![b].step = IF ok THEN "built" ELSE "broken"]
    /\ IF ok /\ build[b].generation = generation
       THEN cached' = build[b].version /\ cachedExp' = build[b].exp
       ELSE UNCHANGED <<cached, cachedExp>>
    /\ UNCHANGED <<generation, inflight, client, version, now, refreshed>>

(* The callers that await build b resume, with its JWT or its error.       *)
Resume(b) ==
    /\ build' = [build EXCEPT ![b] = NoBuild]
    /\ pc' = [c \in Callers |-> IF awaits[c] = b THEN "idle" ELSE pc[c]]
    /\ awaits' = [c \in Callers |-> IF awaits[c] = b THEN c ELSE awaits[c]]
    /\ due' = [c \in Callers |-> IF awaits[c] = b THEN 0 ELSE due[c]]

(* Mutant: inflight is only cleared when the build succeeded.              *)
SettleOnSuccess(b) ==
    /\ At(b, "built") \/ At(b, "broken")
    /\ inflight' = IF build[b].generation = generation /\ At(b, "built")
                   THEN None ELSE inflight
    /\ Resume(b)
    /\ UNCHANGED <<generation, cached, cachedExp, version, now, refreshed>>

(* Mutant: callers that joined a superseded build are not resumed.         *)
SettleCurrentOnly(b) ==
    /\ At(b, "built") \/ At(b, "broken")
    /\ build[b].generation = generation
    /\ inflight' = None
    /\ Resume(b)
    /\ UNCHANGED <<generation, cached, cachedExp, version, now, refreshed>>

(* The finally handler: inflight is cleared unless a refresh replaced it.  *)
Settle(b) ==
    /\ At(b, "built") \/ At(b, "broken")
    /\ inflight' = IF build[b].generation = generation THEN None ELSE inflight
    /\ Resume(b)
    /\ UNCHANGED <<generation, cached, cachedExp, version, now, refreshed>>

(* publishKey, switchActiveKey, revokeKey or a retirement.                 *)
ProviderChanges ==
    /\ version < MaxVersion
    /\ version' = version + 1
    /\ UNCHANGED <<leaf, build, client, now, refreshed>>

Tick ==
    /\ now < MaxTime
    /\ now' = now + 1
    /\ UNCHANGED <<leaf, build, client, version, refreshed>>

Init ==
    /\ generation = 0 /\ cached = NoJwt /\ cachedExp = 0 /\ inflight = None
    /\ build = [c \in Callers |-> NoBuild]
    /\ pc = [c \in Callers |-> "idle"]
    /\ awaits = [c \in Callers |-> c]
    /\ due = [c \in Callers |-> 0]
    /\ version = 0 /\ now = 0 /\ refreshed = 0

BuildStep(b) ==
    \/ \E ok \in BOOLEAN : ReadKeys(b, ok) \/ Sign(b, ok)
    \/ Settle(b)

Next ==
    \/ \E c \in Callers :
          \/ GetEntityConfiguration(c) \/ RefreshEntityConfiguration(c)
          \/ BuildStep(c)
    \/ ProviderChanges
    \/ Tick

Spec == Init /\ [][Next]_vars

(* The event loop runs every continuation; the key provider and the signer *)
(* answer or fail.                                                         *)
FairSpec == Spec /\ \A c \in Callers : WF_vars(BuildStep(c))
----------------------------------------------------------------------------
(* The variables have their types.                                         *)
TypeOK ==
    /\ generation \in Nat /\ cached \in Nat \cup {NoJwt} /\ cachedExp \in Nat
    /\ inflight \in Callers \cup {None}
    /\ build \in [Callers -> [step : Steps, generation : Nat, version : Nat, exp : Nat]]
    /\ pc \in [Callers -> {"idle", "awaiting"}]
    /\ awaits \in [Callers -> Callers] /\ due \in [Callers -> Nat]
    /\ version \in Nat /\ now \in Nat /\ refreshed \in Nat

(* Once a refresh has been called, every later call is served a            *)
(* configuration with the keys as they were then or newer, from the cache  *)
(* or from the build it awaits, although builds begun before the refresh   *)
(* may end after it (docs/packages/leaf.md, line 128).                     *)
FreshAfterRefresh ==
    /\ cached # NoJwt => cached >= refreshed
    /\ \A c \in Callers : pc[c] = "awaiting" /\ At(awaits[c], "built") =>
          build[awaits[c]].version >= due[c]

Unfinished(b) == build[b].step # "none"

(* Calls share builds: each generation has at most one under way, and the  *)
(* one that calls may join is under way and of the current generation, so  *)
(* that a call made after a build has settled is not served its error.     *)
SingleFlight ==
    /\ \A b1, b2 \in Callers :
          Unfinished(b1) /\ Unfinished(b2)
          /\ build[b1].generation = build[b2].generation => b1 = b2
    /\ inflight # None =>
          Unfinished(inflight) /\ build[inflight].generation = generation

(* Every call is answered, whichever build it joined and whatever refresh  *)
(* supersedes that build.                                                  *)
EveryCallAnswered == \A c \in Callers : pc[c] = "awaiting" ~> pc[c] = "idle"
============================================================================
