---------------------- MODULE LeafConfigurationProofs ----------------------
(***************************************************************************)
(* LeafConfiguration: freshness after a refresh and the sharing of builds, *)
(* for any number of callers, refreshes and changes of the key provider.   *)
(***************************************************************************)
EXTENDS LeafConfiguration, TLAPS

(* A build that is under way is awaited by the caller that started it, and *)
(* whoever waits, waits for a build that is under way.                     *)
Ownership ==
    \A c \in Callers :
        /\ Unfinished(c) => pc[c] = "awaiting" /\ awaits[c] = c
        /\ pc[c] = "awaiting" => Unfinished(awaits[c])

(* Builds never come from the future, generations do not share them, and   *)
(* inflight is the build of the current generation.                        *)
Generations ==
    /\ \A b \in Callers : Unfinished(b) => build[b].generation <= generation
    /\ \A b1, b2 \in Callers :
          Unfinished(b1) /\ Unfinished(b2)
          /\ build[b1].generation = build[b2].generation => b1 = b2
    /\ \A b \in Callers :
          inflight = b <=> Unfinished(b) /\ build[b].generation = generation

HasKeys(b) == build[b].step \in {"signing", "built"}

(* What is promised to callers exists, and a build that has read its keys  *)
(* keeps the promise of each caller that awaits it; one of the current     *)
(* generation, and the cache, keep that of the last refresh.               *)
Freshness ==
    /\ refreshed <= version
    /\ cached # NoJwt => cached >= refreshed
    /\ \A c \in Callers : due[c] <= version
    /\ \A b \in Callers :
          HasKeys(b) /\ build[b].generation = generation => build[b].version >= refreshed
    /\ \A c \in Callers :
          pc[c] = "awaiting" /\ HasKeys(awaits[c]) => build[awaits[c]].version >= due[c]

IInv == TypeOK /\ Ownership /\ Generations /\ Freshness

LEMMA InitIInv == Init => IInv
  BY NoneAssumption DEF Init, IInv, TypeOK, Ownership, Generations, Freshness,
     Unfinished, HasKeys, NoBuild, NoJwt, Steps

(* A caller that is idle has no build, and nobody awaits one of it.        *)
LEMMA IdleHasNoBuild ==
    ASSUME IInv, NEW c \in Callers, pc[c] = "idle"
    PROVE  /\ ~Unfinished(c)
           /\ \A d \in Callers : pc[d] = "awaiting" => awaits[d] # c
  BY DEF IInv, Ownership

LEMMA Typed ==
    ASSUME IInv
    PROVE  /\ generation \in Nat /\ version \in Nat /\ refreshed \in Nat
           /\ inflight \in Callers \cup {None}
           /\ \A b \in Callers : /\ build[b].generation \in Nat /\ build[b].version \in Nat
                                 /\ awaits[b] \in Callers /\ due[b] \in Nat
                                 /\ pc[b] \in {"idle", "awaiting"}
  BY DEF IInv, TypeOK

(* A step of a build that neither starts nor ends one.                     *)
LEMMA BuildGoesOn ==
    ASSUME IInv, UNCHANGED <<generation, inflight, pc, awaits>>,
           \A d \in Callers : /\ build'[d].step = "none" <=> build[d].step = "none"
                              /\ build'[d].generation = build[d].generation
    PROVE  Ownership' /\ Generations'
<1>1. Ownership'
  BY Typed DEF IInv, Ownership, Unfinished
<1>2. Generations'
  BY DEF IInv, Generations, Unfinished
<1> QED
  BY <1>1, <1>2

(* The new build of StartBuild, and the call that awaits it.               *)
LEMMA BuildStarted ==
    ASSUME IInv, NEW c \in Callers, pc[c] = "idle", NEW g \in Nat, NEW least \in Nat,
           StartBuild(c, g, least)
    PROVE  /\ build' \in [Callers -> [step : Steps, generation : Nat, version : Nat, exp : Nat]]
           /\ build'[c].step = "keys" /\ build'[c].generation = g
           /\ \A d \in Callers : d # c => /\ build'[d] = build[d]
                                          /\ pc'[d] = pc[d] /\ awaits'[d] = awaits[d]
                                          /\ due'[d] = due[d]
           /\ pc'[c] = "awaiting" /\ awaits'[c] = c /\ due'[c] = least
           /\ pc' \in [Callers -> {"idle", "awaiting"}]
           /\ awaits' \in [Callers -> Callers] /\ due' \in [Callers -> Nat]
           /\ inflight' = c
           /\ Ownership'
<1>2. /\ build' = [build EXCEPT ![c] = [step |-> "keys", generation |-> g,
                                        version |-> 0, exp |-> 0]]
      /\ pc' = [pc EXCEPT ![c] = "awaiting"] /\ awaits' = [awaits EXCEPT ![c] = c]
      /\ due' = [due EXCEPT ![c] = least] /\ inflight' = c
  BY DEF StartBuild, Await
<1>3. /\ build' \in [Callers -> [step : Steps, generation : Nat, version : Nat, exp : Nat]]
      /\ build'[c].step = "keys" /\ build'[c].generation = g
      /\ \A d \in Callers : d # c => /\ build'[d] = build[d]
                                     /\ pc'[d] = pc[d] /\ awaits'[d] = awaits[d]
                                     /\ due'[d] = due[d]
      /\ pc'[c] = "awaiting" /\ awaits'[c] = c /\ due'[c] = least
      /\ pc' \in [Callers -> {"idle", "awaiting"}]
      /\ awaits' \in [Callers -> Callers] /\ due' \in [Callers -> Nat]
  BY <1>2 DEF IInv, TypeOK, Steps
<1>4. Ownership'
  <2> SUFFICES ASSUME NEW d \in Callers
               PROVE  /\ Unfinished(d)' => pc'[d] = "awaiting" /\ awaits'[d] = d
                      /\ pc'[d] = "awaiting" => Unfinished(awaits[d])'
    BY DEF Ownership
  <2>1. CASE d = c
    BY <1>3, <2>1 DEF Unfinished
  <2>2. CASE d # c
    <3>1. /\ Unfinished(d) => pc[d] = "awaiting" /\ awaits[d] = d
          /\ pc[d] = "awaiting" => Unfinished(awaits[d]) /\ awaits[d] # c
      BY IdleHasNoBuild DEF IInv, Ownership
    <3>2. awaits[d] \in Callers
      BY DEF IInv, TypeOK
    <3> QED
      BY <1>3, <2>2, <3>1, <3>2 DEF Unfinished
  <2> QED
    BY <2>1, <2>2
<1> QED
  BY <1>2, <1>3, <1>4

(* A build starts in a generation that has none under way.                 *)
LEMMA NewGeneration ==
    ASSUME IInv, NEW c \in Callers, inflight' = c, generation' \in Nat,
           generation <= generation',
           \A b \in Callers : Unfinished(b) => build[b].generation # generation',
           build'[c].step = "keys", build'[c].generation = generation',
           \A d \in Callers : d # c => build'[d] = build[d]
    PROVE  Generations'
<1> DEFINE busy(b) == build[b].step # "none"
<1>1. /\ \A b \in Callers : busy(b) => build[b].generation <= generation
      /\ \A b1, b2 \in Callers : busy(b1) /\ busy(b2)
            /\ build[b1].generation = build[b2].generation => b1 = b2
      /\ \A b \in Callers : busy(b) => build[b].generation # generation'
  BY DEF IInv, Generations, Unfinished
<1>2. \A b \in Callers : build'[b].step # "none" => build'[b].generation <= generation'
  BY <1>1, Typed
<1>3. \A b1, b2 \in Callers :
         build'[b1].step # "none" /\ build'[b2].step # "none"
         /\ build'[b1].generation = build'[b2].generation => b1 = b2
  <2> SUFFICES ASSUME NEW b1 \in Callers, NEW b2 \in Callers,
                      build'[b1].step # "none", build'[b2].step # "none",
                      build'[b1].generation = build'[b2].generation, b1 # b2
               PROVE  FALSE
    OBVIOUS
  <2>1. CASE b1 = c
    BY <1>1, <2>1
  <2>2. CASE b2 = c
    BY <1>1, <2>2
  <2>3. CASE b1 # c /\ b2 # c
    BY <1>1, <2>3
  <2> QED
    BY <2>1, <2>2, <2>3
<1>4. \A b \in Callers :
         inflight' = b <=> build'[b].step # "none" /\ build'[b].generation = generation'
  BY <1>1
<1> QED
  BY <1>2, <1>3, <1>4 DEF Generations, Unfinished

(* What a build that starts leaves of Freshness to be shown.               *)
LEMMA NewFreshness ==
    ASSUME IInv, NEW c \in Callers, pc[c] = "idle", version' = version,
           build'[c].step = "keys", awaits'[c] = c, due'[c] \in Nat, due'[c] <= version,
           \A d \in Callers : d # c => /\ build'[d] = build[d]
                                      /\ pc'[d] = pc[d] /\ awaits'[d] = awaits[d]
                                      /\ due'[d] = due[d],
           refreshed' <= version, cached' # NoJwt => cached' >= refreshed',
           generation' # generation \/ refreshed' = refreshed,
           generation' = generation \/
              \A b \in Callers : Unfinished(b) => build[b].generation # generation'
    PROVE  Freshness'
<1>1. \A d \in Callers : due'[d] <= version'
  BY DEF IInv, Freshness
<1>2. \A b \in Callers : HasKeys(b)' /\ build'[b].generation = generation'
                          => build'[b].version >= refreshed'
  BY DEF IInv, Freshness, HasKeys, Unfinished
<1>3. ASSUME NEW d \in Callers, pc'[d] = "awaiting", HasKeys(awaits[d])'
      PROVE  build'[awaits'[d]].version >= due'[d]
  <2>1. d # c
    BY <1>3 DEF HasKeys
  <2>2. awaits[d] # c /\ awaits[d] \in Callers
    BY <1>3, <2>1, IdleHasNoBuild, Typed
  <2>3. pc[d] = "awaiting" /\ HasKeys(awaits[d])
    BY <1>3, <2>1, <2>2 DEF HasKeys
  <2> QED
    BY <2>1, <2>2, <2>3 DEF IInv, Freshness
<1> QED
  BY <1>1, <1>2, <1>3 DEF Freshness

LEMMA GetIInv ==
    ASSUME IInv, NEW c \in Callers, GetEntityConfiguration(c) PROVE IInv'
<1>1. CASE Usable /\ UNCHANGED <<leaf, build, client>>
  BY <1>1 DEF GetEntityConfiguration, leaf, client, IInv, TypeOK, Ownership, Generations,
     Freshness, Unfinished, HasKeys
<1>2. CASE /\ inflight # None /\ Await(c, inflight, refreshed)
           /\ UNCHANGED <<leaf, build>>
  <2>1. inflight \in Callers /\ Unfinished(inflight)
        /\ build[inflight].generation = generation
    BY <1>2 DEF IInv, TypeOK, Generations
  <2>2. /\ pc[c] = "idle"
        /\ UNCHANGED <<generation, cached, cachedExp, inflight, build, version, now, refreshed>>
        /\ pc' = [pc EXCEPT ![c] = "awaiting"] /\ awaits' = [awaits EXCEPT ![c] = inflight]
        /\ due' = [due EXCEPT ![c] = refreshed]
    BY <1>2 DEF GetEntityConfiguration, Await, leaf
  <2>3. TypeOK'
    BY <2>1, <2>2 DEF IInv, TypeOK
  <2>4. Ownership'
    BY <2>1, <2>2, IdleHasNoBuild DEF IInv, TypeOK, Ownership, Unfinished
  <2>5. Generations'
    BY <2>2 DEF IInv, Generations, Unfinished
  <2>6. Freshness'
    BY <2>1, <2>2 DEF IInv, TypeOK, Freshness, HasKeys
  <2> QED
    BY <2>3, <2>4, <2>5, <2>6 DEF IInv
<1>3. CASE /\ inflight = None /\ StartBuild(c, generation, refreshed)
           /\ UNCHANGED <<generation, cached, cachedExp>>
  <2>1. pc[c] = "idle" /\ UNCHANGED <<generation, cached, cachedExp, version, now, refreshed>>
    BY <1>3 DEF GetEntityConfiguration
  <2>2. generation \in Nat /\ refreshed \in Nat
    BY DEF IInv, TypeOK
  <2>3. TypeOK' /\ Ownership'
    BY <1>3, <2>1, <2>2, BuildStarted DEF IInv, TypeOK
  <2>4. \A b \in Callers : Unfinished(b) => build[b].generation # generation
    BY <1>3, NoneAssumption DEF IInv, Generations
  <2>5. Generations'
    BY <1>3, <2>1, <2>2, <2>4, BuildStarted, NewGeneration
  <2>6. Freshness'
    BY <1>3, <2>1, <2>2, BuildStarted, NewFreshness DEF IInv, Freshness
  <2> QED
    BY <2>3, <2>5, <2>6 DEF IInv
<1> QED
  BY <1>1, <1>2, <1>3 DEF GetEntityConfiguration

LEMMA RefreshIInv ==
    ASSUME IInv, NEW c \in Callers, RefreshEntityConfiguration(c) PROVE IInv'
<1>1. /\ pc[c] = "idle" /\ generation' = generation + 1
      /\ cached' = NoJwt /\ cachedExp' = 0 /\ refreshed' = version
      /\ UNCHANGED <<version, now>> /\ StartBuild(c, generation + 1, version)
  BY DEF RefreshEntityConfiguration
<1>2. generation + 1 \in Nat /\ version \in Nat /\ generation \in Nat
  BY DEF IInv, TypeOK
<1>3. TypeOK' /\ Ownership'
  BY <1>1, <1>2, BuildStarted DEF IInv, TypeOK
<1>4. \A b \in Callers : Unfinished(b) => build[b].generation < generation + 1
  BY <1>2 DEF IInv, TypeOK, Generations
<1>5. \A b \in Callers : Unfinished(b) => build[b].generation # generation + 1
  BY <1>4, Typed
<1>6. Generations'
  BY <1>1, <1>2, <1>5, BuildStarted, NewGeneration
<1>7. Freshness'
  BY <1>1, <1>2, <1>5, BuildStarted, NewFreshness
<1> QED
  BY <1>3, <1>6, <1>7 DEF IInv
----------------------------------------------------------------------------
LEMMA ReadKeysIInv ==
    ASSUME IInv, NEW b \in Callers, NEW ok \in BOOLEAN, ReadKeys(b, ok) PROVE IInv'
<1>1. /\ build[b].step = "keys"
      /\ UNCHANGED <<generation, cached, cachedExp, inflight, pc, awaits, due, version, now,
                     refreshed>>
  BY DEF ReadKeys, At, leaf, client
<1>2. /\ build' \in [Callers -> [step : Steps, generation : Nat, version : Nat, exp : Nat]]
      /\ \A d \in Callers : d # b => build'[d] = build[d]
      /\ build'[b].generation = build[b].generation
      /\ \/ build'[b].step = "signing" /\ build'[b].version = version
         \/ build'[b].step = "broken"
  <2>1. CASE ok
    <3>1. now + TtlSeconds \in Nat /\ version \in Nat
      BY NumberAssumption DEF IInv, TypeOK
    <3>2. build' = [build EXCEPT ![b] = [@ EXCEPT !.step = "signing", !.version = version,
                                                  !.exp = now + TtlSeconds]]
      BY <2>1 DEF ReadKeys
    <3> QED
      BY <3>1, <3>2 DEF IInv, TypeOK, Steps
  <2>2. CASE ~ok
    <3>1. build' = [build EXCEPT ![b] = [@ EXCEPT !.step = "broken"]]
      BY <2>2 DEF ReadKeys
    <3> QED
      BY <3>1 DEF IInv, TypeOK, Steps
  <2> QED
    BY <2>1, <2>2
<1>3. TypeOK'
  BY <1>1, <1>2 DEF IInv, TypeOK
<1>4. Ownership' /\ Generations'
  BY <1>1, <1>2, BuildGoesOn
<1>5. Freshness'
  BY <1>1, <1>2, Typed DEF IInv, Freshness, HasKeys
<1> QED
  BY <1>3, <1>4, <1>5 DEF IInv

LEMMA SignIInv ==
    ASSUME IInv, NEW b \in Callers, NEW ok \in BOOLEAN, Sign(b, ok) PROVE IInv'
<1>1. /\ build[b].step = "signing"
      /\ UNCHANGED <<generation, inflight, pc, awaits, due, version, now, refreshed>>
  BY DEF Sign, At, client
<1>2. /\ build' \in [Callers -> [step : Steps, generation : Nat, version : Nat, exp : Nat]]
      /\ \A d \in Callers : d # b => build'[d] = build[d]
      /\ build'[b].generation = build[b].generation
      /\ build'[b].version = build[b].version
      /\ build'[b].step \in {"built", "broken"}
  BY DEF Sign, IInv, TypeOK, Steps
<1>3. \/ UNCHANGED <<cached, cachedExp>>
      \/ /\ build[b].generation = generation
         /\ cached' = build[b].version /\ cachedExp' = build[b].exp
  BY DEF Sign
<1>4. TypeOK'
  BY <1>1, <1>2, <1>3 DEF IInv, TypeOK
<1>5. Ownership' /\ Generations'
  BY <1>1, <1>2, BuildGoesOn
<1>6. Freshness'
  BY <1>1, <1>2, <1>3, Typed DEF IInv, Freshness, HasKeys
<1> QED
  BY <1>4, <1>5, <1>6 DEF IInv

LEMMA SettleIInv == ASSUME IInv, NEW b \in Callers, Settle(b) PROVE IInv'
<1>1. /\ Unfinished(b) /\ inflight' = IF build[b].generation = generation THEN None ELSE inflight
      /\ UNCHANGED <<generation, cached, cachedExp, version, now, refreshed>>
  BY DEF Settle, At, Unfinished
<1>2. /\ build' \in [Callers -> [step : Steps, generation : Nat, version : Nat, exp : Nat]]
      /\ build'[b].step = "none"
      /\ \A d \in Callers : d # b => build'[d] = build[d]
      /\ pc' \in [Callers -> {"idle", "awaiting"}]
      /\ awaits' \in [Callers -> Callers] /\ due' \in [Callers -> Nat]
  BY DEF Settle, Resume, IInv, TypeOK, NoBuild, Steps
<1>3. \A c \in Callers :
         \/ awaits[c] = b /\ pc'[c] = "idle" /\ due'[c] = 0
         \/ /\ awaits[c] # b /\ pc'[c] = pc[c] /\ awaits'[c] = awaits[c] /\ due'[c] = due[c]
  BY DEF Settle, Resume
<1>4. TypeOK'
  BY <1>1, <1>2 DEF IInv, TypeOK
<1>5. Ownership'
  BY <1>2, <1>3 DEF IInv, TypeOK, Ownership, Unfinished
<1>6. Generations'
  <2>1. \A d \in Callers : Unfinished(d)' <=> Unfinished(d) /\ d # b
    BY <1>2 DEF Unfinished
  <2>2. \A d \in Callers : d # b => build'[d].generation = build[d].generation
    BY <1>2
  <2>3. \A d \in Callers :
           inflight' = d <=> Unfinished(d) /\ d # b /\ build[d].generation = generation
    BY <1>1, NoneAssumption DEF IInv, Generations
  <2> QED
    BY <1>1, <2>1, <2>2, <2>3 DEF IInv, Generations
<1>7. Freshness'
  <2>1. \A d \in Callers : HasKeys(d)' => HasKeys(d) /\ d # b
    BY <1>2 DEF HasKeys
  <2>2. \A c \in Callers : due'[c] <= version
    BY <1>3, Typed DEF IInv, Freshness
  <2>3. \A c \in Callers : pc'[c] = "awaiting" => /\ pc[c] = "awaiting" /\ awaits'[c] = awaits[c]
                                                   /\ awaits[c] # b /\ due'[c] = due[c]
    BY <1>3
  <2>4. \A c \in Callers : pc'[c] = "awaiting" /\ HasKeys(awaits[c])'
                            => build'[awaits'[c]].version >= due'[c]
    BY <1>2, <2>3, Typed DEF IInv, Freshness, HasKeys
  <2> QED
    BY <1>1, <1>2, <2>1, <2>2, <2>4 DEF IInv, Freshness
<1> QED
  BY <1>4, <1>5, <1>6, <1>7 DEF IInv

LEMMA NextIInv == IInv /\ [Next]_vars => IInv'
<1> SUFFICES ASSUME IInv, [Next]_vars PROVE IInv'
  OBVIOUS
<1> USE DEF leaf, client
<1>1. CASE UNCHANGED vars
  BY <1>1 DEF vars, IInv, TypeOK, Ownership, Generations, Freshness, Unfinished, HasKeys
<1>2. CASE ProviderChanges
  BY <1>2 DEF ProviderChanges, IInv, TypeOK, Ownership, Generations, Freshness,
     Unfinished, HasKeys
<1>3. CASE Tick
  BY <1>3 DEF Tick, IInv, TypeOK, Ownership, Generations, Freshness, Unfinished, HasKeys
<1> QED
  BY <1>1, <1>2, <1>3, GetIInv, RefreshIInv, ReadKeysIInv, SignIInv, SettleIInv
     DEF Next, BuildStep

(* The inductive invariant holds in every reachable state.                 *)
THEOREM Invariance == Spec => []IInv
  BY InitIInv, NextIInv, PTL DEF Spec
----------------------------------------------------------------------------
(* The variables keep their types.                                         *)
THEOREM TypeCorrect == Spec => []TypeOK
<1>1. IInv => TypeOK
  BY DEF IInv
<1> QED
  BY <1>1, Invariance, PTL

(* After refreshEntityConfiguration no call, from the cache or from a      *)
(* build, is served keys older than the refresh.                           *)
THEOREM FreshCorrect == Spec => []FreshAfterRefresh
<1>1. IInv => FreshAfterRefresh
  BY DEF IInv, TypeOK, Freshness, HasKeys, FreshAfterRefresh, At
<1> QED
  BY <1>1, Invariance, PTL

(* getEntityConfiguration never starts a second build of a generation and  *)
(* never joins one that has settled or was superseded.                     *)
THEOREM SingleFlightCorrect == Spec => []SingleFlight
<1>1. IInv => SingleFlight
  BY DEF IInv, TypeOK, Generations, SingleFlight
<1> QED
  BY <1>1, Invariance, PTL
============================================================================
