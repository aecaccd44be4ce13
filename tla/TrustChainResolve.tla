------------------------ MODULE TrustChainResolve ------------------------
(***************************************************************************)
(* Bottom-up trust chain resolution: resolveTrustChains and the limiter of *)
(* createConcurrencyLimiter (packages/core/src/trust-chain/resolve.ts).    *)
(*                                                                         *)
(* The walk follows authority_hints upwards from the leaf, one branch per  *)
(* hint, all branches concurrently.  Each branch fetches the Entity        *)
(* Configuration of its hint and then the Subordinate Statement about the  *)
(* entity below; every fetch takes one unit of the shared budget and one   *)
(* slot of the limiter.  An AbortSignal may fire at any await.             *)
(*                                                                         *)
(* JavaScript runs a continuation to its next await.  One action is one    *)
(* continuation; the loop that starts a branch per hint, which does not    *)
(* await, is taken hint by hint while `cursor' excludes any other action.  *)
(***************************************************************************)
EXTENDS Integers, Sequences, FiniteSets

CONSTANTS
    Entities,         \* entity identifiers
    Leaf,             \* the entity whose chains are resolved
    Scenarios,        \* the federations and options to resolve under
    MaxDepth,         \* the largest options.maxChainDepth
    MaxHints,         \* options.maxAuthorityHints
    MaxConcurrent,    \* options.maxConcurrentFetches
    None              \* no synchronous loop is running

ASSUME EntityAssumption == Leaf \in Entities
(* A scenario: the authority_hints that are published, the trust anchors,  *)
(* maxChainDepth, maxTotalFetches and the <<hint, subject>> pairs that     *)
(* authorityHintFilter accepts.                                            *)
ASSUME ScenarioAssumption ==
    \A s \in Scenarios :
        /\ s.hints \in [Entities -> Seq(Entities)]
        /\ s.anchors \subseteq Entities
        /\ s.maxDepth \in 0..MaxDepth
        /\ s.maxTotalFetches \in Nat
        /\ s.filter \subseteq Entities \X Entities
ASSUME LimitAssumption ==
    MaxDepth \in Nat /\ MaxHints \in Nat /\ MaxConcurrent \in Nat \ {0}

(* A branch is named by the positions of the hints that lead to it; the    *)
(* empty sequence is the call of buildChains for the leaf.                 *)
Branches == UNION {[1..n -> 1..MaxHints] : n \in 0..MaxDepth}
Root == <<>>
ASSUME NoneAssumption == None \notin Branches

VARIABLES
    env,         \* the scenario, one of Scenarios
    phase,       \* "start", "leaf" (fetching it), "walking", "returned"
    pc, stage,   \* where each branch is, and whether for its "ec" or its "ss"
    path,        \* the entities from the leaf to a branch's hint (visited)
    cursor,      \* the branch whose hints are being started, or None
    next,        \* position of the next hint it starts
    remaining,   \* fetchBudget.remaining
    active,      \* the limiter's count of occupied slots
    queue,       \* the limiter's waiters
    listening,   \* whether the limiter's abort listener is registered
    aborted,     \* options.signal.aborted
    chains,      \* the paths of the chains found, in the order of discovery
    garbled,     \* branches whose Subordinate Statement does not decode
    errored,     \* whether any error was recorded
    incomplete,  \* the flag of the result
    \* Kept for the properties only:
    failed,      \* branches cut off by an answer (or refusal) of the network
    started      \* number of fetches handed to the network

walk == <<pc, stage, path, cursor, next>>
limiter == <<active, queue, listening>>
result == <<chains, garbled, errored, incomplete>>
vars == <<env, phase, walk, remaining, limiter, aborted, result, failed, started>>

hints == env.hints
Anchors == env.anchors
Child(b, i) == Append(b, i)
Finished == {"unborn", "done", "rejected"}
Holding == {"granted", "fetching"}
Last(s) == s[Len(s)]
Visited(p) == {p[i] : i \in DOMAIN p}
----------------------------------------------------------------------------
(* Mutant: the first waiter does not register the abort listener.          *)
AcquireDeaf(b) ==
    \/ /\ active < MaxConcurrent
       /\ pc' = [pc EXCEPT ![b] = "granted"]
       /\ active' = active + 1
       /\ UNCHANGED <<queue, listening>>
    \/ /\ active >= MaxConcurrent
       /\ pc' = [pc EXCEPT ![b] = "queued"]
       /\ queue' = Append(queue, b)
       /\ UNCHANGED <<active, listening>>

(* The limiter.  acquire: refused after an abort, a free slot at once, or  *)
(* a place in the queue, whose first waiter registers the abort listener.  *)
Acquire(b) ==
    \/ /\ aborted
       /\ pc' = [pc EXCEPT ![b] = "rejected"]
       /\ UNCHANGED limiter
    \/ /\ ~aborted /\ active < MaxConcurrent
       /\ pc' = [pc EXCEPT ![b] = "granted"]
       /\ active' = active + 1
       /\ UNCHANGED <<queue, listening>>
    \/ /\ ~aborted /\ active >= MaxConcurrent
       /\ pc' = [pc EXCEPT ![b] = "queued"]
       /\ queue' = Append(queue, b)
       /\ listening' = (listening \/ queue = <<>>)
       /\ UNCHANGED active

(* Mutant: the slot is given back and no waiter is woken.                  *)
ReleaseForgetsWaiter(b, to) ==
    /\ pc' = [pc EXCEPT ![b] = to]
    /\ active' = active - 1
    /\ UNCHANGED <<queue, listening>>

(* The finally block: branch b goes on at `to', its slot passes to the     *)
(* first waiter or is given back.                                          *)
Release(b, to) ==
    \/ /\ queue # <<>>
       /\ pc' = [pc EXCEPT ![b] = to, ![Head(queue)] = "granted"]
       /\ queue' = Tail(queue)
       /\ listening' = (listening /\ Tail(queue) # <<>>)
       /\ UNCHANGED active
    \/ /\ queue = <<>>
       /\ pc' = [pc EXCEPT ![b] = to]
       /\ active' = active - 1
       /\ listening' = FALSE
       /\ UNCHANGED queue

(* onAbort rejects every waiter, if the listener is registered.            *)
Abort ==
    /\ cursor = None /\ ~aborted /\ phase # "returned"
    /\ aborted' = TRUE
    /\ pc' = [b \in Branches |->
                IF listening /\ b \in Visited(queue) THEN "rejected" ELSE pc[b]]
    /\ queue' = IF listening THEN <<>> ELSE queue
    /\ listening' = FALSE
    /\ UNCHANGED <<env, phase, stage, path, cursor, next, remaining, active,
                   result, failed, started>>
----------------------------------------------------------------------------
(* Mutant: the depth limit cuts the walk without setting the flag.         *)
BuildChainsSilent(b) ==
    \/ /\ Len(path[b]) > env.maxDepth
       /\ pc' = [pc EXCEPT ![b] = "done"]
       /\ errored' = TRUE
       /\ UNCHANGED <<cursor, next, incomplete>>
    \/ /\ Len(path[b]) <= env.maxDepth
       /\ pc' = [pc EXCEPT ![b] = "joining"]
       /\ cursor' = b /\ next' = 1
       /\ UNCHANGED <<errored, incomplete>>

(* buildChains for branch b, up to its loop over the hints: the depth      *)
(* limit, the abort check and the limit on hints.                          *)
BuildChains(b) ==
    \/ /\ Len(path[b]) > env.maxDepth
       /\ pc' = [pc EXCEPT ![b] = "done"]
       /\ incomplete' = TRUE /\ errored' = TRUE
       /\ UNCHANGED <<cursor, next>>
    \/ /\ Len(path[b]) <= env.maxDepth /\ aborted
       /\ pc' = [pc EXCEPT ![b] = "done"]
       /\ incomplete' = TRUE
       /\ UNCHANGED <<cursor, next, errored>>
    \/ /\ Len(path[b]) <= env.maxDepth /\ ~aborted
       /\ pc' = [pc EXCEPT ![b] = "joining"]
       /\ cursor' = b /\ next' = 1
       /\ incomplete' = (incomplete \/ Len(hints[Last(path[b])]) > MaxHints)
       /\ errored' = (errored \/ Len(hints[Last(path[b])]) > MaxHints)

(* The hints of the loop's branch that the slice keeps.                    *)
LoopHint == hints[Last(path[cursor])][next]
MoreHints == next <= MaxHints /\ next <= Len(hints[Last(path[cursor])])

(* The start of one hint's branch: filter, loop check, budget, limiter.    *)
StartHint ==
    /\ cursor # None /\ MoreHints
    /\ next' = next + 1
    /\ LET hint == LoopHint
           child == Child(cursor, next)
           end == [pc EXCEPT ![child] = "done"]
       IN  \/ /\ <<hint, Last(path[cursor])>> \notin env.filter
              /\ UNCHANGED <<pc, stage, path, remaining, limiter, errored, incomplete>>
           \/ /\ <<hint, Last(path[cursor])>> \in env.filter
              /\ hint \in Visited(path[cursor])
              /\ pc' = end /\ errored' = TRUE
              /\ UNCHANGED <<stage, path, remaining, limiter, incomplete>>
           \/ /\ <<hint, Last(path[cursor])>> \in env.filter
              /\ hint \notin Visited(path[cursor])
              /\ path' = [path EXCEPT ![child] = Append(path[cursor], hint)]
              /\ \/ /\ remaining <= 0
                    /\ pc' = end /\ errored' = TRUE /\ incomplete' = TRUE
                    /\ UNCHANGED <<stage, remaining, limiter>>
                 \/ /\ remaining > 0
                    /\ remaining' = remaining - 1
                    /\ stage' = [stage EXCEPT ![child] = "ec"]
                    /\ Acquire(child)
                    /\ UNCHANGED <<errored, incomplete>>
    /\ UNCHANGED <<env, phase, cursor, aborted, chains, garbled, failed, started>>

(* The loop is over: buildChains awaits its branches.                      *)
EndLoop ==
    /\ cursor # None /\ ~MoreHints
    /\ cursor' = None
    /\ UNCHANGED <<env, phase, pc, stage, path, next, remaining, limiter, aborted,
                   result, failed, started>>

(* Promise.allSettled has settled: record the rejected branches and return *)
(* to the branch, or from resolveTrustChains.                              *)
Join(b) ==
    /\ cursor = None /\ pc[b] = "joining"
    /\ LET children == {Child(b, i) : i \in 1..MaxHints} \cap Branches
           rejects == {c \in children : pc[c] = "rejected"}
       IN  /\ \A c \in children : pc[c] \in Finished
           /\ incomplete' = (incomplete \/ (aborted /\ (rejects # {} \/ b = Root)))
           /\ errored' = (errored \/ rejects # {})
    /\ pc' = [pc EXCEPT ![b] = "done"]
    /\ phase' = IF b = Root THEN "returned" ELSE phase
    /\ UNCHANGED <<env, stage, path, cursor, next, remaining, limiter, aborted,
                   chains, garbled, failed, started>>
----------------------------------------------------------------------------
(* The entry of resolveTrustChains: one unit of the budget for the leaf.   *)
Begin ==
    /\ phase = "start"
    /\ \/ /\ remaining <= 0
          /\ phase' = "returned" /\ incomplete' = TRUE /\ errored' = TRUE
          /\ UNCHANGED <<remaining, started>>
       \/ /\ remaining > 0
          /\ phase' = "leaf" /\ remaining' = remaining - 1 /\ started' = started + 1
          /\ UNCHANGED <<incomplete, errored>>
    /\ UNCHANGED <<env, walk, limiter, aborted, chains, garbled, failed>>

(* The leaf's Entity Configuration does not arrive, or is not one.         *)
LeafFails ==
    /\ phase = "leaf" /\ phase' = "returned"
    /\ errored' = TRUE
    /\ incomplete' \in {incomplete, incomplete \/ aborted}
    /\ failed' = failed \cup {Root}
    /\ UNCHANGED <<env, walk, remaining, limiter, aborted, chains, garbled, started>>

(* It arrives: a trust anchor on its own, an orphan, or the walk begins.   *)
LeafArrives ==
    /\ phase = "leaf"
    /\ \/ /\ hints[Leaf] = <<>>
          /\ phase' = "returned"
          /\ chains' = IF Leaf \in Anchors THEN <<<<Leaf>>>> ELSE chains
          /\ errored' = (Leaf \notin Anchors)
          /\ UNCHANGED <<pc, cursor, next, incomplete>>
       \/ /\ hints[Leaf] # <<>>
          /\ phase' = "walking"
          /\ BuildChains(Root)
          /\ UNCHANGED chains
    /\ UNCHANGED <<env, stage, path, remaining, limiter, aborted, garbled, failed, started>>

(* The leaf's configuration arrived but buildChains returned at once.      *)
ReturnEarly ==
    /\ phase = "walking" /\ pc[Root] = "done"
    /\ phase' = "returned"
    /\ incomplete' = (incomplete \/ aborted)
    /\ UNCHANGED <<env, walk, remaining, limiter, aborted, chains, garbled, errored,
                   failed, started>>

(* Mutant: the signal is not checked again after the slot was granted.     *)
StartFetchUnchecked(b) ==
    /\ cursor = None /\ pc[b] = "granted"
    /\ pc' = [pc EXCEPT ![b] = "fetching"]
    /\ started' = started + 1
    /\ UNCHANGED <<env, phase, stage, path, cursor, next, remaining, limiter, aborted,
                   result, failed>>

(* A branch that holds a slot hands its fetch to the network, unless the   *)
(* signal fired since the slot was granted.                                *)
StartFetch(b) ==
    /\ cursor = None /\ pc[b] = "granted"
    /\ \/ /\ aborted
          /\ Release(b, "rejected")
          /\ UNCHANGED started
       \/ /\ ~aborted
          /\ pc' = [pc EXCEPT ![b] = "fetching"]
          /\ started' = started + 1
          /\ UNCHANGED limiter
    /\ UNCHANGED <<env, phase, stage, path, cursor, next, remaining, aborted, result, failed>>

(* The fetch ends, within its timeout: with a usable statement, with an    *)
(* error, with an exception, or with a Subordinate Statement that does not *)
(* decode, which nobody looks at before the chain is complete.             *)
FetchEnds(b, answer) ==
    /\ cursor = None /\ pc[b] = "fetching"
    /\ answer = "garbled" => stage[b] = "ss"
    /\ Release(b, CASE answer = "error" -> "done"
                    [] answer = "throws" -> "rejected"
                    [] OTHER -> "got")
    /\ errored' = (errored \/ answer = "error")
    /\ garbled' = IF answer = "garbled" THEN garbled \cup {b} ELSE garbled
    /\ failed' = IF answer = "ok" THEN failed ELSE failed \cup {b}
    /\ UNCHANGED <<env, phase, stage, path, cursor, next, remaining, aborted,
                   chains, incomplete, started>>

(* Mutant: the budget is checked but only spent by the configuration.      *)
FetchStatementFree(b) ==
    /\ cursor = None /\ pc[b] = "got" /\ stage[b] = "ec"
    /\ remaining > 0
    /\ stage' = [stage EXCEPT ![b] = "ss"]
    /\ Acquire(b)
    /\ UNCHANGED <<env, phase, path, cursor, next, remaining, aborted, result, failed, started>>

(* With the hint's configuration: take budget and a slot for the statement *)
(* about the entity below.                                                 *)
FetchStatement(b) ==
    /\ cursor = None /\ pc[b] = "got" /\ stage[b] = "ec"
    /\ \/ /\ remaining <= 0
          /\ pc' = [pc EXCEPT ![b] = "done"]
          /\ incomplete' = TRUE /\ errored' = TRUE
          /\ UNCHANGED <<stage, remaining, limiter>>
       \/ /\ remaining > 0
          /\ remaining' = remaining - 1
          /\ stage' = [stage EXCEPT ![b] = "ss"]
          /\ Acquire(b)
          /\ UNCHANGED <<incomplete, errored>>
    /\ UNCHANGED <<env, phase, path, cursor, next, aborted, chains, garbled, failed, started>>

(* The branches on the way from the leaf to b.                             *)
Prefixes(b) == {SubSeq(b, 1, n) : n \in 1..Len(b)}

(* Mutant: any entity without superiors ends a chain.                      *)
ClimbAnyRoot(b) ==
    /\ cursor = None /\ pc[b] = "got" /\ stage[b] = "ss"
    /\ \/ /\ hints[Last(path[b])] = <<>>
          /\ pc' = [pc EXCEPT ![b] = "done"]
          /\ chains' = Append(chains, path[b])
          /\ UNCHANGED <<cursor, next, errored, incomplete>>
       \/ /\ hints[Last(path[b])] # <<>>
          /\ BuildChains(b)
          /\ UNCHANGED chains
    /\ UNCHANGED <<env, phase, stage, path, remaining, limiter, aborted, garbled,
                   failed, started>>

(* With both statements: a chain if the hint is an anchor and all of its   *)
(* statements decode (no error is recorded if one does not), an error if   *)
(* the hint leads nowhere, the next level of the walk otherwise.           *)
Climb(b) ==
    /\ cursor = None /\ pc[b] = "got" /\ stage[b] = "ss"
    /\ \/ /\ Last(path[b]) \in Anchors
          /\ pc' = [pc EXCEPT ![b] = "done"]
          /\ chains' = IF Prefixes(b) \cap garbled = {}
                       THEN Append(chains, path[b]) ELSE chains
          /\ UNCHANGED <<cursor, next, errored, incomplete>>
       \/ /\ Last(path[b]) \notin Anchors /\ hints[Last(path[b])] = <<>>
          /\ pc' = [pc EXCEPT ![b] = "done"]
          /\ errored' = TRUE
          /\ UNCHANGED <<cursor, next, chains, incomplete>>
       \/ /\ Last(path[b]) \notin Anchors /\ hints[Last(path[b])] # <<>>
          /\ BuildChains(b)
          /\ UNCHANGED chains
    /\ UNCHANGED <<env, phase, stage, path, remaining, limiter, aborted, garbled,
                   failed, started>>
----------------------------------------------------------------------------
Init ==
    /\ env \in Scenarios
    /\ phase = "start"
    /\ pc = [b \in Branches |-> "unborn"]
    /\ stage = [b \in Branches |-> "ec"]
    /\ path = [b \in Branches |-> <<Leaf>>]
    /\ cursor = None /\ next = 1
    /\ remaining = env.maxTotalFetches
    /\ active = 0 /\ queue = <<>> /\ listening = FALSE
    /\ aborted \in BOOLEAN
    /\ chains = <<>> /\ garbled = {} /\ errored = FALSE /\ incomplete = FALSE
    /\ failed = {} /\ started = 0

Answers == {"ok", "error", "throws", "garbled"}

(* What the event loop and the network do; the caller may also abort.      *)
Progress ==
    \/ Begin \/ LeafFails \/ LeafArrives \/ ReturnEarly
    \/ StartHint \/ EndLoop
    \/ \E b \in Branches : Join(b)
    \/ \E b \in Branches : StartFetch(b)
    \/ \E b \in Branches, answer \in Answers : FetchEnds(b, answer)
    \/ \E b \in Branches : FetchStatement(b)
    \/ \E b \in Branches : Climb(b)

Returned == phase = "returned" /\ UNCHANGED vars

Next == Progress \/ Abort \/ Returned

Spec == Init /\ [][Next]_vars
----------------------------------------------------------------------------
Holders == {b \in Branches : pc[b] \in Holding}
Waiting == {b \in Branches : pc[b] = "queued"}

(* The limiter neither leaks nor duplicates a slot through transfers,      *)
(* aborts and rejections: its count is the number of branches that hold a  *)
(* slot, never above the limit.  And it forgets no waiter: the queue holds *)
(* each waiting branch once, and while it is not empty all slots are       *)
(* taken, the abort listener is registered and the signal has not fired.   *)
LimiterSound ==
    /\ active = Cardinality(Holders) /\ active <= MaxConcurrent
    /\ Visited(queue) = Waiting
    /\ \A i, j \in DOMAIN queue : queue[i] = queue[j] => i = j
    /\ queue # <<>> => active = MaxConcurrent /\ listening /\ ~aborted

(* Concurrent branches never overspend the budget: fetches made, units     *)
(* held by branches that still wait for a slot and units left stay within  *)
(* maxTotalFetches.                                                        *)
BudgetRespected ==
    started + Cardinality(Waiting \cup {b \in Branches : pc[b] = "granted"})
        + remaining <= env.maxTotalFetches

(* Once the signal fires, the walk hands nothing more to the network.      *)
NoFetchAfterAbort ==
    [][aborted /\ phase = "walking" => started' = started]_vars

(* Reference: the chains of the federation graph, with no concurrency.     *)
IsChainPath(p) ==
    /\ p[1] = Leaf /\ Last(p) \in Anchors
    /\ Cardinality(Visited(p)) = Len(p)
    /\ Len(p) = 1 => hints[Leaf] = <<>>
    /\ \A i \in 1..(Len(p) - 1) :
          /\ p[i + 1] \in Visited(hints[p[i]])
          /\ <<p[i + 1], p[i]>> \in env.filter
          /\ i > 1 => p[i] \notin Anchors

ReferenceChains ==
    {p \in UNION {[1..n -> Entities] : n \in 1..Cardinality(Entities)} : IsChainPath(p)}

(* Whatever the order in which answers arrive, every chain reported is one *)
(* of the graph, free of loops, ending at the first anchor it meets.       *)
ResultSound == \A i \in DOMAIN chains : IsChainPath(chains[i])

(* A result that is not flagged incomplete misses a chain of the graph     *)
(* only because of an answer on its way: every limit and every abort that  *)
(* cuts the walk short sets the flag (docs/packages/core.md, line 328).    *)
ResultComplete ==
    phase = "returned" /\ ~incomplete =>
        \A p \in ReferenceChains :
            \/ p \in Visited(chains)
            \/ \E b \in failed : path[b] = SubSeq(p, 1, Len(path[b]))
============================================================================
