------------------------- MODULE TrustChainSelect -------------------------
(***************************************************************************)
(* What callers do with the resolved chains: discoverEntity                *)
(* (trust-chain/discovery.ts), refreshTrustChain (trust-chain/refresh.ts)  *)
(* and the authority's resolve endpoint (authority/src/endpoints/          *)
(* resolve.ts), composed with TrustChainResolve.                           *)
(*                                                                         *)
(* They validate candidates one after the other, in the order in which the *)
(* concurrent walk happened to find them.  Whether a candidate validates   *)
(* is left open here.  The walk does not depend on its caller, so which of *)
(* the three it was is decided when the walk returns.                      *)
(***************************************************************************)
EXTENDS TrustChainResolve

CONSTANT Ops   \* the callers: "discover", "refresh", "endpoint"

VARIABLES
    op,        \* the caller, "none" before it matters
    cand,      \* index of the next candidate to validate
    valid,     \* indexes of the candidates that validated, in order
    invalid,   \* indexes of those that did not
    outcome,   \* "pending", "held", "error" or "chain"
    chosen     \* the path of the chain returned

select == <<op, cand, valid, invalid, outcome, chosen>>
allVars == <<vars, select>>

SelectInit ==
    /\ Init
    /\ op = "none"
    /\ cand = 1 /\ valid = <<>> /\ invalid = {}
    /\ outcome = "pending" /\ chosen = <<>>

(* refreshTrustChain: a chain that has not expired is returned as it is,   *)
(* unless forceRefresh is set.                                             *)
KeepHeld ==
    /\ phase = "start" /\ outcome = "pending" /\ "refresh" \in Ops
    /\ op' = "refresh" /\ outcome' = "held"
    /\ UNCHANGED <<vars, cand, valid, invalid, chosen>>

(* resolveTrustChains on behalf of the caller.                             *)
Resolving == outcome = "pending" /\ Progress /\ UNCHANGED select
Aborting == outcome = "pending" /\ Abort /\ UNCHANGED select

(* The caller has the candidates.                                          *)
Receive(o) ==
    /\ phase = "returned" /\ op = "none" /\ outcome = "pending"
    /\ op' = o
    /\ UNCHANGED <<vars, cand, valid, invalid, outcome, chosen>>

(* Mutant: discovery takes the chain that validated first.                 *)
ShortestFirstFound(s) == chains[s[1]]

(* shortestChain: the stable sort keeps the first of the shortest.         *)
Shortest(s) ==
    LET i == CHOOSE i \in DOMAIN s :
                /\ \A j \in DOMAIN s : Len(chains[s[i]]) <= Len(chains[s[j]])
                /\ \A j \in 1..(i - 1) : Len(chains[s[i]]) < Len(chains[s[j]])
    IN  chains[s[i]]

(* validateTrustChain on the next candidate.  Refresh returns the first    *)
(* that is valid, the endpoint answers 404 if the first is not, discovery  *)
(* collects all that are.                                                  *)
Validate(ok) ==
    /\ op # "none" /\ outcome = "pending" /\ cand <= Len(chains)
    /\ cand' = cand + 1
    /\ valid' = IF ok THEN Append(valid, cand) ELSE valid
    /\ invalid' = IF ok THEN invalid ELSE invalid \cup {cand}
    /\ IF op = "discover" THEN UNCHANGED <<outcome, chosen>>
       ELSE IF ok THEN outcome' = "chain" /\ chosen' = chains[cand]
       ELSE /\ outcome' = IF op = "endpoint" THEN "error" ELSE outcome
            /\ UNCHANGED chosen
    /\ UNCHANGED <<vars, op>>

(* No candidate is left.                                                   *)
Conclude ==
    /\ op # "none" /\ outcome = "pending" /\ cand > Len(chains)
    /\ IF valid = <<>>
       THEN outcome' = "error" /\ UNCHANGED chosen
       ELSE outcome' = "chain" /\ chosen' = Shortest(valid)
    /\ UNCHANGED <<vars, op, cand, valid, invalid>>

Concluded == outcome # "pending" /\ UNCHANGED allVars

SelectNext ==
    \/ KeepHeld \/ Resolving \/ Aborting \/ Conclude \/ Concluded
    \/ \E o \in Ops : Receive(o)
    \/ \E ok \in BOOLEAN : Validate(ok)

SelectSpec == SelectInit /\ [][SelectNext]_allVars

(* The event loop runs every continuation, and performFetch bounds each    *)
(* fetch by httpTimeoutMs.                                                 *)
FairSelectSpec == SelectSpec /\ WF_allVars(Resolving)
----------------------------------------------------------------------------
ChainReturned == outcome = "chain"

(* The walk returns to every caller that started it: no slot transfer,     *)
(* rejection or loop in the graph leaves a branch waiting for ever.        *)
Termination == <>(phase = "returned" \/ outcome = "held")

(* discoverEntity returns the shortest chain of the federation graph that  *)
(* no answer cut off, whose validation did not fail and that the limits    *)
(* allow (discovery.ts, line 15), in whatever order the walk found them.   *)
DiscoveryShortest ==
    op = "discover" /\ ChainReturned /\ ~incomplete =>
        \A p \in ReferenceChains :
            \/ Len(chosen) <= Len(p)
            \/ \E b \in failed : path[b] = SubSeq(p, 1, Len(path[b]))
            \/ \E i \in invalid : chains[i] = p

(* refreshTrustChain returns the shortest valid candidate, as the comment  *)
(* above its loop says (refresh.ts, line 38: "Validate the best chain      *)
(* (shortest)").  It does not: it returns the first that validates in      *)
(* resolution order.                                                       *)
RefreshShortest ==
    op = "refresh" /\ ChainReturned =>
        \A i \in DOMAIN chains : i \notin invalid => Len(chosen) <= Len(chains[i])
============================================================================
