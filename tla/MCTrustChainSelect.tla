------------------------ MODULE MCTrustChainSelect ------------------------
(* TrustChainSelect, and with it TrustChainResolve, for TLC: a leaf l      *)
(* under two intermediates a and b that may name each other, an anchor t.  *)
EXTENDS TrustChainSelect, TLC

CONSTANTS l, a, b, t

(* Two chains of different lengths, with and without a loop between the    *)
(* intermediates.                                                          *)
TwoChains == (l :> <<a, b>>) @@ (a :> <<b>>) @@ (b :> <<t>>) @@ (t :> <<>>)
Loop == (l :> <<a, b>>) @@ (a :> <<b>>) @@ (b :> <<t, a>>) @@ (t :> <<>>)
(* A chain, a dead end above b and a hint of the leaf to itself.           *)
DeadEnd == (l :> <<a, b, l>>) @@ (a :> <<t>>) @@ (b :> <<>>) @@ (t :> <<>>)
(* A leaf with no superiors.                                               *)
Orphan == (l :> <<>>) @@ (a :> <<t>>) @@ (b :> <<t>>) @@ (t :> <<>>)

MCEntities == {l, a, b, t}
Everything == MCEntities \X MCEntities

Resolve(graph, anchors, depth, budget, accepted) ==
    [hints |-> graph, anchors |-> anchors, maxDepth |-> depth,
     maxTotalFetches |-> budget, filter |-> accepted]

(* Enough budget for the whole walk, too little of it, too little depth, a *)
(* filter that cuts the loop, no depth and no budget at all; a leaf that   *)
(* is an anchor itself.                                                    *)
MCScenarios ==
    {Resolve(Loop, {t}, 3, 13, Everything), Resolve(Loop, {t}, 3, 8, Everything),
     Resolve(Loop, {t}, 2, 9, Everything),
     Resolve(Loop, {t}, 3, 6, Everything \ {<<b, a>>}),
     Resolve(Loop, {t, l}, 0, 3, Everything),
     Resolve(DeadEnd, {a, t}, 3, 7, Everything),
     Resolve(Orphan, {t}, 3, 1, Everything), Resolve(Orphan, {l}, 3, 1, Everything),
     Resolve(Orphan, {t}, 3, 0, Everything)}

(* The federation of the refresh: a budget for the whole walk.             *)
MCTwoChains == {Resolve(TwoChains, {t}, 3, 11, Everything)}
=============================================================================
