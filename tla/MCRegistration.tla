--------------------------- MODULE MCRegistration ---------------------------
(* Registration for TLC: an RP with a short chain to t1 and chains to t2   *)
(* and t3, an OP with chains to t1 and t2.                                 *)
EXTENDS Registration

CONSTANTS a1, a2, cc, ro, fo, ja, jc, jr, jf, c1, c2, r1, r2, r3, r4

AllTuples == (a1 :> ja) @@ (a2 :> ja) @@ (cc :> jc) @@ (ro :> jr) @@ (fo :> jf)
AllExp == (a1 :> 1) @@ (a2 :> 2) @@ (cc :> 1) @@ (ro :> 2) @@ (fo :> 1)
AllKinds == (a1 :> "assertion") @@ (a2 :> "assertion") @@ (cc :> "proof")
            @@ (ro :> "requestObject") @@ (fo :> "requestObject")
MCTuple == [m \in Messages |-> AllTuples[m]]
MCExp == [m \in Messages |-> AllExp[m]]
MCKind == [m \in Messages |-> AllKinds[m]]

Chain(anchor, len, expiry, hint, offers) ==
    [anchor |-> anchor, len |-> len, exp |-> expiry, hint |-> hint, offers |-> offers]
Short == Chain("t1", 2, 2, "t1", {})
Other == Chain("t2", 3, 3, "i", {})
MCRpChains == {Short, Other, Chain("t3", 2, 3, "t3", {})}
MCOpChains == {Chain("t1", 2, 2, "t1", {"explicit"}),
               Chain("t2", 3, 2, "i", {"explicit", "automatic"})}

(* Requests of other implementations: a chain in the body, no chain at     *)
(* all, and a peer chain that ends elsewhere.                              *)
MCForeign ==
    {Posted("body", Other, None, 1), Posted("none", None, None, 1)}
    \cup {Posted("none", None, peer, 1) : peer \in MCOpChains}

Call(type, peer) == [type |-> type, peer |-> peer, post |-> None]
Foreign(p) == [type |-> "foreign", peer |-> FALSE, post |-> p]
Nothing == Foreign(None)
Work(first, second, arrivals, drift, keys) ==
    [calls |-> (c1 :> first) @@ (c2 :> second), drift |-> drift, keys |-> keys,
     arrivals |-> [r \in Requests |-> IF r \in DOMAIN arrivals THEN arrivals[r] ELSE None]]

(* Requests are interchangeable: one order of each choice of messages.     *)
Rank == (a1 :> 1) @@ (a2 :> 2) @@ (cc :> 3)
Arrivals ==
    {f \in [{r1, r2, r3, r4} -> DOMAIN Rank] :
        Rank[f[r1]] <= Rank[f[r2]] /\ Rank[f[r2]] <= Rank[f[r3]] /\ Rank[f[r3]] <= Rank[f[r4]]}

MCWorkloads ==
    {Work(Call("explicit", FALSE), Foreign(p), <<>>, drift, 1) : p \in MCForeign, drift \in {-1, 0, 1}}
    \cup {Work(Nothing, Nothing, f, 0, 1) : f \in Arrivals}
    \cup {Work(Call("explicit", FALSE), Call("explicit", TRUE), <<>>, 0, 1),
          Work(Call("explicit", TRUE), Nothing, <<>>, 1, 2),
          Work(Call("explicit", FALSE), Nothing, r1 :> fo, 0, 1),
          Work(Call("automatic", FALSE), Nothing, (r1 :> ro) @@ (r2 :> ro), 1, 1),
          Work(Call("automatic", TRUE), Nothing, r1 :> ro, 0, 1)}
=============================================================================
