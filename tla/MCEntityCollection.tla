------------------------- MODULE MCEntityCollection -------------------------
(* EntityCollection for TLC: two anchors; below the first an intermediate   *)
(* and an entity that is listed by both of them, below the second an        *)
(* entity whose metadata is not accepted and one whose chain is refused.    *)
(* The intermediate's own configuration expires before the chain through    *)
(* it.  A collector finds nothing below the first anchor; below the second  *)
(* an entity with an open mark and one with a mark of a listed type whose   *)
(* issuer cannot be resolved.                                               *)
EXTENDS EntityCollection

MCAnchorOf == [c \in 1..4 |-> IF c < 4 THEN 10 ELSE 20]
MCListing == [i \in {1, 2, 3, 4, 10, 20} |->
    CASE i = 10 -> <<1, 2>> [] i = 1 -> <<2>> [] i = 20 -> <<3, 4>> [] OTHER -> <<>>]
MCRootExp == [a \in {10, 20} |-> 4]
MCConfigExp == [e \in 1..4 |-> IF e = 1 THEN 1 ELSE 3]
MCStatementExp == [l \in {10, 20, 1, 2, 3, 4} \X (1..4) |->
    CASE l = <<10, 1>> -> 3 [] l = <<10, 2>> -> 1 [] l = <<1, 2>> -> 2 [] OTHER -> 3]
MCRefused == {<<20, 4>>}
NoMark == [type |-> "none", iss |-> 0, exp |-> 0]
MCMarkOf == [e \in 1..4 |->
    CASE e = 1 -> [type |-> "listed", iss |-> 7, exp |-> 2]
      [] e = 2 -> [type |-> "listed", iss |-> 7, exp |-> 1]
      [] e = 3 -> [type |-> "open", iss |-> 8, exp |-> 2]
      [] e = 4 -> [type |-> "listed", iss |-> 6, exp |-> 2]]
MCIssuersOf == [t \in {"listed", "open"} |-> IF t = "listed" THEN {6, 7} ELSE {}]
MCIssuerExp == [i \in {6, 7, 8} |-> IF i = 6 THEN 0 ELSE 3]
MCIssuerCost == [i \in {6, 7, 8} |-> IF i = 6 THEN 5 ELSE 1]
MCFilterUntil == [e \in 1..4 |-> IF e = 1 THEN 2 ELSE 9]
MCInventory == [a \in {10, 20} |-> [e \in IF a = 10 THEN {} ELSE {3, 4} |-> IF e = 3 THEN 2 ELSE 1]]
MCAnchorAsked == [r \in {1} |-> 10]
=============================================================================
