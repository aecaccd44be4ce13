------------------------ MODULE MCReplayProtection ------------------------
(* ReplayProtection for TLC: one Request Object that expires at 1.         *)
EXTENDS ReplayProtection

MCTuple == [m \in Messages |-> CHOOSE t \in Tuples : TRUE]
MCExp == [m \in Messages |-> 1]
MCKind == [m \in Messages |-> "requestObject"]
=============================================================================
