------------------------- MODULE MCFederationKeys -------------------------
(* FederationKeys for TLC.  Only the split of the kids into initial and    *)
(* later ones is fixed, so permuting each part is a symmetry.              *)
EXTENDS FederationKeys, TLC

KidSymmetry == Permutations(InitialKids) \cup Permutations(Kids \ InitialKids)
=============================================================================
