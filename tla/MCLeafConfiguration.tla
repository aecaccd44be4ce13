------------------------ MODULE MCLeafConfiguration ------------------------
(* LeafConfiguration for TLC.                                              *)
EXTENDS LeafConfiguration
=============================================================================
