---------------------------- MODULE MCTraxHistory ----------------------------
(***************************************************************************)
(* Instances of TraxHistory for TLC, as in MCTraxServer.                   *)
(***************************************************************************)
EXTENDS TraxHistory

Symmetry == Permutations(Name)
=============================================================================
