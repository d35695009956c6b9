---------------------------- MODULE MCTraxServer ----------------------------
(***************************************************************************)
(* Instances of TraxServer for TLC.  Descriptors are numbers, for accept() *)
(* hands out the lowest free one; user names are interchangeable.          *)
(***************************************************************************)
EXTENDS TraxClaims

Symmetry == Permutations(Name)
=============================================================================
