------------------------------- MODULE MCBoard -------------------------------
(***************************************************************************)
(* Instances of Board for TLC.                                             *)
(***************************************************************************)
EXTENDS Board
=============================================================================
