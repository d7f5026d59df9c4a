---------------------------- MODULE MCKeyRotation ----------------------------
(***************************************************************************)
(* Instances of KeyRotation for TLC.                                       *)
(***************************************************************************)
EXTENDS KeyRotation, TLC

Symmetry == Permutations(Keys)

==============================================================================
