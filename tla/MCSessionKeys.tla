---------------------------- MODULE MCSessionKeys ----------------------------
(***************************************************************************)
(* An instance of SessionKeys for TLC.                                     *)
(***************************************************************************)
EXTENDS SessionKeys, TLC

CONSTANTS k1, k2, k3

(* The account may exchange a key, or keep a single one. *)
SomePools == {{k1, k2}, {k2, k3}, {k3}}

Symmetry == Permutations(Requests)

==============================================================================
