-------------------------- MODULE MCDistributedLock --------------------------
(* Small instances of DistributedLock for TLC. *)
EXTENDS DistributedLock, TLC

CONSTANTS h1, h2, h3

Symmetric == Permutations(Holders)

==============================================================================
