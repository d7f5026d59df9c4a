--------------------------- MODULE MCProviderQueue ---------------------------
(***************************************************************************)
(* Instances of ProviderQueue for TLC.                                     *)
(***************************************************************************)
EXTENDS ProviderQueueRefinement, TLC

(* Buffer sizes: room in the first queue, one slot in its successors, so   *)
(* that an update may find the new queue full.                             *)
ShrinkingBuffer == [g \in Gens |-> IF g = 1 THEN 2 ELSE 1]

(* Requests that may leave are alike, and so are those that may not.       *)
Symmetry ==
    Permutations(Requests \cap Leavers) \cup Permutations(Requests \ Leavers)
    \cup Permutations(Msgs) \cup Permutations(Updates)

(* One lifecycle call besides the updates: the provider is removed, or the *)
(* gateway is shut down.  Queues made by lookups after a removal are       *)
(* outside what Shutdown promises.                                         *)
OneCall == \A d \in Removals, s \in Shutdowns : opc[d] = "start" \/ opc[s] = "start"

LiveNext == Next /\ OneCall'

LiveSpec == Init /\ [][LiveNext]_vars /\ Fairness

==============================================================================
