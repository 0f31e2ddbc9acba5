--------------------------- MODULE MCTwoLockQueue ---------------------------
(* Instances of TwoLockQueue for TLC. *)
EXTENDS TwoLockQueue, TLC

\* Threads of a kind, nodes and values are interchangeable; used in the runs
\* that check no liveness property.
Interchangeable == Permutations(Producers) \cup Permutations(Consumers)
                   \cup Permutations(Nodes) \cup Permutations(Values)
=============================================================================
