----------------------------- MODULE MCReactor -----------------------------
(* Instances of Reactor for TLC. *)
EXTENDS Reactor, TLC

\* Agents and descriptors are interchangeable; used in the runs that check no
\* liveness property.
Interchangeable == Permutations(Agents) \cup Permutations(Fds)
=============================================================================
