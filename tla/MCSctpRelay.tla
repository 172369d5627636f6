---- MODULE MCSctpRelay ----
(* TLC instances of SctpRelay. *)
EXTENDS SctpRelay, TLC

Symmetry == Permutations(Ids) \cup Permutations(Conns) \cup Permutations(Callers)
====
