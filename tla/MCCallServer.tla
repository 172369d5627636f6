---- MODULE MCCallServer ----
(* TLC instances of CallServer. *)
EXTENDS CallServer, TLC

Symmetry == Permutations(Handlers) \cup Permutations(Operators) \cup Permutations(Bridges)
====
