---- MODULE MCCallManager ----
(* TLC instances of CallManager: model values for relays, devices, threads. *)
EXTENDS CallManager, TLC

Symmetry == Permutations(Relays) \cup Permutations(Devices) \cup Permutations(Handlers)
====
