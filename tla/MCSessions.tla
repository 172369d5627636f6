----------------------------- MODULE MCSessions -----------------------------
(***************************************************************************)
(* Two session ids and two request goroutines.                             *)
(***************************************************************************)
EXTENDS Sessions, TLC

Symm == Permutations(Workers) \cup Permutations(Ids)
=============================================================================
