------------------------------- MODULE MCMedia ------------------------------
(* Media on a sequence space of eight numbers. *)
EXTENDS Media, TLC

\* InStep says nothing of what follows a packet out of its place
StillOrderly == orderly

ReaderSymmetry == Permutations(Readers)
=============================================================================
