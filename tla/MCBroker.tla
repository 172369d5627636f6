------------------------------ MODULE MCBroker ------------------------------
(***************************************************************************)
(* Two goroutines, two browsers of different clients, channels of two.     *)
(***************************************************************************)
EXTENDS Broker, TLC

CONSTANTS s1, s2, a, b
\* goroutines are alike, and so are browsers together with their clients
Swap == s1 :> s2 @@ s2 :> s1 @@ a :> b @@ b :> a
Symmetry == Permutations(Emitters) \cup {Swap} \cup {p @@ Swap : p \in Permutations(Emitters)}
MCClientOf == s1 :> a @@ s2 :> b
=============================================================================
