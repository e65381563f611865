------------------------------- MODULE MCChat -------------------------------
(* Instances of ChatTurns for TLC. *)
EXTENDS ChatTurns, TLC

Symmetry == Permutations(Users) \cup Permutations(Requests)
====
