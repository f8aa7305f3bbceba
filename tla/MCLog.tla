---- MODULE MCLog ----
(* Log on a few processes and blocks. *)
EXTENDS Log, TLC
Symmetric == Permutations(Op) \cup Permutations(Block) \cup Permutations(Value)
====
