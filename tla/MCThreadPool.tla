---- MODULE MCThreadPool ----
(* ThreadPool on a few workers and nodes. *)
EXTENDS ThreadPool, TLC
Symmetric == Permutations(Worker) \cup Permutations(Node)
====
