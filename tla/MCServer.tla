---- MODULE MCServer ----
(* Server on a few connections. *)
EXTENDS Server, TLC
Symmetric == Permutations(Session) \cup Permutations(Transfer)
====
