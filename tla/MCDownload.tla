---- MODULE MCDownload ----
(* Download of a content of three blocks. *)
EXTENDS Download, TLC
CONSTANT long
Three == long :> 3
Symmetric == Permutations(Thread)
====
