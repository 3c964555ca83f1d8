---- MODULE MCDrain ----
(* Drain on small instances. *)
EXTENDS Drain, TLC
PodSymmetry == Permutations(Pods)
====
