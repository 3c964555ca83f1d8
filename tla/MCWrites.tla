---- MODULE MCWrites ----
(* Writes on small instances. *)
EXTENDS Writes
====
