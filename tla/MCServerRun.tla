---- MODULE MCServerRun ----
(* ServerRun on small instances. *)
EXTENDS ServerRun
====
