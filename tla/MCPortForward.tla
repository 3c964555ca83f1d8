---- MODULE MCPortForward ----
(* PortForward on small instances. *)
EXTENDS PortForward
====
