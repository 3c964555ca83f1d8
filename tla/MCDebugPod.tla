---- MODULE MCDebugPod ----
(* DebugPod on small instances. *)
EXTENDS DebugPod
====
