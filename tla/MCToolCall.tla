---- MODULE MCToolCall ----
(* ToolCall on small instances. *)
EXTENDS ToolCall
====
