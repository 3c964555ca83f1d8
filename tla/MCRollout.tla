---- MODULE MCRollout ----
(* Rollout on two images; the first revision is 9, so that numbers and texts
   are ordered differently. *)
EXTENDS Rollout
====
