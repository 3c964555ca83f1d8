---- MODULE MCReports ----
(* Reports on small instances. *)
EXTENDS Reports

\* Every Ready condition, with and without something else wrong.
MCClusterNodes ==
    {n \in Node : /\ n.pressure \in {{}, {"Memory"}}
                  /\ n.taint \in {"none", "NoSchedule"}
                  /\ n.event \in {"none", "NodeNotReady"}}
====
