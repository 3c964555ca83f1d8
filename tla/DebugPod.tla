---- MODULE DebugPod ----
(***************************************************************************)
(* The run_debug_pod tool (internal/tools/debug/ephemeral.go) and its      *)
(* background cleanup (cleanupPodAfter in portforward.go).  A call creates *)
(* a pod by name; a goroutine that outlives the call sleeps for the pod's  *)
(* duration and thirty seconds, or until the server stops, and deletes the *)
(* pod by name.  The cluster is shared: pods are also deleted by others    *)
(* (delete_pod, kubectl), others create pods, and API calls fail.          *)
(*                                                                         *)
(* A pod is identified by who created it; its name may be used again.  The *)
(* process serves, stops (the drain, in which calls go on) and is gone;    *)
(* with it go its goroutines, while requests it sent may still arrive.     *)
(***************************************************************************)
EXTENDS Naturals

CONSTANTS Calls,     \* the run_debug_pod calls
          Names,     \* pod names in one namespace
          Foreign,   \* a pod somebody else created
          NoPod,
          Failures,  \* how many API calls may fail or lose their answer
          Stops      \* whether the server may stop in this run

ASSUME DebugAssumption ==
    /\ Foreign \notin Calls /\ NoPod \notin Calls /\ Foreign # NoPod
    /\ Failures \in Nat /\ Stops \in BOOLEAN

VARIABLES pods,      \* pods[n]: the pod that has name n in the cluster
          made,      \* the calls whose pod was created in the cluster
          target,    \* target[c]: the pod name of call c
          cleanup,   \* cleanup[c]: the call, then its cleanup goroutine
          elapsed,   \* calls whose timer, duration + 30 s, has fired
          server,    \* the process; it stops when ShutdownCtx is cancelled
          failed,    \* how many API calls have failed so far
          robbed     \* for the properties: calls whose pod was taken from the
                     \* cluster by anybody but their own cleanup

vars == <<pods, made, target, cleanup, elapsed, server, failed, robbed>>

States == {"new", "creating", "rejected", "lost", "sleeping", "deleting",
           "requested", "deleted", "not deleted", "abandoned"}

ServerStates == {"serving", "stopping", "exited"}

TypeOK ==
    /\ pods \in [Names -> Calls \cup {Foreign, NoPod}]
    /\ made \in SUBSET Calls
    /\ target \in [Calls -> Names]
    /\ cleanup \in [Calls -> States]
    /\ elapsed \in SUBSET made
    /\ server \in ServerStates
    /\ failed \in 0..Failures
    /\ robbed \in SUBSET Calls

\* The name is an argument, or "debug-" and a random suffix: any name.
Init ==
    /\ pods \in [Names -> {Foreign, NoPod}]
    /\ made = {}
    /\ target \in [Calls -> Names]
    /\ cleanup = [c \in Calls |-> "new"]
    /\ elapsed = {}
    /\ server = "serving"
    /\ failed = 0
    /\ robbed = {}

Goto(c, where) == cleanup' = [cleanup EXCEPT ![c] = where]

\* One more API call fails.
Fail == failed < Failures /\ failed' = failed + 1

Lives(c) == pods[target[c]] = c

\* The process runs, serving or draining.
Runs == server # "exited"

----------------------------------------------------------------------------
\* Mutated forms of the actions below.

\* The goroutine is started before the error of Create is looked at.
CreateRejectedYetScheduled(c) ==
    /\ cleanup[c] = "creating" /\ Runs
    /\ pods[target[c]] # NoPod
    /\ Goto(c, "sleeping")
    /\ UNCHANGED <<pods, made, target, elapsed, server, failed, robbed>>

\* The goroutine is forgotten.
CreateUnscheduled(c) ==
    /\ cleanup[c] = "creating" /\ Runs
    /\ pods[target[c]] = NoPod
    /\ pods' = [pods EXCEPT ![target[c]] = c]
    /\ made' = made \cup {c}
    /\ Goto(c, "lost")
    /\ UNCHANGED <<target, elapsed, server, failed, robbed>>

----------------------------------------------------------------------------
\* The checks have passed and the create is sent.  Nothing here asks whether the
\* server is stopping: a call that began before goes on during the drain.
SendCreate(c) ==
    /\ cleanup[c] = "new" /\ Runs
    /\ Goto(c, "creating")
    /\ UNCHANGED <<pods, made, target, elapsed, server, failed, robbed>>

\* Create succeeds: the cleanup goroutine is started under the pod's name.
Create(c) ==
    /\ cleanup[c] = "creating" /\ Runs
    /\ pods[target[c]] = NoPod
    /\ pods' = [pods EXCEPT ![target[c]] = c]
    /\ made' = made \cup {c}
    /\ Goto(c, "sleeping")
    /\ UNCHANGED <<target, elapsed, server, failed, robbed>>

\* Create fails, because the name is taken or for another reason: the handler
\* returns the error and schedules nothing.
CreateRejected(c) ==
    /\ cleanup[c] = "creating" /\ Runs
    /\ \/ pods[target[c]] # NoPod /\ UNCHANGED failed
       \/ Fail
    /\ Goto(c, "rejected")
    /\ UNCHANGED <<pods, made, target, elapsed, server, robbed>>

\* The pod is created and the handler does not learn of it: the answer is lost (the
\* call's deadline, a broken connection) or the process is gone when it comes.
CreateLost(c) ==
    /\ cleanup[c] = "creating"
    /\ pods[target[c]] = NoPod
    /\ IF Runs THEN Fail ELSE UNCHANGED failed
    /\ pods' = [pods EXCEPT ![target[c]] = c]
    /\ made' = made \cup {c}
    /\ Goto(c, "lost")
    /\ UNCHANGED <<target, elapsed, server, robbed>>

\* The duration of c's pod, and thirty seconds, have passed.
TimerFires(c) ==
    /\ cleanup[c] = "sleeping" /\ Runs
    /\ c \notin elapsed
    /\ elapsed' = elapsed \cup {c}
    /\ UNCHANGED <<pods, made, target, cleanup, server, failed, robbed>>

\* The select takes the timer, even when the server stops at the same time;
\* CheckDebug passes again, since a policy never changes after boot.
Wake(c) ==
    /\ cleanup[c] = "sleeping" /\ Runs
    /\ c \in elapsed
    /\ Goto(c, "deleting")
    /\ UNCHANGED <<pods, made, target, elapsed, server, failed, robbed>>

\* The select takes the shutdown: the goroutine returns without deleting, at once if
\* it was started during the drain.
Abandon(c) ==
    /\ cleanup[c] = "sleeping"
    /\ server = "stopping"
    /\ Goto(c, "abandoned")
    /\ UNCHANGED <<pods, made, target, elapsed, server, failed, robbed>>

\* Delete by name, under a context derived from ShutdownCtx: the request is
\* sent only if the server is not stopping.
RequestDelete(c) ==
    /\ cleanup[c] = "deleting"
    /\ server = "serving"
    /\ Goto(c, "requested")
    /\ UNCHANGED <<pods, made, target, elapsed, server, failed, robbed>>

\* The API server deletes whatever pod has the name; NotFound is ignored.
Delete(c) ==
    /\ cleanup[c] = "requested"
    /\ pods' = [pods EXCEPT ![target[c]] = NoPod]
    /\ robbed' = robbed \cup ({pods[target[c]]} \cap (Calls \ {c}))
    /\ Goto(c, "deleted")
    /\ UNCHANGED <<made, target, elapsed, server, failed>>

\* The delete is not sent, or is cut off, because the server stops, or it
\* fails; there is no retry.
DeleteFails(c) ==
    /\ \/ cleanup[c] = "requested"
       \/ cleanup[c] = "deleting" /\ Runs
    /\ \/ server # "serving" /\ UNCHANGED failed
       \/ Fail
    /\ Goto(c, "not deleted")
    /\ UNCHANGED <<pods, made, target, elapsed, server, robbed>>

\* Somebody deletes a pod (delete_pod, kubectl, a drain).
OthersDelete(n) ==
    /\ pods[n] # NoPod
    /\ pods' = [pods EXCEPT ![n] = NoPod]
    /\ robbed' = robbed \cup ({pods[n]} \cap Calls)
    /\ UNCHANGED <<made, target, cleanup, elapsed, server, failed>>

\* Somebody creates a pod under a free name.
OthersCreate(n) ==
    /\ pods[n] = NoPod
    /\ pods' = [pods EXCEPT ![n] = Foreign]
    /\ UNCHANGED <<made, target, cleanup, elapsed, server, failed, robbed>>

\* A signal cancels ShutdownCtx.
Stop ==
    /\ Stops
    /\ server = "serving"
    /\ server' = "stopping"
    /\ UNCHANGED <<pods, made, target, cleanup, elapsed, failed, robbed>>

\* The process is gone, with every goroutine of it: the drain is over, or there was
\* none (a listener that failed, a client that left over stdio, a kill).
Exit ==
    /\ Stops
    /\ Runs
    /\ server' = "exited"
    /\ UNCHANGED <<pods, made, target, cleanup, elapsed, failed, robbed>>

CleanupStep(c) ==
    \/ TimerFires(c) \/ Wake(c) \/ Abandon(c)
    \/ RequestDelete(c) \/ Delete(c) \/ DeleteFails(c)

Next ==
    \/ \E c \in Calls : \/ SendCreate(c)
                        \/ Create(c) \/ CreateRejected(c) \/ CreateLost(c)
                        \/ CleanupStep(c)
    \/ \E n \in Names : OthersDelete(n) \/ OthersCreate(n)
    \/ Stop
    \/ Exit

Spec == Init /\ [][Next]_vars

\* Timers fire and goroutines run.
FairSpec == Spec /\ \A c \in Calls : WF_vars(CleanupStep(c))

----------------------------------------------------------------------------
\* While the server serves, a pod of this tool that is in the cluster has its
\* cleanup still to come, unless an API call failed (the create lost its answer, or
\* the one delete failed).  Once it stops or is gone a pod may be left by a cleanup
\* that had not sent its delete or had it cut off, among them those of pods created
\* during the drain, and by a create answered after the exit.  There is no other way
\* to leak a pod.
LeaksExplained ==
    \A c \in Calls : Lives(c) =>
        \/ server = "serving" /\ cleanup[c] \in {"sleeping", "deleting", "requested"}
        \/ server # "serving" /\ cleanup[c] \in {"sleeping", "deleting", "requested",
                                                "abandoned", "not deleted"}
        \/ server = "exited" /\ cleanup[c] = "lost"
        \/ failed > 0 /\ cleanup[c] \in {"lost", "not deleted"}

\* A cleanup deletes by name, and the pod it hits may be a stranger's
\* (portforward.go:204): then the pod of its own call had been in the cluster, and
\* was taken from it by somebody else while the cleanup slept.  A call whose create
\* failed, or whose pod is still there, never costs a stranger its pod.
HitsStrangersOnlyOnceRobbed ==
    [][\A c \in Calls :
          /\ cleanup[c] = "requested" /\ cleanup'[c] = "deleted"
          /\ pods[target[c]] \notin {c, NoPod}
          => c \in made \cap robbed]_vars

\* Every pod the tool created is eventually gone, unless the server stops or an
\* API call fails.
DeletedWhileServing ==
    \A c \in Calls : c \in made ~> (~Lives(c) \/ server # "serving" \/ failed > 0)
====
