---- MODULE Rollout ----
(***************************************************************************)
(* rollout_restart and rollout_undo (internal/tools/operations/scale.go)   *)
(* on one Deployment.  A restart is a single patch.  An undo lists the     *)
(* Deployment's ReplicaSets, reads the Deployment's current revision, and  *)
(* patches the template of the revision it picked; the deployment          *)
(* controller numbers revisions between these steps, and others change the *)
(* Deployment.  The patch is a JSON merge patch: it replaces the list of   *)
(* containers, and it keeps a template annotation it does not mention.     *)
(***************************************************************************)
EXTENDS Naturals, FiniteSets

CONSTANTS Calls,          \* the rollout_undo calls
          Images,         \* container images
          MaxRestarts,    \* bound: how many restarts
          FirstRevision,  \* the revision the Deployment starts with
          MaxRevision,    \* bound: the last revision the controller gives out
          HistoryLimit    \* revisionHistoryLimit: old ReplicaSets kept

ASSUME RolloutAssumption ==
    /\ MaxRestarts \in Nat /\ HistoryLimit \in Nat \ {0}
    /\ MaxRevision \in Nat /\ FirstRevision \in 1..MaxRevision
    /\ Images # {}

\* A pod template: its containers, and the stamp of its restartedAt annotation,
\* 0 when there is none.
Templates == [image : Images, stamp : 0..MaxRestarts]

Revisions == 1..MaxRevision
None      == 0    \* no revision: no annotation, an error, no argument

VARIABLES template,  \* the Deployment's pod template
          revision,  \* revision[t]: of the ReplicaSet with template t; None: no such set
          current,   \* the Deployment's revision annotation
          clock,     \* stamps given out
          pc,        \* pc[c]: where rollout_undo is
          request,   \* request[c]: the revision argument; None: the previous one
          listed,    \* listed[c]: the ReplicaSets it saw, template to revision
          target,    \* target[c]: the template it goes back to
          \* Only the properties read these:
          previous,  \* the template in effect before the current one
          given,     \* given[r]: the template that got revision r
          calm,      \* undos that saw a settled Deployment nobody changed since
          unread     \* undos that could not read the current revision

cluster == <<template, revision, current, clock>>
call    == <<pc, request, listed, target>>
ghosts  == <<previous, given, calm, unread>>
vars    == <<cluster, call, ghosts>>

\* The template patched in stands for "no template" before a call has one.
Start == [image |-> CHOOSE i \in Images : TRUE, stamp |-> 0]

Owned(rev) == {t \in Templates : rev[t] # None}

\* The ReplicaSet with the highest revision.
Newest(rev) ==
    CHOOSE t \in Owned(rev) : \A u \in Owned(rev) : rev[u] <= rev[t]

\* The controller has caught up with the template.
Settled ==
    /\ template = Newest(revision)
    /\ current = revision[template]

Init ==
    /\ template = Start
    /\ revision = [t \in Templates |-> IF t = Start THEN FirstRevision ELSE None]
    /\ current = FirstRevision
    /\ clock = 0
    /\ pc = [c \in Calls |-> "new"]
    /\ request \in [Calls -> {None} \cup FirstRevision..MaxRevision]
    /\ listed = [c \in Calls |-> [t \in Templates |-> None]]
    /\ target = [c \in Calls |-> Start]
    /\ previous = Start
    /\ given = [r \in Revisions |-> Start]
    /\ calm = {}
    /\ unread = {}

Goto(c, where) == pc' = [pc EXCEPT ![c] = where]

----------------------------------------------------------------------------
\* Mutated forms of the definitions below.

\* Revisions compared as strings: "9" comes before "12".
PreviousRevisionAsText(seen, cur) ==
    LET others == {t \in Owned(seen) : seen[t] # cur}
        Lead(n) == IF n > 9 THEN n \div 10 ELSE n
    IN  {t \in others : \A u \in others :
            \/ Lead(seen[u]) < Lead(seen[t])
            \/ Lead(seen[u]) = Lead(seen[t]) /\ seen[u] <= seen[t]}

\* The current revision is not skipped.
PreviousRevisionUnskipped(seen, cur) ==
    {t \in Owned(seen) : \A u \in Owned(seen) : seen[u] <= seen[t]}

\* Only the first revision of the list is looked at: there is none before it.
PreviousRevisionFirstOnly(seen, cur) ==
    {t \in Owned(seen) : seen[t] # cur /\ \A u \in Owned(seen) : seen[u] <= seen[t]}

\* The argument is taken for a position in the list, newest first.
RequestedRevisionByPosition(seen, r) ==
    {t \in Owned(seen) :
        Cardinality({u \in Owned(seen) : seen[u] > seen[t]}) = MaxRevision - r}

----------------------------------------------------------------------------
\* The template of the highest revision that is not the current one.
PreviousRevision(seen, cur) ==
    LET others == {t \in Owned(seen) : seen[t] # cur}
    IN  {t \in others : \A u \in others : seen[u] <= seen[t]}

\* byRev[a.Revision].
RequestedRevision(seen, r) == {t \in Owned(seen) : seen[t] = r}

\* A JSON merge patch of old with new.
Merged(old, new) ==
    [image |-> new.image,
     stamp |-> IF new.stamp = 0 THEN old.stamp ELSE new.stamp]

----------------------------------------------------------------------------
\* rollout_restart: patch in a fresh restartedAt.
Restart ==
    /\ clock < MaxRestarts
    /\ clock' = clock + 1
    /\ template' = Merged(template, [template EXCEPT !.stamp = clock + 1])
    /\ calm' = {}
    /\ UNCHANGED <<revision, current, call, previous, given, unread>>

\* rollout_undo lists the ReplicaSets and keys the owned ones by revision.  No
\* history, or a requested revision that is not there, ends it.
UndoList(c) ==
    /\ pc[c] = "new"
    /\ listed' = [listed EXCEPT ![c] = revision]
    /\ calm' = IF Settled THEN calm \cup {c} ELSE calm
    /\ \/ /\ request[c] = None
          /\ Owned(revision) # {}
          /\ Goto(c, "listed")
          /\ UNCHANGED target
       \/ \E t \in RequestedRevision(revision, request[c]) :
             /\ request[c] # None
             /\ target' = [target EXCEPT ![c] = t]
             /\ Goto(c, "picked")
       \/ /\ \/ Owned(revision) = {}
             \/ request[c] # None /\ RequestedRevision(revision, request[c]) = {}
          /\ Goto(c, "failed")
          /\ UNCHANGED target
    /\ UNCHANGED <<cluster, request, previous, given, unread>>

\* currentDeploymentRevision, whose error is dropped, and the choice of the revision
\* to go back to: without a current revision there is none to skip.
UndoPick(c) ==
    /\ pc[c] = "listed"
    /\ \E readable \in BOOLEAN :
         LET cur    == IF readable THEN current ELSE None
             choice == PreviousRevision(listed[c], cur)
         IN  /\ unread' = IF readable THEN unread \ {c} ELSE unread \cup {c}
             /\ \/ \E t \in choice :
                     target' = [target EXCEPT ![c] = t] /\ Goto(c, "picked")
                \/ choice = {} /\ Goto(c, "failed") /\ UNCHANGED target
    /\ UNCHANGED <<cluster, request, listed, previous, given, calm>>

\* mutateController with the template of the chosen ReplicaSet.
UndoPatch(c) ==
    /\ pc[c] = "picked"
    /\ template' = Merged(template, target[c])
    /\ Goto(c, "done")
    /\ calm' = {}
    /\ UNCHANGED <<revision, current, clock, request, listed, target, previous, given,
                   unread>>

\* The list or the patch fails: the error goes to the client.
UndoFails(c) ==
    /\ pc[c] \in {"new", "picked"}
    /\ Goto(c, "failed")
    /\ UNCHANGED <<cluster, request, listed, target, ghosts>>

----------------------------------------------------------------------------
\* Somebody sets another image (apply_manifest, patch_resource, kubectl).
SetImage ==
    /\ \E i \in Images \ {template.image} :
         template' = Merged(template, [template EXCEPT !.image = i])
    /\ calm' = {}
    /\ UNCHANGED <<revision, current, clock, call, previous, given, unread>>

\* The deployment controller makes the template's ReplicaSet the newest.
NumberRevision ==
    LET newest == Newest(revision)
        next   == revision[newest] + 1
    IN  /\ template # newest
        /\ next <= MaxRevision
        /\ revision' = [revision EXCEPT ![template] = next]
        /\ previous' = newest
        /\ given' = [given EXCEPT ![next] = template]
        /\ calm' = {}
        /\ UNCHANGED <<template, current, clock, call, unread>>

\* Then it copies the revision to the Deployment.
AnnotateDeployment ==
    /\ template = Newest(revision)
    /\ current # revision[template]
    /\ current' = revision[template]
    /\ calm' = {}
    /\ UNCHANGED <<template, revision, clock, call, previous, given, unread>>

\* And it drops the oldest ReplicaSet beyond revisionHistoryLimit.
Prune ==
    /\ Settled
    /\ Cardinality(Owned(revision)) > HistoryLimit + 1
    /\ \E t \in Owned(revision) :
         /\ \A u \in Owned(revision) : revision[t] <= revision[u]
         /\ revision' = [revision EXCEPT ![t] = None]
    /\ UNCHANGED <<template, current, clock, call, ghosts>>

Undo(c) == UndoList(c) \/ UndoPick(c) \/ UndoPatch(c) \/ UndoFails(c)

Controller == NumberRevision \/ AnnotateDeployment \/ Prune

Next ==
    \/ Restart
    \/ \E c \in Calls : Undo(c)
    \/ SetImage
    \/ Controller

Spec == Init /\ [][Next]_vars

----------------------------------------------------------------------------
\* The patch of undo c reaches the Deployment in this step.
Patched(c) == pc[c] = "picked" /\ pc'[c] = "done"

\* An undo with no revision argument, on a Deployment that was settled when it
\* looked and that nobody touched meanwhile, brings back the image that was in
\* effect before the current template, whatever renumbering came before.  There is one
\* exception: an undo that could not read the current revision takes the newest one,
\* the current, and leaves the template as it is (scale.go:189-198).
UndoGoesBack ==
    [][\A c \in Calls :
          Patched(c) /\ request[c] = None /\ c \in calm
              => IF c \in unread THEN template' = template
                                ELSE template'.image = previous.image]_vars

\* An undo to revision r brings back the image revision r was given for, even
\* when the controller has since moved revisions to new numbers.
RequestedRevisionHonoured ==
    [][\A c \in Calls :
          Patched(c) /\ request[c] # None
              => template'.image = given[request[c]].image]_vars

\* An undisturbed undo to the previous revision that reports a rollback and changes
\* nothing has one of two reasons: the revision differs from the current one by a
\* restart, or the current revision could not be read.
NoOpHasReason ==
    [][\A c \in Calls :
          Patched(c) /\ request[c] = None /\ c \in calm /\ template' = template
              => \/ target[c].image = template.image /\ target[c].stamp = 0
                 \/ c \in unread]_vars

\* An undisturbed undo says "no previous revision found" only of a Deployment that
\* has none: not after renumbering, pruning, or a revision that could not be read
\* (scale.go:188-207).
RefusedOnlyWithoutHistory ==
    [][\A c \in Calls :
          pc[c] = "listed" /\ pc'[c] = "failed" /\ c \in calm
              => Owned(listed[c]) = {template}]_vars

\* An undisturbed undo makes the target's template the Deployment's (scale.go:
\* "Roll back by patching the deployment's template to the target RS template").
UndoRestoresTemplate ==
    [][\A c \in Calls : Patched(c) /\ c \in calm => template' = target[c]]_vars
====
