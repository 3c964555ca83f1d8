---- MODULE Writes ----
(***************************************************************************)
(* The tools that change one object (internal/tools/operations and         *)
(* add_ephemeral_container): several calls on the same object of a shared  *)
(* cluster.  Some read the object first and write what they made of it;    *)
(* between the two, the other calls and other clients write.  A field's    *)
(* value is the version of the write that set it.  apply_manifest has its  *)
(* own module and is a subject of its own here.                            *)
(***************************************************************************)
EXTENDS Manifest, FiniteSets

CONSTANTS Calls,
          ContainerNames,
          MaxOthers,    \* bound: writes of other clients
          MaxFailures   \* bound: failing API calls

Kinds    == {"ConfigMap", "Deployment", "Pod"}
Fields   == {"data", "replicas", "label", "annotation"}
Unset    == 0
Absent   == [rv |-> 0, field |-> [f \in Fields |-> Unset], attached |-> {}]
NotRead  == [Absent EXCEPT !.attached = {"not read"}]
AnyVersion == 0   \* an update without a resourceVersion

VARIABLES subject,  \* the kind of the object, or "Manifest"
          store,    \* the object in the cluster; Absent: none
          version,  \* resourceVersions given out
          request,  \* request[c]: the tool and its arguments
          pc,       \* pc[c]: "new", "read" or "done"
          seen,     \* seen[c]: the object as the call read it
          answer,   \* answer[c]: "none", "ok", "refused" or "failed"
          others, failures

object == <<store, version>>
call   == <<request, pc, seen, answer>>
vars   == <<subject, object, call, others, failures, manifestVars>>

----------------------------------------------------------------------------
\* Requests.

ToolsOf(kind) ==
    CASE kind = "ConfigMap"  -> {"create_configmap", "update_configmap", "label",
                                 "annotate", "patch", "delete_manifest"}
      [] kind = "Deployment" -> {"scale", "label", "annotate", "patch"}
      [] kind = "Pod"        -> {"add_ephemeral_container", "label", "delete_pod"}

Readers == {"update_configmap", "label", "annotate", "scale", "add_ephemeral_container"}
Markers == {"label", "annotate"}

\* label, annotate and add_ephemeral_container have no dry run; only the first
\* two have overwrite.
RequestsFor(tool) ==
    [tool      : {tool},
     overwrite : IF tool \in Markers THEN BOOLEAN ELSE {FALSE},
     dryRun    : IF tool \in Markers \cup {"add_ephemeral_container"}
                 THEN {FALSE} ELSE BOOLEAN,
     name      : IF tool = "add_ephemeral_container" THEN ContainerNames
                 ELSE {CHOOSE n \in ContainerNames : TRUE}]

Tool(c) == request[c].tool

\* The field a tool is about.
OwnField(tool) ==
    CASE tool = "label" -> "label"
      [] tool = "annotate" -> "annotation"
      [] tool = "scale" -> "replicas"
      [] tool \notin {"label", "annotate", "scale"} -> "data"

Fresh(v) ==
    [Absent EXCEPT !.rv = v, !.field = [@ EXCEPT !["data"] = v, !["replicas"] = v]]

InitialObjects ==
    {Absent} \cup
    {[Fresh(1) EXCEPT !.field = [@ EXCEPT !["label"] = l, !["annotation"] = a]] :
        l \in {Unset, 1}, a \in {Unset, 1}}

Idle ==
    /\ request = [c \in Calls |-> CHOOSE r \in RequestsFor("patch") : TRUE]
    /\ pc = [c \in Calls |-> "done"]
    /\ store = Absent

Init ==
    /\ version = 1
    /\ seen = [c \in Calls |-> NotRead]
    /\ answer = [c \in Calls |-> "none"]
    /\ others = 0 /\ failures = 0
    /\ \/ /\ subject \in Kinds
          /\ store \in InitialObjects
          /\ request \in [Calls -> UNION {RequestsFor(t) : t \in ToolsOf(subject)}]
          /\ pc = [c \in Calls |-> "new"]
          /\ manifest = <<>> /\ dryRun = TRUE /\ at = 0 /\ stored = {}
          /\ verdict = "refused" /\ faults = 0
       \/ subject = "Manifest" /\ Idle /\ ManifestInit

----------------------------------------------------------------------------
\* Mutated forms of the definitions below.

\* The update goes out without the version that was read.
SentVersionNever(c) == AnyVersion

\* Existing keys are looked for in the request only.
RefusesKeyNever(c) == FALSE

----------------------------------------------------------------------------
\* The calls.

Answer(c, how) ==
    /\ answer' = [answer EXCEPT ![c] = how]
    /\ pc' = [pc EXCEPT ![c] = "done"]

\* label and annotate: a key that is there may only change with overwrite.
RefusesKey(c) ==
    /\ Tool(c) \in Markers /\ ~request[c].overwrite
    /\ store.field[OwnField(Tool(c))] # Unset

\* The first API call of the tools that read.
Read(c) ==
    /\ pc[c] = "new" /\ Tool(c) \in Readers /\ store # Absent
    /\ seen' = [seen EXCEPT ![c] = store]
    /\ IF RefusesKey(c)
       THEN Answer(c, "refused")
       ELSE pc' = [pc EXCEPT ![c] = "read"] /\ UNCHANGED answer
    /\ UNCHANGED <<subject, object, request, others, failures, manifestVars>>

\* The object is not there, or the API call fails: update_configmap goes on.
ReadFails(c) ==
    /\ pc[c] = "new" /\ Tool(c) \in Readers
    /\ \/ store = Absent /\ UNCHANGED failures
       \/ failures < MaxFailures /\ failures' = failures + 1
    /\ IF Tool(c) = "update_configmap"
       THEN pc' = [pc EXCEPT ![c] = "read"] /\ UNCHANGED answer
       ELSE Answer(c, "failed")
    /\ UNCHANGED <<subject, object, request, seen, others, manifestVars>>

\* The resourceVersion the write carries.  scale sends a Scale made anew, and
\* label, annotate and patch a patch: neither has one.
SentVersion(c) ==
    IF Tool(c) \in {"update_configmap", "add_ephemeral_container"}
    THEN seen[c].rv ELSE AnyVersion

\* What the API server accepts.
Accepted(c) ==
    /\ (Tool(c) = "create_configmap") = (store = Absent)
    /\ SentVersion(c) \in {AnyVersion, store.rv}
    /\ Tool(c) = "add_ephemeral_container" => request[c].name \notin seen[c].attached

\* The object after the write, v its version.  update_configmap sends a ConfigMap
\* of name and data: it has no labels and no annotations.
\* add_ephemeral_container sends the list it read and its container.
Written(c, v) ==
    CASE Tool(c) \in {"create_configmap", "update_configmap"} ->
           {[Fresh(v) EXCEPT !.field["replicas"] = store.field["replicas"]]}
      [] Tool(c) \in {"label", "annotate", "scale"} ->
           {[store EXCEPT !.rv = v, !.field[OwnField(Tool(c))] = v]}
      [] Tool(c) = "patch" ->
           {[store EXCEPT !.rv = v, !.field[f] = v] : f \in Fields}
      [] Tool(c) = "add_ephemeral_container" ->
           {[store EXCEPT !.rv = v, !.attached = seen[c].attached \cup {request[c].name}]}
      [] Tool(c) \in {"delete_manifest", "delete_pod"} -> {Absent}

\* The call whose turn it is to write.
Writing(c) == pc[c] = (IF Tool(c) \in Readers THEN "read" ELSE "new")

\* A dry run is checked and not stored.
Store(c) ==
    IF request[c].dryRun
    THEN UNCHANGED object
    ELSE /\ store' \in Written(c, version + 1)
         /\ version' = version + 1

Write(c) ==
    /\ Writing(c) /\ Accepted(c)
    /\ Store(c)
    /\ Answer(c, "ok")
    /\ UNCHANGED <<subject, request, seen, others, failures, manifestVars>>

WriteRejected(c) ==
    /\ Writing(c) /\ ~Accepted(c)
    /\ Answer(c, "failed")
    /\ UNCHANGED <<subject, object, request, seen, others, failures, manifestVars>>

\* The API call fails, or is done and its answer lost; no call tries again.
WriteFails(c) ==
    /\ Writing(c) /\ failures < MaxFailures
    /\ failures' = failures + 1
    /\ \/ UNCHANGED object
       \/ Accepted(c) /\ Store(c)
    /\ Answer(c, "failed")
    /\ UNCHANGED <<subject, request, seen, others, manifestVars>>

----------------------------------------------------------------------------
\* Other clients.

OthersWrite ==
    /\ subject # "Manifest" /\ others < MaxOthers
    /\ others' = others + 1
    /\ version' = version + 1
    /\ \/ /\ store # Absent
          /\ \/ \E f \in Fields :
                   store' = [store EXCEPT !.rv = version', !.field[f] = version']
             \/ \E n \in ContainerNames \ store.attached :
                   /\ subject = "Pod"
                   /\ store' = [store EXCEPT !.rv = version', !.attached = @ \cup {n}]
             \/ store' = Absent
       \/ store = Absent /\ store' = Fresh(version')
    /\ UNCHANGED <<subject, call, failures, manifestVars>>

ApplyStep ==
    /\ subject = "Manifest" /\ ManifestNext
    /\ UNCHANGED <<subject, object, call, others, failures>>

CallStep(c) == Read(c) \/ ReadFails(c) \/ Write(c) \/ WriteRejected(c) \/ WriteFails(c)

Next == ApplyStep \/ OthersWrite \/ \E c \in Calls : CallStep(c)

Spec == Init /\ [][Next]_vars

----------------------------------------------------------------------------
\* Properties.

\* A call's own write.
Writes(c) == pc[c] # "done" /\ pc'[c] = "done" /\ store' # store

\* What others wrote after a call's read survives the call's write, except the
\* field the call is about when it is a label, an annotation or the replica count,
\* which it writes without a version; update_configmap after a read that failed
\* replaces whatever is there (resources.go:107, scale.go:52, scale.go:331,
\* ephemeral.go:68).
UndoesOnlyOwnField ==
    [][\A c \in Calls : Writes(c) /\ seen[c] # NotRead =>
          /\ \A f \in Fields :
                /\ store.field[f] # seen[c].field[f]
                /\ store'.field[f] # store.field[f]
                => f = OwnField(Tool(c)) /\ f # "data"
          /\ store.attached \subseteq store'.attached]_vars

\* Without overwrite, label and annotate change a key that has a value only if they
\* had looked and found none, so that it got its value in between: "if false, refuse to
\* change existing keys" (scale.go:280) is kept against what was read, as the patch
\* carries no version (scale.go:324-347).
KeepsExistingKeys ==
    [][\A c \in Calls : Writes(c) /\ Tool(c) \in Markers /\ ~request[c].overwrite =>
          \/ store.field[OwnField(Tool(c))] = Unset
          \/ seen[c] # NotRead /\ seen[c].field[OwnField(Tool(c))] = Unset]_vars

\* The reads and updates of add_ephemeral_container amount to adding a container
\* in one step: two calls, or a call and others, never lose one another's.
Outcome(c) ==
    CASE Tool(c) # "add_ephemeral_container" \/ answer[c] = "none" -> "pending"
      [] Tool(c) = "add_ephemeral_container" /\ answer[c] = "ok" -> "attached"
      [] Tool(c) = "add_ephemeral_container" /\ answer[c] \notin {"none", "ok"} -> "failed"

Promise == INSTANCE ContainerList
             WITH list <- store.attached, outcome <- [c \in Calls |-> Outcome(c)]

AttachesAtomically == Promise!Spec
====
