# Verification of go-kubernetes-mcp-server

TLA+ models of the Kubernetes MCP server, model-checked with TLC and proved
about with TLAPS. Paths below are relative to the repository (`src/` in
`PROJECT.json`). `PROJECT.json` lists every run, the mutated form each property
must catch, the source lines of every definition, the hazards and the findings.

## The system

One Go process serves MCP tool calls over stdio or HTTP and turns each of them
into a few Kubernetes API calls. The server has almost no state of its own; what
makes it hard is that calls run concurrently, that they act on a cluster which
others change, and that some of what they start outlives them.

| Part | State it keeps | Operations | What makes it hard | What makes it correct |
|---|---|---|---|---|
| Call wrapper (`internal/tools/toolkit.go`: `Wrap`, `InitSemaphore`) | channel `tk.sem`; per call: context, deadline, audit record | admit or give up, run the handler, recover, finish, answer, release | one goroutine per call; deadline against slot; a panic after a write | slots are conserved on every way out; one audit line per call; a refused call did nothing; nobody waits for ever |
| Audit log (`internal/audit`) | one record per call, in memory until it is finished | `Begin`, `Attach`, `AttachArgs`, `emit` | a record is lost with the process; success flag against answer | one line for each call, before its answer |
| Process (`cmd`, `internal/mcpserver`) | transport, `ShutdownCtx` | `Run`, `runHTTP`, `runStdio`, exit | calls and streams in flight at a signal; 5 s drain | shutdown is bounded; the exit code tells the truth |
| `port_forward` | counter `forwards` under a mutex; per tunnel: stop, ready and error channels, a teardown goroutine | acquire, start, wait 10 s, tear down, release | ready, failed and timeout at once; tunnels outlive calls; late listeners | one release per acquire; no listener forgotten; no double close |
| `run_debug_pod` | a goroutine per pod, sleeping | create, sleep, delete by name | shutdown against timer; lost answers; reused names | pods are deleted when their time is over, and not before |
| `rollout_undo`, `rollout_restart` | none | list, read, patch | the controller renumbers revisions between the steps | an undo goes back to what was there before |
| Other writes: scale, label, annotate, config maps, secrets, services (`operations/`), `add_ephemeral_container` | none | get, then update or patch | lost updates, missing or stale resourceVersions | no other writer's change is overwritten unknowingly |
| `apply_manifest`, delete tools | none | several documents, one after the other | one of several fails | what was applied is what is reported |
| `cordon`, `drain` | none | cordon, list, evict one by one | late pods, uncordon in between | nothing evictable is left unreported |
| Policy, configuration, registration (`internal/security`, `internal/config`, `mcpserver/server.go`) | fixed at boot | checks in every handler; which tools exist | combinations of flags; a check missing in a handler | no write without the flag, no namespace outside the allowlist |
| Readers (core, workloads, network, config, diagnosis, logs) | none | get, format | decisions on one snapshot | status, readiness and masking say what the snapshot says |
| Cluster access, rpc helpers, logging, tracing | clients, sinks | set-up | I/O only | not modelled |

Interactions: every handler runs inside `Wrap`; `App.Run` sets
`ShutdownCtx`, which the background goroutines of the debug tools watch; when
`Run` returns the process exits and takes every goroutine with it. All handlers
share the cluster with each other and with the rest of the world.

## Modules

| Module | Models | Kind |
|---|---|---|
| `CallContract` | what `Wrap` promises of every call: admission within the limit, one audit line, written before the answer | abstract specification |
| `ToolCall` | `Wrap`, the semaphore, the audit record | component; implements `CallContract` |
| `ServerRun` | `App.Run`, the HTTP drain, the exit code, around `ToolCall` | composition (`EXTENDS ToolCall`) |
| `TunnelLease` | what `port_forward` promises of its slots and tunnels: leases within the limit, no tunnel left behind | abstract specification |
| `PortForward` | `port_forward`, its forwarder and teardown goroutines | component; implements `TunnelLease` |
| `DebugPod` | `run_debug_pod` and `cleanupPodAfter` on a shared cluster | component |
| `Rollout` | `rollout_undo` and `rollout_restart` against the deployment controller | component |
| `Policy` | command line, `Validate`, `FromConfig`, registration, the checks of every handler, how the server listens | component |
| `Manifest` | the decoder and the loop of `apply_manifest` | component |
| `ContainerList` | what `add_ephemeral_container` promises: an atomic addition | abstract specification |
| `Writes` | the tools that change one object, among other clients | component; composes `Manifest`, implements `ContainerList` |
| `Drain` | `drain_node`, `cordon_node`, `uncordon_node` against scheduler, controllers, kubelet, a budget and other clients | component |
| `RolloutReport` | `rollout_status` of three kinds against their controllers | component |
| `LogStream` | the bounded read of `get_logs` | component |
| `Reports` | the verdicts on one snapshot of a pod, node, cluster or service | composes `RolloutReport` and `LogStream` |
| `*Proofs` | theorems about the component of the same name; `ServerRunProofs` holds those of `ToolCall` too, `ReportsProofs` those of `RolloutReport` and `LogStream`, `WritesProofs` those of `Manifest` | proofs |
| `MC*` | model-checking instances | |

### ToolCall

`pc[c]` is the line of `Wrap` the goroutine of call `c` has reached; `sem` the
number of tokens in the channel; `audit[c]` the audit lines emitted for the call,
each only its success flag; `answer[c]` what the client gets. One action per step
between two points where the scheduler or the other calls can be noticed: `Begin`
(record and deadline), `Acquire` or `GiveUp` (the two branches of the `select`),
`FinishRefusal` and `ReturnBusy`, `HandlerWrites` and `HandlerEnds` (the handler
`f`, which may write to the cluster any number of times while its context lives, as
a drain or a manifest does, and return, fail, refuse or panic), `FinishCall`,
`ReturnResult`, `Recover`, and `ReleaseSlot`, the deferred receive, which would
block on an empty channel. The deferred `recover` runs before the deferred receive,
as in the code. `Expire` is the deadline or the client going away. A handler that
refuses returns an error result and a nil error; the model keeps this apart from a
Go error because the audit record does. The cutting of long answers and the
descriptive fields of the record are left out.

### ServerRun

Adds the transport, `phase` (serving, draining, exited), the open event streams
of HTTP clients, the requests whose clients hung up, and the exit code. Calls
begin only while the transport serves and go on until the process is gone.
`SignalHTTP` is the branch of `runHTTP` that calls `srv.Shutdown`; `Drained` and
`ShutdownTimesOut` are its two ends; `Exit` is `main`'s use of the error. Over
stdio the SDK's `Run` returns at once and nothing in this code waits for calls;
`StdioErrors` says which errors it may return when a signal comes, the client
closes stdin, or a pipe breaks, and `IsGracefulClose` tells them apart by value and
by text, as `main` does.
What the SDK does with a call whose HTTP client hung up is left open: it may
cancel the call's context or not.

### PortForward

`handler[c]` is the call and, from "open" on, its teardown goroutine; `fwd[c]`
is the goroutine in `pf.ForwardPorts`, which dials, listens, closes `readyChan`
and only then looks at `stopChan` (client-go, modelled from how the code uses
it). The three branches of the `select` are three actions that may all be
enabled. `forwards` is the mutex-protected counter, with the code's test for
zero in `releaseForward`. `LeaseOf` and `TunnelOf` map a call to its state in
`TunnelLease`: a slot is a lease from `acquireForward` to `releaseForward`, and a
tunnel is up while it listens, late ones included.

### DebugPod

`pods[n]` is the pod that has the name `n` in the cluster, identified by its
creator; `cleanup[c]` the call and then its goroutine. API calls fail or lose
their answers up to `Failures` times; others create and delete pods at any time.
`server` is the process: serving, stopping (`ShutdownCtx` is cancelled; calls go on
for the drain and may still create pods, whose cleanups return at once) and gone,
when its goroutines are gone with it while requests it had sent may still arrive.
`robbed` serves the properties: the calls whose pod somebody else took away.

### Rollout

The Deployment's template is an image and a restart stamp; the stamp stands for
every template annotation, label or optional field one template has and another
does not, and the image for what the patch replaces (the list of containers).
ReplicaSets are identified by their template, as the controller does. An undo is
three API calls; the controller numbers revisions, copies the number to the
Deployment and prunes history in steps of its own. The read of the current
revision may fail, which the code does not look at: `unread` has the undos for which
it did. Like `previous`, `given` and `calm` (the undos that found the Deployment
settled and that nobody has disturbed since), it only serves the properties.

### Policy

`setting` is a command line with its environment: each switch unset, on or off,
the lists, the category selection, how to listen and with what cover. `Build` is
`main` from `Validate` to `register`; `FromConfig` and `Registered` repeat the
implications the code repeats (destructive implies writes, at both places). The
tools are the rows of their packages' tables, each with its *place*: where its
handler looks, and so which of `ResolveList`, `CheckScope`, `CheckNamespace`,
`CheckTarget` it calls. `Requests` is what a handler sends for given arguments,
with the effect and the namespace of each request; a handler that refuses sends
none. The properties compare requests with `setting`, never with the policy that
was derived from it.

### Manifest and Writes

A document of a manifest is its class: good, empty, refused by the policy,
rejected by the API server, no object, or cut in the middle, which the decoder
takes for the end (`operations.go:305` looks for "EOF" in the error's text).
`Writes` has one object with a resourceVersion. The value of a field is the
version of the write that set it, so that a lost update shows. `SentVersion` says
which tools send the version they read: `update_configmap` and
`add_ephemeral_container` do, `label`, `annotate`, `scale` and `patch_resource`
send a patch that leaves other fields alone. `Read`, `ReadFails`, `Write`,
`WriteRejected` and `WriteFails` are the API calls with their failures; a failed
write may have been done.

### Drain

`owner[p]` says to whom a pod name belongs: a controller of one of three kinds, no
controller, or the kubelet, whose static pods are mirrored in kube-system or elsewhere.
A pod is a record of its own: its node, its uid, who controls it, whether it has an
emptyDir volume, and whether a cordon keeps it out (`exempt`: a DaemonSet's pod, or one
whose spec names its node, as that of `run_debug_pod` with a node). A namesake may
differ in all of them. `listed` is the drain's snapshot.
`Cordon`, `List`, `Skip` (`skipReason`), `Evict`, `EvictFails`, `CallFails` and
`Finish` are the steps of the handler; binding, ending and replacing pods, static pods
that come back, pods, deletions and uncordons of others are the cluster's. `early`
and `uncordoned` serve the properties.

### RolloutReport, LogStream, Reports

`RolloutReport` has the workload's spec, the spec its controller has seen, pods
counted by template (`Sum` counts them as the set `PodsOf`), and the status; the
tool may be asked at any moment, so its two answers, `RolledOut` and `Stalled`, are
state predicates. `LogStream` counts output in abstract units, the limit and a
buffer being a few of them. In `Reports` a snapshot is what the API returned,
restricted to what a kubelet can report: a pod of up to `MaxContainers` containers,
a cluster of up to `MaxNodes` nodes, a service of up to `MaxEndpoints` endpoints;
`PodClear`, `NodeClear`, `ClusterHealthy` and `ServiceHealthy` are the tools'
judgements.

## Runs

| Run | Instance | Shows |
|---|---|---|
| `ToolCall` | 3 calls, 1 slot | slots are conserved (`SlotsMatchHolders`); one audit line per call (`AuditedOnce`); calls that have written and are not yet in the audit log never outnumber the slots (`UnauditedCallsBounded`); a busy call did nothing (`BusyDidNothing`); only a call's own handler can delay it (`OnlyHandlersDelay`); `Wrap` implements `CallContract` (`KeepsContract`) and, when handlers end, its promise (`KeepsPromise`) |
| `ServerRun` | 2 calls, 1 slot, 1 stream, both transports | draining ends (`DrainEnds`); exit 0 over HTTP cuts off nobody still waiting (`CleanExitLosesNothing`); exit 1 has a reason, which over stdio is only a pipe that broke (`FailedExitHasReason`) |
| `PortForward` | 3 calls, 1 slot, 1 port | every listener has a slot or was told to stop, once (`ListenersAccountedFor`); every slot comes back (`SlotsComeBack`) and every listener goes away (`TunnelsEnd`); `port_forward` implements `TunnelLease` (`KeepsLease`); the invariant of the proofs, with slot conservation and limit (`IInv`) |
| `DebugPod` | 3 calls on 1 name, 1 API failure, shutdown and exit | all the ways a pod is left behind (`LeaksExplained`); a cleanup hits a pod that is not its own only once its own was created and taken away by others (`HitsStrangersOnlyOnceRobbed`); pods are deleted while the server runs and the API answers (`DeletedWhileServing`) |
| `Rollout` | 2 undos, 2 images, 1 restart, revisions 9 to 12 | undisturbed undos bring back the image that was in effect before, except that one which could not read the current revision changes nothing (`UndoGoesBack`); a requested revision is the one it was when it was given (`RequestedRevisionHonoured`); an undisturbed undo without effect is one of a restart, or could not read the current revision (`NoOpHasReason`); an undo is refused only where there is nothing to go back to (`RefusedOnlyWithoutHistory`) |
| `RolloutUndo` | 1 undo, 1 restart | *violated*: an undo after a restart changes nothing (`UndoRestoresTemplate`) |
| `Policy` | 40 000 states: all sets of switches, sources, lists, categories and ways to listen; every tool | changes need their flag (`FlagsGovern`), also if a handler were called unregistered (`HandlersRefuseAlone`); requests stay in their namespaces and away from the control plane's, but for the listed tools (`ScopeExplained`); the instructions are true (`SaysWhatItDoes`); when the server is open to others (`OpenOnlyAsExplained`) |
| `Writes` | 2 calls of any tools, 2 writes of others, 1 failure; manifests of up to 4 documents, 2.1 million states | a call undoes of the others' writes only its own field (`UndoesOnlyOwnField`); a key that has a value is changed without `overwrite` only if the call had looked and found none (`KeepsExistingKeys`); containers are attached atomically (`AttachesAtomically`); what "applied" means (`ApplyExplained`) |
| `Drain` | 2 names of any of 6 owners, a budget of 1, 2 pods per name, 1 deletion, uncordon or pod of others, 2.6 million states | why a pod is still there (`LeftoverExplained`); which pods a drain ends, namesakes included (`EvictionsExplained`) |
| `Reports` | 2 templates, 3 replicas, 3 changes; a log of 5 units; every snapshot of a pod with up to 2 containers, a node, a cluster of up to 2 nodes, a service with up to 2 endpoints | when "rolled out" (`RolloutReportExplained`), a log text (`LogsExplained`), "no issues" and "healthy" (`AllClearExplained`) may be believed |
| `LogsFollow` | the same | *violated*: a followed log is answered with an error (`FollowAnswers`) |
| `Connectivity` | the same | *violated*: a service that works is called unhealthy (`VerdictComplete`) |

Every property of a passing run has a mutated form of some definition (a
dropped guard, a missing release, a wrong order) under which TLC finds it
violated. The names with *Explained* list the exceptions the code has: the
property is that there is no other.

### Bounds

`Calls`, `Images`, `Names`, `Ports`, `Pods`, `Templates` and `IdleStreams` are the
size of the instance. Three calls for one slot give a holder, a waiter, and a second
waiter that overtakes; the slots are interchangeable, and the proofs cover every
number of calls and slots. `Failures`, `MaxFailures` and `ApplyFailures` bound
failing API calls: each call has at most two, and one failure can hit either.
`MaxRestarts` and `MaxRevision` bound the restarts and the revisions given out;
revisions start at 9 so that their order as numbers and as texts differs.
`HistoryLimit` is `revisionHistoryLimit`, small enough for history to be pruned.
`MaxOthers` bounds what other clients do. In `Writes` it is two, enough for one
write between a read and a write and one that undoes it; in `Drain` it is one: a
single deletion makes room for a namesake, a single uncordon or created pod puts a
pod on the node after the list, and the exceptions of the two properties need no
second. `MaxUid` bounds the pods under a name: the listed one and its namesake.
`Volumed` are the owners whose pods are tried with an emptyDir volume too, where it
decides something. Three calls on one name in `DebugPod` let a pod be taken, its
name be used again, and the second be hit by the first one's cleanup while a third
waits. `MaxDocuments` is above `MaxManifest`, the size the tool accepts, so that it
is exceeded too. `MaxContainers`, `MaxNodes` and `MaxEndpoints` are 2, so that a
good one can hide a bad one; the verdicts look at them one by one. `ClusterNodes`
are the nodes a cluster is made of, fewer than the nodes looked at alone, chosen so
that each rule of `list_nodes` and `diagnose_node` applies to one. `MaxWritten` lets
a log pass `ReadLimit` by a whole buffer. `Settings` of `MCPolicy` are products of
what the checks look at together, not of everything with everything. `Drain` uses
the symmetry of pod names; no other run uses symmetry, and the runs with liveness
must not.

### Fairness

Weak fairness of the steps of goroutines that can run (`WrapStep`, `ServerStep`,
`CleanupStep`), and of timers that the code sets (`Expire` for the call's
deadline, the 10 s and duration timers of `port_forward`, the cleanup timer, the
5 s of `Shutdown`): the Go scheduler runs every goroutine and its timers fire. A
dial to a pod ends, as connections time out (`ForwarderStep`). Nothing is
assumed of clients, signals, lost connections or other users of the cluster, and
nothing of handlers, except in `KeepsPromise`, which says so: there handlers end,
because their API calls inherit the call's deadline. The other components have no
fairness: their properties are about states and steps.

## Proofs

Theorems hold for every value of the constants under the named assumptions:
`LimitIsNatural` (`Config.Validate` refuses a negative limit); `ForwardAssumption`
(the limit is a natural number, port 0 is not a port); `TransportAssumption`;
`DebugAssumption` (the marks for others' pods and for no pod are no calls);
`RolloutAssumption` (there is an image, and history keeps at least one old
revision); `PolicyAssumption` (the namespaces the code names exist, the marks are
none of them, and the settings have the values their fields can have);
`ManifestAssumption`; `DrainAssumption` (finitely many pods);
`RolloutReportAssumption` (finitely many templates and at least one, natural bounds on
replicas and changes); `LogAssumption` (a limit, a buffer that holds something);
`SnapshotAssumption` (the bounds are natural numbers, and a cluster's nodes are
nodes).

Each proof is one inductive invariant, shown for the initial states and each kind
of step, and the properties from it.

`ServerRunProofs`, the calls: `WrapInvariant` shows `IInv` inductive. Slot
conservation alone is not: to know that a call that gives a slot back holds one, and
that its audit log is empty when its record is finished, one needs what is true at
each point of `Wrap` (`RecordsByPlace`), and that the set of holders is finite,
which follows because each step adds at most one. `SlotsConserved`,
`InFlightBounded`, `OneAuditLine`, `UnauditedCallsFewer`, `BusyIsHarmless`,
`ReceiveNeverBlocks` and `TypeCorrect` follow from it. `UnauditedCallsFewer` uses
that a call with writes and no record is a holder, and that a subset of a finite set
is no larger. `WrapKeepsContract` is the refinement: under the mapping
`ContractPhase`, the initial states and every step of `ToolCall` are those of
`CallContract` or stutter; admission needs `InFlightBounded`'s counting.

`ServerRunProofs`, the process: `RunInvariant` takes over the invariant of the
calls, whose steps are those of `ToolCall` (`RunWrapStep`), and adds what is told of
each phase and that a call past its answer has one. Only the step into "exited" has
to establish `CleanExit` and `FailedExit`: at that moment no request is open, or one
of the reasons holds. `ProcessRunsWrap` says that every behaviour of the process is
one of `ToolCall`, so what is proved of the calls holds of the process and
`ProcessKeepsContract` follows.

`PortForwardProofs`: `ForwardInvariant` shows `IInv` of `PortForward` inductive: the
slot count, and for each point of the handler how often the stop channel was closed
and what the forwarder may be doing (`ForwardByPlace`). From it follow
`ForwardSlotsConserved` (with the lemma `SlotReturned`: the test for zero in
`releaseForward` never fails), `ForwardsLimited` and `NoTunnelForgotten`.
`ForwardKeepsLease` is the refinement of `TunnelLease`: each action is one of the
lease or changes neither lease nor tunnel; a refusal needs that the counter is the
number of holders (`RoomTold`), and a tunnel that comes up or ends, that it is held
or was told to stop (`LiveTunnels`).

`DebugPodProofs`: `CleanupInvariant` says whose name a pod has (`NameTold`), that
a cleanup belongs to a pod the call created (`MadeTold`), that a created pod is there
still unless its own cleanup or somebody else took it (`RobbedTold`), and that a cleanup
that does not come has a reason (`ReasonTold`). From it `LeaksAreExplained` and
`StrangersHitOnlyOnceRobbed`; without `RobbedTold` a cleanup could hit a stranger
although its own pod never left.

`RolloutProofs`: `RolloutInvariant`. A revision number is given once and its
ReplicaSet has the template it was given for (`NumberedTold`); the number before the
newest is that of the template before it (`PreviousTold`), which pruning spares
because it takes the oldest of at least three; what a call picked is what was given
(`PickedTold`); and what an undisturbed call has listed is still so (`CalmTold`),
and what it picked is the template before the current one, or the current one if it
could not read its revision. Without `PreviousTold` the choice of the highest other
revision could be any template. From it `UndoBringsBack`, `RequestHonoured`,
`NoOpExplained` and `RefusalExplained`.

`PolicyProofs`: the invariant ties the running policy to the command line; the
theorems then go through the tables of tools once (`PlaceFacts`, `EffectFacts`) and
show each handler's check enough for its place (`PlacesInScope`), and that only lists,
and the three tools named in `ScopeExplained`, ask across namespaces
(`OnlyListsAskForAll`):
`FlagsAlwaysGovern`, `ScopeAlwaysKept`, `HandlersAlwaysRefuse`,
`InstructionsAreTrue`, `OpenOnlyForAReason`, for any namespaces, kinds, images and
settings.

`WritesProofs`: a call has read an earlier object or the one that is still stored,
told by its version (`SeenTold`); so an update that carries its version replaces
exactly what was read (`SentIsStored`). From it `OthersWritesSurvive`,
`ExistingKeysKept`, and `AttachingIsAtomic`, the refinement of `ContainerList`.
`ManifestApplied` has an invariant of its own about the documents behind the one
in hand.

`DrainProofs`: the list is older than what is there (`ListedTold`), whom the drain
has seen to is on the way out or was spared (`SeenToTold`), and a pod on the node
came before the cordon, after an uncordon, is static or not kept out by a cordon
(`PlacedTold`). From it
`LeftoversAreExplained` and `EvictionsAreExplained`; the latter counts the healthy
pods of the budget with the cardinality theorems.

`ReportsProofs`: one invariant for three independent readers. `RolloutInv`
says what a status tells of the spec its controller worked from (`StatusTold`), that
once it counted every pod as updated no pod of another template is made until the
controller sees another spec (`UpdatedTold`), and that a DaemonSet keeps to one pod
for a node (`NodesTold`). The step that matters counts: where a status says as many
updated pods as pods, the set of the others is empty, by the cardinality theorems
(`OneTemplate`, `TemplateCounts`). `LogInv` ties what was read to what was written,
and a snapshot is one the API can return and does not change. From it
`RolloutReportsExplained`, `LogTextsExplained`, and, by going through the rules of
each verdict, `AllClearIsExplained`.

Only model-checked: the liveness properties (`OnlyHandlersDelay`, `KeepsPromise`,
`DrainEnds`, `SlotsComeBack`, `TunnelsEnd`, `DeletedWhileServing`), as liveness under
fairness and `ENABLED` are out of the prover's reach. Every invariant and every
action property of a passing run is a theorem.

## Findings

The violated runs are disagreements between the code and what its documents or
comments say; `PROJECT.json` quotes the lines:

- `RolloutUndo`: the rollback is a JSON merge patch, which keeps what the target
  template does not mention. An undo right after a restart changes nothing and
  reports success. (The comment at `mutateController` speaks of a strategic-merge
  patch.)
- `LogsFollow`: the 20 seconds of `follow` are a deadline on the stream's context;
  when it passes, the lines read so far are dropped and the call fails.
- `Connectivity`: readiness is looked for at the endpoint and not among its
  conditions, so that no endpoint counts as ready when EndpointSlices can be read.

Seen while modelling, without a run of their own; where a property is named, it says
exactly when the code does so, and that it does so in no other case:

- the error of reading the current revision is dropped (`scale.go:189`): the undo then
  skips no revision, takes the newest, which is the current one, and reports a rollback
  that changes nothing (`UndoGoesBack`, `NoOpHasReason`);
- without `--allow-privileged-targets` a list of all namespaces shows the control
  plane's when there is no allowlist (`util.go:44`), and `delete_pod` deletes in them
  (`delete.go:54`), although `PLAN.md:356` asks for the flag (`ScopeExplained`);
- `label` and `annotate` look and patch in two steps, without a resourceVersion: a key
  set in between is changed although `overwrite` is false, which "if false, refuse to
  change existing keys" (`scale.go:280`) does not lead one to expect
  (`KeepsExistingKeys`);
- an eviction names no uid (`nodes.go:191`): a pod that took a listed pod's name is
  evicted in its place, on whatever node it runs and whatever `skipReason` would say of
  it (`EvictionsExplained`);
- the cleanup of a debug pod deletes by name (`portforward.go:204`): a pod that got the
  name after the first was deleted early is deleted before its own duration is over
  (`HitsStrangersOnlyOnceRobbed`);
- over HTTP a call that outlasts the five-second drain may leave a write in the
  cluster and no audit line, for as many calls as there are slots
  (`UnauditedCallsBounded`); an open event stream alone makes an ordinary stop exit
  with 1 (`main.go:122-132`);
- the success flag of an audit record is true for a handler that refused with an
  error result;
- `port_forward` with local port 0 announces port 0; a slot is given back a moment
  before its listener is closed (`portforward.go:138`); a duration near the maximum
  overflows the cleanup's timer (`portforward.go:192`);
- a debug pod outlives a server that stops, one created during the drain included
  (`LeaksExplained` says exactly when);
- `update_configmap` replaces the whole object, labels and annotations included
  (`operations/resources.go:102-114`); after a failed read it does so without a version;
- `rollout_history` sorts revisions as texts and names the last as the current one
  (`troubleshoot/rollout.go:153-170`); `rollout_status` can show "stalled" from a
  condition of an earlier generation;
- `get_service` says that no pod is ready when the Endpoints cannot be read, and
  `get_endpoints` counts every address of a slice as ready; `diagnose_pod` gives the
  all-clear for evicted pods and for pods on lost nodes; `top_*` shows a CPU
  percentage of 0;
- `drain_node`'s timeout is described as the time to wait for evictions, for which
  it does not wait; `label`, `annotate`, `rollout_*` and `cordon_node` have no dry
  run; `cluster_health`, `diagnose_node` and `drain_node` look across namespaces
  (`ScopeExplained` lists them); with `force` a pod that `run_debug_pod` puts on the
  node after the list is left there (`LeftoverExplained`); `cordon_node` and
  `uncordon_node` rely on registration alone (`HandlersRefuseAlone`);
- the flags that are lists have no environment variable; a switch set to anything
  but "true" or "1" in the environment is off; the transport spelled `HTTP` passes
  `Validate` and is served as stdio; a certificate without a client CA passes for
  TLS and is not used (`OpenOnlyAsExplained`).

## Not modelled, and why

- Cluster access (`internal/kube`), logging and tracing set-up, OAuth metadata, CORS
  and authentication: I/O, configuration of libraries, and middleware that compares
  a token; none keeps state.
- `Attach` and `AttachArgs` of the audit log: they fill in descriptive fields.
- The text of answers: tables, descriptions, ages, usage figures, log tails, cut
  texts, and the parsing of lists. Where a decision is made on a value, the
  decision is modelled (`Reports`, `Policy`).
- `exec_command`'s stream and `check_connectivity`'s dial: one external call each.
- `rollout_restart` of StatefulSets and DaemonSets: the same one patch; they have no
  undo. `rollout_history`: a listing, see above.
- Test fakes, deployment files and scripts: not part of the running server.

What remains: `Attach` against concurrent calls if records ever become shared, the
streaming of `exec_command` if it gets a bound of its own, and larger instances of
`Drain` and `Writes`, which the proofs make less urgent.
