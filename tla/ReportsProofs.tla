---- MODULE ReportsProofs ----
(***************************************************************************)
(* Proofs about Reports: what the reading tools say may be believed as far *)
(* as the properties tell, for any finite set of templates, any numbers of *)
(* replicas and changes, any limit, buffer and length of a log, and pods,  *)
(* clusters and services of any size.                                      *)
(***************************************************************************)
EXTENDS Reports, FiniteSetTheorems, TLAPS

----------------------------------------------------------------------------
\* Counting pods.

\* The pods of one template are as many as their count says.
LEMMA OneTemplate ==
    ASSUME NEW t, NEW n \in Nat
    PROVE  IsFiniteSet({t} \X (1..n)) /\ Cardinality({t} \X (1..n)) = n
<1>1. IsFiniteSet(1..n) /\ Cardinality(1..n) = n
  BY FS_Interval
<1>2. IsFiniteSet({t}) /\ Cardinality({t}) = 1
  BY FS_Singleton
<1>3. QED
  BY <1>1, <1>2, FS_Product

\* A template without pods adds none: a count of one template is that one's.
LEMMA OnlyCounts ==
    ASSUME NEW t \in Templates, NEW n \in Nat
    PROVE  /\ Only(t, n) \in [Templates -> Nat]
           /\ PodsOf(Only(t, n)) = {t} \X (1..n)
<1>1. Only(t, n) \in [Templates -> Nat]
  BY DEF Only
<1>2. PodsOf(Only(t, n)) \subseteq {t} \X (1..n)
  <2> SUFFICES ASSUME NEW u \in Templates, NEW p \in {u} \X (1..Only(t, n)[u])
               PROVE  p \in {t} \X (1..n)
    BY DEF PodsOf
  <2>1. Only(t, n)[u] = IF u = t THEN n ELSE 0
    BY DEF Only
  <2>2. u = t
    BY <2>1
  <2> QED
    BY <2>1, <2>2
<1>3. {t} \X (1..n) \subseteq PodsOf(Only(t, n))
  <2>1. Only(t, n)[t] = n
    BY DEF Only
  <2> QED
    BY <2>1 DEF PodsOf
<1>4. QED
  BY <1>1, <1>2, <1>3

\* No template has more pods than there are, and if one has all of them the others
\* have none.
LEMMA TemplateCounts ==
    ASSUME NEW f \in [Templates -> Nat], IsFiniteSet(PodsOf(f)), NEW t \in Templates
    PROVE  /\ Sum(f) \in Nat
           /\ f[t] <= Sum(f)
           /\ f[t] = Sum(f) => \A u \in Templates \ {t} : f[u] = 0
<1> DEFINE T == {t} \X (1..f[t])
<1>1. T \subseteq PodsOf(f)
  BY DEF PodsOf
<1>2. IsFiniteSet(T) /\ Cardinality(T) = f[t]
  BY OneTemplate
<1>3. Sum(f) \in Nat
  BY FS_CardinalityType DEF Sum
<1>4. Cardinality(T) <= Sum(f) /\ (Sum(f) = Cardinality(T) => PodsOf(f) = T)
  BY <1>1, FS_Subset DEF Sum
<1>5. ASSUME PodsOf(f) = T, NEW u \in Templates \ {t} PROVE f[u] = 0
  <2> SUFFICES ASSUME f[u] # 0 PROVE FALSE
    OBVIOUS
  <2>1. 1 \in 1..f[u]
    OBVIOUS
  <2>2. <<u, 1>> \in {u} \X (1..f[u])
    BY <2>1
  <2>3. <<u, 1>> \in PodsOf(f)
    BY <2>2 DEF PodsOf
  <2> QED
    BY <1>5, <2>3
<1>6. QED
  BY <1>2, <1>3, <1>4, <1>5

\* One more pod is one more.
LEMMA OneMore ==
    ASSUME NEW f \in [Templates -> Nat], IsFiniteSet(PodsOf(f)), NEW t \in Templates,
           NEW g, g = [f EXCEPT ![t] = @ + 1]
    PROVE  /\ g \in [Templates -> Nat]
           /\ IsFiniteSet(PodsOf(g)) /\ Sum(g) = Sum(f) + 1
<1>1. g \in [Templates -> Nat] /\ g[t] = f[t] + 1
      /\ \A u \in Templates \ {t} : g[u] = f[u]
  OBVIOUS
<1> DEFINE p == <<t, f[t] + 1>>
<1>2. PodsOf(g) = PodsOf(f) \cup {p}
  <2>1. ASSUME NEW u \in Templates, u # t, NEW q
        PROVE  q \in {u} \X (1..g[u]) <=> q \in {u} \X (1..f[u])
    BY <1>1, <2>1
  <2>2. {t} \X (1..g[t]) = ({t} \X (1..f[t])) \cup {p}
    <3>1. 1..g[t] = (1..f[t]) \cup {f[t] + 1}
      BY <1>1
    <3> QED
      BY <3>1
  <2> QED
    BY <2>1, <2>2 DEF PodsOf
<1>3. p \notin PodsOf(f)
  <2> SUFFICES ASSUME NEW u \in Templates, p \in {u} \X (1..f[u]) PROVE FALSE
    BY DEF PodsOf
  <2>1. u = t /\ f[t] + 1 \in 1..f[t]
    OBVIOUS
  <2> QED
    BY <2>1
<1>4. /\ IsFiniteSet(PodsOf(f) \cup {p})
      /\ Cardinality(PodsOf(f) \cup {p}) = Cardinality(PodsOf(f)) + 1
  <2> HIDE DEF p
  <2> QED
    BY <1>3, FS_AddElement
<1>5. QED
  BY <1>1, <1>2, <1>4 DEF Sum

\* One less leaves no more.
LEMMA OneLess ==
    ASSUME NEW f \in [Templates -> Nat], IsFiniteSet(PodsOf(f)), NEW t \in Templates,
           f[t] > 0, NEW g, g = [f EXCEPT ![t] = @ - 1]
    PROVE  /\ g \in [Templates -> Nat]
           /\ IsFiniteSet(PodsOf(g)) /\ Sum(g) <= Sum(f)
           /\ \A u \in Templates : g[u] <= f[u]
<1>1. g \in [Templates -> Nat] /\ \A u \in Templates : g[u] <= f[u]
  OBVIOUS
<1>2. PodsOf(g) \subseteq PodsOf(f)
  <2> SUFFICES ASSUME NEW u \in Templates, NEW q \in {u} \X (1..g[u])
               PROVE  q \in {u} \X (1..f[u])
    BY DEF PodsOf
  <2>1. 1..g[u] \subseteq 1..f[u]
    BY <1>1
  <2> QED
    BY <2>1
<1>3. QED
  BY <1>1, <1>2, FS_Subset DEF Sum

----------------------------------------------------------------------------
\* rollout_status.

Kinds    == {"Deployment", "StatefulSet", "DaemonSet"}
Specs    == [generation : Nat, template : Templates, replicas : Nat]
Statuses == [observed : Nat, replicas : Nat, updated : Nat, available : Nat, desired : Nat,
             current : Templates, update : Templates, stalled : Nat]

RolloutTyped ==
    /\ kind \in Kinds /\ strategy \in {"RollingUpdate", "OnDelete"}
    /\ spec \in Specs /\ seen \in Specs
    /\ pods \in [Templates -> Nat] /\ IsFiniteSet(PodsOf(pods))
    /\ status \in Statuses

\* The status is that of the spec the controller has seen, which is the present one
\* or an earlier one.
StatusTold ==
    /\ status.observed = seen.generation
    /\ seen.generation <= spec.generation
    /\ seen.generation = spec.generation => seen = spec
    /\ status.update = seen.template
    /\ status.desired = seen.replicas
    /\ status.updated <= status.replicas
    /\ status.stalled \in {0, status.observed}

\* Once the status shows every pod as updated, no pod of another template is made
\* until the controller sees another spec.
UpdatedTold ==
    status.updated = status.replicas => \A t \in Templates \ {seen.template} : pods[t] = 0

\* A DaemonSet has at most one pod for a node.
NodesTold ==
    kind = "DaemonSet" =>
        /\ seen.replicas = spec.replicas
        /\ Sum(pods) <= seen.replicas
        /\ status.replicas <= seen.replicas

RolloutInv == RolloutTyped /\ StatusTold /\ UpdatedTold /\ NodesTold

\* A workload at rest fits.
LEMMA RolloutStarts == RolloutInit => RolloutInv
<1> SUFFICES ASSUME RolloutInit PROVE RolloutInv
  OBVIOUS
<1>1. PICK t \in Templates, n \in 1..MaxReplicas :
          /\ spec = [generation |-> 1, template |-> t, replicas |-> n]
          /\ pods = Only(t, n)
          /\ status = [observed |-> 1, replicas |-> n, updated |-> n, available |-> n,
                       desired |-> n, current |-> t, update |-> t, stalled |-> 0]
  BY DEF RolloutInit
<1>2. n \in Nat /\ seen = spec
  BY RolloutReportAssumption DEF RolloutInit
<1>3. /\ pods \in [Templates -> Nat] /\ IsFiniteSet(PodsOf(pods)) /\ Sum(pods) = n
      /\ \A u \in Templates \ {t} : pods[u] = 0
  <2>1. \A u \in Templates \ {t} : pods[u] = 0
    BY <1>1 DEF Only
  <2>2. pods \in [Templates -> Nat] /\ PodsOf(pods) = {t} \X (1..n)
    BY <1>1, <1>2, OnlyCounts
  <2>3. IsFiniteSet({t} \X (1..n)) /\ Cardinality({t} \X (1..n)) = n
    BY <1>2, OneTemplate
  <2> QED
    BY <2>1, <2>2, <2>3 DEF Sum
<1>4. spec \in Specs /\ seen \in Specs
  BY <1>1, <1>2 DEF Specs
<1>5. status \in Statuses
  BY <1>1, <1>2 DEF Statuses
<1>6. kind \in Kinds /\ strategy \in {"RollingUpdate", "OnDelete"}
  BY DEF RolloutInit, Kinds
<1>7. RolloutTyped
  BY <1>3, <1>4, <1>5, <1>6 DEF RolloutTyped
<1>8. StatusTold /\ NodesTold
  BY <1>1, <1>2, <1>3 DEF StatusTold, NodesTold
<1>9. UpdatedTold
  BY <1>1, <1>2, <1>3 DEF UpdatedTold
<1> QED
  BY <1>7, <1>8, <1>9 DEF RolloutInv

\* Nothing at all fits too.
LEMMA RolloutIdles == RolloutIdle => RolloutInv
<1> SUFFICES ASSUME RolloutIdle PROVE RolloutInv
  OBVIOUS
<1> DEFINE t == CHOOSE u \in Templates : TRUE
<1>1. t \in Templates
  BY RolloutReportAssumption
<1> HIDE DEF t
<1>2. /\ spec = [generation |-> 0, template |-> t, replicas |-> 0] /\ seen = spec
      /\ status = [observed |-> 0, replicas |-> 0, updated |-> 0, available |-> 0,
                   desired |-> 0, current |-> t, update |-> t, stalled |-> 0]
      /\ pods = [u \in Templates |-> 0]
      /\ kind = "Deployment" /\ strategy = "RollingUpdate"
  BY DEF RolloutIdle, t
<1>3. pods \in [Templates -> Nat] /\ \A u \in Templates : pods[u] = 0
  BY <1>2
<1>4. PodsOf(pods) = {}
  BY <1>3 DEF PodsOf
<1>5. spec \in Specs /\ seen \in Specs
  BY <1>1, <1>2 DEF Specs
<1>6. status \in Statuses
  BY <1>1, <1>2 DEF Statuses
<1>7. RolloutTyped
  BY <1>2, <1>3, <1>4, <1>5, <1>6, FS_EmptySet DEF RolloutTyped, Kinds
<1>8. StatusTold /\ UpdatedTold /\ NodesTold
  BY <1>2, <1>3 DEF StatusTold, UpdatedTold, NodesTold
<1> QED
  BY <1>7, <1>8 DEF RolloutInv

\* A change is of a later generation than what the controller has seen.
LEMMA ChangeFits == RolloutInv /\ Change => RolloutInv'
<1> SUFFICES ASSUME RolloutInv, Change PROVE RolloutInv'
  OBVIOUS
<1>1. PICK t \in Templates, n \in 1..MaxReplicas :
          /\ kind = "DaemonSet" => n = spec.replicas
          /\ spec' = [generation |-> spec.generation + 1, template |-> t, replicas |-> n]
  BY DEF Change
<1>2. UNCHANGED <<kind, strategy, seen, pods, status>>
  BY DEF Change
<1>3. n \in Nat /\ spec.generation \in Nat /\ seen.generation \in Nat
  BY RolloutReportAssumption DEF RolloutInv, RolloutTyped, Specs
<1>4. /\ spec' \in Specs /\ spec'.generation = spec.generation + 1
      /\ spec'.replicas = n
  BY <1>1, <1>3 DEF Specs
<1>5. RolloutTyped'
  BY <1>2, <1>4 DEF RolloutInv, RolloutTyped
<1>6. StatusTold'
  BY <1>2, <1>3, <1>4 DEF RolloutInv, StatusTold
<1>7. UpdatedTold' /\ NodesTold'
  BY <1>1, <1>2, <1>4 DEF RolloutInv, UpdatedTold, NodesTold, Sum
<1> QED
  BY <1>5, <1>6, <1>7 DEF RolloutInv

\* The controller writes the status of what it sees.
LEMMA SyncFits == RolloutInv /\ Sync => RolloutInv'
<1> SUFFICES ASSUME RolloutInv, Sync PROVE RolloutInv'
  OBVIOUS
<1>1. PICK available \in 0..Sum(pods), stalled \in {0, spec.generation},
           current \in {spec.template, status.current} :
          status' = [observed |-> spec.generation, replicas |-> Sum(pods),
                     updated |-> pods[spec.template], available |-> available,
                     desired |-> spec.replicas, update |-> spec.template,
                     current |-> current, stalled |-> stalled]
  BY DEF Sync
<1>2. seen' = spec /\ UNCHANGED <<kind, strategy, spec, pods>>
  BY DEF Sync
<1>3. /\ spec \in Specs /\ spec.generation \in Nat /\ spec.template \in Templates
      /\ spec.replicas \in Nat /\ status.current \in Templates
      /\ pods \in [Templates -> Nat] /\ IsFiniteSet(PodsOf(pods))
  BY DEF RolloutInv, RolloutTyped, Specs, Statuses
<1>4. /\ Sum(pods) \in Nat
      /\ pods[spec.template] <= Sum(pods)
      /\ pods[spec.template] = Sum(pods) => \A u \in Templates \ {spec.template} : pods[u] = 0
  BY <1>3, TemplateCounts
<1>5. status' \in Statuses
  BY <1>1, <1>3, <1>4 DEF Statuses
<1>6. RolloutTyped'
  BY <1>2, <1>3, <1>5 DEF RolloutInv, RolloutTyped
<1>7. /\ status'.observed = spec.generation /\ status'.replicas = Sum(pods)
      /\ status'.updated = pods[spec.template] /\ status'.desired = spec.replicas
      /\ status'.update = spec.template /\ status'.stalled \in {0, spec.generation}
  BY <1>1
<1>8. StatusTold'
  BY <1>2, <1>3, <1>4, <1>7 DEF StatusTold
<1>9. UpdatedTold'
  BY <1>2, <1>4, <1>7 DEF UpdatedTold
<1>10. NodesTold'
  BY <1>2, <1>7 DEF RolloutInv, NodesTold, Sum
<1> QED
  BY <1>6, <1>8, <1>9, <1>10 DEF RolloutInv

\* A pod is made of the template the controller works from, or of a StatefulSet's
\* current one while some pods are not updated.
LEMMA MakePodFits == RolloutInv /\ MakePod => RolloutInv'
<1> SUFFICES ASSUME RolloutInv, MakePod PROVE RolloutInv'
  OBVIOUS
<1>1. PICK t \in {seen.template, status.current} :
          /\ t # seen.template => /\ kind = "StatefulSet"
                                 /\ pods[t] < status.replicas - status.updated
          /\ pods' = [pods EXCEPT ![t] = @ + 1]
  BY DEF MakePod
<1>2. UNCHANGED <<kind, strategy, spec, seen, status>>
  BY DEF MakePod
<1>3. /\ pods \in [Templates -> Nat] /\ IsFiniteSet(PodsOf(pods))
      /\ t \in Templates /\ seen.template \in Templates
      /\ seen.replicas \in Nat /\ status.replicas \in Nat /\ status.updated \in Nat
  BY DEF RolloutInv, RolloutTyped, Specs, Statuses
<1>4. /\ pods' \in [Templates -> Nat]
      /\ IsFiniteSet(PodsOf(pods')) /\ Sum(pods') = Sum(pods) + 1
  BY <1>1, <1>3, OneMore
<1>5. RolloutTyped'
  BY <1>2, <1>4 DEF RolloutInv, RolloutTyped, PodsOf
<1>6. StatusTold'
  BY <1>2 DEF RolloutInv, StatusTold
<1>7. UpdatedTold'
  <2> SUFFICES ASSUME status.updated = status.replicas, NEW u \in Templates \ {seen.template}
               PROVE  pods'[u] = 0
    BY <1>2 DEF UpdatedTold
  <2>1. t = seen.template
    BY <1>1, <1>3
  <2> QED
    BY <1>1, <1>3, <2>1 DEF RolloutInv, UpdatedTold
<1>8. NodesTold'
  <2> SUFFICES ASSUME kind = "DaemonSet" PROVE Sum(pods') <= seen.replicas
    BY <1>2 DEF RolloutInv, NodesTold, Sum, PodsOf
  <2>1. Sum(pods) < seen.replicas
    BY <1>3 DEF MakePod
  <2>2. Sum(pods) \in Nat
    BY <1>3, TemplateCounts
  <2> QED
    BY <1>3, <1>4, <2>1, <2>2
<1> QED
  BY <1>5, <1>6, <1>7, <1>8 DEF RolloutInv

\* A pod that goes leaves fewer.
LEMMA PodGoesFits == RolloutInv /\ PodGoes => RolloutInv'
<1> SUFFICES ASSUME RolloutInv, PodGoes PROVE RolloutInv'
  OBVIOUS
<1>1. PICK t \in Templates : pods[t] > 0 /\ pods' = [pods EXCEPT ![t] = @ - 1]
  BY DEF PodGoes
<1>2. UNCHANGED <<kind, strategy, spec, seen, status>>
  BY DEF PodGoes
<1>3. /\ pods \in [Templates -> Nat] /\ IsFiniteSet(PodsOf(pods))
      /\ seen.replicas \in Nat
  BY DEF RolloutInv, RolloutTyped, Specs
<1>4. /\ pods' \in [Templates -> Nat] /\ IsFiniteSet(PodsOf(pods'))
      /\ Sum(pods') <= Sum(pods)
      /\ \A u \in Templates : pods'[u] <= pods[u]
  BY <1>1, <1>3, OneLess
<1>5. Sum(pods) \in Nat /\ Sum(pods') \in Nat
  BY <1>3, <1>4, FS_CardinalityType DEF Sum
<1>6. RolloutTyped'
  BY <1>2, <1>4 DEF RolloutInv, RolloutTyped, PodsOf
<1>7. StatusTold'
  BY <1>2 DEF RolloutInv, StatusTold
<1>8. UpdatedTold'
  <2> SUFFICES ASSUME status.updated = status.replicas, NEW u \in Templates \ {seen.template}
               PROVE  pods'[u] = 0
    BY <1>2 DEF UpdatedTold
  <2>1. pods[u] = 0
    BY DEF RolloutInv, UpdatedTold
  <2> QED
    BY <1>3, <1>4, <2>1
<1>9. NodesTold'
  <2> SUFFICES ASSUME kind = "DaemonSet" PROVE Sum(pods') <= seen.replicas
    BY <1>2 DEF RolloutInv, NodesTold, Sum, PodsOf
  <2>1. Sum(pods) <= seen.replicas
    BY DEF RolloutInv, NodesTold
  <2> QED
    BY <1>3, <1>4, <1>5, <2>1
<1> QED
  BY <1>6, <1>7, <1>8, <1>9 DEF RolloutInv

\* What is known of a workload explains every "rolled out" and every "stalled".
LEMMA ReportFromInv == RolloutInv => RolloutReportExplained
<1> SUFFICES ASSUME RolloutInv PROVE RolloutReportExplained
  OBVIOUS
<1> DEFINE unseen == status.observed < spec.generation
           mixed  == \E t \in Templates \ {spec.template} : pods[t] > 0
<1> USE DEF RolloutInv
<1>1. /\ spec.generation \in Nat /\ seen.generation \in Nat /\ spec.replicas \in Nat
      /\ seen.replicas \in Nat
      /\ status.observed \in Nat /\ status.replicas \in Nat /\ status.updated \in Nat
      /\ status.desired \in Nat /\ pods \in [Templates -> Nat]
  BY DEF RolloutTyped, Specs, Statuses
<1>2. ~unseen => seen = spec
  BY <1>1 DEF StatusTold
<1>3. ~unseen /\ status.updated = status.replicas => ~mixed
  BY <1>1, <1>2 DEF UpdatedTold
<1>4. ASSUME RolledOut, mixed
      PROVE  \/ kind # "Deployment" /\ unseen
             \/ /\ kind = "StatefulSet"
                /\ \/ strategy = "OnDelete"
                   \/ status.replicas > spec.replicas
                   \/ status.current = status.update
  <2>1. CASE kind = "Deployment"
    <3>1. ~unseen /\ status.replicas = status.updated
      BY <1>1, <1>4, <2>1 DEF RolledOut, DeploymentRolledOut
    <3> QED
      BY <1>3, <1>4, <3>1
  <2>2. CASE kind = "StatefulSet" /\ ~unseen
    <3> SUFFICES ASSUME strategy # "OnDelete", status.replicas <= spec.replicas,
                        status.current # status.update
                 PROVE  FALSE
      BY <1>1, <2>2
    <3>1. status.updated >= spec.replicas
      BY <1>1, <1>4, <2>2 DEF RolledOut, StatefulSetRolledOut, RolloutTyped
    <3>2. status.updated = status.replicas
      BY <1>1, <3>1 DEF StatusTold
    <3> QED
      BY <1>3, <1>4, <2>2, <3>2
  <2>3. CASE kind = "DaemonSet" /\ ~unseen
    <3>1. status.updated >= seen.replicas /\ status.replicas <= seen.replicas
      BY <1>4, <2>3 DEF RolledOut, DaemonSetRolledOut, StatusTold, NodesTold
    <3>2. status.updated = status.replicas
      BY <1>1, <3>1 DEF StatusTold
    <3> QED
      BY <1>3, <1>4, <2>3, <3>2
  <2> QED
    BY <2>1, <2>2, <2>3 DEF RolloutTyped, Kinds
<1>5. Stalled => status.stalled = spec.generation \/ unseen
  BY <1>1 DEF Stalled, StatusTold
<1> QED
  BY <1>4, <1>5 DEF RolloutReportExplained

----------------------------------------------------------------------------
\* get_logs.

\* LogsExplained is inductive with the types and what was sent.
LogInv ==
    /\ written \in Nat /\ held \in Nat
    /\ held <= written
    /\ LogsExplained

\* Before anything is read it holds.
LEMMA LogStarts == LogInit \/ LogIdle => LogInv
<1>1. ASSUME LogInit PROVE LogInv
  <2>1. written \in Nat /\ held = 0 /\ reply = "none"
    BY <1>1, LogAssumption DEF LogInit
  <2> QED
    BY <2>1, LogAssumption DEF LogInv, LogsExplained
<1>2. ASSUME LogIdle PROVE LogInv
  <2>1. written = 0 /\ held = 0 /\ reply = "text"
    BY <1>2 DEF LogIdle
  <2>2. ended
    BY <1>2, Zenon DEF LogIdle
  <2> QED
    BY <2>1, <2>2, LogAssumption DEF LogInv, LogsExplained
<1> QED
  BY <1>1, <1>2

\* Only ReadSome moves held, below the limit; only the three ends of the loop reply,
\* each with its reason; and a container that has ended writes no more.
LEMMA LogStep == LogInv /\ LogNext => LogInv'
<1> SUFFICES ASSUME LogInv, LogNext PROVE LogInv'
  OBVIOUS
<1> USE LogAssumption DEF LogInv, LogsExplained
<1>1. CASE ReadSome
  <2>1. PICK n \in 1..BufferSize : held + n <= written /\ held' = held + n
    BY <1>1 DEF ReadSome
  <2>2. n \in Nat /\ n <= BufferSize /\ held < ReadLimit
    BY <1>1 DEF ReadSome
  <2> QED
    BY <1>1, <2>1, <2>2 DEF ReadSome
<1>2. CASE ReadLimitHit
  BY <1>2 DEF ReadLimitHit, Replies
<1>3. CASE ReadEOF
  BY <1>3 DEF ReadEOF, Replies
<1>4. CASE ReadError
  BY <1>4 DEF ReadError, Replies
<1>5. CASE ContainerWrites
  BY <1>5 DEF ContainerWrites
<1>6. CASE ContainerEnds
  BY <1>6 DEF ContainerEnds
<1>7. CASE ConnectionLost
  BY <1>7 DEF ConnectionLost
<1>8. CASE TimeOver
  BY <1>8 DEF TimeOver
<1> QED
  BY <1>1, <1>2, <1>3, <1>4, <1>5, <1>6, <1>7, <1>8 DEF LogNext

----------------------------------------------------------------------------
\* Snapshots.

\* The states of a pod's containers are container states.
LEMMA PodFacts ==
    ASSUME NEW p \in Pods
    PROVE  /\ p.phase \in {"Pending", "Running", "Succeeded", "Failed", "Unknown"}
           /\ p.ready \in BOOLEAN /\ p.deleting \in BOOLEAN
           /\ States(p) \subseteq Containers
           /\ p.ready => p.phase = "Running" /\ States(p) = {"running"}
           /\ \A i \in DOMAIN p.containers : p.containers[i] \in States(p)
<1>1. p \in Pod
  BY DEF Pods
<1>2. PICK n \in 0..MaxContainers : p.containers \in [1..n -> Containers]
  BY <1>1 DEF Pod
<1>3. States(p) \subseteq Containers
  BY <1>2 DEF States
<1>4. p.ready => p.phase = "Running" /\ States(p) = {"running"}
  BY DEF Pods
<1>5. p.ready \in BOOLEAN /\ p.deleting \in BOOLEAN
      /\ p.phase \in {"Pending", "Running", "Succeeded", "Failed", "Unknown"}
  BY <1>1 DEF Pod
<1>6. \A i \in DOMAIN p.containers : p.containers[i] \in States(p)
  BY DEF States
<1> QED
  BY <1>3, <1>4, <1>5, <1>6

\* Without a waiting container the status in a listing is the phase, or Terminating.
LEMMA StatusWithoutWaiting ==
    ASSUME NEW p \in Pods, States(p) \cap Waiting = {}
    PROVE  PodStatus(p) \in {"Terminating", p.phase}
<1> DEFINE reasons == {i \in DOMAIN p.containers : p.containers[i] \in Waiting \ {"creating"}}
<1>1. reasons = {}
  BY PodFacts
<1>2. p.deleting \in BOOLEAN
  BY PodFacts
<1>3. CASE p.phase = "Failed"
  BY <1>1, <1>3, Zenon DEF PodStatus
<1>4. CASE p.phase # "Failed" /\ p.deleting
  BY <1>1, <1>4, Zenon DEF PodStatus
<1>5. CASE p.phase # "Failed" /\ ~p.deleting
  BY <1>1, <1>5, Zenon DEF PodStatus
<1> QED
  BY <1>2, <1>3, <1>4, <1>5

\* The all-clear of a pod is explained.
LEMMA PodClearExplained ==
    ASSUME NEW p \in Pods
    PROVE  /\ PodClear(p) =>
                 /\ \/ p.ready
                    \/ /\ p.phase \in {"Succeeded", "Failed", "Unknown"}
                       /\ States(p) \subseteq {"running", "unready", "exited"}
                 /\ PodStatus(p) \in
                      {"Running", "Terminating", "Succeeded", "Failed", "Unknown"}
           /\ p.ready /\ p.event = "none" => PodClear(p)
<1>1. ASSUME PodClear(p)
      PROVE  /\ \/ p.ready
                \/ /\ p.phase \in {"Succeeded", "Failed", "Unknown"}
                   /\ States(p) \subseteq {"running", "unready", "exited"}
             /\ PodStatus(p) \in
                  {"Running", "Terminating", "Succeeded", "Failed", "Unknown"}
  <2>1. /\ p.phase \in {"Running", "Succeeded", "Failed", "Unknown"}
        /\ p.phase = "Running" => p.ready
    BY <1>1, PodFacts DEF PodClear
  <2>2. States(p) \subseteq {"running", "unready", "exited"}
    BY <1>1, PodFacts DEF PodClear, Containers, Terminated
  <2>3. PodStatus(p) \in {"Terminating", p.phase}
    BY <1>1, StatusWithoutWaiting DEF PodClear
  <2> QED
    BY <2>1, <2>2, <2>3
<1>2. ASSUME p.ready, p.event = "none" PROVE PodClear(p)
  <2>1. p.phase = "Running" /\ States(p) = {"running"}
    BY <1>2, PodFacts
  <2> QED
    BY <1>2, <2>1 DEF PodClear, Waiting
<1> QED
  BY <1>1, <1>2

\* What list_nodes says of a node, case by case.
LEMMA NodeStatusFacts ==
    ASSUME NEW n \in Node
    PROVE  /\ NodeStatus(n) = "Ready" <=> NodeReady(n)
           /\ n.ready \in {"True", "False", "Unknown", "none"}
<1>1. n.ready \in {"True", "False", "Unknown", "none"}
  BY DEF Node
<1>2. CASE n.ready = "True"
  BY <1>2, Zenon DEF NodeStatus, NodeReady
<1>3. CASE n.ready = "False" \/ n.ready = "Unknown"
  <2>1. n.ready \in {"False", "Unknown"} /\ n.ready # "True" /\ n.ready # "none"
    BY <1>3
  <2>2. NodeStatus(n) = "NotReady"
    BY <2>1, Zenon DEF NodeStatus
  <2> QED
    BY <2>1, <2>2 DEF NodeReady
<1>4. CASE n.ready = "none"
  <2>1. n.ready \notin {"False", "Unknown"} /\ n.ready # "True" /\ n.ready = "none"
    BY <1>4
  <2>2. NodeStatus(n) = "Unknown"
    BY <2>1, Zenon DEF NodeStatus
  <2> QED
    BY <2>1, <2>2 DEF NodeReady
<1> QED
  BY <1>1, <1>2, <1>3, <1>4

\* The all-clear of a node is explained, and so is its absence from a ready one.
LEMMA NodeClearExplained ==
    ASSUME NEW n \in Node
    PROVE  /\ NodeClear(n) /\ NodeStatus(n) # "Ready" => n.ready = "none"
           /\ NodeReady(n) /\ ~NodeClear(n) =>
                 n.pressure # {} \/ n.taint # "none" \/ n.event # "none"
BY NodeStatusFacts DEF NodeClear, NodeReady

----------------------------------------------------------------------------
\* The system.

Snapshots ==
    /\ subject = "pod" => snapshot \in Pods
    /\ subject = "node" => snapshot \in Node
    /\ subject = "cluster" => snapshot \in Cluster
    /\ subject = "service" => snapshot \in Service

\* The inductive invariant: a workload and its controller, a log and its reader, and
\* a snapshot that stays what the API returned.
ReportsInv == RolloutInv /\ LogInv /\ Snapshots

\* The initial states satisfy it, whatever is asked.
LEMMA ReportsStart == Init => ReportsInv
<1> SUFFICES ASSUME Init PROVE ReportsInv
  OBVIOUS
<1>1. RolloutInv
  BY RolloutStarts, RolloutIdles DEF Init
<1>2. LogInv
  BY LogStarts DEF Init
<1>3. Snapshots
  BY DEF Init, Snapshots
<1> QED
  BY <1>1, <1>2, <1>3 DEF ReportsInv

\* Every step keeps it.
LEMMA ReportsStep == ReportsInv /\ [Next]_vars => ReportsInv'
<1> SUFFICES ASSUME ReportsInv, [Next]_vars PROVE ReportsInv'
  OBVIOUS
<1> USE DEF ReportsInv
<1>1. ASSUME UNCHANGED rolloutVars PROVE RolloutInv'
  BY <1>1 DEF rolloutVars, RolloutInv, RolloutTyped, StatusTold, UpdatedTold, NodesTold,
              PodsOf, Sum
<1>2. ASSUME UNCHANGED logVars PROVE LogInv'
  BY <1>2 DEF logVars, LogInv, LogsExplained
<1>3. Snapshots'
  BY DEF Next, vars, Snapshots
<1>4. CASE RolloutNext /\ UNCHANGED <<subject, snapshot, logVars>>
  <2>1. RolloutInv'
    BY <1>4, ChangeFits, SyncFits, MakePodFits, PodGoesFits DEF RolloutNext
  <2> QED
    BY <1>2, <1>3, <1>4, <2>1
<1>5. CASE LogNext /\ UNCHANGED <<subject, snapshot, rolloutVars>>
  BY <1>1, <1>3, <1>5, LogStep
<1>6. CASE UNCHANGED vars
  BY <1>1, <1>2, <1>3, <1>6 DEF vars
<1> QED
  BY <1>4, <1>5, <1>6 DEF Next

\* What holds of workload, log and snapshot is an invariant.
THEOREM ReportsInvariant == Spec => []ReportsInv
BY ReportsStart, ReportsStep, PTL DEF Spec

\* "rolled out" and "stalled" are said with pods of another template around only in
\* the listed cases (rollout.go:78-117).
THEOREM RolloutReportsExplained == Spec => []RolloutReportExplained
<1>1. ReportsInv => RolloutReportExplained
  BY ReportFromInv DEF ReportsInv
<1> QED
  BY ReportsInvariant, <1>1, PTL

\* A text of a log is all of it or reaches the limit (logs.go:83-123).
THEOREM LogTextsExplained == Spec => []LogsExplained
<1>1. ReportsInv => LogsExplained
  BY DEF ReportsInv, LogInv
<1> QED
  BY ReportsInvariant, <1>1, PTL

\* The all-clear is given to what is clear, but for the listed cases
\* (diagnose.go:88-192, health.go:28-50).
THEOREM AllClearIsExplained == Spec => []AllClearExplained
<1>1. ReportsInv => AllClearExplained
  <2> SUFFICES ASSUME Snapshots PROVE AllClearExplained
    BY DEF ReportsInv
  <2>1. ASSUME subject = "pod"
        PROVE  /\ PodClear(snapshot) =>
                     /\ \/ snapshot.ready
                        \/ /\ snapshot.phase \in {"Succeeded", "Failed", "Unknown"}
                           /\ States(snapshot) \subseteq {"running", "unready", "exited"}
                     /\ PodStatus(snapshot) \in
                          {"Running", "Terminating", "Succeeded", "Failed", "Unknown"}
               /\ snapshot.ready /\ snapshot.event = "none" => PodClear(snapshot)
    BY <2>1, PodClearExplained DEF Snapshots
  <2>2. ASSUME subject = "node"
        PROVE  /\ NodeClear(snapshot) /\ NodeStatus(snapshot) # "Ready"
                     => snapshot.ready = "none"
               /\ NodeReady(snapshot) /\ ~NodeClear(snapshot) =>
                     \/ snapshot.pressure # {}
                     \/ snapshot.taint # "none"
                     \/ snapshot.event # "none"
    BY <2>2, NodeClearExplained DEF Snapshots
  <2>3. ASSUME subject = "cluster", ClusterHealthy(snapshot),
               NEW i \in DOMAIN snapshot.nodes, NEW n, n = snapshot.nodes[i]
        PROVE  /\ NodeStatus(n) = "Ready"
               /\ \/ NodeClear(n)
                  \/ n.pressure # {} \/ n.taint # "none" \/ n.event # "none"
    <3>1. snapshot \in Cluster
      BY <2>3 DEF Snapshots
    <3>2. PICK k \in 0..MaxNodes : snapshot.nodes \in [1..k -> ClusterNodes]
      BY <3>1 DEF Cluster
    <3>3. n \in Node
      BY <2>3, <3>2, SnapshotAssumption
    <3>4. NodeReady(n)
      BY <2>3 DEF ClusterHealthy
    <3> QED
      BY <3>3, <3>4, NodeStatusFacts, NodeClearExplained
  <2> QED
    BY <2>1, <2>2, <2>3 DEF AllClearExplained
<1> QED
  BY ReportsInvariant, <1>1, PTL
====
