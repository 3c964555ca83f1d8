---- MODULE DrainProofs ----
(* What a drain leaves on its node and which pods it ends, for any pods, owners,
   budgets and numbers of other steps. *)
EXTENDS Drain, FiniteSetTheorems, TLAPS

PodRecords ==
    [life : Lives, place : {"none", "here", "there"}, uid : Nat, early : BOOLEAN,
     exempt : BOOLEAN, kind : Owners \cup {"none"}, emptyDir : BOOLEAN]

TypeOK ==
    /\ owner \in [Pods -> Owners]
    /\ pod \in [Pods -> PodRecords]
    /\ pc \in {"new", "cordoned", "evicting", "done", "failed"}
    /\ listed \in [Pods -> PodRecords]
    /\ todo \in SUBSET Pods
    /\ failed \in BOOLEAN /\ uncordoned \in BOOLEAN /\ unschedulable \in BOOLEAN

\* A pod of the list that is there still is on the node, and what it was.
SameAs(r, l) ==
    /\ r.life \in {"running", "ending"} /\ r.place = "here"
    /\ r.kind = l.kind /\ r.emptyDir = l.emptyDir

\* The list is older than what is there.
ListedTold ==
    \A p \in Pods :
        /\ listed[p].uid <= pod[p].uid
        /\ pc \in {"new", "cordoned"} => listed[p].uid = 0
        /\ p \in todo => listed[p].uid # 0
        /\ listed[p].uid # 0 /\ pod[p].uid = listed[p].uid =>
              pod[p].life = "gone" \/ SameAs(pod[p], listed[p])
        /\ pod[p].life # "gone" => pod[p].uid # 0

\* Whom the drain has seen to is on the way out, or was spared.
SeenToTold ==
    failed = FALSE /\ pc \in {"evicting", "done"} =>
        \A p \in Pods \ todo :
            listed[p].uid # 0 /\ pod[p].uid = listed[p].uid =>
                Skips(listed[p]) \/ pod[p].life \in {"ending", "gone"}

\* A node that was cordoned takes pods only once somebody uncordons it.
CordonTold ==
    pc \in {"cordoned", "evicting", "done"} => unschedulable = TRUE \/ uncordoned = TRUE

PlacedTold ==
    pc # "failed" =>
        \A p \in Pods :
            pod[p].place = "here" /\ pod[p].life \in {"assumed", "running", "ending"} =>
                \/ pod[p].early = TRUE \/ uncordoned = TRUE \/ pod[p].exempt = TRUE
                \/ pod[p].kind \in Static

\* A pod without a node is on none.
PendingTold == \A p \in Pods : pod[p].life = "pending" => pod[p].place = "none"

DoneTold == pc = "done" => todo = {}

IInv ==
    /\ TypeOK /\ ListedTold /\ SeenToTold /\ CordonTold /\ PlacedTold /\ PendingTold
    /\ DoneTold

\* What the proofs use of the constants.
LEMMA ConstantFacts ==
    IsFiniteSet(Pods) /\ MinAvailable \in Nat /\ MaxUid \in Nat /\ MaxOthers \in Nat
BY DrainAssumption DEF DrainAssumption

\* A pod that is gone has a record.
LEMMA GoneRecord == \A uid \in Nat : Gone(uid) \in PodRecords
BY DEF Gone, PodRecords, Lives

\* The initial states satisfy the invariant.
LEMMA InitInv == Init => IInv
<1> SUFFICES ASSUME Init PROVE IInv
  OBVIOUS
<1>0. ASSUME NEW p \in Pods
      PROVE  /\ pod[p] \in PodRecords
             /\ \/ pod[p].life = "gone" /\ pod[p].place = "none"
                \/ pod[p].life = "running"
             /\ pod[p].life = "running" => pod[p].uid = 1 /\ pod[p].early = TRUE
  <2> DEFINE o == owner[p]
  <2> DEFINE There == [life : {"running"}, place : {"here", "there"}, uid : {1},
                       early : {TRUE}, exempt : {o = "DaemonSet"}, kind : {o},
                       emptyDir : Volumes(o)]
  <2>1. pod[p] \in InitialPods(o) /\ o \in Owners
    BY DEF Init
  <2>2. CASE pod[p] = Gone(0)
    BY <2>2, GoneRecord DEF Gone
  <2>3. CASE pod[p] \in There
    <3>1. 1 \in Nat /\ "running" \in Lives
      BY DEF Lives
    <3>2. {"here", "there"} \subseteq {"none", "here", "there"} /\ {TRUE} \subseteq BOOLEAN
      OBVIOUS
    <3>3. Volumes(o) \subseteq BOOLEAN /\ {o = "DaemonSet"} \subseteq BOOLEAN
      BY DEF Volumes
    <3>4. pod[p] \in PodRecords
      BY <2>1, <2>3, <3>1, <3>2, <3>3 DEF PodRecords
    <3> QED
      BY <2>3, <3>4
  <2>4. pod[p] = Gone(0) \/ pod[p] \in There
    BY <2>1 DEF InitialPods
  <2> QED
    BY <2>2, <2>3, <2>4
<1>1. pod \in [Pods -> PodRecords]
  <2>1. pod = [p \in Pods |-> pod[p]]
    BY DEF Init
  <2> QED
    BY <1>0, <2>1
<1>2. TypeOK
  BY <1>1, GoneRecord DEF Init, TypeOK
<1>3. ListedTold
  <2> SUFFICES ASSUME NEW p \in Pods
               PROVE  /\ listed[p].uid = 0 /\ p \notin todo /\ listed[p].uid <= pod[p].uid
                      /\ pod[p].life # "gone" => pod[p].uid # 0
    BY DEF ListedTold
  <2>1. listed[p].uid = 0 /\ p \notin todo
    BY DEF Init, Gone
  <2>2. pod[p].uid \in Nat
    BY <1>0 DEF PodRecords
  <2>3. pod[p].life # "gone" => pod[p].uid # 0
    <3>1. pod[p].life # "gone" => pod[p].uid = 1
      BY <1>0
    <3> QED
      BY <3>1
  <2> QED
    BY <2>1, <2>2, <2>3
<1>4. SeenToTold /\ CordonTold /\ DoneTold
  BY DEF Init, SeenToTold, CordonTold, DoneTold
<1>5. PlacedTold /\ PendingTold
  BY <1>0 DEF Init, PlacedTold, PendingTold
<1> QED
  BY <1>2, <1>3, <1>4, <1>5 DEF IInv

\* What a step does to the pod of a name: nothing, or the scheduler binds it, or it is
\* on its way out or gone, or there is another one.
PodMoves(p) ==
    \/ pod'[p] = pod[p]
    \/ pod[p].life = "pending" /\ pod'[p].life = "assumed" /\ pod'[p].uid = pod[p].uid
    \/ /\ pod[p].life = "assumed"
       /\ pod'[p] = [pod[p] EXCEPT !.life = "running"]
    \/ /\ pod[p].life # "gone"
       /\ pod'[p] = [pod[p] EXCEPT !.life = "ending"]
    \/ pod'[p] = Gone(pod[p].uid)
    \/ /\ pod'[p].uid = pod[p].uid + 1 /\ pod'[p].life # "gone"
       /\ pod'[p].life = "pending" => pod'[p].place = "none"


\* The drain's steps, and what they do to the rest.
LEMMA SeenToFacts ==
    ASSUME NEW p \in Pods, TypeOK, Evict(p) \/ EvictFails(p)
    PROVE  \/ pod' = pod
           \/ /\ pod[p].life # "gone"
              /\ pod' = [pod EXCEPT ![p] = [pod[p] EXCEPT !.life = "ending"]]
<1>1. CASE Evict(p)
  BY <1>1 DEF Evict, Accepts, Ended
<1>2. CASE EvictFails(p)
  <2>1. pod' = pod \/ (Accepts(p) /\ Ended(p))
    BY <1>2 DEF EvictFails
  <2> QED
    BY <2>1 DEF Accepts, Ended
<1> QED
  BY <1>1, <1>2

\* A pod that comes under a name: without a node, or on one that its spec names, or a
\* static pod's mirror.
NewPods(q) ==
    {r \in PodRecords :
        /\ r.uid = pod[q].uid + 1
        /\ \/ r.life = "pending" /\ r.place = "none"
           \/ r.life = "running" /\ (r.exempt = TRUE \/ r.kind \in Static)}

\* Owners, clients and the kubelet make such pods only.
LEMMA NewPodFacts ==
    ASSUME NEW q \in Pods, TypeOK, Replace(q) \/ CreatePod(q) \/ Mirror(q)
    PROVE  \E r \in NewPods(q) : pod' = [pod EXCEPT ![q] = r]
<1>1. /\ pod[q].uid + 1 \in Nat /\ owner[q] \in Owners
      /\ Volumes(owner[q]) \subseteq BOOLEAN /\ Volumes("none") \subseteq BOOLEAN
  <2>1. pod[q] \in PodRecords /\ owner[q] \in Owners
    BY DEF TypeOK
  <2>2. Volumes(owner[q]) \subseteq BOOLEAN /\ Volumes("none") \subseteq BOOLEAN
    BY DEF Volumes
  <2> QED
    BY <2>1, <2>2 DEF PodRecords
<1>2. ASSUME NEW exempt \in BOOLEAN, NEW kind \in Owners \cup {"none"},
             NEW volume \in BOOLEAN, NEW n \in {"none", "here", "there"},
             NEW life \in {"pending", "running"},
             \/ life = "pending" /\ n = "none"
             \/ life = "running" /\ (exempt = TRUE \/ kind \in Static)
      PROVE  NewPod(q, life, n, exempt, kind, volume) \in NewPods(q)
  BY <1>1, <1>2 DEF NewPod, NewPods, PodRecords, Lives
<1>3. CASE Replace(q)
  <2>1. PICK volume \in Volumes(owner[q]), exempt \in BOOLEAN :
          pod' = [pod EXCEPT ![q] = NewPod(q, "pending", "none", exempt, owner[q], volume)]
    BY <1>3 DEF Replace, Becomes
  <2>2. NewPod(q, "pending", "none", exempt, owner[q], volume) \in NewPods(q)
    BY <1>1, <1>2
  <2> QED
    BY <2>1, <2>2
<1>4. CASE CreatePod(q)
  <2>1. PICK volume \in Volumes("none") :
          \/ pod' = [pod EXCEPT ![q] = NewPod(q, "pending", "none", FALSE, "none", volume)]
          \/ \E n \in {"here", "there"} :
               pod' = [pod EXCEPT ![q] = NewPod(q, "running", n, TRUE, "none", volume)]
    BY <1>4 DEF CreatePod, Becomes
  <2>2. /\ NewPod(q, "pending", "none", FALSE, "none", volume) \in NewPods(q)
        /\ \A n \in {"here", "there"} :
             NewPod(q, "running", n, TRUE, "none", volume) \in NewPods(q)
    BY <1>1, <1>2
  <2> QED
    BY <2>1, <2>2
<1>5. CASE Mirror(q)
  <2>1. PICK volume \in Volumes(owner[q]) :
          pod' = [pod EXCEPT ![q] = NewPod(q, "running", "here", FALSE, owner[q], volume)]
    BY <1>5 DEF Mirror, Becomes
  <2>2. NewPod(q, "running", "here", FALSE, owner[q], volume) \in NewPods(q)
    BY <1>1, <1>2, <1>5 DEF Mirror
  <2> QED
    BY <2>1, <2>2
<1> QED
  BY <1>3, <1>4, <1>5

\* Every step moves pods so.
LEMMA MovesStep == TypeOK /\ [Next]_vars => \A p \in Pods : PodMoves(p)
<1> SUFFICES ASSUME TypeOK, [Next]_vars, NEW p \in Pods PROVE PodMoves(p)
  OBVIOUS
<1>0. pod \in [Pods -> PodRecords]
  BY DEF TypeOK
<1>1. ASSUME Cordon \/ List \/ CallFails \/ Finish PROVE PodMoves(p)
  BY <1>1 DEF Cordon, List, CallFails, Finish, PodMoves
<1>2. ASSUME NEW q \in Pods, Skip(q) PROVE PodMoves(p)
  BY <1>2 DEF Skip, PodMoves
<1>3. ASSUME NEW q \in Pods, Evict(q) \/ EvictFails(q) PROVE PodMoves(p)
  BY <1>0, <1>3, SeenToFacts DEF PodMoves
<1>4. ASSUME Uncordon PROVE PodMoves(p)
  BY <1>4 DEF Uncordon, PodMoves
<1>5. ASSUME NEW q \in Pods, OthersDelete(q) PROVE PodMoves(p)
  BY <1>0, <1>5 DEF OthersDelete, Becomes, PodMoves
<1>6. ASSUME NEW q \in Pods, Terminated(q) PROVE PodMoves(p)
  BY <1>0, <1>6 DEF Terminated, Becomes, PodMoves
<1>7. ASSUME NEW q \in Pods, Replace(q) \/ CreatePod(q) \/ Mirror(q) PROVE PodMoves(p)
  <2>1. PICK r \in NewPods(q) : pod' = [pod EXCEPT ![q] = r]
    BY <1>7, NewPodFacts
  <2> QED
    BY <1>0, <2>1 DEF NewPods, PodMoves
<1>9. ASSUME NEW q \in Pods, Schedule(q) PROVE PodMoves(p)
  BY <1>0, <1>9 DEF Schedule, Becomes, PodMoves, PodRecords
<1>10. ASSUME NEW q \in Pods, Bind(q) PROVE PodMoves(p)
  BY <1>0, <1>10 DEF Bind, Becomes, PodMoves
<1>11. ASSUME UNCHANGED vars PROVE PodMoves(p)
  BY <1>11 DEF vars, PodMoves
<1> QED
  BY <1>1, <1>2, <1>3, <1>4, <1>5, <1>6, <1>7, <1>9, <1>10, <1>11
     DEF Next, DrainStep, ClusterStep

\* Every step keeps the pods' records.
LEMMA PodTypeStep == TypeOK /\ [Next]_vars => pod' \in [Pods -> PodRecords]
<1> SUFFICES ASSUME TypeOK, [Next]_vars PROVE pod' \in [Pods -> PodRecords]
  OBVIOUS
<1>0. pod \in [Pods -> PodRecords]
  BY DEF TypeOK
<1>a. ASSUME NEW q \in Pods, NEW r \in PodRecords, pod' = [pod EXCEPT ![q] = r]
      PROVE  pod' \in [Pods -> PodRecords]
  BY <1>0, <1>a
<1>b. \A q \in Pods : [pod[q] EXCEPT !.life = "ending"] \in PodRecords
  BY <1>0 DEF PodRecords, Lives
<1>1. ASSUME Cordon \/ List \/ CallFails \/ Finish \/ Uncordon
      PROVE  pod' \in [Pods -> PodRecords]
  BY <1>0, <1>1 DEF Cordon, List, CallFails, Finish, Uncordon
<1>2. ASSUME NEW q \in Pods, Skip(q) PROVE pod' \in [Pods -> PodRecords]
  BY <1>0, <1>2 DEF Skip
<1>3. ASSUME NEW q \in Pods, Evict(q) \/ EvictFails(q) PROVE pod' \in [Pods -> PodRecords]
  <2>1. pod' = pod \/ pod' = [pod EXCEPT ![q] = [pod[q] EXCEPT !.life = "ending"]]
    BY <1>3, SeenToFacts
  <2> QED
    BY <1>0, <1>a, <1>b, <2>1
<1>5. ASSUME NEW q \in Pods, OthersDelete(q) PROVE pod' \in [Pods -> PodRecords]
  BY <1>a, <1>b, <1>5 DEF OthersDelete, Becomes
<1>6. ASSUME NEW q \in Pods, Terminated(q) PROVE pod' \in [Pods -> PodRecords]
  <2>1. Gone(pod[q].uid) \in PodRecords
    BY <1>0, GoneRecord DEF PodRecords
  <2> QED
    BY <1>a, <1>6, <2>1 DEF Terminated, Becomes
<1>7. ASSUME NEW q \in Pods, Replace(q) \/ CreatePod(q) \/ Mirror(q)
      PROVE  pod' \in [Pods -> PodRecords]
  <2>1. PICK r \in NewPods(q) : pod' = [pod EXCEPT ![q] = r]
    BY <1>7, NewPodFacts
  <2> QED
    BY <1>a, <2>1 DEF NewPods
<1>9. ASSUME NEW q \in Pods, Schedule(q) PROVE pod' \in [Pods -> PodRecords]
  <2>1. PICK n \in {"here", "there"} :
           pod' = [pod EXCEPT ![q] =
                      [pod[q] EXCEPT !.life = "assumed", !.place = n,
                                        !.early = (pc = "new")]]
    <3>1. PICK n \in {"here", "there"} :
             Becomes(q, [pod[q] EXCEPT !.life = "assumed", !.place = n,
                                        !.early = (pc = "new")])
      BY <1>9 DEF Schedule
    <3> QED
      BY <3>1 DEF Becomes
  <2>2. (pc = "new") \in BOOLEAN
    OBVIOUS
  <2>3. [pod[q] EXCEPT !.life = "assumed", !.place = n, !.early = (pc = "new")] \in PodRecords
    BY <1>0, <2>2 DEF PodRecords, Lives
  <2> QED
    BY <1>a, <2>1, <2>3
<1>10. ASSUME NEW q \in Pods, Bind(q) PROVE pod' \in [Pods -> PodRecords]
  <2>1. [pod[q] EXCEPT !.life = "running"] \in PodRecords
    BY <1>0 DEF PodRecords, Lives
  <2> QED
    BY <1>a, <1>10, <2>1 DEF Bind, Becomes
<1>11. ASSUME UNCHANGED vars PROVE pod' \in [Pods -> PodRecords]
  BY <1>0, <1>11 DEF vars
<1> QED
  BY <1>1, <1>2, <1>3, <1>5, <1>6, <1>7, <1>9, <1>10, <1>11
     DEF Next, DrainStep, ClusterStep

\* What a step leaves as it was.
LEMMA FixedStep == [Next]_vars => owner' = owner /\ args' = args
<1> SUFFICES ASSUME [Next]_vars PROVE owner' = owner /\ args' = args
  OBVIOUS
<1>1. ASSUME DrainStep PROVE owner' = owner /\ args' = args
  BY <1>1 DEF DrainStep, Cordon, List, CallFails, Finish, Skip, Evict, EvictFails, SeenTo
<1>2. ASSUME ClusterStep PROVE owner' = owner /\ args' = args
  BY <1>2 DEF ClusterStep, Uncordon, OthersDelete, Terminated, Replace, CreatePod,
              Mirror, Schedule, Bind, Becomes
<1> QED
  BY <1>1, <1>2 DEF Next, vars

\* What a step does to the drain: the cluster's steps leave it alone.
LEMMA DrainSteps ==
    ASSUME TypeOK, [Next]_vars
    PROVE  \/ Cordon \/ List \/ CallFails \/ Finish
           \/ \E p \in Pods : Skip(p) \/ Evict(p) \/ EvictFails(p)
           \/ UNCHANGED drain
<1>1. ASSUME ClusterStep PROVE UNCHANGED drain
  BY <1>1 DEF ClusterStep, Uncordon, OthersDelete, Terminated, Replace, CreatePod,
              Mirror, Schedule, Bind, Becomes
<1> QED
  BY <1>1 DEF Next, DrainStep, vars

\* Every step keeps the types.
LEMMA TypeStep == TypeOK /\ [Next]_vars => TypeOK'
<1> SUFFICES ASSUME TypeOK, [Next]_vars PROVE TypeOK'
  OBVIOUS
<1>1. pod' \in [Pods -> PodRecords] /\ owner' \in [Pods -> Owners]
  BY PodTypeStep, FixedStep DEF TypeOK
<1>2. unschedulable' \in BOOLEAN /\ uncordoned' \in BOOLEAN
  <2>1. ASSUME Cordon \/ List \/ CallFails \/ Finish
        PROVE  unschedulable' \in BOOLEAN /\ uncordoned' \in BOOLEAN
    BY <2>1 DEF Cordon, List, CallFails, Finish, TypeOK
  <2>2. ASSUME NEW p \in Pods, Skip(p) \/ Evict(p) \/ EvictFails(p)
        PROVE  unschedulable' \in BOOLEAN /\ uncordoned' \in BOOLEAN
    BY <2>2 DEF Skip, Evict, EvictFails, SeenTo, TypeOK
  <2>3. ASSUME Uncordon
        PROVE  unschedulable' \in BOOLEAN /\ uncordoned' \in BOOLEAN
    BY <2>3 DEF Uncordon, TypeOK
  <2>4. ASSUME NEW p \in Pods,
               \/ OthersDelete(p) \/ Terminated(p) \/ Replace(p) \/ CreatePod(p) \/ Mirror(p)
               \/ Schedule(p) \/ Bind(p)
        PROVE  unschedulable' \in BOOLEAN /\ uncordoned' \in BOOLEAN
    BY <2>4 DEF OthersDelete, Terminated, Replace, CreatePod, Mirror, Schedule, Bind,
                Becomes, TypeOK
  <2>5. ASSUME UNCHANGED vars PROVE unschedulable' \in BOOLEAN /\ uncordoned' \in BOOLEAN
    BY <2>5 DEF vars, TypeOK
  <2> QED
    BY <2>1, <2>2, <2>3, <2>4, <2>5 DEF Next, DrainStep, ClusterStep
<1>3. /\ pc' \in {"new", "cordoned", "evicting", "done", "failed"}
      /\ todo' \in SUBSET Pods /\ failed' \in BOOLEAN /\ listed' \in [Pods -> PodRecords]
  <2> DEFINE Told == /\ pc' \in {"new", "cordoned", "evicting", "done", "failed"}
                     /\ todo' \in SUBSET Pods /\ failed' \in BOOLEAN
                     /\ listed' \in [Pods -> PodRecords]
  <2>1. ASSUME Cordon \/ CallFails \/ Finish PROVE Told
    BY <2>1 DEF Cordon, CallFails, Finish, TypeOK
  <2>2. ASSUME List PROVE Told
    <3>1. Gone(0) \in PodRecords
      BY GoneRecord
    <3> QED
      BY <2>2, <3>1 DEF List, TypeOK
  <2>3. ASSUME NEW p \in Pods, Skip(p) \/ Evict(p) \/ EvictFails(p) PROVE Told
    <3>1. /\ pc' = pc /\ listed' = listed /\ todo' = todo \ {p}
          /\ failed' = failed \/ failed' = TRUE
      BY <2>3 DEF Skip, Evict, EvictFails, SeenTo
    <3> QED
      BY <3>1 DEF TypeOK
  <2>4. ASSUME UNCHANGED drain PROVE Told
    BY <2>4 DEF drain, TypeOK
  <2> QED
    BY <2>1, <2>2, <2>3, <2>4, DrainSteps
<1> QED
  BY <1>1, <1>2, <1>3 DEF TypeOK

\* The list stays older than what is there.
LEMMA ListedMoves ==
    ASSUME TypeOK, TypeOK', ListedTold, \A p \in Pods : PodMoves(p),
           listed' = listed, todo' \subseteq todo,
           pc' \in {"new", "cordoned"} => pc \in {"new", "cordoned"}
    PROVE  ListedTold'
<1> SUFFICES ASSUME NEW p \in Pods
             PROVE  /\ listed[p].uid <= pod'[p].uid
                    /\ pc \in {"new", "cordoned"} => listed[p].uid = 0
                    /\ p \in todo => listed[p].uid # 0
                    /\ listed[p].uid # 0 /\ pod'[p].uid = listed[p].uid =>
                          pod'[p].life = "gone" \/ SameAs(pod'[p], listed[p])
                    /\ pod'[p].life # "gone" => pod'[p].uid # 0
  BY DEF ListedTold
<1>1. /\ listed[p].uid <= pod[p].uid
      /\ pc \in {"new", "cordoned"} => listed[p].uid = 0
      /\ p \in todo => listed[p].uid # 0
      /\ listed[p].uid # 0 /\ pod[p].uid = listed[p].uid =>
            pod[p].life = "gone" \/ SameAs(pod[p], listed[p])
      /\ pod[p].life # "gone" => pod[p].uid # 0
  BY DEF ListedTold
<1>2. pod[p] \in PodRecords /\ pod'[p] \in PodRecords /\ listed[p].uid \in Nat
  BY DEF TypeOK, PodRecords
<1> USE DEF PodRecords, SameAs
<1>3. CASE pod'[p] = pod[p]
  BY <1>1, <1>2, <1>3
<1>4. CASE pod[p].life = "pending" /\ pod'[p].life = "assumed" /\ pod'[p].uid = pod[p].uid
  BY <1>1, <1>2, <1>4
<1>5. CASE pod[p].life = "assumed" /\ pod'[p] = [pod[p] EXCEPT !.life = "running"]
  BY <1>1, <1>2, <1>5
<1>6. CASE pod[p].life # "gone" /\ pod'[p] = [pod[p] EXCEPT !.life = "ending"]
  BY <1>1, <1>2, <1>6
<1>7. CASE pod'[p] = Gone(pod[p].uid)
  BY <1>1, <1>2, <1>7 DEF Gone
<1>8. CASE pod'[p].uid = pod[p].uid + 1 /\ pod'[p].life # "gone"
  BY <1>1, <1>2, <1>8
<1> QED
  BY <1>3, <1>4, <1>5, <1>6, <1>7, <1>8 DEF PodMoves

\* Every step keeps what the list tells.
LEMMA ListedStep == TypeOK /\ ListedTold /\ [Next]_vars => ListedTold'
<1> SUFFICES ASSUME TypeOK, ListedTold, [Next]_vars PROVE ListedTold'
  OBVIOUS
<1>0. TypeOK' /\ \A p \in Pods : PodMoves(p)
  BY TypeStep, MovesStep
<1>1. ASSUME Cordon \/ CallFails \/ Finish PROVE ListedTold'
  <2>1. /\ listed' = listed /\ todo' = todo
        /\ pc' \in {"new", "cordoned"} => pc \in {"new", "cordoned"}
    BY <1>1 DEF Cordon, CallFails, Finish
  <2> QED
    BY <1>0, <2>1, ListedMoves
<1>2. ASSUME List PROVE ListedTold'
  <2>1. /\ listed' = [p \in Pods |-> IF Resident(p) THEN pod[p] ELSE Gone(0)]
        /\ todo' = {p \in Pods : Resident(p)}
        /\ pc' = "evicting" /\ pod' = pod
    BY <1>2 DEF List
  <2>2. ASSUME NEW p \in Pods PROVE pod[p].uid \in Nat
    BY DEF TypeOK, PodRecords
  <2> QED
    <3> SUFFICES ASSUME NEW p \in Pods
                 PROVE  /\ listed'[p].uid <= pod[p].uid
                        /\ p \in todo' => listed'[p].uid # 0
                        /\ listed'[p].uid # 0 /\ pod[p].uid = listed'[p].uid =>
                              SameAs(pod[p], listed'[p])
                        /\ pod[p].life # "gone" => pod[p].uid # 0
      BY <2>1 DEF ListedTold
    <3>1. pod[p].life # "gone" => pod[p].uid # 0
      BY DEF ListedTold
    <3>2. CASE Resident(p)
      <4>1. listed'[p] = pod[p] /\ pod[p].life # "gone"
        BY <2>1, <3>2 DEF Resident
      <4> QED
        BY <2>2, <3>1, <3>2, <4>1 DEF Resident, SameAs
    <3>3. CASE ~Resident(p)
      <4>1. listed'[p].uid = 0 /\ p \notin todo'
        BY <2>1, <3>3 DEF Gone
      <4> QED
        BY <2>2, <3>1, <4>1
    <3> QED
      BY <3>2, <3>3
<1>3. ASSUME NEW p \in Pods, Skip(p) \/ Evict(p) \/ EvictFails(p) PROVE ListedTold'
  <2>1. pc' = pc /\ listed' = listed /\ todo' \subseteq todo
    BY <1>3 DEF Skip, Evict, EvictFails, SeenTo
  <2> QED
    BY <1>0, <2>1, ListedMoves
<1>4. ASSUME UNCHANGED drain PROVE ListedTold'
  BY <1>0, <1>4, ListedMoves DEF drain
<1> QED
  BY <1>1, <1>2, <1>3, <1>4, DrainSteps

\* Whom the drain has seen to stays on the way out.
LEMMA SeenToMoves ==
    ASSUME TypeOK, ListedTold, SeenToTold, \A p \in Pods : PodMoves(p),
           owner' = owner, args' = args, listed' = listed,
           failed' = FALSE => failed = FALSE,
           pc' \in {"evicting", "done"} => pc \in {"evicting", "done"},
           \A p \in todo \ todo' :
              failed' = FALSE => Skips(listed[p]) \/ pod'[p].life \in {"ending", "gone"}
    PROVE  SeenToTold'
<1> SUFFICES ASSUME failed' = FALSE, pc' \in {"evicting", "done"}, NEW p \in Pods \ todo',
                    listed[p].uid # 0, pod'[p].uid = listed[p].uid, ~Skips(listed[p])
             PROVE  pod'[p].life \in {"ending", "gone"}
  BY DEF SeenToTold, Skips
<1>1. CASE p \in todo
  BY <1>1
<1>2. CASE p \notin todo
  <2>1. pod[p].uid = listed[p].uid => pod[p].life \in {"ending", "gone"}
    BY <1>2 DEF SeenToTold
  <2>2. listed[p].uid <= pod[p].uid
    BY DEF ListedTold
  <2>3. pod[p] \in PodRecords /\ listed[p].uid \in Nat
    BY DEF TypeOK, PodRecords
  <2>4. CASE pod'[p] = pod[p]
    BY <2>1, <2>4
  <2>5. CASE pod[p].life = "pending" /\ pod'[p].life = "assumed" /\ pod'[p].uid = pod[p].uid
    BY <2>1, <2>5
  <2>6. CASE pod[p].life = "assumed" /\ pod'[p] = [pod[p] EXCEPT !.life = "running"]
    BY <2>1, <2>3, <2>6 DEF PodRecords
  <2>7. CASE pod[p].life # "gone" /\ pod'[p] = [pod[p] EXCEPT !.life = "ending"]
    BY <2>3, <2>7 DEF PodRecords
  <2>8. CASE pod'[p] = Gone(pod[p].uid)
    BY <2>8 DEF Gone
  <2>9. CASE pod'[p].uid = pod[p].uid + 1 /\ pod'[p].life # "gone"
    BY <2>2, <2>3, <2>9 DEF PodRecords, TypeOK
  <2> QED
    BY <2>4, <2>5, <2>6, <2>7, <2>8, <2>9 DEF PodMoves
<1> QED
  BY <1>1, <1>2

\* Every step keeps what became of the pods the drain has seen to.
LEMMA SeenToStep == TypeOK /\ ListedTold /\ SeenToTold /\ [Next]_vars => SeenToTold'
<1> SUFFICES ASSUME TypeOK, ListedTold, SeenToTold, [Next]_vars PROVE SeenToTold'
  OBVIOUS
<1>0. owner' = owner /\ args' = args /\ \A p \in Pods : PodMoves(p)
  BY FixedStep, MovesStep
<1>1. ASSUME Cordon \/ CallFails PROVE SeenToTold'
  BY <1>1 DEF Cordon, CallFails, SeenToTold
<1>2. ASSUME List PROVE SeenToTold'
  <2>1. \A p \in Pods \ todo' : listed'[p] = Gone(0)
    BY <1>2 DEF List
  <2>2. \A p \in Pods \ todo' : listed'[p].uid = 0
    BY <2>1 DEF Gone
  <2> QED
    BY <2>2 DEF SeenToTold
<1>3. ASSUME Finish PROVE SeenToTold'
  <2>1. pc \in {"evicting", "done"} /\ listed' = listed /\ todo' = todo /\ failed' = failed
    BY <1>3 DEF Finish
  <2> QED
    BY <1>0, <2>1, SeenToMoves
<1>4. ASSUME NEW p \in Pods, Skip(p) PROVE SeenToTold'
  <2>1. /\ listed' = listed /\ todo' = todo \ {p} /\ pc' = pc /\ failed' = failed
        /\ Skips(listed[p])
    BY <1>4 DEF Skip, SeenTo
  <2> QED
    BY <1>0, <2>1, SeenToMoves
<1>5. ASSUME NEW p \in Pods, Evict(p) PROVE SeenToTold'
  <2>1. /\ listed' = listed /\ todo' = todo \ {p} /\ pc' = pc /\ failed' = failed
        /\ pod' = [pod EXCEPT ![p] = [pod[p] EXCEPT !.life = "ending"]]
    BY <1>5 DEF Evict, SeenTo, Ended
  <2>2. pod'[p].life = "ending"
    BY <2>1 DEF TypeOK, PodRecords
  <2> QED
    BY <1>0, <2>1, <2>2, SeenToMoves
<1>6. ASSUME NEW p \in Pods, EvictFails(p) PROVE SeenToTold'
  BY <1>6 DEF EvictFails, SeenToTold
<1>7. ASSUME UNCHANGED drain PROVE SeenToTold'
  <2>1. pc' = pc /\ listed' = listed /\ todo' = todo /\ failed' = failed
    BY <1>7 DEF drain
  <2> QED
    BY <1>0, <2>1, SeenToMoves
<1> QED
  BY <1>1, <1>2, <1>3, <1>4, <1>5, <1>6, <1>7, DrainSteps

\* Every step keeps a cordoned node cordoned, or tells who lifted it.
LEMMA CordonStep == TypeOK /\ CordonTold /\ [Next]_vars => CordonTold'
<1> SUFFICES ASSUME TypeOK, CordonTold, [Next]_vars PROVE CordonTold'
  OBVIOUS
<1>1. ASSUME Cordon PROVE CordonTold'
  BY <1>1 DEF Cordon, CordonTold
<1>2. ASSUME CallFails PROVE CordonTold'
  BY <1>2 DEF CallFails, CordonTold
<1>3. ASSUME NEW p \in Pods,
             \/ List \/ Finish \/ Skip(p) \/ Evict(p) \/ EvictFails(p) \/ OthersDelete(p)
             \/ Terminated(p) \/ Replace(p) \/ CreatePod(p) \/ Mirror(p)
             \/ Schedule(p) \/ Bind(p)
      PROVE  CordonTold'
  <2>1. /\ unschedulable' = unschedulable /\ uncordoned' = uncordoned
        /\ pc' \in {"cordoned", "evicting", "done"} => pc \in {"cordoned", "evicting", "done"}
    BY <1>3 DEF List, Finish, Skip, Evict, EvictFails, SeenTo, OthersDelete, Terminated,
                Replace, CreatePod, Mirror, Schedule, Bind, Becomes, drain
  <2> QED
    BY <2>1 DEF CordonTold
<1>4. ASSUME List \/ Finish PROVE CordonTold'
  BY <1>4 DEF List, Finish, CordonTold
<1>5. ASSUME Uncordon PROVE CordonTold'
  BY <1>5 DEF Uncordon, CordonTold, drain, TypeOK
<1>6. ASSUME UNCHANGED vars PROVE CordonTold'
  BY <1>6 DEF vars, CordonTold, drain
<1> QED
  BY <1>1, <1>2, <1>3, <1>4, <1>5, <1>6 DEF Next, DrainStep, ClusterStep

\* A pod on the node, or on its way to it, is there by right.
Placed(r) ==
    r.place = "here" /\ r.life \in {"assumed", "running", "ending"} =>
        r.early = TRUE \/ uncordoned = TRUE \/ r.exempt = TRUE \/ r.kind \in Static

\* A step that moves one pod keeps this if it does for the pod that it moves.
LEMMA PlacedMoves ==
    ASSUME TypeOK, PlacedTold, owner' = owner, uncordoned' = uncordoned, pc' = pc,
           NEW q \in Pods, NEW r \in PodRecords, pod' = [pod EXCEPT ![q] = r],
           pc # "failed" /\ Placed(pod[q]) => Placed(r)
    PROVE  PlacedTold'
<1> SUFFICES ASSUME pc # "failed", NEW p \in Pods PROVE Placed(pod'[p])
  BY DEF PlacedTold, Placed
<1>1. Placed(pod[p])
  BY DEF PlacedTold, Placed
<1>2. pod'[p] = IF p = q THEN r ELSE pod[p]
  BY DEF TypeOK
<1> QED
  BY <1>1, <1>2

\* Every step keeps how the pods came to the node.
LEMMA PlacedStep ==
    TypeOK /\ ListedTold /\ CordonTold /\ PlacedTold /\ PendingTold /\ [Next]_vars
        => PlacedTold'
<1> SUFFICES ASSUME TypeOK, ListedTold, CordonTold, PlacedTold, PendingTold, [Next]_vars
             PROVE  PlacedTold'
  OBVIOUS
<1>0. owner' = owner /\ \A q \in Pods : pod[q] \in PodRecords
  BY FixedStep DEF TypeOK
<1>1. ASSUME pod' = pod, uncordoned' = uncordoned \/ uncordoned' = TRUE,
             pc' # "failed" => pc # "failed"
      PROVE  PlacedTold'
  BY <1>0, <1>1 DEF PlacedTold
<1>2. ASSUME Cordon \/ List \/ CallFails \/ Finish \/ Uncordon PROVE PlacedTold'
  <2>1. ASSUME Cordon \/ List \/ Finish PROVE PlacedTold'
    <3>1. pod' = pod /\ uncordoned' = uncordoned /\ pc # "failed"
      BY <2>1 DEF Cordon, List, Finish
    <3> QED
      BY <1>1, <3>1
  <2>2. ASSUME CallFails PROVE PlacedTold'
    BY <2>2 DEF CallFails, PlacedTold
  <2>3. ASSUME Uncordon PROVE PlacedTold'
    <3>1. pod' = pod /\ uncordoned' \in BOOLEAN /\ (uncordoned => uncordoned') /\ pc' = pc
      BY <2>3 DEF Uncordon, drain, TypeOK
    <3>2. uncordoned' = uncordoned \/ uncordoned' = TRUE
      BY <3>1 DEF TypeOK
    <3> QED
      BY <1>1, <3>1, <3>2
  <2> QED
    BY <1>2, <2>1, <2>2, <2>3
<1>3. ASSUME NEW q \in Pods, Skip(q) PROVE PlacedTold'
  <2>1. pod' = pod /\ uncordoned' = uncordoned /\ pc' = pc
    BY <1>3 DEF Skip, SeenTo
  <2> QED
    BY <1>1, <2>1
<1>4. ASSUME NEW q \in Pods, pod[q].life \in {"running", "ending"}, uncordoned' = uncordoned,
             pc' = pc, pod' = [pod EXCEPT ![q] = [pod[q] EXCEPT !.life = "ending"]]
      PROVE  PlacedTold'
  <2> DEFINE r == [pod[q] EXCEPT !.life = "ending"]
  <2>1. r \in PodRecords /\ (Placed(pod[q]) => Placed(r))
    BY <1>0, <1>4 DEF PodRecords, Lives, Placed
  <2> QED
    BY <1>0, <1>4, <2>1, PlacedMoves
<1>5. ASSUME NEW q \in Pods, Evict(q) \/ EvictFails(q) PROVE PlacedTold'
  <2>1. uncordoned' = uncordoned /\ pc' = pc /\ listed[q].uid # 0
    BY <1>5 DEF Evict, EvictFails, SeenTo, ListedTold
  <2>2. CASE pod' = pod
    BY <1>1, <2>1, <2>2
  <2>3. CASE pod' = [pod EXCEPT ![q] = [pod[q] EXCEPT !.life = "ending"]]
              /\ pod[q].life # "gone"
    <3> DEFINE r == [pod[q] EXCEPT !.life = "ending"]
    <3>1. CASE pod[q].life \in {"running", "ending"}
      BY <1>4, <2>1, <2>3, <3>1
    <3>2. CASE pod[q].life = "assumed"
      <4>1. r \in PodRecords /\ (Placed(pod[q]) => Placed(r))
        BY <1>0, <3>2 DEF PodRecords, Lives, Placed
      <4> QED
        BY <1>0, <2>1, <2>3, <4>1, PlacedMoves
    <3>3. CASE pod[q].life = "pending"
      <4>1. r \in PodRecords /\ Placed(r)
        BY <1>0, <3>3 DEF PodRecords, Lives, Placed, PendingTold
      <4> QED
        BY <1>0, <2>1, <2>3, <4>1, PlacedMoves
    <3> QED
      BY <1>0, <2>3, <3>1, <3>2, <3>3 DEF PodRecords, Lives
  <2> QED
    BY <1>5, <2>2, <2>3, SeenToFacts
<1>6. ASSUME NEW q \in Pods, OthersDelete(q) PROVE PlacedTold'
  BY <1>4, <1>6 DEF OthersDelete, Becomes, drain
<1>7. ASSUME NEW q \in Pods, Terminated(q) PROVE PlacedTold'
  <2> DEFINE r == Gone(pod[q].uid)
  <2>1. r \in PodRecords /\ Placed(r)
    BY <1>0, GoneRecord DEF PodRecords, Placed, Gone
  <2>2. uncordoned' = uncordoned /\ pc' = pc /\ pod' = [pod EXCEPT ![q] = r]
    BY <1>7 DEF Terminated, Becomes, drain
  <2> QED
    BY <1>0, <2>1, <2>2, PlacedMoves
<1>8. ASSUME NEW q \in Pods, Replace(q) \/ CreatePod(q) \/ Mirror(q) PROVE PlacedTold'
  <2>1. PICK r \in NewPods(q) : pod' = [pod EXCEPT ![q] = r]
    BY <1>8, NewPodFacts
  <2>2. r \in PodRecords /\ Placed(r)
    BY <2>1 DEF NewPods, Placed
  <2>3. uncordoned' = uncordoned /\ pc' = pc
    BY <1>8 DEF Replace, CreatePod, Mirror, Becomes, drain
  <2> QED
    BY <1>0, <2>1, <2>2, <2>3, PlacedMoves
<1>10. ASSUME NEW q \in Pods, Schedule(q) PROVE PlacedTold'
  <2>1. PICK n \in {"here", "there"} :
           /\ n = "here" => ~unschedulable \/ pod[q].exempt
           /\ pod' = [pod EXCEPT ![q] =
                         [pod[q] EXCEPT !.life = "assumed", !.place = n,
                                        !.early = (pc = "new")]]
    BY <1>10 DEF Schedule, Becomes
  <2> DEFINE r == [pod[q] EXCEPT !.life = "assumed", !.place = n, !.early = (pc = "new")]
  <2>2. (pc = "new") \in BOOLEAN
    OBVIOUS
  <2>3. r \in PodRecords /\ r.place = n /\ r.early = (pc = "new") /\ r.exempt = pod[q].exempt
    BY <1>0, <2>2 DEF PodRecords, Lives
  <2>4. uncordoned' = uncordoned /\ pc' = pc
    BY <1>10 DEF Schedule, Becomes, drain
  <2>5. pc # "failed" => Placed(r)
    <3>1. SUFFICES ASSUME pc \in {"cordoned", "evicting", "done"}, n = "here",
                          pod[q].exempt # TRUE
                   PROVE  uncordoned = TRUE
      BY <2>3 DEF Placed, TypeOK
    <3> QED
      BY <2>1, <3>1 DEF CordonTold
  <2> HIDE DEF r
  <2> QED
    BY <1>0, <2>1, <2>3, <2>4, <2>5, PlacedMoves DEF r
<1>11. ASSUME NEW q \in Pods, Bind(q) PROVE PlacedTold'
  <2> DEFINE r == [pod[q] EXCEPT !.life = "running"]
  <2>1. pod[q].life = "assumed"
    BY <1>11 DEF Bind
  <2>2. r \in PodRecords /\ (Placed(pod[q]) => Placed(r))
    BY <1>0, <2>1 DEF PodRecords, Lives, Placed
  <2>3. uncordoned' = uncordoned /\ pc' = pc /\ pod' = [pod EXCEPT ![q] = r]
    BY <1>11 DEF Bind, Becomes, drain
  <2> QED
    BY <1>0, <2>2, <2>3, PlacedMoves
<1>12. ASSUME UNCHANGED vars PROVE PlacedTold'
  <2>1. pod' = pod /\ uncordoned' = uncordoned /\ pc' = pc
    BY <1>12 DEF vars, drain
  <2> QED
    BY <1>1, <2>1
<1> QED
  BY <1>2, <1>3, <1>5, <1>6, <1>7, <1>8, <1>10, <1>11, <1>12
     DEF Next, DrainStep, ClusterStep

\* Every step keeps a pending pod off every node.
LEMMA PendingStep == TypeOK /\ PendingTold /\ [Next]_vars => PendingTold'
<1> SUFFICES ASSUME TypeOK, PendingTold, [Next]_vars, NEW p \in Pods,
                    pod'[p].life = "pending"
             PROVE  pod'[p].place = "none"
  BY DEF PendingTold
<1>1. pod[p] \in PodRecords /\ PodMoves(p)
  BY MovesStep DEF TypeOK
<1>2. pod[p].life = "pending" => pod[p].place = "none"
  BY DEF PendingTold
<1> QED
  BY <1>1, <1>2 DEF PodMoves, Gone, PodRecords

\* A drain is done when it has seen to every pod of its list, and stays done.
LEMMA DoneStep == TypeOK /\ DoneTold /\ [Next]_vars => DoneTold'
<1> SUFFICES ASSUME TypeOK, DoneTold, [Next]_vars PROVE DoneTold'
  OBVIOUS
<1>1. ASSUME Cordon \/ List \/ CallFails \/ Finish PROVE DoneTold'
  BY <1>1 DEF Cordon, List, CallFails, Finish, DoneTold
<1>2. ASSUME NEW p \in Pods, Skip(p) \/ Evict(p) \/ EvictFails(p) PROVE DoneTold'
  BY <1>2 DEF Skip, Evict, EvictFails, SeenTo, DoneTold
<1>3. ASSUME UNCHANGED drain PROVE DoneTold'
  BY <1>3 DEF drain, DoneTold
<1> QED
  BY <1>1, <1>2, <1>3, DrainSteps

\* In every reachable state the drain's list is older than the pods under its names,
\* whom it has seen to is on the way out or was spared, and a pod on the node came
\* before the cordon, after an uncordon or in spite of it (nodes.go:66-119).
THEOREM DrainInvariant == Spec => []IInv
<1>1. IInv /\ [Next]_vars => IInv'
  <2> SUFFICES ASSUME IInv, [Next]_vars PROVE IInv'
    OBVIOUS
  <2>1. TypeOK /\ ListedTold /\ SeenToTold /\ CordonTold
        /\ PlacedTold /\ PendingTold /\ DoneTold
    BY DEF IInv
  <2>2. TypeOK' /\ ListedTold' /\ SeenToTold' /\ CordonTold' /\ PendingTold' /\ DoneTold'
    BY <2>1, TypeStep, ListedStep, SeenToStep, CordonStep, PendingStep, DoneStep
  <2>3. PlacedTold'
    BY <2>1, PlacedStep
  <2> QED
    BY <2>2, <2>3 DEF IInv
<1> QED
  BY <1>1, InitInv, PTL DEF Spec

\* After a drain without failures, what still runs on the node was to be spared, or
\* came after the list and for a reason; a pod whose spec names the node is one
\* (nodes.go:97-110, 142, ephemeral.go:159).
THEOREM LeftoversAreExplained == Spec => []LeftoverExplained
<1>1. IInv => LeftoverExplained
  <2> SUFFICES ASSUME IInv, pc = "done", failed = FALSE, NEW p \in Pods,
                      Resident(p), pod[p].life = "running", ~Skips(pod[p])
               PROVE  /\ pod[p].uid # listed[p].uid
                      /\ pod[p].early \/ uncordoned \/ pod[p].exempt \/ pod[p].kind = "static"
    BY DEF LeftoverExplained, IInv, TypeOK
  <2>1. pod[p].uid # listed[p].uid
    <3>1. p \notin todo /\ pod[p].uid # 0
      BY DEF IInv, DoneTold, ListedTold
    <3>2. SUFFICES ASSUME pod[p].uid = listed[p].uid PROVE FALSE
      OBVIOUS
    <3>3. SameAs(pod[p], listed[p])
      BY <3>1, <3>2 DEF IInv, ListedTold
    <3>4. Skips(listed[p])
      BY <3>1, <3>2 DEF IInv, SeenToTold
    <3> QED
      BY <3>3, <3>4 DEF SameAs, Skips
  <2>2. pod[p].early = TRUE \/ uncordoned = TRUE \/ pod[p].exempt = TRUE
           \/ pod[p].kind \in Static
    BY DEF IInv, PlacedTold, Resident
  <2>3. pod[p].kind \in Static => pod[p].kind = "static"
    BY DEF Skips, Static
  <2> QED
    BY <2>1, <2>2, <2>3
<1> QED
  BY <1>1, DrainInvariant, PTL

\* An eviction takes one pod off the healthy ones, if it was healthy.
LEMMA HealthyLeft ==
    ASSUME TypeOK, NEW p \in Healthy, Accepts(p),
           pod' = [pod EXCEPT ![p] = [pod[p] EXCEPT !.life = "ending"]]
    PROVE  Cardinality(Healthy') >= MinAvailable
<1>1. p \in Pods /\ pod \in [Pods -> PodRecords]
  BY DEF TypeOK, Healthy
<1>2. \A q \in Pods :
         /\ pod'[q].life = IF q = p THEN "ending" ELSE pod[q].life
         /\ pod'[q].kind = pod[q].kind
  BY <1>1 DEF PodRecords
<1>3. Healthy' = Healthy \ {p}
  BY <1>2 DEF Healthy
<1>4. IsFiniteSet(Healthy)
  BY ConstantFacts, FS_Subset DEF Healthy
<1>5. /\ Cardinality(Healthy') = Cardinality(Healthy) - 1
      /\ Cardinality(Healthy) \in Nat
  BY <1>3, <1>4, FS_RemoveElement, FS_CardinalityType
<1>6. Cardinality(Healthy) > MinAvailable
  BY DEF Accepts
<1> QED
  BY <1>5, <1>6, ConstantFacts

\* A pod the drain ends is the one it listed, on the node still and not spared, or has
\* taken the name of such a one since; its budget is kept (nodes.go:117-131, 191).
THEOREM EvictionsAreExplained == Spec => EvictionsExplained
<1>1. IInv /\ [Next]_vars =>
         [DrainStep => \A p \in Pods : pod'[p] # pod[p] =>
              /\ \/ pod[p].uid = listed[p].uid /\ Resident(p) /\ ~Skips(pod[p])
                 \/ pod[p].uid > listed[p].uid /\ listed[p].uid # 0
              /\ p \in Healthy => Cardinality(Healthy') >= MinAvailable]_vars
  <2> SUFFICES ASSUME IInv, [Next]_vars, DrainStep, NEW p \in Pods, pod'[p] # pod[p]
               PROVE  /\ \/ pod[p].uid = listed[p].uid /\ Resident(p) /\ ~Skips(pod[p])
                         \/ pod[p].uid > listed[p].uid /\ listed[p].uid # 0
                      /\ p \in Healthy => Cardinality(Healthy') >= MinAvailable
    OBVIOUS
  <2>1. TypeOK
    BY DEF IInv
  <2>2. PICK q \in Pods : Evict(q) \/ EvictFails(q)
    <3>1. ~(Cordon \/ List \/ CallFails \/ Finish \/ \E q \in Pods : Skip(q))
      BY DEF Cordon, List, CallFails, Finish, Skip
    <3> QED
      BY <3>1 DEF DrainStep
  <2>3. /\ pod[q].life # "gone"
        /\ pod' = [pod EXCEPT ![q] = [pod[q] EXCEPT !.life = "ending"]]
    <3>1. pod' # pod
      OBVIOUS
    <3> QED
      BY <2>1, <2>2, <3>1, SeenToFacts
  <2>4. q = p
    BY <2>1, <2>3 DEF TypeOK
  <2>5. Accepts(p) /\ ~Skips(listed[p]) /\ p \in todo
    <3>1. CASE Evict(q)
      BY <2>4, <3>1 DEF Evict, SeenTo
    <3>2. CASE EvictFails(q)
      <4>1. Accepts(q)
        <5>1. pod' # pod
          OBVIOUS
        <5> QED
          BY <3>2, <5>1 DEF EvictFails
      <4> QED
        BY <2>4, <3>2, <4>1 DEF EvictFails, SeenTo
    <3> QED
      BY <2>2, <3>1, <3>2
  <2>6. /\ listed[p].uid # 0 /\ listed[p].uid <= pod[p].uid
        /\ pod[p].uid = listed[p].uid => SameAs(pod[p], listed[p])
    BY <2>3, <2>4, <2>5 DEF IInv, ListedTold
  <2>7. SameAs(pod[p], listed[p]) => Resident(p) /\ ~Skips(pod[p])
    BY <2>5 DEF SameAs, Skips, Resident
  <2>8. listed[p].uid \in Nat /\ pod[p].uid \in Nat
    BY <2>1 DEF TypeOK, PodRecords
  <2>9. p \in Healthy => Cardinality(Healthy') >= MinAvailable
    BY <2>1, <2>3, <2>4, <2>5, HealthyLeft
  <2> QED
    BY <2>6, <2>7, <2>8, <2>9
<1> QED
  BY <1>1, DrainInvariant, PTL DEF Spec, EvictionsExplained
====
