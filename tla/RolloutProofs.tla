---- MODULE RolloutProofs ----
(* Where an undo goes back to, for any calls, images, revisions and restarts. *)
EXTENDS Rollout, FiniteSetTheorems, TLAPS

TypeOK ==
    /\ template \in Templates /\ previous \in Templates
    /\ revision \in [Templates -> {None} \cup Revisions]
    /\ current \in Nat /\ clock \in 0..MaxRestarts
    /\ pc \in [Calls -> {"new", "listed", "picked", "done", "failed"}]
    /\ request \in [Calls -> {None} \cup Revisions]
    /\ listed \in [Calls -> [Templates -> {None} \cup Revisions]]
    /\ target \in [Calls -> Templates]
    /\ given \in [Revisions -> Templates]
    /\ calm \in SUBSET Calls /\ unread \in SUBSET Calls

\* t has the highest revision.
IsNewest(t) ==
    t \in Owned(revision) /\ \A u \in Owned(revision) : revision[u] <= revision[t]

\* There is a newest revision, and each has the template it was given for.
NumberedTold ==
    /\ \E t \in Templates : IsNewest(t)
    /\ \A t \in Owned(revision) : given[revision[t]] = t

\* The revision before the newest is that of the template before it.
PreviousTold ==
    \A t \in Templates : IsNewest(t) =>
        \/ Owned(revision) = {t}
        \/ previous \in Owned(revision) /\ revision[t] = revision[previous] + 1

\* Who goes to a revision has found the template it was given for.
PickedTold ==
    \A c \in Calls :
        /\ pc[c] = "listed" => request[c] = None
        /\ pc[c] = "picked" /\ request[c] # None =>
              /\ target[c] = given[request[c]]
              /\ \E t \in Owned(revision) : request[c] <= revision[t]

\* What c has seen of a settled Deployment is still so.
SeenStill(c) ==
    /\ IsNewest(template) /\ current = revision[template]
    /\ pc[c] = "listed" =>
          /\ listed[c][template] = current
          /\ \A t, u \in Owned(listed[c]) : listed[c][t] = listed[c][u] => t = u
          /\ \A t \in Owned(listed[c]) : listed[c][t] <= current
          /\ \/ Owned(listed[c]) = {template}
             \/ previous \in Owned(listed[c]) /\ current = listed[c][previous] + 1
    /\ pc[c] = "picked" /\ request[c] = None =>
          IF c \in unread THEN target[c] = template
                          ELSE target[c] = previous /\ previous # template

CalmTold == \A c \in calm : SeenStill(c)

IInv == TypeOK /\ NumberedTold /\ PreviousTold /\ PickedTold /\ CalmTold

\* What the proofs use of the constants.
LEMMA ConstantFacts ==
    /\ MaxRestarts \in Nat /\ HistoryLimit \in Nat \ {0} /\ MaxRevision \in Nat
    /\ FirstRevision \in Revisions /\ FirstRevision # None /\ Start \in Templates
<1>1. /\ MaxRestarts \in Nat /\ HistoryLimit \in Nat \ {0} /\ MaxRevision \in Nat
      /\ FirstRevision \in 1..MaxRevision /\ Images # {}
  BY RolloutAssumption DEF RolloutAssumption
<1>2. (CHOOSE i \in Images : TRUE) \in Images
  BY <1>1
<1>3. Start \in Templates
  BY <1>1, <1>2 DEF Start, Templates
<1> QED
  BY <1>1, <1>3 DEF Revisions, None

\* A template's revision tells it from the others.
LEMMA RevisionsDiffer ==
    ASSUME NumberedTold, NEW t \in Owned(revision), NEW u \in Owned(revision),
           revision[t] = revision[u]
    PROVE  t = u
BY DEF NumberedTold

\* The newest revision is one template's.
LEMMA NewestFacts ==
    ASSUME TypeOK, NumberedTold
    PROVE  /\ IsNewest(Newest(revision)) /\ Newest(revision) \in Templates
           /\ revision[Newest(revision)] \in Revisions
           /\ \A t \in Templates : IsNewest(t) => t = Newest(revision)
<1>1. \E t \in Owned(revision) : \A u \in Owned(revision) : revision[u] <= revision[t]
  BY DEF NumberedTold, IsNewest
<1>2. IsNewest(Newest(revision))
  BY <1>1 DEF Newest, IsNewest
<1>3. Newest(revision) \in Templates /\ revision[Newest(revision)] \in Revisions
  BY <1>2 DEF IsNewest, Owned, TypeOK
<1>4. ASSUME NEW t \in Templates, IsNewest(t) PROVE t = Newest(revision)
  <2>1. revision[t] \in Nat /\ revision[Newest(revision)] \in Nat
    BY <1>3 DEF TypeOK, Revisions, None
  <2>2. revision[t] = revision[Newest(revision)]
    BY <1>2, <1>4, <2>1 DEF IsNewest
  <2> QED
    BY <1>2, <1>4, <2>2, RevisionsDiffer DEF IsNewest
<1> QED
  BY <1>2, <1>3, <1>4

\* A patch of a template with another is a template.
LEMMA MergedFacts ==
    ASSUME NEW s \in Templates, NEW t \in Templates
    PROVE  Merged(s, t) \in Templates /\ Merged(s, t).image = t.image
BY DEF Merged, Templates

\* A patch of a template with itself changes nothing.
LEMMA MergedWithItself ==
    ASSUME NEW t \in Templates
    PROVE  Merged(t, t) = t
<1>1. t = [image |-> t.image, stamp |-> t.stamp]
  BY DEF Templates
<1>2. (IF t.stamp = 0 THEN t.stamp ELSE t.stamp) = t.stamp
  OBVIOUS
<1> QED
  BY <1>1, <1>2 DEF Merged

\* The initial states satisfy the invariant.
LEMMA InitInv == Init => IInv
<1> SUFFICES ASSUME Init PROVE IInv
  OBVIOUS
<1>1. TypeOK
  <2>1. request \in [Calls -> {None} \cup Revisions]
    BY ConstantFacts DEF Init, Revisions
  <2>2. revision \in [Templates -> {None} \cup Revisions]
    BY ConstantFacts DEF Init
  <2>3. current \in Nat /\ clock \in 0..MaxRestarts
    BY ConstantFacts DEF Init, Revisions
  <2> QED
    BY <2>1, <2>2, <2>3, ConstantFacts DEF Init, TypeOK
<1>2. Owned(revision) = {Start} /\ revision[Start] = FirstRevision
  BY ConstantFacts DEF Init, Owned
<1>3. FirstRevision <= FirstRevision
  BY ConstantFacts DEF Revisions
<1>4. NumberedTold
  BY <1>2, <1>3, ConstantFacts DEF Init, NumberedTold, IsNewest
<1>5. PreviousTold
  BY <1>2 DEF PreviousTold, IsNewest
<1>6. PickedTold /\ CalmTold
  BY DEF Init, PickedTold, CalmTold
<1> QED
  BY <1>1, <1>4, <1>5, <1>6 DEF IInv

\* The current revision as an undo took it: none, if it could not be read.
TakenForCurrent(c) == IF c \in unread' THEN None ELSE current

\* What the choice of the previous revision may leave behind.
LEMMA UndoPickEffects ==
    ASSUME NEW c \in Calls, UndoPick(c)
    PROVE  /\ UNCHANGED calm
           /\ unread' = unread \cup {c} \/ unread' = unread \ {c}
           /\ \/ /\ pc' = [pc EXCEPT ![c] = "picked"]
                 /\ \E t \in Owned(listed[c]) :
                       /\ target' = [target EXCEPT ![c] = t]
                       /\ t \in PreviousRevision(listed[c], TakenForCurrent(c))
              \/ /\ pc' = [pc EXCEPT ![c] = "failed"] /\ UNCHANGED target
                 /\ PreviousRevision(listed[c], TakenForCurrent(c)) = {}
<1>1. PICK readable \in BOOLEAN :
        LET cur    == IF readable THEN current ELSE None
            choice == PreviousRevision(listed[c], cur)
        IN  /\ unread' = IF readable THEN unread \ {c} ELSE unread \cup {c}
            /\ \/ \E t \in choice :
                    target' = [target EXCEPT ![c] = t] /\ Goto(c, "picked")
               \/ choice = {} /\ Goto(c, "failed") /\ UNCHANGED target
  BY DEF UndoPick
<1> DEFINE cur == IF readable THEN current ELSE None
<1>2. \A t \in PreviousRevision(listed[c], cur) : t \in Owned(listed[c])
  BY DEF PreviousRevision
<1>3. /\ unread' = unread \cup {c} \/ unread' = unread \ {c}
      /\ cur = TakenForCurrent(c)
  BY <1>1 DEF TakenForCurrent
<1>4. \/ \E t \in PreviousRevision(listed[c], cur) :
            target' = [target EXCEPT ![c] = t] /\ Goto(c, "picked")
      \/ PreviousRevision(listed[c], cur) = {} /\ Goto(c, "failed") /\ UNCHANGED target
  BY <1>1
<1>5. UNCHANGED calm
  BY DEF UndoPick
<1> HIDE DEF cur
<1> QED
  BY <1>2, <1>3, <1>4, <1>5 DEF Goto

\* Every step keeps the types.
LEMMA TypeStep == TypeOK /\ NumberedTold /\ [Next]_vars => TypeOK'
<1> SUFFICES ASSUME TypeOK, NumberedTold, [Next]_vars PROVE TypeOK'
  OBVIOUS
<1>1. ASSUME Restart PROVE TypeOK'
  <2>1. clock' \in 0..MaxRestarts /\ clock' = clock + 1 /\ clock + 1 \in 0..MaxRestarts
    BY <1>1, ConstantFacts DEF Restart, TypeOK
  <2>2. [template EXCEPT !.stamp = clock + 1] \in Templates
    BY <2>1 DEF TypeOK, Templates
  <2>3. template' \in Templates
    BY <1>1, <2>2, MergedFacts DEF Restart, TypeOK
  <2> QED
    BY <1>1, <2>1, <2>3 DEF Restart, call, TypeOK
<1>2. ASSUME NEW c \in Calls, UndoList(c) PROVE TypeOK'
  <2>1. \A t \in RequestedRevision(revision, request[c]) : t \in Templates
    BY DEF RequestedRevision, Owned
  <2> QED
    BY <1>2, <2>1 DEF UndoList, cluster, Goto, TypeOK
<1>3. ASSUME NEW c \in Calls, UndoPick(c) PROVE TypeOK'
  <2>1. calm' \in SUBSET Calls /\ unread' \in SUBSET Calls
    BY <1>3, UndoPickEffects DEF TypeOK
  <2>2. pc' \in [Calls -> {"new", "listed", "picked", "done", "failed"}]
    BY <1>3, UndoPickEffects DEF TypeOK
  <2>3. \A t \in Owned(listed[c]) : [target EXCEPT ![c] = t] \in [Calls -> Templates]
    BY DEF Owned, TypeOK
  <2>4. target' \in [Calls -> Templates]
    <3>1. CASE UNCHANGED target
      BY <3>1 DEF TypeOK
    <3>2. CASE \E t \in Owned(listed[c]) : target' = [target EXCEPT ![c] = t]
      BY <3>2, <2>3
    <3> QED
      BY <3>1, <3>2, <1>3, UndoPickEffects
  <2>5. UNCHANGED <<cluster, request, listed, previous, given>>
    BY <1>3 DEF UndoPick
  <2> QED
    BY <2>1, <2>2, <2>4, <2>5 DEF cluster, TypeOK
<1>4. ASSUME NEW c \in Calls, UndoPatch(c) PROVE TypeOK'
  <2>1. template' \in Templates
    BY <1>4, MergedFacts DEF UndoPatch, TypeOK
  <2> QED
    BY <1>4, <2>1 DEF UndoPatch, Goto, TypeOK
<1>5. ASSUME NEW c \in Calls, UndoFails(c) PROVE TypeOK'
  BY <1>5 DEF UndoFails, cluster, ghosts, Goto, TypeOK
<1>6. ASSUME SetImage PROVE TypeOK'
  <2>1. PICK i \in Images : template' = Merged(template, [template EXCEPT !.image = i])
    BY <1>6 DEF SetImage
  <2>2. [template EXCEPT !.image = i] \in Templates
    BY DEF TypeOK, Templates
  <2>3. template' \in Templates
    BY <2>1, <2>2, MergedFacts DEF TypeOK
  <2> QED
    BY <1>6, <2>3 DEF SetImage, call, TypeOK
<1>7. ASSUME NumberRevision PROVE TypeOK'
  <2> DEFINE next == revision[Newest(revision)] + 1
  <2>1. next \in Revisions
    BY <1>7, NewestFacts, ConstantFacts DEF NumberRevision, Revisions
  <2>2. /\ revision' = [revision EXCEPT ![template] = next]
        /\ given' = [given EXCEPT ![next] = template]
        /\ previous' = Newest(revision) /\ calm' = {}
        /\ UNCHANGED <<template, current, clock, call, unread>>
    BY <1>7 DEF NumberRevision
  <2> HIDE DEF next
  <2> QED
    BY <2>1, <2>2, NewestFacts DEF call, TypeOK
<1>8. ASSUME AnnotateDeployment PROVE TypeOK'
  <2>1. current' \in Nat
    BY <1>8 DEF AnnotateDeployment, TypeOK, Revisions, None
  <2> QED
    BY <1>8, <2>1 DEF AnnotateDeployment, call, TypeOK
<1>9. ASSUME Prune PROVE TypeOK'
  BY <1>9 DEF Prune, call, ghosts, TypeOK
<1>10. CASE UNCHANGED vars
  BY <1>10 DEF vars, cluster, call, ghosts, TypeOK
<1> QED
  BY <1>1, <1>2, <1>3, <1>4, <1>5, <1>6, <1>7, <1>8, <1>9, <1>10
     DEF Next, Undo, Controller

\* Pruning spares the newest ReplicaSet and the one before it.
LEMMA PruneEffects ==
    ASSUME IInv, Prune
    PROVE  \E t \in Owned(revision) :
              /\ revision' = [revision EXCEPT ![t] = None]
              /\ t # template /\ (Owned(revision) # {template} => t # previous)
              /\ IsNewest(template) /\ current = revision[template]
<1>1. PICK t \in Owned(revision) :
        /\ \A u \in Owned(revision) : revision[t] <= revision[u]
        /\ revision' = [revision EXCEPT ![t] = None]
  BY DEF Prune
<1>2. /\ IsNewest(template) /\ current = revision[template]
      /\ template \in Owned(revision)
  BY NewestFacts DEF Prune, Settled, IInv, IsNewest
<1>3. Cardinality(Owned(revision)) > HistoryLimit + 1 /\ HistoryLimit \in Nat \ {0}
  BY ConstantFacts DEF Prune
<1>4. \A u \in Owned(revision) : u \in Templates /\ revision[u] \in Nat
  BY DEF Owned, IInv, TypeOK, Revisions, None
<1>5. ASSUME NEW u, NEW v, Owned(revision) \subseteq {u, v} PROVE FALSE
  <2>1. IsFiniteSet({u, v}) /\ Cardinality({u, v}) <= 2
    <3>1. IsFiniteSet({v}) /\ Cardinality({v}) = 1
      BY FS_Singleton
    <3>2. /\ IsFiniteSet({v} \cup {u})
          /\ Cardinality({v} \cup {u}) = IF u \in {v} THEN 1 ELSE 1 + 1
      BY <3>1, FS_AddElement
    <3>3. {v} \cup {u} = {u, v}
      OBVIOUS
    <3> QED
      BY <3>2, <3>3
  <2>2. /\ IsFiniteSet(Owned(revision))
        /\ Cardinality(Owned(revision)) <= Cardinality({u, v})
    BY <1>5, <2>1, FS_Subset
  <2>3. Cardinality(Owned(revision)) \in Nat /\ Cardinality({u, v}) \in Nat
    BY <2>1, <2>2, FS_CardinalityType
  <2> QED
    BY <1>3, <2>1, <2>2, <2>3
<1>6. t # template
  <2> SUFFICES ASSUME t = template PROVE FALSE
    OBVIOUS
  <2>1. \A u \in Owned(revision) : revision[u] = revision[t]
    BY <1>1, <1>2, <1>4 DEF IsNewest
  <2>2. Owned(revision) \subseteq {t, t}
    BY <2>1, RevisionsDiffer DEF IInv
  <2> QED
    BY <1>5, <2>2
<1>7. ASSUME Owned(revision) # {template}, t = previous PROVE FALSE
  <2>1. revision[template] = revision[t] + 1
    BY <1>2, <1>4, <1>7 DEF IInv, PreviousTold
  <2>2. \A u \in Owned(revision) :
           revision[u] = revision[t] \/ revision[u] = revision[template]
    BY <1>1, <1>2, <1>4, <2>1 DEF IsNewest
  <2>3. Owned(revision) \subseteq {t, template}
    BY <1>2, <2>2, RevisionsDiffer DEF IInv
  <2> QED
    BY <1>5, <2>3
<1> QED
  BY <1>1, <1>2, <1>6, <1>7

\* What numbering a template does to the revisions.
LEMMA NumberEffects ==
    ASSUME IInv, NumberRevision
    PROVE  /\ previous' = Newest(revision) /\ previous' # template
           /\ previous' \in Owned(revision) /\ revision[previous'] \in Nat
           /\ \A u \in Owned(revision) : revision[u] <= revision[previous']
           /\ revision[previous'] + 1 \in Revisions
           /\ revision' = [revision EXCEPT ![template] = revision[previous'] + 1]
           /\ given' = [given EXCEPT ![revision[previous'] + 1] = template]
           /\ UNCHANGED <<template, current, clock, call, unread>> /\ calm' = {}
<1>1. /\ Newest(revision) \in Owned(revision) /\ revision[Newest(revision)] \in Revisions
      /\ \A u \in Owned(revision) : revision[u] <= revision[Newest(revision)]
  BY NewestFacts DEF IInv, IsNewest
<1>2. revision[Newest(revision)] + 1 \in Revisions
  BY <1>1, ConstantFacts DEF NumberRevision, Revisions
<1>3. revision[Newest(revision)] \in Nat
  BY <1>1 DEF Revisions
<1> QED
  BY <1>1, <1>2, <1>3 DEF NumberRevision

\* The steps that number nothing and drop nothing.
LEMMA OtherSteps ==
    ASSUME [Next]_vars, ~NumberRevision, ~Prune
    PROVE  UNCHANGED <<revision, previous, given>>
<1>1. ASSUME NEW c \in Calls, Undo(c) PROVE UNCHANGED <<revision, previous, given>>
  BY <1>1 DEF Undo, UndoList, UndoPick, UndoPatch, UndoFails, cluster, ghosts
<1>2. CASE Restart \/ SetImage \/ AnnotateDeployment
  BY <1>2 DEF Restart, SetImage, AnnotateDeployment
<1>3. CASE UNCHANGED vars
  BY <1>3 DEF vars, cluster, ghosts
<1> QED
  BY <1>1, <1>2, <1>3 DEF Next, Controller

\* Numbers are given once, and the newest ReplicaSet stays.
LEMMA NumberedStep == IInv /\ [Next]_vars => NumberedTold'
<1> SUFFICES ASSUME IInv, [Next]_vars PROVE NumberedTold'
  OBVIOUS
<1>1. CASE NumberRevision
  <2> DEFINE n == previous'
             next == revision[n] + 1
  <2>1. /\ n # template /\ n \in Owned(revision) /\ revision[n] \in Nat
        /\ \A u \in Owned(revision) : revision[u] <= revision[n]
        /\ next \in Revisions /\ next = revision[n] + 1
        /\ revision' = [revision EXCEPT ![template] = next]
        /\ given' = [given EXCEPT ![next] = template]
        /\ template' = template
    BY <1>1, NumberEffects
  <2> HIDE DEF n, next
  <2>2. \A u \in Owned(revision) : u \in Templates /\ revision[u] \in Revisions
    BY DEF Owned, IInv, TypeOK, None
  <2>3. /\ template \in Templates /\ revision \in [Templates -> {None} \cup Revisions]
        /\ given \in [Revisions -> Templates]
    BY DEF IInv, TypeOK
  <2>4. next # None
    BY <2>1 DEF Revisions, None
  <2>5. revision'[template] = next /\ template \in Owned(revision')
    BY <2>1, <2>3, <2>4 DEF Owned
  <2>6. ASSUME NEW u \in Owned(revision'), u # template
        PROVE  u \in Owned(revision) /\ revision'[u] = revision[u]
    BY <2>1, <2>3, <2>6 DEF Owned
  <2>7. \A u \in Owned(revision') :
           u # template => revision'[u] < next /\ revision'[u] \in Revisions
    BY <2>1, <2>2, <2>6 DEF Revisions
  <2>8. \A u \in Owned(revision') : revision'[u] <= revision'[template]
    <3>1. next \in Nat
      BY <2>1, ConstantFacts DEF Revisions
    <3>2. \A u \in Owned(revision') : u # template => revision'[u] \in Nat
      BY <2>1, <2>2, <2>6, ConstantFacts DEF Revisions
    <3> QED
      BY <3>1, <3>2, <2>5, <2>7
  <2>9. \A u \in Owned(revision') : given'[revision'[u]] = u
    <3> TAKE u \in Owned(revision')
    <3>1. CASE u = template
      BY <3>1, <2>1, <2>3, <2>5
    <3>2. CASE u # template
      <4>1. revision[u] \in Revisions /\ revision[u] # next /\ given[revision[u]] = u
        <5>1. given[revision[u]] = u
          BY <3>2, <2>6 DEF IInv, NumberedTold
        <5>2. revision[u] \in Revisions /\ revision'[u] = revision[u]
          BY <3>2, <2>2, <2>6
        <5>3. revision[u] < next
          BY <3>2, <2>7, <5>2
        <5>4. revision[u] \in Nat /\ next \in Nat
          BY <2>1, <5>2, ConstantFacts DEF Revisions
        <5> QED
          BY <5>1, <5>2, <5>3, <5>4
      <4> QED
        BY <4>1, <3>2, <2>1, <2>3, <2>6
    <3> QED
      BY <3>1, <3>2
  <2> QED
    BY <2>3, <2>5, <2>8, <2>9 DEF NumberedTold, IsNewest
<1>2. CASE Prune
  <2>1. PICK t \in Owned(revision) :
          /\ revision' = [revision EXCEPT ![t] = None]
          /\ t # template /\ IsNewest(template)
    BY <1>2, PruneEffects
  <2>2. \A u \in Owned(revision') : u \in Owned(revision) /\ revision'[u] = revision[u]
    BY <2>1 DEF Owned, IInv, TypeOK
  <2>3. template \in Owned(revision') /\ revision'[template] = revision[template]
    BY <2>1 DEF Owned, IInv, TypeOK, IsNewest
  <2>4. given' = given
    BY <1>2 DEF Prune, ghosts
  <2>5. \A u \in Owned(revision') : revision'[u] <= revision'[template]
    BY <2>1, <2>2, <2>3 DEF IsNewest
  <2>6. \A u \in Owned(revision') : given'[revision'[u]] = u
    BY <2>2, <2>4 DEF IInv, NumberedTold
  <2> QED
    BY <2>3, <2>5, <2>6 DEF NumberedTold, IsNewest, IInv, TypeOK, Owned
<1>3. CASE ~NumberRevision /\ ~Prune
  BY <1>3, OtherSteps DEF IInv, NumberedTold, IsNewest, Owned
<1> QED
  BY <1>1, <1>2, <1>3

\* The revision before the newest stays that of the template before it.
LEMMA PreviousStep == IInv /\ [Next]_vars => PreviousTold'
<1> SUFFICES ASSUME IInv, [Next]_vars PROVE PreviousTold'
  OBVIOUS
<1>1. CASE NumberRevision
  <2>1. /\ previous' # template /\ previous' \in Owned(revision) /\ revision[previous'] \in Nat
        /\ \A u \in Owned(revision) : revision[u] <= revision[previous']
        /\ revision' = [revision EXCEPT ![template] = revision[previous'] + 1]
    BY <1>1, NumberEffects
  <2>2. /\ template \in Templates /\ revision \in [Templates -> {None} \cup Revisions]
        /\ \A u \in Owned(revision) : revision[u] \in Nat
    BY DEF IInv, TypeOK, Owned, Revisions, None
  <2>3. /\ revision'[template] = revision[previous'] + 1 /\ template \in Owned(revision')
        /\ previous' \in Owned(revision') /\ revision'[previous'] = revision[previous']
    BY <2>1, <2>2 DEF Owned, None
  <2>4. \A u \in Owned(revision') : u # template =>
           u \in Owned(revision) /\ revision'[u] = revision[u]
    BY <2>1, <2>2 DEF Owned
  <2>5. ASSUME NEW u \in Owned(revision'), revision'[template] <= revision'[u]
        PROVE  u = template
    <3> SUFFICES ASSUME u # template PROVE FALSE
      OBVIOUS
    <3>1. u \in Owned(revision) /\ revision'[u] = revision[u]
      BY <2>4
    <3>2. revision[previous'] + 1 <= revision[u] /\ revision[u] <= revision[previous']
      BY <3>1, <2>1, <2>3, <2>5
    <3>3. revision[u] \in Nat /\ revision[previous'] \in Nat
      BY <3>1, <2>1, <2>2
    <3> QED
      BY <3>2, <3>3
  <2> QED
    BY <2>3, <2>5 DEF PreviousTold, IsNewest
<1>2. CASE Prune
  <2>1. PICK t \in Owned(revision) :
          /\ revision' = [revision EXCEPT ![t] = None]
          /\ t # template /\ (Owned(revision) # {template} => t # previous)
          /\ IsNewest(template)
    BY <1>2, PruneEffects
  <2>2. previous' = previous /\ previous \in Templates
    BY <1>2 DEF Prune, ghosts, IInv, TypeOK
  <2>3. \A u \in Templates : u # t => revision'[u] = revision[u]
    BY <2>1 DEF IInv, TypeOK
  <2>4. Owned(revision) # {template}
    BY <2>1
  <2>5. previous \in Owned(revision) /\ revision[template] = revision[previous] + 1
    BY <2>1, <2>4 DEF IInv, PreviousTold, IsNewest, Owned
  <2>6. /\ previous \in Owned(revision') /\ revision'[template] = revision'[previous] + 1
    BY <2>1, <2>3, <2>4, <2>5 DEF Owned, IsNewest
  <2>7. \A u \in Owned(revision') : u \in Owned(revision) /\ revision'[u] = revision[u]
    BY <2>1 DEF Owned, IInv, TypeOK
  <2>8. template \in Owned(revision')
    BY <2>1, <2>3 DEF Owned, IsNewest
  <2>9. ASSUME NEW u \in Owned(revision'), revision'[template] <= revision'[u]
        PROVE  u = template
    <3>1. revision[u] = revision[template]
      BY <2>1, <2>7, <2>8, <2>9 DEF IsNewest, IInv, TypeOK, Owned, Revisions, None
    <3> QED
      BY <3>1, <2>1, <2>7, RevisionsDiffer DEF IInv, IsNewest
  <2> QED
    BY <2>2, <2>6, <2>8, <2>9 DEF PreviousTold, IsNewest
<1>3. CASE ~NumberRevision /\ ~Prune
  BY <1>3, OtherSteps DEF IInv, PreviousTold, IsNewest, Owned
<1> QED
  BY <1>1, <1>2, <1>3

\* Who picked a requested revision has its template.
LEMMA PickedStep == IInv /\ [Next]_vars => PickedTold'
<1> SUFFICES ASSUME IInv, [Next]_vars PROVE PickedTold'
  OBVIOUS
<1>1. request' = request
  <2>1. ASSUME NEW c \in Calls, Undo(c) PROVE request' = request
    BY <2>1 DEF Undo, UndoList, UndoPick, UndoPatch, UndoFails
  <2>2. CASE Restart \/ SetImage \/ Controller
    BY <2>2 DEF Restart, SetImage, Controller, NumberRevision, AnnotateDeployment, Prune, call
  <2>3. CASE UNCHANGED vars
    BY <2>3 DEF vars, call
  <2> QED
    BY <2>1, <2>2, <2>3 DEF Next
<1>2. CASE NumberRevision
  <2> DEFINE next == revision[previous'] + 1
  <2>1. /\ previous' \in Owned(revision) /\ next = revision[previous'] + 1
        /\ \A u \in Owned(revision) : revision[u] <= revision[previous']
        /\ revision[previous'] \in Nat /\ next \in Revisions
        /\ revision' = [revision EXCEPT ![template] = next]
        /\ given' = [given EXCEPT ![next] = template]
        /\ template' = template /\ UNCHANGED call
    BY <1>2, NumberEffects
  <2> HIDE DEF next
  <2>2. /\ template \in Templates /\ revision \in [Templates -> {None} \cup Revisions]
        /\ given \in [Revisions -> Templates]
    BY DEF IInv, TypeOK
  <2>3. template \in Owned(revision') /\ revision'[template] = next
    BY <2>1, <2>2 DEF Owned, Revisions, None
  <2> SUFFICES ASSUME NEW c \in Calls
               PROVE  /\ pc'[c] = "listed" => request'[c] = None
                      /\ pc'[c] = "picked" /\ request'[c] # None =>
                            /\ target'[c] = given'[request'[c]]
                            /\ \E t \in Owned(revision') : request'[c] <= revision'[t]
    BY DEF PickedTold, Owned
  <2>4. UNCHANGED <<pc, request, listed, target>>
    BY <2>1 DEF call
  <2>5. pc[c] = "listed" => request[c] = None
    BY DEF IInv, PickedTold
  <2>6. ASSUME pc[c] = "picked", request[c] # None
        PROVE  target[c] = given'[request[c]] /\ request[c] <= next
    <3>1. request[c] \in Revisions /\ target[c] = given[request[c]]
      BY <2>6 DEF IInv, PickedTold, TypeOK
    <3>2. PICK t \in Owned(revision) : request[c] <= revision[t]
      BY <2>6 DEF IInv, PickedTold
    <3>3. revision[t] \in Nat /\ request[c] \in Nat
      BY <3>1, ConstantFacts DEF IInv, TypeOK, Owned, Revisions, None
    <3>4. request[c] < next
      BY <2>1, <3>2, <3>3
    <3>5. request[c] # next /\ request[c] <= next
      BY <3>3, <3>4, <2>1
    <3> QED
      BY <3>1, <3>5, <2>1, <2>2
  <2> QED
    BY <2>3, <2>4, <2>5, <2>6
<1>3. CASE Prune
  <2>1. PICK t \in Owned(revision) :
          /\ revision' = [revision EXCEPT ![t] = None]
          /\ t # template /\ IsNewest(template)
    BY <1>3, PruneEffects
  <2>2. template \in Owned(revision') /\ revision'[template] = revision[template]
    BY <2>1 DEF Owned, IInv, TypeOK, IsNewest
  <2>3. UNCHANGED <<pc, request, listed, target, given>>
    BY <1>3 DEF Prune, call, ghosts
  <2>4. ASSUME NEW c \in Calls, pc[c] = "picked", request[c] # None
        PROVE  target[c] = given[request[c]] /\ request[c] <= revision[template]
    <3>1. PICK u \in Owned(revision) :
            request[c] <= revision[u] /\ target[c] = given[request[c]]
      BY <2>4 DEF IInv, PickedTold
    <3>2. revision[u] <= revision[template]
      BY <2>1 DEF IsNewest
    <3>3. request[c] \in Nat /\ revision[u] \in Nat /\ revision[template] \in Nat
      BY <2>1, ConstantFacts DEF IInv, TypeOK, Owned, IsNewest, Revisions, None
    <3> QED
      BY <3>1, <3>2, <3>3
  <2>5. \A c \in Calls : pc[c] = "listed" => request[c] = None
    BY DEF IInv, PickedTold
  <2> QED
    BY <2>2, <2>3, <2>4, <2>5 DEF PickedTold
<1>4. CASE ~NumberRevision /\ ~Prune
  <2>1. UNCHANGED <<revision, previous, given>>
    BY <1>4, OtherSteps
  <2>2. ASSUME NEW c \in Calls, UndoList(c) PROVE PickedTold'
    <3>1. /\ pc' = [pc EXCEPT ![c] = pc'[c]] /\ target' = [target EXCEPT ![c] = target'[c]]
          /\ pc'[c] = "listed" => request[c] = None
          /\ pc'[c] = "picked" => target'[c] \in RequestedRevision(revision, request[c])
      BY <2>2 DEF UndoList, Goto, IInv, TypeOK
    <3>2. ASSUME pc'[c] = "picked", request[c] # None
          PROVE  /\ target'[c] = given[request[c]]
                 /\ \E t \in Owned(revision) : request[c] <= revision[t]
      <4>1. target'[c] \in Owned(revision) /\ revision[target'[c]] = request[c]
        BY <3>1, <3>2 DEF RequestedRevision
      <4>2. target'[c] = given[request[c]]
        BY <4>1 DEF IInv, NumberedTold
      <4>3. request[c] \in Nat
        BY ConstantFacts DEF IInv, TypeOK, Revisions, None
      <4> QED
        BY <4>1, <4>2, <4>3
    <3>3. \A d \in Calls \ {c} : pc'[d] = pc[d] /\ target'[d] = target[d]
      BY <3>1 DEF IInv, TypeOK
    <3>4. ASSUME NEW d \in Calls
          PROVE  /\ pc'[d] = "listed" => request[d] = None
                 /\ pc'[d] = "picked" /\ request[d] # None =>
                       /\ target'[d] = given[request[d]]
                       /\ \E t \in Owned(revision) : request[d] <= revision[t]
      <4>1. CASE d = c
        BY <4>1, <3>1, <3>2
      <4>2. CASE d # c
        BY <4>2, <3>3 DEF IInv, PickedTold
      <4> QED
        BY <4>1, <4>2
    <3> QED
      BY <3>4, <2>1, <1>1 DEF PickedTold, Owned
  <2>3. ASSUME NEW c \in Calls, UndoPick(c) PROVE PickedTold'
    <3>1. /\ pc[c] = "listed" /\ request[c] = None
      BY <2>3 DEF UndoPick, IInv, PickedTold
    <3>2. \A d \in Calls \ {c} : pc'[d] = pc[d] /\ target'[d] = target[d]
      BY <2>3, UndoPickEffects DEF IInv, TypeOK
    <3> QED
      BY <3>1, <3>2, <2>1, <1>1 DEF PickedTold, Owned, IInv
  <2>4. ASSUME NEW c \in Calls, UndoPatch(c) \/ UndoFails(c) PROVE PickedTold'
    <3>1. /\ target' = target /\ pc'[c] \in {"done", "failed"}
          /\ \A d \in Calls \ {c} : pc'[d] = pc[d]
      BY <2>4 DEF UndoPatch, UndoFails, Goto, IInv, TypeOK
    <3>2. pc'[c] # "listed" /\ pc'[c] # "picked"
      BY <3>1
    <3> QED
      BY <3>1, <3>2, <2>1, <1>1 DEF PickedTold, Owned, IInv
  <2>5. CASE UNCHANGED call
    BY <2>5, <2>1 DEF PickedTold, Owned, IInv, call
  <2>6. Restart \/ SetImage \/ AnnotateDeployment \/ UNCHANGED vars => UNCHANGED call
    BY DEF Restart, SetImage, AnnotateDeployment, vars
  <2> QED
    BY <2>2, <2>3, <2>4, <2>5, <2>6, <1>4 DEF Next, Undo, Controller
<1> QED
  BY <1>2, <1>3, <1>4

\* Nobody disturbs a call without its leaving the calm ones.
LEMMA CalmStep == IInv /\ [Next]_vars => CalmTold'
<1> SUFFICES ASSUME IInv, [Next]_vars PROVE CalmTold'
  OBVIOUS
<1>1. CASE calm' = {}
  BY <1>1 DEF CalmTold
<1>2. ASSUME NEW c \in Calls, NEW d \in calm, d # c, pc'[d] = pc[d], listed'[d] = listed[d],
             target'[d] = target[d], (d \in unread') <=> (d \in unread),
             UNCHANGED <<cluster, request, previous>>
      PROVE  SeenStill(d)'
  <2>1. SeenStill(d)
    BY DEF IInv, CalmTold
  <2> QED
    BY <2>1, <1>2 DEF SeenStill, IsNewest, Owned, cluster
<1>3. ASSUME NEW c \in Calls, UndoList(c) PROVE CalmTold'
  <2>1. /\ UNCHANGED <<cluster, request, previous, unread>>
        /\ calm' \in {calm, calm \cup {c}}
        /\ listed' = [listed EXCEPT ![c] = revision]
        /\ \A d \in calm \ {c} : pc'[d] = pc[d] /\ target'[d] = target[d]
    BY <1>3 DEF UndoList, Goto, IInv, TypeOK
  <2>2. \A d \in calm \ {c} : SeenStill(d)'
    BY <2>1, <1>2 DEF IInv, TypeOK
  <2>3. ASSUME c \in calm' PROVE SeenStill(c)'
    <3>1. IsNewest(template) /\ current = revision[template]
      <4>1. CASE Settled
        BY <4>1, NewestFacts DEF Settled, IInv
      <4>2. CASE ~Settled
        <5>1. c \in calm
          BY <4>2, <2>3, <1>3 DEF UndoList
        <5> QED
          BY <5>1 DEF IInv, CalmTold, SeenStill
      <4> QED
        BY <4>1, <4>2
    <3>2. listed'[c] = revision
      BY <2>1 DEF IInv, TypeOK
    <3>3. pc'[c] = "picked" => request[c] # None
      BY <1>3 DEF UndoList, Goto, IInv, TypeOK
    <3>4. \A t, u \in Owned(revision) : revision[t] = revision[u] => t = u
      BY RevisionsDiffer DEF IInv
    <3>5. \A t \in Owned(revision) : revision[t] <= current
      BY <3>1 DEF IsNewest
    <3>6. \/ Owned(revision) = {template}
          \/ previous \in Owned(revision) /\ current = revision[previous] + 1
      BY <3>1 DEF IInv, PreviousTold, IsNewest, Owned
    <3>7. IsNewest(template)'
      BY <3>1, <2>1 DEF IsNewest, Owned, cluster
    <3>8. UNCHANGED <<template, revision, current, request, previous>>
      BY <2>1 DEF cluster
    <3> QED
      BY <3>1, <3>2, <3>3, <3>4, <3>5, <3>6, <3>7, <3>8 DEF SeenStill, Owned
  <2> QED
    BY <2>1, <2>2, <2>3 DEF CalmTold
<1>4. ASSUME NEW c \in Calls, UndoPick(c) PROVE CalmTold'
  <2>1. /\ UNCHANGED <<cluster, request, listed, previous, calm>>
        /\ pc[c] = "listed"
    BY <1>4, UndoPickEffects DEF UndoPick
  <2>2. \A d \in Calls \ {c} : /\ pc'[d] = pc[d] /\ target'[d] = target[d]
                               /\ (d \in unread') <=> (d \in unread)
    BY <1>4, UndoPickEffects DEF IInv, TypeOK
  <2>3. \A d \in calm \ {c} : SeenStill(d)'
    <3> SUFFICES ASSUME NEW d \in calm, d # c PROVE SeenStill(d)'
      OBVIOUS
    <3>1. d \in Calls /\ listed'[d] = listed[d]
      BY <2>1 DEF IInv, TypeOK
    <3>2. /\ pc'[d] = pc[d] /\ target'[d] = target[d]
          /\ (d \in unread') <=> (d \in unread)
      BY <2>2, <3>1
    <3> QED
      BY <2>1, <3>1, <3>2, <1>2
  <2>4. ASSUME c \in calm PROVE SeenStill(c)'
    <3>1. SeenStill(c)
      BY <2>4 DEF IInv, CalmTold
    <3>2. IsNewest(template)'
      BY <3>1, <2>1 DEF SeenStill, IsNewest, Owned, cluster
    <3>3. pc'[c] # "listed"
      BY <1>4, UndoPickEffects DEF IInv, TypeOK
    <3>4. ASSUME pc'[c] = "picked"
          PROVE  IF c \in unread' THEN target'[c] = template
                                  ELSE target'[c] = previous /\ previous # template
      <4>1. PICK t \in Owned(listed[c]) :
              target'[c] = t /\ t \in PreviousRevision(listed[c], TakenForCurrent(c))
        BY <1>4, <3>4, UndoPickEffects DEF IInv, TypeOK
      <4>2. /\ listed[c][template] = current
            /\ \A u \in Owned(listed[c]) : listed[c][u] = listed[c][t] => u = t
            /\ listed[c][t] <= current
            /\ \/ Owned(listed[c]) = {template}
               \/ previous \in Owned(listed[c]) /\ current = listed[c][previous] + 1
        BY <2>1, <3>1, <4>1 DEF SeenStill
      <4>3. \A u \in Owned(listed[c]) : listed[c][u] \in Nat /\ listed[c][u] # None
        BY ConstantFacts DEF Owned, IInv, TypeOK, Revisions, None
      <4>4. CASE c \in unread'
        <5>1. \A u \in Owned(listed[c]) : listed[c][u] <= listed[c][t]
          BY <4>1, <4>3, <4>4 DEF PreviousRevision, TakenForCurrent
        <5>2. template \in Owned(listed[c])
          BY <3>1, <4>2 DEF SeenStill, IsNewest, Owned
        <5>3. listed[c][template] = listed[c][t]
          BY <4>2, <4>3, <5>1, <5>2
        <5>4. t = template
          BY <4>2, <5>2, <5>3
        <5> QED
          BY <4>1, <4>4, <5>4
      <4>5. CASE c \notin unread'
        <5>1. /\ listed[c][t] # current
              /\ \A u \in Owned(listed[c]) :
                   listed[c][u] # current => listed[c][u] <= listed[c][t]
          BY <4>1, <4>5 DEF PreviousRevision, TakenForCurrent
        <5>2. previous \in Owned(listed[c]) /\ current = listed[c][previous] + 1
          BY <4>1, <4>2, <5>1
        <5>3. listed[c][previous] = listed[c][t] /\ listed[c][previous] # current
          BY <4>1, <4>2, <4>3, <5>1, <5>2
        <5> QED
          BY <4>1, <4>2, <4>5, <5>2, <5>3
      <4> QED
        BY <4>4, <4>5
    <3> QED
      BY <3>1, <3>2, <3>3, <3>4, <2>1 DEF SeenStill, cluster
  <2> QED
    BY <2>1, <2>3, <2>4 DEF CalmTold
<1>5. ASSUME NEW c \in Calls, UndoFails(c) PROVE CalmTold'
  <2>1. UNCHANGED <<cluster, request, listed, target, previous, calm, unread>>
    BY <1>5 DEF UndoFails, ghosts
  <2>2. pc'[c] = "failed" /\ \A d \in Calls \ {c} : pc'[d] = pc[d]
    BY <1>5 DEF UndoFails, Goto, IInv, TypeOK
  <2>3. \A d \in calm \ {c} : SeenStill(d)'
    BY <2>1, <2>2, <1>2 DEF IInv, TypeOK
  <2>4. ASSUME c \in calm PROVE SeenStill(c)'
    <3>1. SeenStill(c)
      BY <2>4 DEF IInv, CalmTold
    <3> QED
      BY <3>1, <2>1, <2>2 DEF SeenStill, IsNewest, Owned, cluster
  <2> QED
    BY <2>1, <2>3, <2>4 DEF CalmTold
<1>6. ASSUME Prune PROVE CalmTold'
  <2>1. PICK t \in Owned(revision) :
          /\ revision' = [revision EXCEPT ![t] = None]
          /\ t # template /\ IsNewest(template)
    BY <1>6, PruneEffects
  <2>2. /\ revision'[template] = revision[template]
        /\ template \in Owned(revision')
        /\ \A u \in Owned(revision') : u \in Owned(revision) /\ revision'[u] = revision[u]
    BY <2>1 DEF Owned, IInv, TypeOK, IsNewest
  <2>3. UNCHANGED <<template, current, pc, request, listed, target, previous, calm, unread>>
    BY <1>6 DEF Prune, call, ghosts
  <2>4. IsNewest(template)'
    BY <2>1, <2>2, <2>3 DEF IsNewest
  <2>5. ASSUME NEW d \in calm PROVE SeenStill(d)'
    <3>1. SeenStill(d)
      BY DEF IInv, CalmTold
    <3> QED
      BY <3>1, <2>2, <2>3, <2>4 DEF SeenStill, Owned
  <2> QED
    BY <2>3, <2>5 DEF CalmTold
<1>7. CASE UNCHANGED vars
  BY <1>7 DEF vars, cluster, call, ghosts, IInv, CalmTold, SeenStill, IsNewest, Owned
<1>8. Restart \/ SetImage \/ NumberRevision \/ AnnotateDeployment => calm' = {}
  BY DEF Restart, SetImage, NumberRevision, AnnotateDeployment
<1>9. \A c \in Calls : UndoPatch(c) => calm' = {}
  BY DEF UndoPatch
<1> QED
  BY <1>1, <1>3, <1>4, <1>5, <1>6, <1>7, <1>8, <1>9 DEF Next, Undo, Controller

\* The invariant: revisions are told apart by their templates, and what an
\* undo carries from its list to its patch stays true of the Deployment.
THEOREM RolloutInvariant == Spec => []IInv
<1>1. IInv /\ [Next]_vars => IInv'
  BY TypeStep, NumberedStep, PreviousStep, PickedStep, CalmStep DEF IInv
<1> QED
  BY InitInv, <1>1, PTL DEF Spec

\* The step that patches is UndoPatch.
LEMMA PatchStep ==
    ASSUME IInv, [Next]_vars, NEW c \in Calls, Patched(c)
    PROVE  UndoPatch(c)
<1>1. pc[c] = "picked" /\ pc'[c] = "done"
  BY DEF Patched
<1>2. ASSUME NEW d \in Calls, Undo(d) PROVE UndoPatch(c)
  <2>1. CASE d = c
    <3>1. ~UndoList(c) /\ ~UndoPick(c)
      BY <1>1 DEF UndoList, UndoPick
    <3>2. ~UndoFails(c)
      BY <1>1 DEF UndoFails, Goto, IInv, TypeOK
    <3> QED
      BY <1>2, <2>1, <3>1, <3>2 DEF Undo
  <2>2. CASE d # c
    <3>1. ~UndoList(d)
      BY <1>1, <2>2 DEF UndoList, Goto, IInv, TypeOK
    <3>2. ~UndoPick(d)
      BY <1>1, <2>2, UndoPickEffects DEF IInv, TypeOK
    <3>3. ~UndoPatch(d) /\ ~UndoFails(d)
      BY <1>1, <2>2 DEF UndoPatch, UndoFails, Goto, IInv, TypeOK
    <3> QED
      BY <1>2, <3>1, <3>2, <3>3 DEF Undo
  <2> QED
    BY <2>1, <2>2
<1>3. Restart \/ SetImage \/ Controller \/ UNCHANGED vars => pc' = pc
  BY DEF Restart, SetImage, Controller, NumberRevision, AnnotateDeployment, Prune, call, vars
<1> QED
  BY <1>1, <1>2, <1>3 DEF Next

\* An undo of what is settled, undisturbed, brings back the image before, or could
\* not read what is current and leaves it (scale.go:189-198).
THEOREM UndoBringsBack == Spec => UndoGoesBack
<1>1. ASSUME IInv, [Next]_vars, NEW c \in Calls, Patched(c), request[c] = None, c \in calm
      PROVE  IF c \in unread THEN template' = template
                             ELSE template'.image = previous.image
  <2>1. pc[c] = "picked" /\ template' = Merged(template, target[c])
    BY <1>1, PatchStep DEF UndoPatch
  <2>2. IF c \in unread THEN target[c] = template ELSE target[c] = previous
    BY <1>1, <2>1 DEF IInv, CalmTold, SeenStill
  <2>3. template \in Templates /\ previous \in Templates
    BY <1>1 DEF IInv, TypeOK
  <2>4. Merged(template, template) = template
    BY <2>3, MergedWithItself
  <2> QED
    BY <2>1, <2>2, <2>3, <2>4, MergedFacts
<1>2. IInv /\ [Next]_vars =>
        [\A c \in Calls :
           Patched(c) /\ request[c] = None /\ c \in calm
               => IF c \in unread THEN template' = template
                                 ELSE template'.image = previous.image]_vars
  BY <1>1
<1> QED
  BY <1>2, RolloutInvariant, PTL DEF Spec, UndoGoesBack

\* An undo to a revision brings back the image the revision was given for.
THEOREM RequestHonoured == Spec => RequestedRevisionHonoured
<1>1. ASSUME IInv, [Next]_vars, NEW c \in Calls, Patched(c), request[c] # None
      PROVE  template'.image = given[request[c]].image
  <2>1. pc[c] = "picked" /\ template' = Merged(template, target[c])
    BY <1>1, PatchStep DEF UndoPatch
  <2>2. target[c] = given[request[c]]
    BY <1>1, <2>1 DEF IInv, PickedTold
  <2> QED
    BY <1>1, <2>1, <2>2, MergedFacts DEF IInv, TypeOK
<1>2. IInv /\ [Next]_vars =>
        [\A c \in Calls :
           Patched(c) /\ request[c] # None
               => template'.image = given[request[c]].image]_vars
  BY <1>1
<1> QED
  BY <1>2, RolloutInvariant, PTL DEF Spec, RequestedRevisionHonoured

\* Only a revision that differs by a restart, or a current revision that could not be
\* read, makes an undisturbed undo a no-op.
THEOREM NoOpExplained == Spec => NoOpHasReason
<1>1. ASSUME IInv, [Next]_vars, NEW c \in Calls, Patched(c), request[c] = None, c \in calm,
             template' = template
      PROVE  (target[c].image = template.image /\ target[c].stamp = 0) \/ c \in unread
  <2> SUFFICES ASSUME c \notin unread
               PROVE  target[c].image = template.image /\ target[c].stamp = 0
    OBVIOUS
  <2>1. pc[c] = "picked" /\ template = Merged(template, target[c])
    BY <1>1, PatchStep DEF UndoPatch
  <2>2. target[c] = previous /\ previous # template
    BY <1>1, <2>1 DEF IInv, CalmTold, SeenStill
  <2>3. target[c] \in Templates /\ template \in Templates
    BY <1>1 DEF IInv, TypeOK
  <2>4. target[c].image = template.image
    BY <2>1, <2>3, MergedFacts
  <2>5. ASSUME target[c].stamp # 0 PROVE FALSE
    <3>1. Merged(template, target[c]) = [image |-> target[c].image, stamp |-> target[c].stamp]
      BY <2>5 DEF Merged
    <3>2. target[c] = [image |-> target[c].image, stamp |-> target[c].stamp]
      BY <2>3 DEF Templates
    <3> QED
      BY <2>1, <2>2, <3>1, <3>2
  <2> QED
    BY <2>4, <2>5
<1>2. IInv /\ [Next]_vars =>
        [\A c \in Calls :
           Patched(c) /\ request[c] = None /\ c \in calm /\ template' = template
               => \/ target[c].image = template.image /\ target[c].stamp = 0
                  \/ c \in unread]_vars
  BY <1>1
<1> QED
  BY <1>2, RolloutInvariant, PTL DEF Spec, NoOpHasReason

\* The step that refuses for want of a previous revision is UndoPick.
LEMMA RefuseStep ==
    ASSUME IInv, [Next]_vars, NEW c \in Calls, pc[c] = "listed", pc'[c] = "failed"
    PROVE  UndoPick(c)
<1>1. ASSUME NEW d \in Calls, Undo(d) PROVE UndoPick(c)
  <2>1. CASE d = c
    BY <1>1, <2>1 DEF Undo, UndoList, UndoPatch, UndoFails
  <2>2. CASE d # c
    <3>1. ~UndoList(d)
      BY <2>2 DEF UndoList, Goto, IInv, TypeOK
    <3>2. ~UndoPick(d)
      BY <2>2, UndoPickEffects DEF IInv, TypeOK
    <3>3. ~UndoPatch(d) /\ ~UndoFails(d)
      BY <2>2 DEF UndoPatch, UndoFails, Goto, IInv, TypeOK
    <3> QED
      BY <1>1, <3>1, <3>2, <3>3 DEF Undo
  <2> QED
    BY <2>1, <2>2
<1>2. Restart \/ SetImage \/ Controller \/ UNCHANGED vars => pc' = pc
  BY DEF Restart, SetImage, Controller, NumberRevision, AnnotateDeployment, Prune, call, vars
<1> QED
  BY <1>1, <1>2 DEF Next

\* UndoPick fails only when there is nothing to choose from.
LEMMA RefusedEffects ==
    ASSUME IInv, NEW c \in Calls, UndoPick(c), pc'[c] = "failed"
    PROVE  PreviousRevision(listed[c], current) = {} \/ PreviousRevision(listed[c], None) = {}
<1>1. pc' # [pc EXCEPT ![c] = "picked"]
  BY DEF IInv, TypeOK
<1> QED
  BY <1>1, UndoPickEffects DEF TakenForCurrent

\* An undisturbed undo finds the template before, if there is one.
THEOREM RefusalExplained == Spec => RefusedOnlyWithoutHistory
<1>1. ASSUME IInv, [Next]_vars, NEW c \in Calls, pc[c] = "listed", pc'[c] = "failed",
             c \in calm
      PROVE  Owned(listed[c]) = {template}
  <2> DEFINE seen == listed[c]
  <2>1. SeenStill(c) /\ current \in Nat /\ seen \in [Templates -> {None} \cup Revisions]
        /\ pc[c] = "listed"
    BY <1>1 DEF IInv, CalmTold, TypeOK
  <2>2. \A t \in Owned(seen) : t \in Templates /\ seen[t] \in Nat /\ seen[t] # None
    BY <2>1, ConstantFacts DEF Owned, Revisions
  <2>3. /\ template \in Owned(seen) /\ seen[template] = current
        /\ \A t, u \in Owned(seen) : seen[t] = seen[u] => t = u
        /\ \A t \in Owned(seen) : seen[t] <= current
        /\ \/ Owned(seen) = {template}
           \/ previous \in Owned(seen) /\ current = seen[previous] + 1
    <3>1. seen[template] = current /\ template \in Templates /\ current # None
      BY <2>1 DEF SeenStill, IsNewest, Owned
    <3> QED
      BY <2>1, <3>1 DEF SeenStill, Owned
  <2> HIDE DEF seen
  <2>4. template \in PreviousRevision(seen, None)
    BY <2>2, <2>3 DEF PreviousRevision
  <2>5. ASSUME previous \in Owned(seen), current = seen[previous] + 1
        PROVE  previous \in PreviousRevision(seen, current)
    <3>1. seen[previous] # current
      BY <2>2, <2>5
    <3>2. ASSUME NEW u \in Owned(seen), seen[u] # current PROVE seen[u] <= seen[previous]
      BY <2>1, <2>2, <2>3, <2>5, <3>2
    <3> QED
      BY <2>5, <3>1, <3>2 DEF PreviousRevision
  <2>6. PreviousRevision(seen, current) = {} \/ PreviousRevision(seen, None) = {}
    BY <1>1, RefuseStep, RefusedEffects DEF seen
  <2> QED
    BY <2>3, <2>4, <2>5, <2>6 DEF seen
<1>2. IInv /\ [Next]_vars =>
        [\A c \in Calls :
           pc[c] = "listed" /\ pc'[c] = "failed" /\ c \in calm
               => Owned(listed[c]) = {template}]_vars
  BY <1>1
<1> QED
  BY <1>2, RolloutInvariant, PTL DEF Spec, RefusedOnlyWithoutHistory
====
