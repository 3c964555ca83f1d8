---- MODULE DebugPodProofs ----
(* The cleanup of debug pods, for any calls, names and numbers of failures. *)
EXTENDS DebugPod, TLAPS

\* A pod of this tool has its name from its call, and is there only after its create.
NameTold ==
    \A n \in Names : \A c \in Calls : pods[n] = c => n = target[c] /\ c \in made

\* Who owes a cleanup has created a pod, and who has deleted it has none any more.
MadeTold ==
    \A c \in Calls :
        /\ cleanup[c] \in {"new", "creating", "rejected"} => c \notin made
        /\ cleanup[c] \in {"sleeping", "deleting", "requested", "deleted"} => c \in made
        /\ cleanup[c] = "deleted" => pods[target[c]] # c

\* A pod that was created and is not there was deleted by its cleanup or taken by
\* somebody else.
RobbedTold ==
    \A c \in made : pods[target[c]] = c \/ c \in robbed \/ cleanup[c] = "deleted"

\* A cleanup that did not come has a reason.
ReasonTold ==
    \A c \in Calls :
        /\ cleanup[c] = "abandoned" => server # "serving"
        /\ cleanup[c] = "not deleted" => server # "serving" \/ failed > 0
        /\ cleanup[c] = "lost" => server = "exited" \/ failed > 0

CleanupByPlace == NameTold /\ MadeTold /\ RobbedTold /\ ReasonTold

IInv == TypeOK /\ CleanupByPlace

\* What the proofs use of the constants.
LEMMA ConstantFacts ==
    Failures \in Nat /\ Foreign \notin Calls /\ NoPod \notin Calls
BY DebugAssumption DEF DebugAssumption

\* The number of failed calls only grows, within its bound.
LEMMA FailedStep ==
    ASSUME TypeOK, [Next]_vars
    PROVE  /\ failed' \in 0..Failures
           /\ failed > 0 => failed' > 0
           /\ Fail => failed' > 0
<1>1. failed \in 0..Failures
  BY DEF TypeOK
<1>2. CASE Fail
  BY <1>1, <1>2, ConstantFacts DEF Fail
<1>3. CASE UNCHANGED failed
  <2>1. ~Fail
    BY <1>1, <1>3, ConstantFacts DEF Fail
  <2> QED
    BY <1>1, <1>3, <2>1
<1>4. Fail \/ UNCHANGED failed
  BY DEF Next, CleanupStep, SendCreate, Create, CreateRejected, CreateLost, TimerFires, Wake,
         Abandon, RequestDelete, Delete, DeleteFails, OthersDelete, OthersCreate,
         Stop, Exit, vars
<1> QED
  BY <1>2, <1>3, <1>4

\* A server that stops does not begin to serve again, nor one that is gone.
LEMMA StopStep ==
    [Next]_vars => /\ server # "serving" => server' # "serving"
                   /\ server = "exited" => server' = "exited"
BY DEF Next, CleanupStep, SendCreate, Create, CreateRejected, CreateLost, TimerFires, Wake,
       Abandon, RequestDelete, Delete, DeleteFails, OthersDelete, OthersCreate, Stop, Exit,
       Runs, vars

\* The initial states satisfy the invariant.
LEMMA InitInv == Init => IInv
<1> SUFFICES ASSUME Init PROVE IInv
  OBVIOUS
<1>1. TypeOK
  <2>1. /\ server \in ServerStates /\ elapsed \in SUBSET made /\ made \in SUBSET Calls
        /\ robbed \in SUBSET Calls
    BY DEF Init, ServerStates
  <2>2. failed \in 0..Failures
    BY ConstantFacts DEF Init
  <2>3. pods \in [Names -> Calls \cup {Foreign, NoPod}]
    BY DEF Init
  <2> QED
    BY <2>1, <2>2, <2>3 DEF Init, TypeOK, States
<1>2. CleanupByPlace
  BY ConstantFacts DEF Init, CleanupByPlace, NameTold, MadeTold, RobbedTold,
                            ReasonTold
<1> QED
  BY <1>1, <1>2 DEF IInv

\* Every step keeps the types.
LEMMA TypeStep == TypeOK /\ MadeTold /\ [Next]_vars => TypeOK'
<1> SUFFICES ASSUME TypeOK, MadeTold, [Next]_vars PROVE TypeOK'
  OBVIOUS
<1>0. failed' \in 0..Failures
  BY FailedStep
<1> USE DEF TypeOK, Goto, States, ServerStates
<1>1. ASSUME NEW c \in Calls, Create(c) PROVE TypeOK'
  BY <1>1 DEF Create
<1>2. ASSUME NEW c \in Calls, CreateRejected(c) PROVE TypeOK'
  BY <1>0, <1>2 DEF CreateRejected
<1>3. ASSUME NEW c \in Calls, CreateLost(c) PROVE TypeOK'
  BY <1>0, <1>3 DEF CreateLost
<1>4. ASSUME NEW c \in Calls, TimerFires(c) PROVE TypeOK'
  BY <1>4 DEF TimerFires, MadeTold
<1>5. ASSUME NEW c \in Calls, Wake(c) \/ Abandon(c) \/ RequestDelete(c) PROVE TypeOK'
  BY <1>5 DEF Wake, Abandon, RequestDelete
<1>6. ASSUME NEW c \in Calls, Delete(c) PROVE TypeOK'
  BY <1>6 DEF Delete
<1>7. ASSUME NEW c \in Calls, DeleteFails(c) PROVE TypeOK'
  BY <1>0, <1>7 DEF DeleteFails
<1>8. ASSUME NEW n \in Names, OthersDelete(n) \/ OthersCreate(n) PROVE TypeOK'
  BY <1>8 DEF OthersDelete, OthersCreate
<1>9. ASSUME Stop PROVE TypeOK'
  BY <1>9 DEF Stop
<1>10. ASSUME Exit PROVE TypeOK'
  BY <1>10 DEF Exit
<1>11. ASSUME NEW c \in Calls, SendCreate(c) PROVE TypeOK'
  BY <1>11 DEF SendCreate
<1>12. ASSUME UNCHANGED vars PROVE TypeOK'
  BY <1>12 DEF vars
<1> QED
  BY <1>1, <1>2, <1>3, <1>4, <1>5, <1>6, <1>7, <1>8, <1>9, <1>10, <1>11, <1>12
     DEF Next, CleanupStep

\* Every step keeps whose name a pod has.
LEMMA NameStep == TypeOK /\ NameTold /\ [Next]_vars => NameTold'
<1> SUFFICES ASSUME TypeOK, NameTold, [Next]_vars PROVE NameTold'
  OBVIOUS
<1> USE ConstantFacts DEF TypeOK, NameTold
<1>1. ASSUME NEW c \in Calls, Create(c) PROVE NameTold'
  BY <1>1 DEF Create
<1>2. ASSUME NEW c \in Calls, CreateRejected(c) PROVE NameTold'
  BY <1>2 DEF CreateRejected
<1>3. ASSUME NEW c \in Calls, CreateLost(c) PROVE NameTold'
  BY <1>3 DEF CreateLost
<1>4. ASSUME NEW c \in Calls, TimerFires(c) PROVE NameTold'
  BY <1>4 DEF TimerFires
<1>5. ASSUME NEW c \in Calls, Wake(c) PROVE NameTold'
  BY <1>5 DEF Wake
<1>6. ASSUME NEW c \in Calls, Abandon(c) PROVE NameTold'
  BY <1>6 DEF Abandon
<1>7. ASSUME NEW c \in Calls, RequestDelete(c) PROVE NameTold'
  BY <1>7 DEF RequestDelete
<1>8. ASSUME NEW c \in Calls, Delete(c) PROVE NameTold'
  BY <1>8 DEF Delete
<1>9. ASSUME NEW c \in Calls, DeleteFails(c) PROVE NameTold'
  BY <1>9 DEF DeleteFails
<1>10. ASSUME NEW n \in Names, OthersDelete(n) PROVE NameTold'
  BY <1>10 DEF OthersDelete
<1>11. ASSUME NEW n \in Names, OthersCreate(n) PROVE NameTold'
  BY <1>11 DEF OthersCreate
<1>12. CASE Stop \/ Exit
  BY <1>12 DEF Stop, Exit
<1>13. CASE UNCHANGED vars
  BY <1>13 DEF vars
<1>14. ASSUME NEW c \in Calls, SendCreate(c) PROVE NameTold'
  BY <1>14 DEF SendCreate
<1> QED
  BY <1>1, <1>2, <1>3, <1>4, <1>5, <1>6, <1>7, <1>8, <1>9, <1>10, <1>11, <1>12, <1>13,
     <1>14 DEF Next, CleanupStep

\* Every step keeps what a call's place tells of its pod.
LEMMA MadeStep == TypeOK /\ NameTold /\ MadeTold /\ [Next]_vars => MadeTold'
<1> SUFFICES ASSUME TypeOK, NameTold, MadeTold, [Next]_vars PROVE MadeTold'
  OBVIOUS
<1>0. cleanup \in [Calls -> States]
  BY DEF TypeOK
<1>1. ASSUME NEW c \in Calls, Create(c) PROVE MadeTold'
  <2>1. /\ pods[target[c]] = NoPod /\ pods' = [pods EXCEPT ![target[c]] = c]
        /\ made' = made \cup {c} /\ UNCHANGED target
        /\ cleanup' = [cleanup EXCEPT ![c] = "sleeping"]
    BY <1>1 DEF Create, Goto
  <2> QED
    BY <1>0, <2>1, ConstantFacts DEF TypeOK, NameTold, MadeTold
<1>2. ASSUME NEW c \in Calls, CreateRejected(c) PROVE MadeTold'
  <2>1. /\ cleanup[c] = "creating" /\ UNCHANGED <<pods, made, target>>
        /\ cleanup' = [cleanup EXCEPT ![c] = "rejected"]
    BY <1>2 DEF CreateRejected, Goto
  <2> QED
    BY <1>0, <2>1 DEF MadeTold
<1>3. ASSUME NEW c \in Calls, CreateLost(c) PROVE MadeTold'
  <2>1. /\ pods[target[c]] = NoPod /\ pods' = [pods EXCEPT ![target[c]] = c]
        /\ made' = made \cup {c} /\ UNCHANGED target
        /\ cleanup' = [cleanup EXCEPT ![c] = "lost"]
    BY <1>3 DEF CreateLost, Goto
  <2> QED
    BY <1>0, <2>1, ConstantFacts DEF TypeOK, NameTold, MadeTold
<1>4. ASSUME NEW c \in Calls, TimerFires(c) PROVE MadeTold'
  <2>1. UNCHANGED <<pods, made, target, cleanup>>
    BY <1>4 DEF TimerFires
  <2> QED
    BY <2>1 DEF MadeTold
<1>5. ASSUME NEW c \in Calls, Wake(c) PROVE MadeTold'
  <2>1. /\ cleanup[c] = "sleeping" /\ UNCHANGED <<pods, made, target>>
        /\ cleanup' = [cleanup EXCEPT ![c] = "deleting"]
    BY <1>5 DEF Wake, Goto
  <2> QED
    BY <1>0, <2>1 DEF MadeTold
<1>6. ASSUME NEW c \in Calls, Abandon(c) PROVE MadeTold'
  <2>1. /\ cleanup[c] = "sleeping" /\ UNCHANGED <<pods, made, target>>
        /\ cleanup' = [cleanup EXCEPT ![c] = "abandoned"]
    BY <1>6 DEF Abandon, Goto
  <2> QED
    BY <1>0, <2>1 DEF MadeTold
<1>7. ASSUME NEW c \in Calls, RequestDelete(c) PROVE MadeTold'
  <2>1. /\ cleanup[c] = "deleting" /\ UNCHANGED <<pods, made, target>>
        /\ cleanup' = [cleanup EXCEPT ![c] = "requested"]
    BY <1>7 DEF RequestDelete, Goto
  <2> QED
    BY <1>0, <2>1 DEF MadeTold
<1>8. ASSUME NEW c \in Calls, Delete(c) PROVE MadeTold'
  <2>1. /\ cleanup[c] = "requested" /\ pods' = [pods EXCEPT ![target[c]] = NoPod]
        /\ cleanup' = [cleanup EXCEPT ![c] = "deleted"] /\ UNCHANGED <<made, target>>
    BY <1>8 DEF Delete, Goto
  <2> QED
    BY <1>0, <2>1, ConstantFacts DEF TypeOK, MadeTold
<1>9. ASSUME NEW c \in Calls, DeleteFails(c) PROVE MadeTold'
  <2>1. /\ cleanup[c] \in {"deleting", "requested"} /\ UNCHANGED <<pods, made, target>>
        /\ cleanup' = [cleanup EXCEPT ![c] = "not deleted"]
    BY <1>9 DEF DeleteFails, Goto
  <2> QED
    BY <1>0, <2>1 DEF MadeTold
<1>10. ASSUME NEW n \in Names, OthersDelete(n) PROVE MadeTold'
  <2>1. pods' = [pods EXCEPT ![n] = NoPod] /\ UNCHANGED <<made, target, cleanup>>
    BY <1>10 DEF OthersDelete
  <2> QED
    BY <2>1, ConstantFacts DEF TypeOK, MadeTold
<1>11. ASSUME NEW n \in Names, OthersCreate(n) PROVE MadeTold'
  <2>1. pods' = [pods EXCEPT ![n] = Foreign] /\ UNCHANGED <<made, target, cleanup>>
    BY <1>11 DEF OthersCreate
  <2> QED
    BY <2>1, ConstantFacts DEF TypeOK, MadeTold
<1>12. CASE Stop \/ Exit \/ UNCHANGED vars
  BY <1>12 DEF Stop, Exit, vars, MadeTold
<1>13. ASSUME NEW c \in Calls, SendCreate(c) PROVE MadeTold'
  <2>1. /\ cleanup[c] = "new" /\ UNCHANGED <<pods, made, target>>
        /\ cleanup' = [cleanup EXCEPT ![c] = "creating"]
    BY <1>13 DEF SendCreate, Goto
  <2> QED
    BY <1>0, <2>1 DEF MadeTold
<1> QED
  BY <1>1, <1>2, <1>3, <1>4, <1>5, <1>6, <1>7, <1>8, <1>9, <1>10, <1>11, <1>12, <1>13
     DEF Next, CleanupStep

\* Every step keeps who was robbed: a pod goes only by its own cleanup or into robbed.
LEMMA RobbedStep ==
    TypeOK /\ NameTold /\ MadeTold /\ RobbedTold /\ [Next]_vars => RobbedTold'
<1> SUFFICES ASSUME TypeOK, NameTold, MadeTold, RobbedTold, [Next]_vars PROVE RobbedTold'
  OBVIOUS
<1> USE DEF RobbedTold
<1>0. /\ pods \in [Names -> Calls \cup {Foreign, NoPod}] /\ target \in [Calls -> Names]
      /\ cleanup \in [Calls -> States] /\ made \subseteq Calls
  BY DEF TypeOK
<1>1. ASSUME NEW c \in Calls, Create(c) \/ CreateLost(c) PROVE RobbedTold'
  <2>1. /\ cleanup[c] = "creating" /\ pods[target[c]] = NoPod
        /\ pods' = [pods EXCEPT ![target[c]] = c] /\ made' = made \cup {c}
        /\ UNCHANGED <<target, robbed>>
        /\ cleanup' = [cleanup EXCEPT ![c] = cleanup'[c]]
    BY <1>0, <1>1 DEF Create, CreateLost, Goto
  <2>2. ASSUME NEW d \in made'
        PROVE  pods'[target'[d]] = d \/ d \in robbed' \/ cleanup'[d] = "deleted"
    <3>1. CASE d = c
      BY <1>0, <2>1, <3>1
    <3>2. CASE d # c
      <4>1. /\ d \in made /\ cleanup'[d] = cleanup[d] /\ target[d] \in Names
            /\ target[c] \in Names
        BY <1>0, <2>1, <3>2
      <4>2. pods[target[d]] = d \/ d \in robbed \/ cleanup[d] = "deleted"
        BY <4>1
      <4>3. pods[target[d]] = d => target[d] # target[c]
        BY <1>0, <2>1, <4>1, ConstantFacts
      <4> QED
        BY <1>0, <2>1, <4>1, <4>2, <4>3
    <3> QED
      BY <3>1, <3>2
  <2> QED
    BY <2>2
<1>2. ASSUME NEW c \in Calls, Delete(c) PROVE RobbedTold'
  <2>1. /\ cleanup[c] = "requested"
        /\ pods' = [pods EXCEPT ![target[c]] = NoPod] /\ UNCHANGED <<made, target>>
        /\ robbed' = robbed \cup ({pods[target[c]]} \cap (Calls \ {c}))
        /\ cleanup' = [cleanup EXCEPT ![c] = "deleted"]
    BY <1>2 DEF Delete, Goto
  <2>2. ASSUME NEW d \in made
        PROVE  pods'[target[d]] = d \/ d \in robbed' \/ cleanup'[d] = "deleted"
    <3>1. CASE d = c
      BY <1>0, <2>1, <3>1
    <3>2. CASE d # c
      <4>1. cleanup'[d] = cleanup[d] /\ target[d] \in Names /\ d \in Calls
        BY <1>0, <2>1, <3>2
      <4>2. target[d] # target[c] => pods'[target[d]] = pods[target[d]]
        BY <1>0, <2>1, <4>1
      <4> QED
        BY <2>1, <3>2, <4>1, <4>2
    <3> QED
      BY <3>1, <3>2
  <2> QED
    BY <2>1, <2>2
<1>3. ASSUME NEW n \in Names, OthersDelete(n) PROVE RobbedTold'
  <2>1. /\ pods' = [pods EXCEPT ![n] = NoPod] /\ UNCHANGED <<made, target, cleanup>>
        /\ robbed' = robbed \cup ({pods[n]} \cap Calls)
    BY <1>3 DEF OthersDelete
  <2> QED
    BY <1>0, <2>1
<1>4. ASSUME NEW n \in Names, OthersCreate(n) PROVE RobbedTold'
  <2>1. /\ pods[n] = NoPod /\ pods' = [pods EXCEPT ![n] = Foreign]
        /\ UNCHANGED <<made, target, cleanup, robbed>>
    BY <1>4 DEF OthersCreate
  <2> QED
    BY <1>0, <2>1, ConstantFacts
<1>5. ASSUME NEW c \in Calls, NEW w \in States, Goto(c, w), cleanup[c] # "deleted",
             UNCHANGED <<pods, made, target, robbed>>
      PROVE  RobbedTold'
  BY <1>0, <1>5 DEF Goto
<1>6. ASSUME NEW c \in Calls,
             \/ SendCreate(c) \/ CreateRejected(c) \/ Wake(c) \/ Abandon(c)
             \/ RequestDelete(c) \/ DeleteFails(c)
      PROVE  RobbedTold'
  <2>1. /\ cleanup[c] # "deleted" /\ UNCHANGED <<pods, made, target, robbed>>
        /\ \E w \in States : Goto(c, w)
    BY <1>6 DEF SendCreate, CreateRejected, Wake, Abandon, RequestDelete, DeleteFails, States
  <2> QED
    BY <1>5, <2>1
<1>7. CASE UNCHANGED <<pods, made, target, robbed, cleanup>>
  BY <1>7
<1>8. \/ UNCHANGED <<pods, made, target, robbed, cleanup>>
      \/ \E n \in Names : OthersDelete(n) \/ OthersCreate(n)
      \/ \E c \in Calls : \/ Create(c) \/ CreateLost(c) \/ Delete(c) \/ SendCreate(c)
                          \/ CreateRejected(c) \/ Wake(c) \/ Abandon(c)
                          \/ RequestDelete(c) \/ DeleteFails(c)
  BY DEF Next, CleanupStep, TimerFires, Stop, Exit, vars
<1> QED
  BY <1>1, <1>2, <1>3, <1>4, <1>6, <1>7, <1>8

\* A call that moves on has a reason if it needs one; the others keep theirs.
LEMMA ReasonKept ==
    ASSUME TypeOK, ReasonTold, [Next]_vars,
           NEW c \in Calls, NEW w \in States, Goto(c, w),
           w = "abandoned" => server' # "serving",
           w = "not deleted" => server' # "serving" \/ failed' > 0,
           w = "lost" => server' = "exited" \/ failed' > 0
    PROVE  ReasonTold'
<1>1. /\ server # "serving" => server' # "serving"
      /\ server = "exited" => server' = "exited"
      /\ failed > 0 => failed' > 0
  BY StopStep, FailedStep
<1>2. cleanup \in [Calls -> States] /\ cleanup' = [cleanup EXCEPT ![c] = w]
  BY DEF TypeOK, Goto
<1> QED
  BY <1>1, <1>2 DEF ReasonTold

\* Every step keeps the reasons.
LEMMA ReasonStep == TypeOK /\ ReasonTold /\ [Next]_vars => ReasonTold'
<1> SUFFICES ASSUME TypeOK, ReasonTold, [Next]_vars PROVE ReasonTold'
  OBVIOUS
<1>1. ASSUME NEW c \in Calls, CreateLost(c) PROVE ReasonTold'
  <2>1. Goto(c, "lost") /\ (server = "exited" \/ Fail)
    BY <1>1 DEF CreateLost, Runs
  <2>2. server' = "exited" \/ failed' > 0
    BY <2>1, StopStep, FailedStep
  <2> QED
    BY <2>1, <2>2, ReasonKept DEF States
<1>2. ASSUME NEW c \in Calls, Abandon(c) PROVE ReasonTold'
  <2>1. Goto(c, "abandoned") /\ server # "serving"
    BY <1>2 DEF Abandon
  <2>2. server' # "serving"
    BY <2>1, StopStep
  <2> QED
    BY <2>1, <2>2, ReasonKept DEF States
<1>3. ASSUME NEW c \in Calls, DeleteFails(c) PROVE ReasonTold'
  <2>1. Goto(c, "not deleted") /\ (server # "serving" \/ Fail)
    BY <1>3 DEF DeleteFails
  <2>2. server' # "serving" \/ failed' > 0
    BY <2>1, StopStep, FailedStep
  <2> QED
    BY <2>1, <2>2, ReasonKept DEF States
<1>4. ASSUME NEW c \in Calls, Create(c) PROVE ReasonTold'
  <2>1. Goto(c, "sleeping")
    BY <1>4 DEF Create
  <2> QED
    BY <2>1, ReasonKept DEF States
<1>5. ASSUME NEW c \in Calls, CreateRejected(c) PROVE ReasonTold'
  <2>1. Goto(c, "rejected")
    BY <1>5 DEF CreateRejected
  <2> QED
    BY <2>1, ReasonKept DEF States
<1>6. ASSUME NEW c \in Calls, Wake(c) PROVE ReasonTold'
  <2>1. Goto(c, "deleting")
    BY <1>6 DEF Wake
  <2> QED
    BY <2>1, ReasonKept DEF States
<1>7. ASSUME NEW c \in Calls, RequestDelete(c) PROVE ReasonTold'
  <2>1. Goto(c, "requested")
    BY <1>7 DEF RequestDelete
  <2> QED
    BY <2>1, ReasonKept DEF States
<1>8. ASSUME NEW c \in Calls, Delete(c) PROVE ReasonTold'
  <2>1. Goto(c, "deleted")
    BY <1>8 DEF Delete
  <2> QED
    BY <2>1, ReasonKept DEF States
<1>11. ASSUME NEW c \in Calls, SendCreate(c) PROVE ReasonTold'
  <2>1. Goto(c, "creating")
    BY <1>11 DEF SendCreate
  <2> QED
    BY <2>1, ReasonKept DEF States
<1>9. CASE UNCHANGED cleanup
  BY <1>9, StopStep, FailedStep DEF ReasonTold
<1>10. UNCHANGED cleanup \/ \E c \in Calls :
          \/ SendCreate(c) \/ Create(c) \/ CreateRejected(c) \/ CreateLost(c) \/ Wake(c)
          \/ Abandon(c) \/ RequestDelete(c) \/ Delete(c) \/ DeleteFails(c)
  BY DEF Next, CleanupStep, TimerFires, OthersDelete, OthersCreate, Stop, Exit, vars
<1> QED
  BY <1>1, <1>2, <1>3, <1>4, <1>5, <1>6, <1>7, <1>8, <1>9, <1>10, <1>11

\* What holds at each point of a debug pod's life is an invariant.
THEOREM CleanupInvariant == Spec => []IInv
<1>1. IInv /\ [Next]_vars => IInv'
  BY TypeStep, NameStep, MadeStep, RobbedStep, ReasonStep DEF IInv, CleanupByPlace
<1> QED
  BY InitInv, <1>1, PTL DEF Spec

\* A debug pod is left behind only after the server stopped or an API call failed,
\* pods created during the drain included (portforward.go:187-205).
THEOREM LeaksAreExplained == Spec => []LeaksExplained
<1>1. IInv => LeaksExplained
  <2> SUFFICES ASSUME IInv, NEW c \in Calls, pods[target[c]] = c
               PROVE  \/ server = "serving"
                          /\ cleanup[c] \in {"sleeping", "deleting", "requested"}
                      \/ server # "serving"
                          /\ cleanup[c] \in {"sleeping", "deleting", "requested",
                                             "abandoned", "not deleted"}
                      \/ server = "exited" /\ cleanup[c] = "lost"
                      \/ failed > 0 /\ cleanup[c] \in {"lost", "not deleted"}
    BY DEF LeaksExplained, Lives
  <2>1. c \in made /\ cleanup[c] \in States
    BY DEF IInv, TypeOK, CleanupByPlace, NameTold
  <2>2. cleanup[c] \notin {"new", "creating", "rejected", "deleted"}
    BY <2>1 DEF IInv, CleanupByPlace, MadeTold
  <2>3. /\ cleanup[c] = "abandoned" => server # "serving"
        /\ cleanup[c] = "not deleted" => server # "serving" \/ failed > 0
        /\ cleanup[c] = "lost" => server = "exited" \/ failed > 0
    BY DEF IInv, CleanupByPlace, ReasonTold
  <2> QED
    BY <2>1, <2>2, <2>3 DEF States
<1> QED
  BY CleanupInvariant, <1>1, PTL

\* A cleanup hits a stranger's pod only where somebody took its own call's pod first
\* (portforward.go:204: the delete names a pod and no uid).
THEOREM StrangersHitOnlyOnceRobbed == Spec => HitsStrangersOnlyOnceRobbed
<1> DEFINE P == \A c \in Calls :
                   /\ cleanup[c] = "requested" /\ cleanup'[c] = "deleted"
                   /\ pods[target[c]] \notin {c, NoPod}
                   => c \in made \cap robbed
<1>1. IInv => P
  BY DEF IInv, CleanupByPlace, MadeTold, RobbedTold
<1> QED
  BY CleanupInvariant, <1>1, PTL DEF Spec, HitsStrangersOnlyOnceRobbed
====
