---- MODULE ServerRunProofs ----
(***************************************************************************)
(* Proofs about ToolCall and about ServerRun, for any set of calls, finite *)
(* or not, any --max-concurrent-calls, any transports and any number of    *)
(* event streams.  First Wrap on its own: IInv is inductive, and the       *)
(* safety properties and the refinement of CallContract follow from it.    *)
(* Then the process around it.                                             *)
(***************************************************************************)
EXTENDS ServerRun, FiniteSetTheorems, TLAPS

\* Moving one call in or out of the region between send and receive moves it
\* in or out of Holders and changes nothing else of it.
LEMMA HoldersMove ==
    ASSUME TypeOK, NEW c \in Calls, NEW w \in PCs, Goto(c, w)
    PROVE  Holders' = IF w \in Inside THEN Holders \cup {c} ELSE Holders \ {c}
BY DEF TypeOK, Goto, Holders

\* A step that keeps a call on its side of the region, and the semaphore as it
\* is, preserves the slot count.
LEMMA SlotsKept ==
    ASSUME TypeOK, SlotInv, UNCHANGED sem,
           NEW c \in Calls, NEW w \in PCs, Goto(c, w),
           w \in Inside <=> pc[c] \in Inside
    PROVE  SlotInv'
<1>1. Holders' = Holders
  BY HoldersMove DEF Holders
<1>2. QED
  BY <1>1 DEF SlotInv, SlotsMatchHolders, Limited

\* The first line of a call is its only one, and one line is not none.
LEMMA FirstLine ==
    /\ \A f \in Flags : Append(<<>>, f) = <<f>> /\ <<f>> \in OneLine
    /\ \A a \in OneLine : a # <<>>
BY DEF OneLine, Flags

\* The semaphore's count stays a number while tokens are only added to it, or
\* taken from it when there is one.
LEMMA SemTyped ==
    ASSUME TypeOK
    PROVE  /\ sem' = (IF Limited THEN sem + 1 ELSE sem) => sem' \in Nat
           /\ (Limited => sem > 0) /\ sem' = (IF Limited THEN sem - 1 ELSE sem)
                 => sem' \in Nat
<1>1. sem \in Nat
  BY DEF TypeOK
<1>2. QED
  BY <1>1

\* While some call holds a slot there is a token to take back.
LEMMA HolderHasToken ==
    ASSUME SlotInv, NEW c \in Holders
    PROVE  Limited => sem > 0
<1>1. Cardinality(Holders) \in Nat /\ Cardinality(Holders) # 0
  BY FS_EmptySet, FS_CardinalityType DEF SlotInv
<1>2. QED
  BY <1>1 DEF SlotInv, SlotsMatchHolders

\* A line more is still a sequence of flags.
LEMMA AuditTyped ==
    ASSUME TypeOK, NEW c \in Calls, NEW f \in Flags, EmitAudit(c, f)
    PROVE  audit' \in [Calls -> Seq(Flags)]
<1>1. Append(audit[c], f) \in Seq(Flags)
  BY DEF TypeOK
<1>2. QED
  BY <1>1 DEF TypeOK, EmitAudit

\* The initial states satisfy the invariant.
LEMMA InitIInv == Init => IInv
<1> SUFFICES ASSUME Init PROVE IInv
  OBVIOUS
<1>1. TypeOK
  BY DEF Init, TypeOK, PCs
<1>2. Holders = {}
  BY DEF Init, Holders, Inside
<1>3. SlotInv
  BY <1>2, FS_EmptySet, LimitIsNatural
     DEF Init, SlotInv, SlotsMatchHolders, Limited
<1>4. RecordsByPlace
  BY DEF Init, RecordsByPlace, Inside
<1>5. QED
  BY <1>1, <1>3, <1>4 DEF IInv

\* Every step keeps the types.
LEMMA TypeStep == TypeOK /\ [Next]_vars /\ SlotInv => TypeOK'
<1> SUFFICES ASSUME TypeOK, [Next]_vars, SlotInv PROVE TypeOK'
  OBVIOUS
<1> USE DEF TypeOK, PCs, Inside, Outcomes, Answers, Goto, Reply
<1>1. ASSUME NEW c \in Calls, Begin(c) PROVE TypeOK'
  BY <1>1 DEF Begin
<1>2. ASSUME NEW c \in Calls, Expire(c) PROVE TypeOK'
  BY <1>2 DEF Expire
<1>3. ASSUME NEW c \in Calls, Acquire(c) PROVE TypeOK'
  <2>1. sem' \in Nat
    BY <1>3, SemTyped DEF Acquire
  <2>2. QED
    BY <1>3, <2>1 DEF Acquire
<1>4. ASSUME NEW c \in Calls, GiveUp(c) PROVE TypeOK'
  BY <1>4 DEF GiveUp
<1>5. ASSUME NEW c \in Calls, FinishRefusal(c) PROVE TypeOK'
  <2>1. audit' \in [Calls -> Seq(Flags)]
    BY <1>5, AuditTyped DEF FinishRefusal, Flags
  <2>2. QED
    BY <1>5, <2>1 DEF FinishRefusal
<1>6. ASSUME NEW c \in Calls, ReturnBusy(c) PROVE TypeOK'
  BY <1>6 DEF ReturnBusy
<1>7. ASSUME NEW c \in Calls, HandlerWrites(c) PROVE TypeOK'
  BY <1>7 DEF HandlerWrites
<1>8. ASSUME NEW c \in Calls, HandlerEnds(c) PROVE TypeOK'
  BY <1>8 DEF HandlerEnds
<1>9. ASSUME NEW c \in Calls, FinishCall(c) PROVE TypeOK'
  <2>1. audit' \in [Calls -> Seq(Flags)]
    BY <1>9, AuditTyped DEF FinishCall, Flags
  <2>2. QED
    BY <1>9, <2>1, FirstLine DEF FinishCall
<1>10. ASSUME NEW c \in Calls, ReturnResult(c) PROVE TypeOK'
  BY <1>10 DEF ReturnResult
<1>11. ASSUME NEW c \in Calls, Recover(c) PROVE TypeOK'
  <2>1. audit' \in [Calls -> Seq(Flags)]
    BY <1>11, AuditTyped DEF Recover, Flags
  <2>2. QED
    BY <1>11, <2>1, FirstLine DEF Recover
<1>12. ASSUME NEW c \in Calls, ReleaseSlot(c) PROVE TypeOK'
  <2>1. c \in Holders
    BY <1>12 DEF ReleaseSlot, Holders
  <2>2. sem' \in Nat
    BY <1>12, <2>1, HolderHasToken, SemTyped DEF ReleaseSlot
  <2>3. QED
    BY <1>12, <2>2 DEF ReleaseSlot
<1>13. CASE UNCHANGED vars
  BY <1>13 DEF vars
<1>14. QED
  BY <1>1, <1>2, <1>3, <1>4, <1>5, <1>6, <1>7, <1>8, <1>9, <1>10, <1>11,
     <1>12, <1>13 DEF Next, Progress, WrapStep, AllDone

\* Every step keeps the slot count: Acquire adds one holder and one token,
\* ReleaseSlot takes one of each away, and no other step moves either.
LEMMA SlotStep == TypeOK /\ [Next]_vars /\ SlotInv => SlotInv'
<1> SUFFICES ASSUME TypeOK, [Next]_vars, SlotInv PROVE SlotInv'
  OBVIOUS
<1>1. ASSUME NEW c \in Calls, Acquire(c) PROVE SlotInv'
  <2>1. c \notin Holders /\ Holders' = Holders \cup {c}
    BY <1>1, HoldersMove DEF Acquire, Holders, Inside, PCs
  <2>2. /\ IsFiniteSet(Holders')
        /\ Cardinality(Holders') = Cardinality(Holders) + 1
    BY <2>1, FS_AddElement DEF SlotInv
  <2>3. QED
    BY <1>1, <2>2, LimitIsNatural
       DEF Acquire, SlotInv, SlotsMatchHolders, Limited, TypeOK
<1>2. ASSUME NEW c \in Calls, ReleaseSlot(c) PROVE SlotInv'
  <2>1. c \in Holders /\ Holders' = Holders \ {c}
    BY <1>2, HoldersMove DEF ReleaseSlot, Holders, Inside, PCs
  <2>2. /\ IsFiniteSet(Holders')
        /\ Cardinality(Holders') = Cardinality(Holders) - 1
    BY <2>1, FS_RemoveElement DEF SlotInv
  <2>3. QED
    BY <1>2, <2>2, LimitIsNatural
       DEF ReleaseSlot, SlotInv, SlotsMatchHolders, Limited, TypeOK
<1>3. ASSUME NEW c \in Calls, Begin(c) PROVE SlotInv'
  BY <1>3, SlotsKept DEF Begin, PCs, Inside
<1>4. ASSUME NEW c \in Calls, GiveUp(c) PROVE SlotInv'
  BY <1>4, SlotsKept DEF GiveUp, PCs, Inside
<1>5. ASSUME NEW c \in Calls, FinishRefusal(c) PROVE SlotInv'
  BY <1>5, SlotsKept DEF FinishRefusal, PCs, Inside
<1>6. ASSUME NEW c \in Calls, ReturnBusy(c) PROVE SlotInv'
  BY <1>6, SlotsKept DEF ReturnBusy, PCs, Inside
<1>7. ASSUME NEW c \in Calls, HandlerEnds(c) PROVE SlotInv'
  BY <1>7, SlotsKept DEF HandlerEnds, PCs, Inside
<1>8. ASSUME NEW c \in Calls, FinishCall(c) PROVE SlotInv'
  BY <1>8, SlotsKept DEF FinishCall, PCs, Inside
<1>9. ASSUME NEW c \in Calls, ReturnResult(c) PROVE SlotInv'
  BY <1>9, SlotsKept DEF ReturnResult, PCs, Inside
<1>10. ASSUME NEW c \in Calls, Recover(c) PROVE SlotInv'
  BY <1>10, SlotsKept DEF Recover, PCs, Inside
<1>11. CASE UNCHANGED <<pc, sem>>
  BY <1>11 DEF SlotInv, SlotsMatchHolders, Holders
<1>12. QED
  BY <1>1, <1>2, <1>3, <1>4, <1>5, <1>6, <1>7, <1>8, <1>9, <1>10, <1>11
     DEF Next, Progress, WrapStep, Expire, HandlerWrites, AllDone, vars

\* What a call's record, answer and place say of one another, kept by a step
\* of that call; the other calls are not touched by it.
LEMMA RecordsStep == TypeOK /\ [Next]_vars /\ RecordsByPlace => RecordsByPlace'
<1> SUFFICES ASSUME TypeOK, [Next]_vars, RecordsByPlace PROVE RecordsByPlace'
  OBVIOUS
<1> USE DEF TypeOK, RecordsByPlace, Inside, Goto, Reply
<1>1. ASSUME NEW c \in Calls, Begin(c) PROVE RecordsByPlace'
  BY <1>1 DEF Begin
<1>2. ASSUME NEW c \in Calls, Expire(c) PROVE RecordsByPlace'
  BY <1>2 DEF Expire
<1>3. ASSUME NEW c \in Calls, Acquire(c) PROVE RecordsByPlace'
  BY <1>3 DEF Acquire
<1>4. ASSUME NEW c \in Calls, GiveUp(c) PROVE RecordsByPlace'
  BY <1>4 DEF GiveUp
<1>5. ASSUME NEW c \in Calls, FinishRefusal(c) PROVE RecordsByPlace'
  <2>1. audit' = [audit EXCEPT ![c] = <<"failure">>]
    BY <1>5, FirstLine DEF FinishRefusal, EmitAudit, Flags
  <2>2. QED
    BY <1>5, <2>1 DEF FinishRefusal
<1>6. ASSUME NEW c \in Calls, ReturnBusy(c) PROVE RecordsByPlace'
  BY <1>6, FirstLine DEF ReturnBusy, Flags
<1>7. ASSUME NEW c \in Calls, HandlerWrites(c) PROVE RecordsByPlace'
  BY <1>7 DEF HandlerWrites
<1>8. ASSUME NEW c \in Calls, HandlerEnds(c) PROVE RecordsByPlace'
  BY <1>8 DEF HandlerEnds
<1>9. ASSUME NEW c \in Calls, FinishCall(c) PROVE RecordsByPlace'
  <2>1. PICK f \in Flags : audit' = [audit EXCEPT ![c] = <<f>>]
    BY <1>9, FirstLine DEF FinishCall, EmitAudit, Flags
  <2>2. QED
    BY <1>9, <2>1, FirstLine DEF FinishCall
<1>10. ASSUME NEW c \in Calls, ReturnResult(c) PROVE RecordsByPlace'
  BY <1>10 DEF ReturnResult
<1>11. ASSUME NEW c \in Calls, Recover(c) PROVE RecordsByPlace'
  <2>1. PICK f \in Flags : audit' = [audit EXCEPT ![c] = <<f>>]
    BY <1>11, FirstLine DEF Recover, EmitAudit, Flags
  <2>2. QED
    BY <1>11, <2>1, FirstLine DEF Recover
<1>12. ASSUME NEW c \in Calls, ReleaseSlot(c) PROVE RecordsByPlace'
  BY <1>12 DEF ReleaseSlot
<1>13. CASE UNCHANGED vars
  BY <1>13 DEF vars
<1>14. QED
  BY <1>1, <1>2, <1>3, <1>4, <1>5, <1>6, <1>7, <1>8, <1>9, <1>10, <1>11,
     <1>12, <1>13 DEF Next, Progress, WrapStep, AllDone

\* The inductive invariant of Wrap holds in every reachable state.
THEOREM WrapInvariant == Spec => []IInv
<1>1. IInv /\ [Next]_vars => IInv'
  BY TypeStep, SlotStep, RecordsStep DEF IInv
<1>2. QED
  BY InitIInv, <1>1, PTL DEF Spec

\* Every variable keeps its type.
THEOREM TypeCorrect == Spec => []TypeOK
BY WrapInvariant, PTL DEF IInv

\* The tokens in tk.sem are the calls between the send and the deferred receive.
THEOREM SlotsConserved == Spec => []SlotsMatchHolders
<1>1. IInv => SlotsMatchHolders
  BY DEF IInv, SlotInv
<1>2. QED
  BY WrapInvariant, <1>1, PTL

\* The number of handlers in flight never exceeds --max-concurrent-calls.
THEOREM InFlightBounded == Spec => []InFlightBound
<1>1. IInv => InFlightBound
  BY DEF IInv, SlotInv, SlotsMatchHolders, InFlightBound
<1>2. QED
  BY WrapInvariant, <1>1, PTL

\* One audit line per call, there when the answer is.
THEOREM OneAuditLine == Spec => []AuditedOnce
<1>1. IInv => AuditedOnce
  <2> SUFFICES ASSUME IInv, NEW c \in Calls
               PROVE  /\ audit[c] = <<>> \/ audit[c] \in OneLine
                      /\ answer[c] # "none" => audit[c] \in OneLine
    BY DEF AuditedOnce
  <2>1. pc[c] \in PCs
    BY DEF IInv, TypeOK
  <2>2. audit[c] = <<>> \/ audit[c] \in OneLine
    BY <2>1, FirstLine DEF IInv, RecordsByPlace, PCs, Inside, Flags
  <2>3. answer[c] # "none" => audit[c] \in OneLine
    BY <2>1 DEF IInv, RecordsByPlace, PCs, Inside
  <2>4. QED
    BY <2>2, <2>3
<1>2. QED
  BY WrapInvariant, <1>1, PTL

\* The calls that have written and are not yet in the audit log never outnumber the
\* slots.
THEOREM UnauditedCallsFewer == Spec => []UnauditedCallsBounded
<1>1. IInv => UnauditedCallsBounded
  <2> SUFFICES ASSUME IInv, Limited
               PROVE  Cardinality({c \in wrote : audit[c] = <<>>}) <= MaxConcurrentCalls
    BY DEF UnauditedCallsBounded
  <2> DEFINE U == {c \in wrote : audit[c] = <<>>}
  <2>1. U \subseteq Holders
    <3> SUFFICES ASSUME NEW c \in U PROVE c \in Holders
      OBVIOUS
    <3>1. c \in Calls /\ c \in wrote /\ audit[c] \notin OneLine
      BY FirstLine DEF IInv, TypeOK
    <3>2. QED
      BY <3>1 DEF IInv, RecordsByPlace, Holders
  <2>2. Cardinality(U) <= Cardinality(Holders) /\ Cardinality(U) \in Nat
    BY <2>1, FS_Subset, FS_CardinalityType DEF IInv, SlotInv
  <2>3. Cardinality(Holders) <= MaxConcurrentCalls /\ Cardinality(Holders) \in Nat
    BY FS_CardinalityType DEF IInv, SlotInv, SlotsMatchHolders
  <2>4. QED
    BY <2>2, <2>3, LimitIsNatural
<1>2. QED
  BY WrapInvariant, <1>1, PTL

\* A call that is about to take its token back finds one in the channel.
ReceiveCanProceed == \A c \in Calls : pc[c] = "unwinding" /\ Limited => sem > 0

\* The deferred receive on tk.sem (toolkit.go:71) never blocks: no call is left
\* hanging with its answer in hand.
THEOREM ReceiveNeverBlocks == Spec => []ReceiveCanProceed
<1>1. IInv => ReceiveCanProceed
  <2> SUFFICES ASSUME IInv, NEW c \in Calls, pc[c] = "unwinding", Limited
               PROVE  sem > 0
    BY DEF ReceiveCanProceed
  <2>1. c \in Holders
    BY DEF Holders, Inside
  <2>2. QED
    BY <2>1, HolderHasToken DEF IInv
<1>2. QED
  BY WrapInvariant, <1>1, PTL

\* "server busy" means: out of time, nothing done, recorded as a failure.
THEOREM BusyIsHarmless == Spec => []BusyDidNothing
<1>1. IInv => BusyDidNothing
  BY DEF IInv, RecordsByPlace, BusyDidNothing
<1>2. QED
  BY WrapInvariant, <1>1, PTL

----------------------------------------------------------------------------
\* The calls in service, in the eyes of the contract, are the slot holders.
LEMMA ServiceIsHolding == TypeOK => Contract!InService = Holders
BY DEF Contract!InService, ContractPhase, Holders, TypeOK, PCs, Inside

\* The contract's own instance of FiniteSets counts as ours does.
LEMMA SameCardinality == \A S : Contract!Cardinality(S) = Cardinality(S)
BY DEF Contract!Cardinality, Cardinality

\* A move of one call is a move of its phase.
LEMMA PhaseMove ==
    ASSUME TypeOK, NEW c \in Calls, NEW w \in PCs, Goto(c, w)
    PROVE  \/ ContractPhase(c)' = ContractPhase(c) /\
                [d \in Calls |-> ContractPhase(d)]' = [d \in Calls |-> ContractPhase(d)]
           \/ Contract!Move(c, ContractPhase(c)')
<1>1. \A d \in Calls \ {c} : ContractPhase(d)' = ContractPhase(d)
  BY DEF Goto, TypeOK, ContractPhase
<1>2. QED
  BY <1>1 DEF Contract!Move

\* The calls with a line, before and after one more is written.
LEMMA LogGrows ==
    ASSUME TypeOK, NEW c \in Calls, NEW f \in Flags, EmitAudit(c, f), audit[c] = <<>>
    PROVE  /\ c \notin {d \in Calls : audit[d] # <<>>}
           /\ {d \in Calls : audit[d] # <<>>}'
                = {d \in Calls : audit[d] # <<>>} \cup {c}
<1>1. audit' = [audit EXCEPT ![c] = <<f>>] /\ <<f>> # <<>>
  BY FirstLine DEF EmitAudit
<1>2. QED
  BY <1>1 DEF TypeOK

\* Every step of Wrap is a step of the contract, or changes nothing it sees.
LEMMA ContractStep ==
    IInv /\ [Next]_vars => [Contract!Next]_(Contract!contractVars)
<1> SUFFICES ASSUME IInv, [Next]_vars
             PROVE  Contract!Next \/ UNCHANGED Contract!contractVars
  OBVIOUS
<1> USE DEF IInv
<1>1. ASSUME NEW c \in Calls, Begin(c) PROVE Contract!Arrive(c)
  <2>1. ContractPhase(c) = "idle" /\ ContractPhase(c)' = "pending"
    BY <1>1 DEF Begin, ContractPhase, Goto, TypeOK, Inside
  <2>2. Contract!Move(c, "pending")
    BY <1>1, <2>1, PhaseMove DEF Begin, PCs
  <2>3. QED
    BY <1>1, <2>1, <2>2 DEF Begin, Contract!Arrive
<1>2. ASSUME NEW c \in Calls, Acquire(c) PROVE Contract!Admit(c)
  <2>1. ContractPhase(c) = "pending" /\ ContractPhase(c)' = "inService"
    BY <1>2 DEF Acquire, ContractPhase, Goto, TypeOK, Inside
  <2>2. Contract!Move(c, "inService")
    BY <1>2, <2>1, PhaseMove DEF Acquire, PCs, Inside
  <2>3. MaxConcurrentCalls > 0
          => Contract!Cardinality(Contract!InService) < MaxConcurrentCalls
    <3>1. MaxConcurrentCalls > 0 => Cardinality(Holders) < MaxConcurrentCalls
      BY <1>2 DEF Acquire, Limited, SlotInv, SlotsMatchHolders
    <3>2. QED
      BY <3>1, ServiceIsHolding, SameCardinality
  <2>4. audit[c] = <<>>
    BY <1>2 DEF Acquire, RecordsByPlace
  <2>5. QED
    BY <1>2, <2>1, <2>2, <2>3, <2>4 DEF Acquire, Contract!Admit
<1>3. ASSUME NEW c \in Calls,
             FinishRefusal(c) \/ FinishCall(c) \/ Recover(c)
      PROVE  Contract!Log(c)
  <2>1. PICK f \in Flags : EmitAudit(c, f)
    BY <1>3 DEF FinishRefusal, FinishCall, Recover, Flags
  <2>2. audit[c] = <<>>
    BY <1>3 DEF FinishRefusal, FinishCall, Recover, RecordsByPlace
  <2>3. PICK w \in PCs : /\ Goto(c, w) /\ ContractPhase(c)' = ContractPhase(c)
                         /\ ContractPhase(c) \in {"pending", "inService"}
    BY <1>3 DEF FinishRefusal, FinishCall, Recover, Goto, ContractPhase, TypeOK,
                PCs, Inside
  <2>4. [d \in Calls |-> ContractPhase(d)]' = [d \in Calls |-> ContractPhase(d)]
    BY <2>3 DEF Goto, TypeOK, ContractPhase
  <2>5. QED
    BY <2>1, <2>2, <2>3, <2>4, LogGrows DEF Contract!Log
<1>4. ASSUME NEW c \in Calls, ReturnBusy(c) \/ ReleaseSlot(c)
      PROVE  Contract!Answer(c)
  <2>1. /\ ContractPhase(c) \in {"pending", "inService"}
        /\ ContractPhase(c)' = "answered"
    BY <1>4 DEF ReturnBusy, ReleaseSlot, ContractPhase, Goto, TypeOK, Inside
  <2>2. Contract!Move(c, "answered")
    BY <1>4, <2>1, PhaseMove DEF ReturnBusy, ReleaseSlot, PCs
  <2>3. audit[c] # <<>> /\ UNCHANGED audit
    BY <1>4, FirstLine DEF ReturnBusy, ReleaseSlot, RecordsByPlace, Flags
  <2>4. QED
    BY <2>1, <2>2, <2>3 DEF Contract!Answer
<1>5. ASSUME NEW c \in Calls,
             GiveUp(c) \/ HandlerEnds(c) \/ ReturnResult(c)
      PROVE  UNCHANGED Contract!contractVars
  <2>1. PICK w \in PCs : Goto(c, w) /\ ContractPhase(c)' = ContractPhase(c)
    BY <1>5 DEF GiveUp, HandlerEnds, ReturnResult, Goto, ContractPhase, TypeOK,
                PCs, Inside
  <2>2. [d \in Calls |-> ContractPhase(d)]' = [d \in Calls |-> ContractPhase(d)]
    BY <2>1 DEF Goto, TypeOK, ContractPhase
  <2>3. UNCHANGED audit
    BY <1>5 DEF GiveUp, HandlerEnds, ReturnResult
  <2>4. QED
    BY <2>2, <2>3 DEF Contract!contractVars
<1>6. CASE UNCHANGED <<pc, audit>>
  BY <1>6 DEF Contract!contractVars, ContractPhase
<1>7. QED
  BY <1>1, <1>2, <1>3, <1>4, <1>5, <1>6
     DEF Next, Progress, WrapStep, Expire, HandlerWrites, AllDone, vars, Contract!Next

\* tools.Wrap implements the contract of CallContract, whatever the number of
\* calls and slots.
THEOREM WrapKeepsContract == Spec => KeepsContract
<1>1. Init => Contract!Init
  <2> SUFFICES ASSUME Init PROVE Contract!Init
    OBVIOUS
  <2>1. \A c \in Calls : ContractPhase(c) = "idle" /\ audit[c] = <<>>
    BY DEF Init, ContractPhase, Inside
  <2>2. QED
    BY <2>1 DEF Contract!Init
<1>2. QED
  BY <1>1, ContractStep, WrapInvariant, PTL
     DEF Spec, KeepsContract, Contract!Spec

----------------------------------------------------------------------------
\* The process.

\* A call is answered before its slot is given back and the call is done.
AnsweredByPlace == \A c \in Calls : pc[c] \in {"unwinding", "done"} => answer[c] # "none"

\* What is known of the process in each phase.
PhaseTold ==
    /\ phase \in Phases
    /\ phase # "exited" => exitCode = Running
    /\ phase = "exited" => exitCode \in {0, 1}
    /\ phase = "draining" => transport = "http" /\ cause = "signal"

\* The inductive invariant: the calls', that of the phases, and the properties
\* themselves, which only the step into "exited" has to establish.
RunInv ==
    /\ IInv /\ AnsweredByPlace
    /\ PhaseTold
    /\ CleanExitLosesNothing /\ FailedExitHasReason

\* Every step of a call keeps what is shown above, and that it is answered.
LEMMA WrapKeepsAnswers ==
    IInv /\ AnsweredByPlace /\ [Next]_vars => IInv' /\ AnsweredByPlace'
<1> SUFFICES ASSUME IInv, AnsweredByPlace, [Next]_vars PROVE IInv' /\ AnsweredByPlace'
  OBVIOUS
<1>1. IInv'
  BY TypeStep, SlotStep, RecordsStep DEF IInv
<1>2. /\ pc \in [Calls -> PCs]
      /\ answer \in [Calls -> Answers \cup {"none"}]
  BY DEF IInv, TypeOK
<1> USE <1>2 DEF AnsweredByPlace
<1>3. ASSUME NEW c \in Calls, NEW w \in PCs \ {"unwinding", "done"}, Goto(c, w),
             UNCHANGED answer
      PROVE  AnsweredByPlace'
  BY <1>3 DEF Goto
<1>4. ASSUME NEW c \in Calls, NEW w \in PCs, NEW a \in Answers, Goto(c, w), Reply(c, a)
      PROVE  AnsweredByPlace'
  BY <1>4 DEF Goto, Reply, Answers
<1>5. ASSUME NEW c \in Calls, ReleaseSlot(c) PROVE AnsweredByPlace'
  BY <1>5 DEF ReleaseSlot, Goto
<1>6. ASSUME NEW c \in Calls, HandlerEnds(c) PROVE AnsweredByPlace'
  <2>1. \E w \in PCs \ {"unwinding", "done"} : Goto(c, w)
    BY <1>6 DEF HandlerEnds, PCs, Inside
  <2> QED
    BY <1>3, <1>6, <2>1 DEF HandlerEnds
<1>7. ASSUME NEW c \in Calls,
             Begin(c) \/ Acquire(c) \/ GiveUp(c) \/ FinishRefusal(c) \/ FinishCall(c)
      PROVE  AnsweredByPlace'
  <2>1. UNCHANGED answer /\ \E w \in PCs \ {"unwinding", "done"} : Goto(c, w)
    BY <1>7 DEF Begin, Acquire, GiveUp, FinishRefusal, FinishCall, PCs, Inside
  <2> QED
    BY <1>3, <2>1
<1>8. ASSUME NEW c \in Calls, ReturnBusy(c) \/ ReturnResult(c) \/ Recover(c)
      PROVE  AnsweredByPlace'
  <2>1. \E w \in PCs, a \in Answers : Goto(c, w) /\ Reply(c, a)
    BY <1>8 DEF ReturnBusy, ReturnResult, Recover, PCs, Inside, Answers
  <2> QED
    BY <1>4, <2>1
<1>9. ASSUME pc' = pc, answer' = answer PROVE AnsweredByPlace'
  <2>1. \A c \in Calls : pc[c] \in {"unwinding", "done"} => answer[c] # "none"
    OBVIOUS
  <2>2. \A c \in Calls : pc'[c] \in {"unwinding", "done"} => answer'[c] # "none"
    BY <2>1, <1>9
  <2> QED
    BY <2>2
<1>10. \/ pc' = pc /\ answer' = answer
       \/ \E c \in Calls :
             \/ Begin(c) \/ Acquire(c) \/ GiveUp(c) \/ FinishRefusal(c) \/ FinishCall(c)
             \/ ReturnBusy(c) \/ ReturnResult(c) \/ Recover(c) \/ ReleaseSlot(c)
             \/ HandlerEnds(c)
  BY DEF Next, Progress, WrapStep, Expire, HandlerWrites, AllDone, vars
<1> QED
  BY <1>1, <1>5, <1>6, <1>7, <1>8, <1>9, <1>10

\* The invariant holds at the start.
LEMMA RunStarts == RunInit => RunInv
<1> SUFFICES ASSUME RunInit PROVE RunInv
  OBVIOUS
<1>1. IInv /\ AnsweredByPlace
  BY InitIInv DEF RunInit, Init, AnsweredByPlace
<1>2. PhaseTold /\ exitCode = 99
  BY DEF RunInit, PhaseTold, Phases, Running
<1> QED
  BY <1>1, <1>2 DEF RunInv, CleanExitLosesNothing, FailedExitHasReason

\* Every step of the process is one of a call, or leaves the calls alone.
LEMMA RunWrapStep == [RunNext]_allVars => [Next]_vars
BY DEF RunNext, BeginCall, CallStep, OpenStream, CloseStream, HangUp, Shutdown, SignalHTTP,
       Drained, ShutdownTimesOut, ListenerFails, StdioEnds, Exited, allVars, Next

\* The two exit codes are not the same.
LEMMA ExitCodesDiffer == 0 # 1
OBVIOUS

\* Every step of the process keeps the invariant.
LEMMA RunStep == RunInv /\ [RunNext]_allVars => RunInv'
<1> SUFFICES ASSUME RunInv, [RunNext]_allVars PROVE RunInv'
  OBVIOUS
<1>1. IInv' /\ AnsweredByPlace'
  BY RunWrapStep, WrapKeepsAnswers DEF RunInv
<1>2. ASSUME phase' # "exited", exitCode' = exitCode, PhaseTold' PROVE RunInv'
  <2>1. exitCode' = Running
    BY <1>2 DEF PhaseTold
  <2>2. (CleanExitLosesNothing /\ FailedExitHasReason)'
    BY <2>1 DEF Running, CleanExitLosesNothing, FailedExitHasReason
  <2> QED
    BY <1>1, <1>2, <2>2 DEF RunInv
<1>3. ASSUME (\E c \in Calls : BeginCall(c) \/ CallStep(c) \/ HangUp(c))
             \/ OpenStream \/ CloseStream \/ SignalHTTP
      PROVE  RunInv'
  <2>1. /\ phase' # "exited" /\ exitCode' = exitCode
        /\ PhaseTold'
    BY <1>3 DEF RunInv, PhaseTold, Phases, BeginCall, CallStep, HangUp, OpenStream,
                CloseStream, SignalHTTP, runVars
  <2> QED
    BY <1>2, <2>1
<1>4. ASSUME Drained PROVE RunInv'
  <2>1. /\ exitCode' = 0 /\ transport' = transport /\ phase' = "exited"
        /\ UNCHANGED <<vars, gone>>
    BY <1>4 DEF Drained, Exit
  <2>2. PhaseTold'
    BY <2>1 DEF PhaseTold, Phases
  <2>3. CleanExitLosesNothing'
    <3> SUFFICES ASSUME NEW c \in Calls
                 PROVE  \/ pc[c] = "new" \/ c \in gone
                        \/ (answer[c] # "none" /\ audit[c] \in OneLine)
      BY <2>1 DEF CleanExitLosesNothing, vars
    <3>1. pc[c] \in {"new", "done"} \/ c \in gone
      BY <1>4 DEF Drained, OpenRequests, Active
    <3> QED
      BY <3>1 DEF RunInv, IInv, RecordsByPlace, AnsweredByPlace
  <2>4. FailedExitHasReason'
    <3>1. exitCode' # 1
      BY <2>1
    <3> QED
      BY <3>1 DEF FailedExitHasReason
  <2> QED
    BY <1>1, <2>2, <2>3, <2>4 DEF RunInv
<1>5. ASSUME ShutdownTimesOut PROVE RunInv'
  <2>1. /\ exitCode' = 1 /\ phase' = "exited"
        /\ UNCHANGED <<vars, transport, streams, gone, cause>>
        /\ OpenRequests # {} \/ streams > 0
    BY <1>5 DEF ShutdownTimesOut, Exit, IsGracefulClose, TextsOfClosing
  <2>2. transport = "http" /\ cause = "signal"
    BY <1>5 DEF ShutdownTimesOut, RunInv, PhaseTold
  <2>3. OpenRequests' = OpenRequests
    BY <2>1 DEF OpenRequests, Active, vars
  <2> QED
    BY <1>1, <2>1, <2>2, <2>3
       DEF RunInv, PhaseTold, Phases, CleanExitLosesNothing, FailedExitHasReason
<1>6. ASSUME ListenerFails PROVE RunInv'
  <2>1. /\ exitCode' = 1 /\ phase' = "exited" /\ cause' = "listener"
        /\ transport = "http" /\ transport' = transport
    BY <1>6 DEF ListenerFails, Exit, IsGracefulClose, TextsOfClosing
  <2> QED
    BY <1>1, <2>1
       DEF RunInv, PhaseTold, Phases, CleanExitLosesNothing, FailedExitHasReason
<1>7. ASSUME StdioEnds PROVE RunInv'
  <2>0. PICK why \in {"signal", "stdin closed", "pipe broken"} :
           cause' = why /\ \E err \in StdioErrors(why) : Exit(err)
    BY <1>7 DEF StdioEnds
  <2>1. PICK err \in StdioErrors(why) : Exit(err)
    BY <2>0
  <2>2. phase' = "exited" /\ transport' = "stdio" /\ exitCode' \in {0, 1}
    BY <1>7, <2>1 DEF StdioEnds, Exit
  <2>3. exitCode' = 1 => cause' = "pipe broken"
    <3>1. CASE why = "pipe broken"
      BY <2>0, <3>1
    <3>2. CASE why # "pipe broken"
      <4>1. err \in {"nil", "EOF", "Canceled"} \cup TextsOfClosing
        BY <3>2 DEF StdioErrors
      <4> QED
        <5>1. IsGracefulClose(err) \/ err = "nil"
          BY <4>1 DEF IsGracefulClose
        <5>2. exitCode' = 0
          BY <2>1, <5>1 DEF Exit
        <5> QED
          BY <5>2, ExitCodesDiffer, Zenon
    <3> QED
      BY <3>1, <3>2
  <2> QED
    BY <1>1, <2>2, <2>3
       DEF RunInv, PhaseTold, Phases, CleanExitLosesNothing, FailedExitHasReason
<1>8. CASE UNCHANGED allVars
  <2>1. UNCHANGED vars /\ UNCHANGED runVars
    BY <1>8 DEF allVars
  <2> QED
    BY <1>1, <2>1 DEF vars, runVars, RunInv, PhaseTold, CleanExitLosesNothing,
                      FailedExitHasReason, OpenRequests, Active
<1> QED
  BY <1>3, <1>4, <1>5, <1>6, <1>7, <1>8 DEF RunNext, Shutdown, Exited

\* What holds in each phase of the process, and of its exit code, is an invariant.
THEOREM RunInvariant == RunSpec => []RunInv
BY RunStarts, RunStep, PTL DEF RunSpec

\* Exit code 0 over HTTP cut off nobody who waited (server.go:185: Shutdown returns
\* nil when no request is open).
THEOREM CleanExit == RunSpec => []CleanExitLosesNothing
BY RunInvariant, PTL DEF RunInv

\* Exit code 1 has a reason, and over stdio only a broken pipe is one
\* (main.go:106-132).
THEOREM FailedExit == RunSpec => []FailedExitHasReason
BY RunInvariant, PTL DEF RunInv

\* The variables the process adds keep their types, kept apart from RunInv, which
\* does not need them.
LEMMA RunTypeStep == RunTypeOK /\ IInv /\ [RunNext]_allVars => RunTypeOK'
<1> SUFFICES ASSUME RunTypeOK, IInv, [RunNext]_allVars PROVE RunTypeOK'
  OBVIOUS
<1>1. TypeOK'
  BY RunWrapStep, TypeStep DEF IInv
<1>2. IdleStreams \in Nat /\ streams \in 0..IdleStreams
  BY TransportAssumption DEF TransportAssumption, RunTypeOK
<1>3. ASSUME NEW c \in Calls, BeginCall(c) \/ CallStep(c) PROVE RunTypeOK'
  BY <1>1, <1>3 DEF BeginCall, CallStep, runVars, RunTypeOK
<1>4. ASSUME NEW c \in Calls, HangUp(c) PROVE RunTypeOK'
  BY <1>1, <1>4 DEF HangUp, RunTypeOK
<1>5. CASE OpenStream
  <2>1. streams' = streams + 1 /\ streams < IdleStreams
    BY <1>5 DEF OpenStream
  <2>2. streams' \in 0..IdleStreams
    BY <1>2, <2>1
  <2> QED
    BY <1>1, <1>5, <2>2 DEF OpenStream, RunTypeOK
<1>6. CASE CloseStream
  <2>1. streams' = streams - 1 /\ streams > 0
    BY <1>6 DEF CloseStream
  <2>2. streams' \in 0..IdleStreams
    BY <1>2, <2>1
  <2> QED
    BY <1>1, <1>6, <2>2 DEF CloseStream, RunTypeOK
<1>7. CASE SignalHTTP \/ Drained \/ ShutdownTimesOut
  BY <1>1, <1>7 DEF SignalHTTP, Drained, ShutdownTimesOut, Exit, RunTypeOK, Phases, Causes
<1>8. CASE ListenerFails \/ StdioEnds
  BY <1>1, <1>8 DEF ListenerFails, StdioEnds, Exit, RunTypeOK, Phases, Causes
<1>9. CASE UNCHANGED allVars
  BY <1>1, <1>9 DEF allVars, runVars, RunTypeOK
<1> QED
  BY <1>3, <1>4, <1>5, <1>6, <1>7, <1>8, <1>9 DEF RunNext, Shutdown, Exited

\* Every variable of process and calls keeps its type.
THEOREM RunTypeCorrect == RunSpec => []RunTypeOK
<1>1. RunInit => RunTypeOK
  BY InitIInv, TransportAssumption
     DEF RunInit, RunTypeOK, IInv, Phases, Causes, Running
<1>2. RunInv => IInv
  BY DEF RunInv
<1> QED
  BY <1>1, <1>2, RunTypeStep, RunInvariant, PTL DEF RunSpec

\* What a process does to its calls is what Wrap does: ToolCall's theorems hold of
\* every run of the process, shutdown and exit included.
THEOREM ProcessRunsWrap == RunSpec => Spec
<1>1. RunInit => Init
  BY DEF RunInit
<1> QED
  BY <1>1, RunWrapStep, PTL DEF RunSpec, Spec

\* So the process keeps the contract of the calls, wherever it is stopped.
THEOREM ProcessKeepsContract == RunSpec => KeepsContract
BY ProcessRunsWrap, WrapKeepsContract, PTL
====
