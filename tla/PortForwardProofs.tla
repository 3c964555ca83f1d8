---- MODULE PortForwardProofs ----
(***************************************************************************)
(* Proofs about PortForward, for any set of calls and ports and any limit: *)
(* slots, forwarders and stop channels stay tied together.                 *)
(***************************************************************************)
EXTENDS PortForward, FiniteSetTheorems, TLAPS

\* Moving one call to another place moves it in or out of Holders and changes
\* nothing else of it.
LEMMA HoldersMove ==
    ASSUME TypeOK, NEW c \in Calls, NEW w \in HandlerStates, Goto(c, w)
    PROVE  Holders' = IF w \in Holding THEN Holders \cup {c} ELSE Holders \ {c}
BY DEF TypeOK, Goto, Holders

\* A step that leaves a call on its side, and the counter as it is, keeps the
\* slot count.
LEMMA SlotsKept ==
    ASSUME TypeOK, SlotInv, UNCHANGED forwards,
           NEW c \in Calls, NEW w \in HandlerStates, Goto(c, w),
           w \in Holding <=> handler[c] \in Holding
    PROVE  SlotInv'
<1>1. Holders' = Holders
  BY HoldersMove DEF Holders
<1>2. QED
  BY <1>1 DEF SlotInv, SlotsMatchHolders

\* So does a step that moves no call.
LEMMA SlotsUntouched ==
    ASSUME SlotInv, UNCHANGED <<forwards, handler>>
    PROVE  SlotInv'
<1>1. Holders' = Holders
  BY DEF Holders
<1>2. QED
  BY <1>1 DEF SlotInv, SlotsMatchHolders

\* A call that takes a slot is counted once.
LEMMA SlotTaken ==
    ASSUME TypeOK, SlotInv, NEW c \in Calls, Acquire(c)
    PROVE  SlotInv'
<1>1. Holders' = Holders \cup {c} /\ c \notin Holders
  BY HoldersMove DEF Acquire, Holders, Holding, HandlerStates
<1>2. IsFiniteSet(Holders') /\ Cardinality(Holders') = Cardinality(Holders) + 1
  BY <1>1, FS_AddElement DEF SlotInv
<1>3. QED
  BY <1>2 DEF SlotInv, SlotsMatchHolders, Acquire

\* A call that returns its slot finds the counter above zero: the test in
\* releaseForward never fails.
LEMMA SlotReturned ==
    ASSUME TypeOK, SlotInv, NEW c \in Calls, ReleaseForward(c)
    PROVE  forwards > 0 /\ SlotInv'
<1>1. Holders' = Holders \ {c} /\ c \in Holders
  BY HoldersMove DEF ReleaseForward, Holders, Holding, HandlerStates
<1>2. /\ IsFiniteSet(Holders')
      /\ Cardinality(Holders') = Cardinality(Holders) - 1
  BY <1>1, FS_RemoveElement DEF SlotInv
<1>3. Cardinality(Holders) \in Nat /\ Cardinality(Holders) # 0
  BY <1>1, FS_CardinalityType, FS_EmptySet DEF SlotInv
<1>4. forwards > 0
  BY <1>3 DEF SlotInv, SlotsMatchHolders
<1>5. QED
  BY <1>2, <1>4 DEF SlotInv, SlotsMatchHolders, ReleaseForward

\* The initial states satisfy the invariant.
LEMMA InitIInv == Init => IInv
<1> SUFFICES ASSUME Init PROVE IInv
  OBVIOUS
<1>1. TypeOK
  <2>1. stopping \in BOOLEAN
    BY DEF Init
  <2>2. forwards \in 0..MaxForwards
    BY ForwardAssumption DEF Init
  <2>3. QED
    BY <2>1, <2>2 DEF Init, TypeOK, HandlerStates
<1>2. Holders = {}
  BY DEF Init, Holders, Holding
<1>3. SlotInv
  BY <1>2, FS_EmptySet DEF Init, SlotInv, SlotsMatchHolders
<1>4. ForwardByPlace
  BY DEF Init, ForwardByPlace
<1>5. QED
  BY <1>1, <1>3, <1>4 DEF IInv

\* Every step keeps the types; the counter stays within the limit.
LEMMA TypeStep == TypeOK /\ SlotInv /\ [Next]_vars => TypeOK'
<1> SUFFICES ASSUME TypeOK, SlotInv, [Next]_vars PROVE TypeOK'
  OBVIOUS
<1> USE DEF TypeOK, HandlerStates, Goto, CloseStop
<1>1. ASSUME NEW c \in Calls, Refuse(c) PROVE TypeOK'
  BY <1>1 DEF Refuse
<1>2. ASSUME NEW c \in Calls, Acquire(c) PROVE TypeOK'
  BY <1>2, ForwardAssumption DEF Acquire
<1>3. ASSUME NEW c \in Calls, SetupFails(c) PROVE TypeOK'
  BY <1>3 DEF SetupFails
<1>4. ASSUME NEW c \in Calls, StartForwarder(c) PROVE TypeOK'
  BY <1>4 DEF StartForwarder
<1>5. ASSUME NEW c \in Calls, SeeReady(c) PROVE TypeOK'
  BY <1>5 DEF SeeReady
<1>6. ASSUME NEW c \in Calls, SeeError(c) PROVE TypeOK'
  BY <1>6 DEF SeeError
<1>7. ASSUME NEW c \in Calls, GiveUp(c) PROVE TypeOK'
  BY <1>7 DEF GiveUp
<1>8. ASSUME NEW c \in Calls, TearDown(c) PROVE TypeOK'
  BY <1>8 DEF TearDown
<1>9. ASSUME NEW c \in Calls, ReleaseForward(c) PROVE TypeOK'
  <2>1. forwards' \in 0..MaxForwards
    BY <1>9, ForwardAssumption DEF ReleaseForward
  <2>2. QED
    BY <1>9, <2>1 DEF ReleaseForward
<1>10. ASSUME NEW c \in Calls, Listen(c) PROVE TypeOK'
  BY <1>10 DEF Listen
<1>11. ASSUME NEW c \in Calls, ListenFails(c) PROVE TypeOK'
  BY <1>11 DEF ListenFails
<1>12. ASSUME NEW c \in Calls, ForwarderEnds(c) PROVE TypeOK'
  BY <1>12 DEF ForwarderEnds
<1>13. CASE Stop
  BY <1>13 DEF Stop
<1>14. CASE UNCHANGED vars
  BY <1>14 DEF vars
<1>15. QED
  BY <1>1, <1>2, <1>3, <1>4, <1>5, <1>6, <1>7, <1>8, <1>9, <1>10, <1>11,
     <1>12, <1>13, <1>14
     DEF Next, ServerStep, ForwarderStep, StopSeen, ConnectionLost, Quiet

\* Every step keeps the slot count.
LEMMA SlotStep == TypeOK /\ SlotInv /\ [Next]_vars => SlotInv'
<1> SUFFICES ASSUME TypeOK, SlotInv, [Next]_vars PROVE SlotInv'
  OBVIOUS
<1>1. ASSUME NEW c \in Calls, Refuse(c) PROVE SlotInv'
  BY <1>1, SlotsKept DEF Refuse, Holding, HandlerStates
<1>2. ASSUME NEW c \in Calls, Acquire(c) PROVE SlotInv'
  BY <1>2, SlotTaken
<1>3. ASSUME NEW c \in Calls, SetupFails(c) PROVE SlotInv'
  BY <1>3, SlotsKept DEF SetupFails, Holding, HandlerStates
<1>4. ASSUME NEW c \in Calls, StartForwarder(c) PROVE SlotInv'
  BY <1>4, SlotsKept DEF StartForwarder, Holding, HandlerStates
<1>5. ASSUME NEW c \in Calls, SeeReady(c) PROVE SlotInv'
  BY <1>5, SlotsKept DEF SeeReady, Holding, HandlerStates
<1>6. ASSUME NEW c \in Calls, SeeError(c) PROVE SlotInv'
  BY <1>6, SlotsKept DEF SeeError, Holding, HandlerStates
<1>7. ASSUME NEW c \in Calls, GiveUp(c) PROVE SlotInv'
  BY <1>7, SlotsKept DEF GiveUp, Holding, HandlerStates
<1>8. ASSUME NEW c \in Calls, TearDown(c) PROVE SlotInv'
  BY <1>8, SlotsKept DEF TearDown, Holding, HandlerStates
<1>9. ASSUME NEW c \in Calls, ReleaseForward(c) PROVE SlotInv'
  BY <1>9, SlotReturned
<1>10. ASSUME NEW c \in Calls, ForwarderStep(c) \/ ConnectionLost(c) PROVE SlotInv'
  BY <1>10, SlotsUntouched
     DEF ForwarderStep, Listen, ListenFails, StopSeen, ConnectionLost, ForwarderEnds
<1>11. CASE Stop \/ UNCHANGED vars
  BY <1>11, SlotsUntouched DEF Stop, vars
<1>12. QED
  BY <1>1, <1>2, <1>3, <1>4, <1>5, <1>6, <1>7, <1>8, <1>9, <1>10, <1>11
     DEF Next, ServerStep, Quiet

\* Every step keeps what is said of each place.
LEMMA PlaceStep == TypeOK /\ ForwardByPlace /\ [Next]_vars => ForwardByPlace'
<1> SUFFICES ASSUME TypeOK, ForwardByPlace, [Next]_vars PROVE ForwardByPlace'
  OBVIOUS
<1> USE DEF TypeOK, ForwardByPlace, HandlerStates, Goto, CloseStop
<1>1. ASSUME NEW c \in Calls, Refuse(c) PROVE ForwardByPlace'
  BY <1>1 DEF Refuse
<1>2. ASSUME NEW c \in Calls, Acquire(c) PROVE ForwardByPlace'
  BY <1>2 DEF Acquire
<1>3. ASSUME NEW c \in Calls, SetupFails(c) PROVE ForwardByPlace'
  BY <1>3 DEF SetupFails
<1>4. ASSUME NEW c \in Calls, StartForwarder(c) PROVE ForwardByPlace'
  BY <1>4 DEF StartForwarder
<1>5. ASSUME NEW c \in Calls, SeeReady(c) PROVE ForwardByPlace'
  BY <1>5 DEF SeeReady
<1>6. ASSUME NEW c \in Calls, SeeError(c) PROVE ForwardByPlace'
  BY <1>6 DEF SeeError
<1>7. ASSUME NEW c \in Calls, GiveUp(c) PROVE ForwardByPlace'
  BY <1>7 DEF GiveUp
<1>8. ASSUME NEW c \in Calls, TearDown(c) PROVE ForwardByPlace'
  BY <1>8 DEF TearDown
<1>9. ASSUME NEW c \in Calls, ReleaseForward(c) PROVE ForwardByPlace'
  BY <1>9 DEF ReleaseForward
<1>10. ASSUME NEW c \in Calls, Listen(c) PROVE ForwardByPlace'
  BY <1>10 DEF Listen
<1>11. ASSUME NEW c \in Calls, ListenFails(c) PROVE ForwardByPlace'
  BY <1>11 DEF ListenFails
<1>12. ASSUME NEW c \in Calls, ForwarderEnds(c) PROVE ForwardByPlace'
  BY <1>12 DEF ForwarderEnds
<1>13. CASE Stop \/ UNCHANGED vars
  BY <1>13 DEF Stop, vars
<1>14. QED
  BY <1>1, <1>2, <1>3, <1>4, <1>5, <1>6, <1>7, <1>8, <1>9, <1>10, <1>11,
     <1>12, <1>13
     DEF Next, ServerStep, ForwarderStep, StopSeen, ConnectionLost, Quiet

\* The invariant holds in every reachable state.
THEOREM ForwardInvariant == Spec => []IInv
<1>1. IInv /\ [Next]_vars => IInv'
  BY TypeStep, SlotStep, PlaceStep DEF IInv
<1>2. QED
  BY InitIInv, <1>1, PTL DEF Spec

\* The counter is the number of calls and tunnels that hold a slot.
THEOREM ForwardSlotsConserved == Spec => []SlotsMatchHolders
<1>1. IInv => SlotsMatchHolders
  BY DEF IInv, SlotInv
<1>2. QED
  BY ForwardInvariant, <1>1, PTL

\* No more than maxConcurrentForwards slots are out.
THEOREM ForwardsLimited == Spec => []ForwardLimit
<1>1. IInv => ForwardLimit
  BY ForwardAssumption DEF IInv, SlotInv, TypeOK, SlotsMatchHolders, ForwardLimit
<1>2. QED
  BY ForwardInvariant, <1>1, PTL

\* A tunnel that listens holds a slot or has been told to stop; no stop channel is
\* closed twice, or for a forwarder that was never started.
THEOREM NoTunnelForgotten == Spec => []ListenersAccountedFor
<1>1. IInv => ListenersAccountedFor
  <2> SUFFICES ASSUME IInv, NEW c \in Calls
               PROVE  /\ c \in Listening => c \in Holders \/ closes[c] = 1
                      /\ closes[c] <= 1
                      /\ closes[c] = 1 => fwd[c] # "none"
    BY DEF ListenersAccountedFor
  <2> QED
    BY DEF IInv, TypeOK, ForwardByPlace, Listening, Holders, Holding, HandlerStates
<1>2. QED
  BY ForwardInvariant, <1>1, PTL

----------------------------------------------------------------------------
\* TunnelLease counts with the same Cardinality.
LEMMA SameCardinality == \A S : Lease!Cardinality(S) = Cardinality(S)
BY DEF Lease!Cardinality, Cardinality

\* The four values of LeaseOf, as the proofs use them.
LEMMA LeaseCases ==
    ASSUME TypeOK, NEW c \in Calls
    PROVE  /\ handler[c] = "new" => LeaseOf(c) = "none"
           /\ handler[c] = "refused" => LeaseOf(c) = "denied"
           /\ handler[c] \in Holding => LeaseOf(c) = "held"
           /\ handler[c] = "closed" => LeaseOf(c) = "returned"
BY Zenon DEF TypeOK, HandlerStates, Holding, LeaseOf

\* The three values of TunnelOf.
LEMMA TunnelCases ==
    ASSUME TypeOK, NEW c \in Calls
    PROVE  /\ fwd[c] \in {"none", "dialing"} => TunnelOf(c) = "none"
           /\ fwd[c] = "listening" => TunnelOf(c) = "up"
           /\ fwd[c] = "ended" => TunnelOf(c) = "down"
BY Zenon DEF TypeOK, TunnelOf

\* The calls that hold a lease are those that hold a slot.
LEMMA HeldAreHolders == TypeOK => Lease!Held = Holders
<1> SUFFICES ASSUME TypeOK PROVE Lease!Held = Holders
  OBVIOUS
<1>1. ASSUME NEW c \in Calls PROVE LeaseOf(c) = "held" <=> handler[c] \in Holding
  <2>1. \/ handler[c] \in {"new", "refused", "closed"}
        \/ handler[c] \in Holding
    BY DEF TypeOK, HandlerStates, Holding
  <2>2. handler[c] \in {"new", "refused", "closed"} => handler[c] \notin Holding
    BY DEF Holding
  <2>3. QED
    BY <2>1, <2>2, LeaseCases
<1>2. QED
  BY <1>1 DEF Lease!Held, Holders

\* A call that moves to another place may change its own lease and no other.
LEMMA LeaseMove ==
    ASSUME TypeOK, NEW c \in Calls, NEW w \in HandlerStates, Goto(c, w)
    PROVE  [d \in Calls |-> LeaseOf(d)]'
             = [[d \in Calls |-> LeaseOf(d)] EXCEPT ![c] = LeaseOf(c)']
<1>1. \A d \in Calls \ {c} : handler'[d] = handler[d]
  BY DEF Goto, TypeOK
<1>2. \A d \in Calls \ {c} : LeaseOf(d)' = LeaseOf(d)
  BY <1>1, Zenon DEF LeaseOf
<1>3. QED
  BY <1>2

\* As long as the call holds its slot throughout, the leases stay as they are.
LEMMA LeaseKept ==
    ASSUME TypeOK, TypeOK', NEW c \in Calls, NEW w \in Holding, Goto(c, w),
           handler[c] \in Holding
    PROVE  UNCHANGED [d \in Calls |-> LeaseOf(d)]
<1>1. w \in HandlerStates /\ handler'[c] = w
  BY DEF Holding, HandlerStates, Goto, TypeOK
<1>2. LeaseOf(c)' = "held"
  BY <1>1, LeaseCases, TypeOK', Zenon DEF TypeOK, HandlerStates, Holding, LeaseOf
<1>3. LeaseOf(c) = "held"
  BY LeaseCases
<1>4. QED
  BY <1>1, <1>2, <1>3, LeaseMove

\* A forwarder that moves may change its own tunnel and no other.
LEMMA TunnelMove ==
    ASSUME TypeOK, NEW c \in Calls, NEW w, fwd' = [fwd EXCEPT ![c] = w]
    PROVE  [d \in Calls |-> TunnelOf(d)]'
             = [[d \in Calls |-> TunnelOf(d)] EXCEPT ![c] = TunnelOf(c)']
<1>1. \A d \in Calls \ {c} : fwd'[d] = fwd[d]
  BY DEF TypeOK
<1>2. \A d \in Calls \ {c} : TunnelOf(d)' = TunnelOf(d)
  BY <1>1, Zenon DEF TunnelOf
<1>3. QED
  BY <1>2

\* What the mapping reads, left alone, leaves what it yields alone.
LEMMA LeaseStays == UNCHANGED handler => UNCHANGED [d \in Calls |-> LeaseOf(d)]
BY DEF LeaseOf

\* The same for the forwarders.
LEMMA TunnelStays == UNCHANGED fwd => UNCHANGED [d \in Calls |-> TunnelOf(d)]
BY DEF TunnelOf

\* The first close of a stop channel adds its call to those told to stop.
LEMMA FirstClose ==
    ASSUME TypeOK, NEW c \in Calls, CloseStop(c), closes[c] = 0
    PROVE  /\ c \notin {d \in Calls : closes[d] > 0}
           /\ {d \in Calls : closes[d] > 0}' = {d \in Calls : closes[d] > 0} \cup {c}
BY DEF TypeOK, CloseStop

\* A forwarder that is dialing or listening belongs to a call that holds a slot,
\* or has been told to stop.
LEMMA LiveTunnels ==
    ASSUME IInv, NEW c \in Calls, fwd[c] \in {"dialing", "listening"}
    PROVE  LeaseOf(c) = "held" \/ c \in {d \in Calls : closes[d] > 0}
<1>1. handler[c] \in Holding \/ closes[c] = 1
  BY DEF IInv, TypeOK, ForwardByPlace, HandlerStates, Holding
<1>2. QED
  BY <1>1, LeaseCases DEF IInv

\* Only a full house turns a call away: the counter is the number of holders.
LEMMA RoomTold ==
    ASSUME IInv
    PROVE  /\ forwards >= MaxForwards => Lease!Cardinality(Lease!Held) = MaxForwards
           /\ forwards < MaxForwards => Lease!Cardinality(Lease!Held) < MaxForwards
<1>1. Lease!Cardinality(Lease!Held) = forwards
  BY SameCardinality, HeldAreHolders DEF IInv, SlotInv, SlotsMatchHolders
<1>2. forwards \in 0..MaxForwards /\ MaxForwards \in Nat
  BY ForwardAssumption DEF IInv, TypeOK
<1>3. QED
  BY <1>1, <1>2

\* Every step of a call and of its teardown is a step of TunnelLease, or
\* changes nothing it sees.
LEMMA HandlerLeaseStep ==
    ASSUME IInv, IInv', NEW c \in Calls, Refuse(c) \/ Acquire(c) \/ ServerStep(c)
    PROVE  Lease!Next \/ UNCHANGED Lease!leaseVars
<1>0. TypeOK /\ TypeOK'
  BY DEF IInv
<1>1. CASE Refuse(c)
  <2>1. handler[c] = "new" /\ Goto(c, "refused") /\ UNCHANGED <<fwd, closes>>
    BY <1>1 DEF Refuse
  <2>2. LeaseOf(c) = "none" /\ LeaseOf(c)' = "denied"
    <3>1. handler'[c] = "refused"
      BY <1>0, <2>1 DEF Goto, TypeOK
    <3>2. LeaseOf(c)' = "denied"
      BY <3>1 DEF LeaseOf, Holding
    <3>3. QED
      BY <1>0, <2>1, <3>2, LeaseCases
  <2>3. [d \in Calls |-> LeaseOf(d)]'
          = [[d \in Calls |-> LeaseOf(d)] EXCEPT ![c] = "denied"]
    BY <1>0, <2>1, <2>2, LeaseMove DEF HandlerStates
  <2>4. Lease!Deny(c)
    BY <1>1, <2>1, <2>2, <2>3, RoomTold, TunnelStays DEF Refuse, Lease!Deny
  <2>5. QED
    BY <2>4 DEF Lease!Next
<1>2. CASE Acquire(c)
  <2>1. handler[c] = "new" /\ Goto(c, "acquired") /\ UNCHANGED <<fwd, closes>>
    BY <1>2 DEF Acquire
  <2>2. LeaseOf(c) = "none" /\ LeaseOf(c)' = "held"
    BY <1>0, <2>1, LeaseCases DEF Goto, TypeOK, LeaseOf, Holding
  <2>3. [d \in Calls |-> LeaseOf(d)]'
          = [[d \in Calls |-> LeaseOf(d)] EXCEPT ![c] = "held"]
    BY <1>0, <2>1, <2>2, LeaseMove DEF HandlerStates
  <2>4. Lease!Grant(c)
    BY <1>2, <2>1, <2>2, <2>3, RoomTold, TunnelStays DEF Acquire, Lease!Grant
  <2>5. QED
    BY <2>4 DEF Lease!Next
<1>3. CASE SetupFails(c) \/ SeeReady(c) \/ SeeError(c)
  <2>1. PICK w \in Holding : Goto(c, w) /\ handler[c] \in Holding
    BY <1>3 DEF SetupFails, SeeReady, SeeError, Holding
  <2>2. UNCHANGED <<fwd, closes>>
    BY <1>3 DEF SetupFails, SeeReady, SeeError
  <2>3. QED
    BY <1>0, <2>1, <2>2, LeaseKept, TunnelStays DEF Lease!leaseVars
<1>4. CASE StartForwarder(c)
  <2>1. /\ handler[c] \in Holding
        /\ Goto(c, "waiting")
        /\ fwd' = [fwd EXCEPT ![c] = "dialing"]
        /\ UNCHANGED closes
    BY <1>4 DEF StartForwarder, Holding
  <2>2. UNCHANGED [d \in Calls |-> LeaseOf(d)]
    BY <1>0, <2>1, LeaseKept DEF Holding
  <2>3. fwd[c] = "none" /\ fwd'[c] = "dialing"
    BY <1>0, <1>4, <2>1 DEF IInv, ForwardByPlace, TypeOK, StartForwarder
  <2>4. TunnelOf(c) = "none" /\ TunnelOf(c)' = "none"
    BY <2>3 DEF TunnelOf
  <2>5. UNCHANGED [d \in Calls |-> TunnelOf(d)]
    BY <1>0, <2>1, <2>4, TunnelMove
  <2>6. QED
    BY <2>1, <2>2, <2>5 DEF Lease!leaseVars
<1>5. CASE GiveUp(c) \/ TearDown(c)
  <2>1. /\ handler[c] \in {"waiting", "open"}
        /\ CloseStop(c)
        /\ Goto(c, "abandoning") \/ Goto(c, "closing")
        /\ UNCHANGED fwd
    BY <1>5 DEF GiveUp, TearDown
  <2>2. closes[c] = 0
    BY <2>1 DEF IInv, ForwardByPlace
  <2>3. LeaseOf(c) = "held" /\ UNCHANGED [d \in Calls |-> LeaseOf(d)]
    BY <1>0, <2>1, LeaseKept, LeaseCases DEF Holding
  <2>4. Lease!TellToStop(c)
    BY <1>0, <2>1, <2>2, <2>3, FirstClose, TunnelStays DEF Lease!TellToStop
  <2>5. QED
    BY <2>4 DEF Lease!Next
<1>6. CASE ReleaseForward(c)
  <2>1. /\ handler[c] \in {"failing", "abandoning", "closing"}
        /\ Goto(c, "closed")
        /\ UNCHANGED <<fwd, closes>>
    BY <1>6 DEF ReleaseForward
  <2>2. LeaseOf(c) = "held" /\ LeaseOf(c)' = "returned"
    BY <1>0, <2>1, LeaseCases DEF Goto, TypeOK, LeaseOf, Holding
  <2>3. [d \in Calls |-> LeaseOf(d)]'
          = [[d \in Calls |-> LeaseOf(d)] EXCEPT ![c] = "returned"]
    BY <1>0, <2>1, <2>2, LeaseMove DEF HandlerStates
  <2>4. closes[c] = 1 \/ fwd[c] \in {"none", "ended"}
    BY <2>1 DEF IInv, ForwardByPlace
  <2>5. c \in {d \in Calls : closes[d] > 0} \/ TunnelOf(c) # "up"
    BY <1>0, <2>4, TunnelCases
  <2>6. Lease!Return(c)
    BY <2>1, <2>2, <2>3, <2>5, TunnelStays DEF Lease!Return
  <2>7. QED
    BY <2>6 DEF Lease!Next
<1>7. QED
  BY <1>1, <1>2, <1>3, <1>4, <1>5, <1>6 DEF ServerStep

\* So is every step of the forwarder, the lost connection included.
LEMMA ForwarderLeaseStep ==
    ASSUME IInv, NEW c \in Calls, ForwarderStep(c) \/ ConnectionLost(c)
    PROVE  Lease!Next
<1>0. TypeOK
  BY DEF IInv
<1>1. CASE Listen(c)
  <2>1. /\ fwd[c] = "dialing"
        /\ fwd' = [fwd EXCEPT ![c] = "listening"]
        /\ UNCHANGED <<handler, closes>>
    BY <1>1 DEF Listen
  <2>2. TunnelOf(c) = "none" /\ TunnelOf(c)' = "up"
    BY <1>0, <2>1 DEF TypeOK, TunnelOf
  <2>3. [d \in Calls |-> TunnelOf(d)]'
          = [[d \in Calls |-> TunnelOf(d)] EXCEPT ![c] = "up"]
    BY <1>0, <2>1, <2>2, TunnelMove
  <2>4. Lease!Up(c)
    BY <2>1, <2>2, <2>3, LiveTunnels, LeaseStays DEF Lease!Up
  <2>5. QED
    BY <2>4 DEF Lease!Next
<1>2. CASE ListenFails(c) \/ ForwarderEnds(c)
  <2>1. /\ fwd[c] \in {"dialing", "listening"}
        /\ fwd' = [fwd EXCEPT ![c] = "ended"]
        /\ UNCHANGED <<handler, closes>>
    BY <1>2 DEF ListenFails, ForwarderEnds
  <2>2. TunnelOf(c) # "down" /\ TunnelOf(c)' = "down"
    BY <1>0, <2>1, TunnelCases DEF TypeOK, TunnelOf
  <2>3. [d \in Calls |-> TunnelOf(d)]'
          = [[d \in Calls |-> TunnelOf(d)] EXCEPT ![c] = "down"]
    BY <1>0, <2>1, <2>2, TunnelMove
  <2>4. Lease!Down(c)
    BY <2>1, <2>2, <2>3, LiveTunnels, LeaseStays DEF Lease!Down
  <2>5. QED
    BY <2>4 DEF Lease!Next
<1>3. QED
  BY <1>1, <1>2 DEF ForwarderStep, StopSeen, ConnectionLost

\* The initial states are those of TunnelLease.
LEMMA InitLease == Init => Lease!Init
<1> SUFFICES ASSUME Init PROVE Lease!Init
  OBVIOUS
<1>1. \A c \in Calls : LeaseOf(c) = "none" /\ TunnelOf(c) = "none"
  <2>1. ASSUME NEW c \in Calls
        PROVE  LeaseOf(c) = "none" /\ TunnelOf(c) = "none"
    <3>1. handler[c] = "new" /\ fwd[c] = "none"
      BY DEF Init
    <3>2. LeaseOf(c) = "none"
      BY <3>1 DEF LeaseOf, Holding
    <3>3. TunnelOf(c) = "none"
      BY <3>1 DEF TunnelOf
    <3>4. QED
      BY <3>2, <3>3
  <2>2. QED
    BY <2>1
<1>2. {c \in Calls : closes[c] > 0} = {}
  BY DEF Init
<1>3. QED
  BY <1>1, <1>2 DEF Lease!Init

\* portForward with its goroutines implements TunnelLease, for any limit, calls
\* and ports.
THEOREM ForwardKeepsLease == Spec => KeepsLease
<1>1. IInv /\ IInv' /\ [Next]_vars => [Lease!Next]_(Lease!leaseVars)
  <2> SUFFICES ASSUME IInv, IInv', [Next]_vars
               PROVE  Lease!Next \/ UNCHANGED Lease!leaseVars
    OBVIOUS
  <2>1. ASSUME NEW c \in Calls, Refuse(c) \/ Acquire(c) \/ ServerStep(c)
        PROVE  Lease!Next \/ UNCHANGED Lease!leaseVars
    BY <2>1, HandlerLeaseStep
  <2>2. ASSUME NEW c \in Calls, ForwarderStep(c) \/ ConnectionLost(c)
        PROVE  Lease!Next
    BY <2>2, ForwarderLeaseStep
  <2>3. CASE Stop \/ UNCHANGED vars
    BY <2>3, LeaseStays, TunnelStays DEF Stop, vars, Lease!leaseVars
  <2>4. QED
    BY <2>1, <2>2, <2>3 DEF Next, Quiet
<1>2. QED
  BY InitLease, <1>1, ForwardInvariant, PTL DEF Spec, KeepsLease, Lease!Spec
====
