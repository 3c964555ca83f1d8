---- MODULE PortForward ----
(***************************************************************************)
(* The port_forward tool (internal/tools/debug/portforward.go).  A call    *)
(* takes one of maxConcurrentForwards slots, starts client-go's forwarder  *)
(* in a goroutine, and waits for it to be ready, to fail, or for ten       *)
(* seconds.  A ready tunnel outlives the call: a second goroutine closes   *)
(* it when its duration is over or the server stops, and returns the slot. *)
(* Slots and tunnels are tied together only by the order of these steps.   *)
(***************************************************************************)
EXTENDS Naturals, FiniteSets

CONSTANTS Calls,        \* the port_forward calls
          MaxForwards,  \* maxConcurrentForwards
          Ports         \* the local ports of the machine

\* maxConcurrentForwards is a positive constant; port 0 is no port of its own.
ASSUME ForwardAssumption == MaxForwards \in Nat /\ 0 \notin Ports

AnyPort == 0    \* a request for local port 0: the system chooses one
NoPort  == 0    \* a forwarder that does not listen

VARIABLES forwards,  \* the counter of slots in use, under forwardsMu
          handler,   \* handler[c]: the call, then its teardown goroutine
          fwd,       \* fwd[c]: the goroutine in pf.ForwardPorts
          wanted,    \* wanted[c]: the local port in the call's spec, as reported
          bound,     \* bound[c]: the local port its listener has
          ready,     \* calls whose readyChan is closed
          errs,      \* calls whose errChan holds a value
          closes,    \* closes[c]: how often close(stopChan) ran
          stopping   \* ShutdownCtx is cancelled

vars == <<forwards, handler, fwd, wanted, bound, ready, errs, closes, stopping>>

\* "closed" is the end of a call that got a slot, "refused" of one that did not.
HandlerStates ==
    {"new", "refused", "acquired", "waiting", "failing", "abandoning",
     "open", "closing", "closed"}

Holding == {"acquired", "waiting", "failing", "abandoning", "open", "closing"}

Holders   == {c \in Calls : handler[c] \in Holding}
Listening == {c \in Calls : fwd[c] = "listening"}

TypeOK ==
    /\ forwards \in 0..MaxForwards
    /\ handler \in [Calls -> HandlerStates]
    /\ fwd \in [Calls -> {"none", "dialing", "listening", "ended"}]
    /\ wanted \in [Calls -> Ports \cup {AnyPort}]
    /\ bound \in [Calls -> Ports \cup {NoPort}]
    /\ ready \in SUBSET Calls
    /\ errs \in SUBSET Calls
    /\ closes \in [Calls -> Nat]
    /\ stopping \in BOOLEAN

Init ==
    /\ forwards = 0
    /\ handler = [c \in Calls |-> "new"]
    /\ fwd = [c \in Calls |-> "none"]
    /\ wanted \in [Calls -> Ports \cup {AnyPort}]
    /\ bound = [c \in Calls |-> NoPort]
    /\ ready = {}
    /\ errs = {}
    /\ closes = [c \in Calls |-> 0]
    /\ stopping = FALSE

Goto(c, where) == handler' = [handler EXCEPT ![c] = where]

CloseStop(c) == closes' = [closes EXCEPT ![c] = @ + 1]

----------------------------------------------------------------------------
\* Mutated forms of the actions below.

\* The transport error path returns without giving the slot back.
SetupFailsKeepingSlot(c) ==
    /\ handler[c] = "acquired"
    /\ Goto(c, "closed")
    /\ UNCHANGED <<forwards, fwd, wanted, bound, ready, errs, closes, stopping>>

\* The ten-second branch returns the slot but leaves the forwarder running.
GiveUpWithoutStop(c) ==
    /\ handler[c] = "waiting"
    /\ Goto(c, "abandoning")
    /\ UNCHANGED <<forwards, fwd, wanted, bound, ready, errs, closes, stopping>>

\* The ten-second branch falls through to the scheduling of the teardown.
GiveUpIntoTeardown(c) ==
    /\ handler[c] = "waiting"
    /\ CloseStop(c)
    /\ Goto(c, "open")
    /\ UNCHANGED <<forwards, fwd, wanted, bound, ready, errs, stopping>>

\* The teardown goroutine waits for the server to stop, not for the timer.
TearDownOnStopOnly(c) ==
    /\ handler[c] = "open"
    /\ stopping
    /\ CloseStop(c)
    /\ Goto(c, "closing")
    /\ UNCHANGED <<forwards, fwd, wanted, bound, ready, errs, stopping>>

----------------------------------------------------------------------------
\* acquireForward fails; the policy and argument checks before it change nothing.
Refuse(c) ==
    /\ handler[c] = "new"
    /\ forwards >= MaxForwards
    /\ Goto(c, "refused")
    /\ UNCHANGED <<forwards, fwd, wanted, bound, ready, errs, closes, stopping>>

\* acquireForward takes a slot.
Acquire(c) ==
    /\ handler[c] = "new"
    /\ forwards < MaxForwards
    /\ forwards' = forwards + 1
    /\ Goto(c, "acquired")
    /\ UNCHANGED <<fwd, wanted, bound, ready, errs, closes, stopping>>

\* No SPDY transport, or NewOnAddresses does not accept the port spec.
SetupFails(c) ==
    /\ handler[c] = "acquired"
    /\ Goto(c, "failing")
    /\ UNCHANGED <<forwards, fwd, wanted, bound, ready, errs, closes, stopping>>

\* go func() { errChan <- pf.ForwardPorts() }()
StartForwarder(c) ==
    /\ handler[c] = "acquired"
    /\ Goto(c, "waiting")
    /\ fwd' = [fwd EXCEPT ![c] = "dialing"]
    /\ UNCHANGED <<forwards, wanted, bound, ready, errs, closes, stopping>>

\* The select takes readyChan: schedule the teardown and answer with the local
\* port as it was asked for.
SeeReady(c) ==
    /\ handler[c] = "waiting"
    /\ c \in ready
    /\ Goto(c, "open")
    /\ UNCHANGED <<forwards, fwd, wanted, bound, ready, errs, closes, stopping>>

\* The select takes errChan.
SeeError(c) ==
    /\ handler[c] = "waiting"
    /\ c \in errs
    /\ errs' = errs \ {c}
    /\ Goto(c, "failing")
    /\ UNCHANGED <<forwards, fwd, wanted, bound, ready, closes, stopping>>

\* The select takes the ten-second timer, ready or not.
GiveUp(c) ==
    /\ handler[c] = "waiting"
    /\ CloseStop(c)
    /\ Goto(c, "abandoning")
    /\ UNCHANGED <<forwards, fwd, wanted, bound, ready, errs, stopping>>

\* The teardown goroutine: the duration is over, or the server stops.
TearDown(c) ==
    /\ handler[c] = "open"
    /\ CloseStop(c)
    /\ Goto(c, "closing")
    /\ UNCHANGED <<forwards, fwd, wanted, bound, ready, errs, stopping>>

\* releaseForward, on each of the four paths that call it.
ReleaseForward(c) ==
    /\ handler[c] \in {"failing", "abandoning", "closing"}
    /\ forwards' = IF forwards > 0 THEN forwards - 1 ELSE forwards
    /\ Goto(c, "closed")
    /\ UNCHANGED <<fwd, wanted, bound, ready, errs, closes, stopping>>

----------------------------------------------------------------------------
\* client-go's ForwardPorts dials the pod, listens, closes readyChan and only
\* then looks at stopChan.
Listen(c) ==
    /\ fwd[c] = "dialing"
    /\ \E p \in Ports :
         /\ wanted[c] \in {p, AnyPort}
         /\ \A d \in Calls : bound[d] # p
         /\ bound' = [bound EXCEPT ![c] = p]
    /\ fwd' = [fwd EXCEPT ![c] = "listening"]
    /\ ready' = ready \cup {c}
    /\ UNCHANGED <<forwards, handler, wanted, errs, closes, stopping>>

\* The dial fails or the port is in use: ForwardPorts returns an error.
ListenFails(c) ==
    /\ fwd[c] = "dialing"
    /\ fwd' = [fwd EXCEPT ![c] = "ended"]
    /\ errs' = errs \cup {c}
    /\ UNCHANGED <<forwards, handler, wanted, bound, ready, closes, stopping>>

ForwarderEnds(c) ==
    /\ fwd[c] = "listening"
    /\ fwd' = [fwd EXCEPT ![c] = "ended"]
    /\ bound' = [bound EXCEPT ![c] = NoPort]
    /\ errs' = errs \cup {c}
    /\ UNCHANGED <<forwards, handler, wanted, ready, closes, stopping>>

\* ForwardPorts sees stopChan closed: the listener goes away.
StopSeen(c) == closes[c] > 0 /\ ForwarderEnds(c)

\* The connection to the pod is lost.
ConnectionLost(c) == ForwarderEnds(c)

\* A signal cancels ShutdownCtx.
Stop ==
    /\ ~stopping
    /\ stopping' = TRUE
    /\ UNCHANGED <<forwards, handler, fwd, wanted, bound, ready, errs, closes>>

ServerStep(c) ==
    \/ SetupFails(c) \/ StartForwarder(c) \/ SeeReady(c) \/ SeeError(c)
    \/ GiveUp(c) \/ TearDown(c) \/ ReleaseForward(c)

ForwarderStep(c) == Listen(c) \/ ListenFails(c) \/ StopSeen(c)

Quiet ==
    /\ \A c \in Calls : handler[c] \in {"refused", "closed"}
    /\ \A c \in Calls : fwd[c] \in {"none", "ended"}
    /\ stopping
    /\ UNCHANGED vars

Next ==
    \/ \E c \in Calls : \/ Refuse(c) \/ Acquire(c) \/ ServerStep(c)
                        \/ ForwarderStep(c) \/ ConnectionLost(c)
    \/ Stop
    \/ Quiet

Spec == Init /\ [][Next]_vars

\* The goroutines run, both timers fire, and a dial to the pod ends; calls, lost
\* connections and the signal are up to the environment.
FairSpec ==
    Spec /\ \A c \in Calls : WF_vars(ServerStep(c)) /\ WF_vars(ForwarderStep(c))

----------------------------------------------------------------------------
\* The counter is the number of calls and tunnels that hold a slot: each way
\* out of portForward and of its teardown goroutine releases exactly once, so
\* the "if forwards > 0" of releaseForward never hides a second release.
SlotsMatchHolders == forwards = Cardinality(Holders)

\* At most maxConcurrentForwards slots are out at a time.
ForwardLimit == Cardinality(Holders) <= MaxForwards

\* A tunnel that listens either holds its slot or has been told to stop: no
\* tunnel is ever forgotten, not even one that comes up after the ten seconds.
\* And it is told once: a second close of stopChan panics in a goroutine that
\* nothing recovers.
ListenersAccountedFor ==
    \A c \in Calls : /\ c \in Listening => c \in Holders \/ closes[c] = 1
                     /\ closes[c] <= 1
                     /\ closes[c] = 1 => fwd[c] # "none"

\* What is true of a forward at each point of the handler and of the teardown;
\* with the slot count it is the inductive invariant behind the three above.
ForwardByPlace ==
    \A c \in Calls :
        /\ handler[c] \in {"abandoning", "closing"} => closes[c] = 1
        /\ handler[c] \notin {"abandoning", "closing", "closed"} => closes[c] = 0
        /\ closes[c] <= 1
        /\ handler[c] \in {"new", "refused", "acquired"} => fwd[c] = "none"
        /\ handler[c] \in {"waiting", "abandoning", "open", "closing"} => fwd[c] # "none"
        /\ handler[c] = "failing" => fwd[c] \in {"none", "ended"}
        /\ handler[c] = "closed" => IF closes[c] = 1 THEN fwd[c] # "none"
                                                    ELSE fwd[c] \in {"none", "ended"}
        /\ c \in errs => fwd[c] = "ended"

SlotInv == IsFiniteSet(Holders) /\ SlotsMatchHolders

IInv == TypeOK /\ SlotInv /\ ForwardByPlace

\* A slot that is taken comes back: when the call fails, when the tunnel's
\* duration is over, or when the server stops; also if the connection is lost.
SlotsComeBack == \A c \in Calls : c \in Holders ~> c \notin Holders

\* Every listener goes away: no port stays bound behind a returned slot.
TunnelsEnd == \A c \in Calls : c \in Listening ~> c \notin Listening

\* What a client can know of a call: whether it holds a slot, and whether its
\* tunnel listens.
LeaseOf(c) ==
    CASE handler[c] = "new"       -> "none"
      [] handler[c] = "refused"   -> "denied"
      [] handler[c] \in Holding   -> "held"
      [] handler[c] = "closed"    -> "returned"

TunnelOf(c) ==
    CASE fwd[c] \in {"none", "dialing"} -> "none"
      [] fwd[c] = "listening"           -> "up"
      [] fwd[c] = "ended"               -> "down"

Lease == INSTANCE TunnelLease
           WITH Limit   <- MaxForwards,
                lease   <- [c \in Calls |-> LeaseOf(c)],
                tunnel  <- [c \in Calls |-> TunnelOf(c)],
                stopped <- {c \in Calls : closes[c] > 0}

\* portForward, its teardown goroutine and the forwarder implement TunnelLease:
\* no path through them hands out a slot too many, gives one back twice, or
\* gives one back while a tunnel listens that was not told to stop.
KeepsLease == Lease!Spec
====
