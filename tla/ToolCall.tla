---- MODULE ToolCall ----
(***************************************************************************)
(* One tool call through tools.Wrap (internal/tools/toolkit.go) with the   *)
(* audit record of internal/audit/audit.go: begin the record, set the      *)
(* deadline, wait for a slot of the in-flight semaphore or give up when    *)
(* the deadline passes, run the handler, recover from its panic, finish    *)
(* the record, answer, and give the slot back on the way out.  Every call  *)
(* runs in a goroutine of its own; the semaphore is all they share.        *)
(*                                                                         *)
(* The handler (the parameter f of Wrap) is abstract here: while it runs   *)
(* it may send writes to the cluster, and it ends in one of four ways.     *)
(***************************************************************************)
EXTENDS Naturals, Sequences, FiniteSets

CONSTANTS Calls,               \* the calls clients may make
          MaxConcurrentCalls   \* --max-concurrent-calls; 0 is "unlimited"

\* Config.Validate refuses a negative --max-concurrent-calls.
ASSUME LimitIsNatural == MaxConcurrentCalls \in Nat

VARIABLES pc,       \* pc[c]: where the goroutine of call c is in Wrap
          expired,  \* calls whose context is done: deadline passed or client gone
          sem,      \* number of tokens in the channel tk.sem
          wrote,    \* calls whose handler has sent a write to the cluster, or several
          outcome,  \* outcome[c]: how the handler f ended
          audit,    \* audit[c]: the audit lines emitted for c, by their success flag
          answer    \* answer[c]: the result Wrap returns for c

vars == <<pc, expired, sem, wrote, outcome, audit, answer>>

Limited == MaxConcurrentCalls > 0

\* The success flag of an audit line, and an audit log of one line.
Flags   == {"success", "failure"}
OneLine == {<<f>> : f \in Flags}

\* "tool error" is rpc.ErrorResult(...) with a nil Go error, the form in which
\* handlers return a refusal; "error" is a non-nil Go error.
Outcomes == {"ok", "tool error", "error", "panic"}
Answers  == {"result", "tool error", "busy", "internal error"}

Inside == {"run", "returned", "recovering", "finished", "unwinding"}
PCs    == {"new", "admission", "refusing", "refused", "done"} \cup Inside

\* The calls between a successful send on tk.sem and the deferred receive.
Holders == {c \in Calls : pc[c] \in Inside}

TypeOK ==
    /\ pc \in [Calls -> PCs]
    /\ expired \in SUBSET Calls
    /\ sem \in Nat
    /\ wrote \in SUBSET Calls
    /\ outcome \in [Calls -> Outcomes \cup {"none"}]
    /\ audit \in [Calls -> Seq(Flags)]
    /\ answer \in [Calls -> Answers \cup {"none"}]

Init ==
    /\ pc = [c \in Calls |-> "new"]
    /\ expired = {}
    /\ sem = 0
    /\ wrote = {}
    /\ outcome = [c \in Calls |-> "none"]
    /\ audit = [c \in Calls |-> <<>>]
    /\ answer = [c \in Calls |-> "none"]

Goto(c, where) == pc' = [pc EXCEPT ![c] = where]

\* The function finish returned by Begin: one line, success iff err is nil.
EmitAudit(c, flag) == audit' = [audit EXCEPT ![c] = Append(@, flag)]

Reply(c, a) == answer' = [answer EXCEPT ![c] = a]

----------------------------------------------------------------------------
\* Mutated forms of the actions below, each a bug the properties must catch.

\* The select gives up at once instead of waiting for a slot.
GiveUpAtOnce(c) ==
    /\ pc[c] = "admission"
    /\ Limited
    /\ Goto(c, "refusing")
    /\ UNCHANGED <<expired, sem, wrote, outcome, audit, answer>>

\* The wait for a slot has no second branch.
GiveUpNever(c) == pc[c] = "gone" /\ UNCHANGED vars

\* The busy answer is returned without finishing the record.
FinishRefusalSilently(c) ==
    /\ pc[c] = "refusing"
    /\ Goto(c, "refused")
    /\ UNCHANGED <<expired, sem, wrote, outcome, audit, answer>>

\* The recovered panic is answered but never recorded.
RecoverSilently(c) ==
    /\ pc[c] = "recovering"
    /\ Reply(c, "internal error")
    /\ Goto(c, "unwinding")
    /\ UNCHANGED <<expired, sem, wrote, outcome, audit>>

\* The slot is given back on the normal path only, not by a deferred receive.
ReleaseSlotUnlessPanic(c) ==
    /\ pc[c] = "unwinding"
    /\ sem' = IF Limited /\ outcome[c] # "panic" THEN sem - 1 ELSE sem
    /\ Goto(c, "done")
    /\ UNCHANGED <<expired, wrote, outcome, audit, answer>>

\* No recover is deferred: a panic goes straight to the deferred receive.
HandlerEndsUnrecovered(c) ==
    /\ pc[c] = "run"
    /\ \E o \in Outcomes :
         /\ outcome' = [outcome EXCEPT ![c] = o]
         /\ Goto(c, IF o = "panic" THEN "unwinding" ELSE "returned")
    /\ UNCHANGED <<expired, sem, wrote, audit, answer>>

\* The deferred receive is registered before the select, so a call that is
\* turned away takes out a token it never put in.
ReturnBusyReleasing(c) ==
    /\ pc[c] = "refused"
    /\ Limited => sem > 0
    /\ sem' = IF Limited THEN sem - 1 ELSE sem
    /\ Reply(c, "busy")
    /\ Goto(c, "done")
    /\ UNCHANGED <<expired, wrote, outcome, audit>>

----------------------------------------------------------------------------
\* Audit.Begin and context.WithTimeout.
Begin(c) ==
    /\ pc[c] = "new"
    /\ Goto(c, "admission")
    /\ UNCHANGED <<expired, sem, wrote, outcome, audit, answer>>

\* The deadline of the call's context passes, or its client goes away.
Expire(c) ==
    /\ pc[c] \in {"admission"} \cup Inside
    /\ c \notin expired
    /\ expired' = expired \cup {c}
    /\ UNCHANGED <<pc, sem, wrote, outcome, audit, answer>>

\* tk.sem is nil, or the send on it succeeds.  A send that can proceed may be
\* chosen by the select even when the context is done as well.
Acquire(c) ==
    /\ pc[c] = "admission"
    /\ Limited => sem < MaxConcurrentCalls
    /\ sem' = IF Limited THEN sem + 1 ELSE sem
    /\ Goto(c, "run")
    /\ UNCHANGED <<expired, wrote, outcome, audit, answer>>

\* The other branch of the select: the context is done first.
GiveUp(c) ==
    /\ pc[c] = "admission"
    /\ Limited
    /\ c \in expired
    /\ Goto(c, "refusing")
    /\ UNCHANGED <<expired, sem, wrote, outcome, audit, answer>>

\* finish(ctx.Err()) of a call that never got a slot.
FinishRefusal(c) ==
    /\ pc[c] = "refusing"
    /\ EmitAudit(c, "failure")
    /\ Goto(c, "refused")
    /\ UNCHANGED <<expired, sem, wrote, outcome, answer>>

\* The "server busy" answer; the deferred receive was never registered.
ReturnBusy(c) ==
    /\ pc[c] = "refused"
    /\ Reply(c, "busy")
    /\ Goto(c, "done")
    /\ UNCHANGED <<expired, sem, wrote, outcome, audit>>

\* The handler sends a write to the API server, its first or one more: drain_node
\* evicts pod after pod and apply_manifest applies document after document.
\* client-go sends nothing for a context that is already done.
HandlerWrites(c) ==
    /\ pc[c] = "run"
    /\ c \notin expired
    /\ wrote' = wrote \cup {c}
    /\ UNCHANGED <<pc, expired, sem, outcome, audit, answer>>

\* f returns, or panics into the deferred recover.
HandlerEnds(c) ==
    /\ pc[c] = "run"
    /\ \E o \in Outcomes :
         /\ outcome' = [outcome EXCEPT ![c] = o]
         /\ Goto(c, IF o = "panic" THEN "recovering" ELSE "returned")
    /\ UNCHANGED <<expired, sem, wrote, audit, answer>>

\* finish(callErr): the record says success for every nil error.
FinishCall(c) ==
    /\ pc[c] = "returned"
    /\ EmitAudit(c, IF outcome[c] = "error" THEN "failure" ELSE "success")
    /\ Goto(c, "finished")
    /\ UNCHANGED <<expired, sem, wrote, outcome, answer>>

\* A non-nil error becomes a tool error; a result is truncated and returned.
ReturnResult(c) ==
    /\ pc[c] = "finished"
    /\ Reply(c, IF outcome[c] = "ok" THEN "result" ELSE "tool error")
    /\ Goto(c, "unwinding")
    /\ UNCHANGED <<expired, sem, wrote, outcome, audit>>

\* The deferred recover: it runs before the deferred receive on tk.sem, sets
\* the answer and finishes the record with an error.
Recover(c) ==
    /\ pc[c] = "recovering"
    /\ Reply(c, "internal error")
    /\ EmitAudit(c, "failure")
    /\ Goto(c, "unwinding")
    /\ UNCHANGED <<expired, sem, wrote, outcome>>

\* The deferred receive on tk.sem, if there is one, and the return; a receive
\* from an empty channel would block.
ReleaseSlot(c) ==
    /\ pc[c] = "unwinding"
    /\ Limited => sem > 0
    /\ sem' = IF Limited THEN sem - 1 ELSE sem
    /\ Goto(c, "done")
    /\ UNCHANGED <<expired, wrote, outcome, audit, answer>>

\* The steps of the server itself on a call that has begun, the handler's
\* return excepted.
WrapStep(c) ==
    \/ Acquire(c) \/ GiveUp(c) \/ FinishRefusal(c) \/ ReturnBusy(c)
    \/ FinishCall(c) \/ ReturnResult(c) \/ Recover(c) \/ ReleaseSlot(c)

Progress(c) == WrapStep(c) \/ Expire(c) \/ HandlerWrites(c) \/ HandlerEnds(c)

\* No call is left: the only state in which nothing need happen.
AllDone ==
    /\ \A c \in Calls : pc[c] = "done"
    /\ UNCHANGED vars

Next == (\E c \in Calls : Begin(c) \/ Progress(c)) \/ AllDone

Spec == Init /\ [][Next]_vars

----------------------------------------------------------------------------
\* Goroutines run and the timer behind the deadline fires; nothing is assumed
\* of clients, nor that a handler ends.
FairSpec ==
    Spec /\ \A c \in Calls : WF_vars(WrapStep(c)) /\ WF_vars(Expire(c))

\* Every handler ends: its API calls inherit the call's deadline.
HandlersEnd == \A c \in Calls : WF_vars(HandlerEnds(c))

----------------------------------------------------------------------------
\* The tokens in tk.sem are exactly the calls between the send and the deferred
\* receive, on every path out of Wrap: normal, error, panic, busy.
SlotsMatchHolders == sem = IF Limited THEN Cardinality(Holders) ELSE 0

\* No more than --max-concurrent-calls handlers are in flight.
InFlightBound == Limited => Cardinality(Holders) <= MaxConcurrentCalls

\* A call never has two audit lines, and has one when it has been answered:
\* finish runs once on each of the four ways out of Wrap.
AuditedOnce ==
    \A c \in Calls :
        /\ audit[c] = <<>> \/ audit[c] \in OneLine
        /\ answer[c] # "none" => audit[c] \in OneLine

\* finish comes before the deferred receive on tk.sem, so the calls that have
\* written to the cluster, once or many times, and are not yet in the audit log
\* never outnumber the slots.
UnauditedCallsBounded ==
    Limited => Cardinality({c \in wrote : audit[c] = <<>>}) <= MaxConcurrentCalls

\* A call answered "server busy" had run out of time, did nothing to the
\* cluster and is recorded as a failure.
BusyDidNothing ==
    \A c \in Calls :
        answer[c] = "busy" => c \in expired /\ c \notin wrote /\ audit[c] = <<"failure">>

\* What is true of a call at each point of Wrap; with the types and the slot count
\* it is the inductive invariant from which ServerRunProofs derives the four
\* properties above.
RecordsByPlace ==
    \A c \in Calls :
        /\ pc[c] \in {"new", "admission", "refusing", "run", "returned", "recovering"}
              => audit[c] = <<>>
        /\ pc[c] = "refused" => audit[c] = <<"failure">>
        /\ pc[c] \in {"finished", "unwinding", "done"} => audit[c] \in OneLine
        /\ pc[c] \notin {"unwinding", "done"} => answer[c] = "none"
        /\ pc[c] \in {"refusing", "refused"} => c \in expired
        /\ c \in wrote => pc[c] \in Inside \cup {"done"} /\ answer[c] # "busy"
        /\ answer[c] = "busy" => c \in expired /\ audit[c] = <<"failure">>

SlotInv ==
    /\ IsFiniteSet(Holders)
    /\ SlotsMatchHolders
    /\ Limited => sem <= MaxConcurrentCalls

IInv == TypeOK /\ SlotInv /\ RecordsByPlace

\* Nothing but its own handler can hold a call up: a call waiting for a slot is
\* turned away by its deadline even when the handlers holding the slots never
\* end, and a call whose handler has ended is answered.
OnlyHandlersDelay ==
    \A c \in Calls : pc[c] # "new" ~> pc[c] \in {"run", "done"}

----------------------------------------------------------------------------
\* How far a call has got, seen by a client.
ContractPhase(c) ==
    CASE pc[c] = "new" -> "idle"
      [] pc[c] \in {"admission", "refusing", "refused"} -> "pending"
      [] pc[c] \in Inside -> "inService"
      [] OTHER -> "answered"

Contract == INSTANCE CallContract WITH
    Limit <- MaxConcurrentCalls,
    phase <- [c \in Calls |-> ContractPhase(c)],
    logged <- {c \in Calls : audit[c] # <<>>}

\* Wrap keeps the contract, step by step.
KeepsContract == Contract!Spec

\* And, when handlers end, its promise that every call is logged and answered.
KeepsPromise == HandlersEnd => Contract!Promise
====
