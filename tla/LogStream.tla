---- MODULE LogStream ----
(***************************************************************************)
(* get_logs (internal/tools/troubleshoot/logs.go): the stream of a         *)
(* container's log is read buffer by buffer up to a limit; with follow the *)
(* stream stays open, and its budget of 20 seconds is a deadline on its    *)
(* context, which a read reports as an error.                              *)
(***************************************************************************)
EXTENDS Naturals

CONSTANTS ReadLimit,    \* --max-output-bytes and 1024 more, in units of bytes
          BufferSize,   \* the buffer of a read, in the same unit
          MaxWritten    \* bound: units the container writes

ASSUME LogAssumption ==
    ReadLimit \in Nat \ {0} /\ BufferSize \in Nat \ {0} /\ MaxWritten \in Nat

VARIABLES follow,
          written,  \* what the API server has sent, or has to send
          held,     \* what the call has read
          ended,    \* the API server has sent all it will
          lost,     \* the connection broke
          over,     \* the budget or the call's deadline has passed
          reply     \* "none", "text" or "error"

logVars == <<follow, written, held, ended, lost, over, reply>>

LogInit ==
    /\ follow \in BOOLEAN
    /\ written \in 0..MaxWritten
    /\ held = 0
    /\ ended \in IF follow THEN BOOLEAN ELSE {TRUE}
    /\ lost = FALSE /\ over = FALSE
    /\ reply = "none"

Replies(how) ==
    /\ reply = "none" /\ reply' = how
    /\ UNCHANGED <<follow, written, held, ended, lost, over>>

\* Mutated form: every error ends the log as its end does.
ReadErrorEnds == (lost \/ over) /\ Replies("text")

\* One turn of readAtMost's loop.
ReadSome ==
    /\ reply = "none" /\ held < ReadLimit /\ ~lost /\ ~over
    /\ \E n \in 1..BufferSize : held + n <= written /\ held' = held + n
    /\ UNCHANGED <<follow, written, ended, lost, over, reply>>

ReadLimitHit == held >= ReadLimit /\ Replies("text")

ReadEOF == ended /\ held = written /\ held < ReadLimit /\ ~lost /\ Replies("text")

\* Opening the stream fails, or a read: what was read is dropped.
ReadError == held < ReadLimit /\ (lost \/ over) /\ Replies("error")

\* The container, the connection and time.
ContainerWrites ==
    /\ ~ended /\ written < MaxWritten
    /\ written' = written + 1
    /\ UNCHANGED <<follow, held, ended, lost, over, reply>>

ContainerEnds ==
    /\ ~ended /\ ended' = TRUE
    /\ UNCHANGED <<follow, written, held, lost, over, reply>>

ConnectionLost ==
    /\ ~lost /\ reply = "none" /\ lost' = TRUE
    /\ UNCHANGED <<follow, written, held, ended, over, reply>>

TimeOver ==
    /\ ~over /\ reply = "none" /\ over' = TRUE
    /\ UNCHANGED <<follow, written, held, ended, lost, reply>>

LogNext ==
    \/ ReadSome \/ ReadLimitHit \/ ReadEOF \/ ReadError
    \/ ContainerWrites \/ ContainerEnds \/ ConnectionLost \/ TimeOver

----------------------------------------------------------------------------
\* What is read stays within the limit and one buffer; a text is all there was or
\* reaches the limit, never a log cut off by an error; and an error has a reason
\* (logs.go:83-96, 107-123).
LogsExplained ==
    /\ held < ReadLimit + BufferSize
    /\ reply = "text" => held >= ReadLimit \/ (ended /\ held = written)
    /\ reply = "error" => lost \/ over

\* The doc of follow: "stream new logs for a bounded period (~20s)" (logs.go:35):
\* lines that came in that period are in the answer.
FollowAnswers == follow /\ ~lost /\ held > 0 => reply # "error"
====
