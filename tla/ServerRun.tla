---- MODULE ServerRun ----
(***************************************************************************)
(* The life of the process around its tool calls: App.Run in               *)
(* internal/mcpserver/server.go and run in cmd/k8s-mcp-server/main.go.     *)
(* Calls begin while the transport serves; a signal, the end of stdin or a *)
(* listener error ends Run, and with Run the process and every goroutine   *)
(* of a call that is still in Wrap.                                        *)
(***************************************************************************)
EXTENDS ToolCall

CONSTANTS Transports,    \* the values of --transport looked at
          IdleStreams    \* event streams an HTTP client may keep open

ASSUME TransportAssumption ==
    Transports \subseteq {"stdio", "http"} /\ IdleStreams \in Nat

VARIABLES transport, \* --transport, fixed at the start
          phase,     \* what App.Run is doing
          streams,   \* open event streams with no call on them
          gone,      \* calls whose HTTP client hung up on the request
          cause,     \* why Run left the select
          exitCode   \* of the process; Running until it exits

Running == 99

runVars == <<transport, phase, streams, gone, cause, exitCode>>
allVars == <<vars, runVars>>

Phases == {"serving", "draining", "exited"}
Causes == {"none", "signal", "stdin closed", "pipe broken", "listener"}

RunTypeOK ==
    /\ TypeOK
    /\ transport \in Transports
    /\ phase \in Phases
    /\ streams \in 0..IdleStreams
    /\ gone \in SUBSET Calls
    /\ cause \in Causes
    /\ exitCode \in {0, 1, Running}

RunInit ==
    /\ Init
    /\ transport \in Transports
    /\ phase = "serving"
    /\ streams = 0
    /\ gone = {}
    /\ cause = "none"
    /\ exitCode = Running

\* The calls that have begun and whose goroutine is still in Wrap.
Active == {c \in Calls : pc[c] \notin {"new", "done"}}

\* Their HTTP requests that are still open: what srv.Shutdown waits for.
OpenRequests == Active \ gone

----------------------------------------------------------------------------
\* The errors App.Run returns, told apart by what main looks at: the io.EOF and
\* context.Canceled that errors.Is finds, the two texts it looks for in any other
\* error, and the rest.
TextsOfClosing == {"server is closing", "text with EOF"}
RunErrors == {"nil", "EOF", "Canceled", "DeadlineExceeded", "listen", "other"}
             \cup TextsOfClosing

\* A mutated form: no error is a failure.
IsGracefulCloseAlways(err) == err \in RunErrors

\* A mutated form: the text of the error is not looked at.
IsGracefulCloseByValue(err) == err \in {"EOF", "Canceled"}

\* isGracefulClose in main.go.
IsGracefulClose(err) == err \in {"EOF", "Canceled"} \cup TextsOfClosing

\* Run returns err and the process exits.
Exit(err) ==
    /\ phase' = "exited"
    /\ exitCode' = IF err = "nil" \/ IsGracefulClose(err) THEN 0 ELSE 1

\* A mutated form: Shutdown without a deadline waits for ever.
ShutdownNeverTimesOut == phase = "gone" /\ UNCHANGED allVars

----------------------------------------------------------------------------
\* A client makes a call: the transport accepts it only while it serves.
BeginCall(c) == phase = "serving" /\ Begin(c) /\ UNCHANGED runVars

\* The calls in Wrap go on until the process is gone, draining or not.
CallStep(c) == phase # "exited" /\ Progress(c) /\ UNCHANGED runVars

\* The streamable HTTP handler serves a GET as a stream that stays open.
OpenStream ==
    /\ transport = "http"
    /\ phase = "serving"
    /\ streams < IdleStreams
    /\ streams' = streams + 1
    /\ UNCHANGED <<vars, transport, phase, gone, cause, exitCode>>

\* Its client hangs up.
CloseStream ==
    /\ phase # "exited"
    /\ streams > 0
    /\ streams' = streams - 1
    /\ UNCHANGED <<vars, transport, phase, gone, cause, exitCode>>

\* The client of a call hangs up.  The request is closed; the SDK may or may not
\* cancel the call's context (Expire), and its goroutine stays in Wrap.
HangUp(c) ==
    /\ transport = "http"
    /\ phase # "exited"
    /\ c \in OpenRequests
    /\ gone' = gone \cup {c}
    /\ UNCHANGED <<vars, transport, phase, streams, cause, exitCode>>

\* SIGINT or SIGTERM cancels the context; runHTTP calls srv.Shutdown, which
\* stops accepting and waits for the connections to become idle.
SignalHTTP ==
    /\ transport = "http"
    /\ phase = "serving"
    /\ phase' = "draining"
    /\ cause' = "signal"
    /\ UNCHANGED <<vars, transport, streams, gone, exitCode>>

\* Every connection is idle: Shutdown and Run return nil, the process exits 0.
Drained ==
    /\ phase = "draining"
    /\ OpenRequests = {} /\ streams = 0
    /\ Exit("nil")
    /\ UNCHANGED <<vars, transport, streams, gone, cause>>

\* Five seconds pass first: Shutdown returns its context's DeadlineExceeded.
ShutdownTimesOut ==
    /\ phase = "draining"
    /\ OpenRequests # {} \/ streams > 0
    /\ Exit("DeadlineExceeded")
    /\ UNCHANGED <<vars, transport, streams, gone, cause>>

\* ListenAndServe fails, at the start or later: the other branch of the select in
\* runHTTP.  A certificate that cannot be used ends runHTTP the same way before any
\* call.
ListenerFails ==
    /\ transport = "http"
    /\ phase = "serving"
    /\ cause' = "listener"
    /\ Exit("listen")
    /\ UNCHANGED <<vars, transport, streams, gone>>

\* What Server.Run of the SDK may return over stdio for each reason it has to return;
\* runStdio passes it on.  A client that closes stdin is a nil error, io.EOF or one
\* of the two texts; a pipe that breaks, in the middle of a message, with malformed
\* input or a stdout nobody reads any more, may look like that or be any other error.
StdioErrors(why) ==
    CASE why = "signal"       -> {"Canceled"}
      [] why = "stdin closed" -> {"nil", "EOF"} \cup TextsOfClosing
      [] why = "pipe broken"  -> {"EOF", "other"} \cup TextsOfClosing

\* The SDK's Server.Run returns.  Nothing in this code waits for the calls in flight;
\* whether the SDK does is left open.
StdioEnds ==
    /\ transport = "stdio"
    /\ phase = "serving"
    /\ \E why \in {"signal", "stdin closed", "pipe broken"} :
         /\ cause' = why
         /\ \E err \in StdioErrors(why) : Exit(err)
    /\ UNCHANGED <<vars, transport, streams, gone>>

Exited == phase = "exited" /\ UNCHANGED allVars

Shutdown ==
    SignalHTTP \/ Drained \/ ShutdownTimesOut \/ ListenerFails \/ StdioEnds

RunNext ==
    \/ \E c \in Calls : BeginCall(c) \/ CallStep(c)
    \/ OpenStream \/ CloseStream
    \/ \E c \in Calls : HangUp(c)
    \/ Shutdown
    \/ Exited

RunSpec == RunInit /\ [][RunNext]_allVars

\* Shutdown's timer fires; clients owe nothing, signals need not come.
RunFairSpec == RunSpec /\ WF_allVars(Drained \/ ShutdownTimesOut)

----------------------------------------------------------------------------
\* Over HTTP, exit code 0 means that nobody still waiting was cut off: every call
\* that began, unless its client hung up, was answered and recorded before
\* srv.Shutdown returned nil.
CleanExitLosesNothing ==
    transport = "http" /\ exitCode = 0 =>
        \A c \in Calls : \/ pc[c] = "new"
                         \/ c \in gone
                         \/ answer[c] # "none" /\ audit[c] \in OneLine

\* A nonzero exit has a reason.  Over HTTP: the listener failed, or a call or a
\* stream was still open when the five seconds were up.  Over stdio: the pipe broke;
\* a signal, or a client that closes stdin with calls in flight or without, is never
\* reported as a failure, whatever error the SDK makes of it.
FailedExitHasReason ==
    exitCode = 1 =>
        \/ transport = "http" /\ cause = "listener"
        \/ transport = "http" /\ cause = "signal" /\ (OpenRequests # {} \/ streams > 0)
        \/ transport = "stdio" /\ cause = "pipe broken"

\* Shutdown is bounded: draining ends, whatever handlers and streams do.
DrainEnds == phase = "draining" ~> phase = "exited"
====
