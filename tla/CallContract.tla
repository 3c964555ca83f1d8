---- MODULE CallContract ----
(***************************************************************************)
(* What tools.Wrap promises about every tool call, with nothing said of    *)
(* how: a call that arrives is either admitted or turned away, at most     *)
(* Limit calls are in service at a time (0 means no limit), each call      *)
(* leaves exactly one audit line, and the line is written before the       *)
(* answer leaves the server.                                               *)
(***************************************************************************)
EXTENDS Naturals, FiniteSets

CONSTANTS Calls,   \* the calls clients may make
          Limit    \* how many may be in service at once; 0 is "unlimited"

VARIABLES phase,   \* phase[c]: how far call c has got
          logged   \* the calls whose audit line is written

contractVars == <<phase, logged>>

Phases == {"idle", "pending", "inService", "answered"}

InService == {c \in Calls : phase[c] = "inService"}

Init ==
    /\ phase = [c \in Calls |-> "idle"]
    /\ logged = {}

Move(c, p) == phase' = [phase EXCEPT ![c] = p]

\* A client makes a call.
Arrive(c) ==
    /\ phase[c] = "idle"
    /\ Move(c, "pending")
    /\ UNCHANGED logged

\* The server lets a call's handler run, if the limit leaves room for it.
Admit(c) ==
    /\ phase[c] = "pending"
    /\ c \notin logged
    /\ Limit > 0 => Cardinality(InService) < Limit
    /\ Move(c, "inService")
    /\ UNCHANGED logged

\* The audit line of a call is written, once.
Log(c) ==
    /\ phase[c] \in {"pending", "inService"}
    /\ c \notin logged
    /\ logged' = logged \cup {c}
    /\ UNCHANGED phase

\* The answer leaves; a pending call that is answered was turned away.
Answer(c) ==
    /\ phase[c] \in {"pending", "inService"}
    /\ c \in logged
    /\ Move(c, "answered")
    /\ UNCHANGED logged

Next == \E c \in Calls : Arrive(c) \/ Admit(c) \/ Log(c) \/ Answer(c)

Spec == Init /\ [][Next]_contractVars

\* Every call that arrives is logged and answered.
Promise == \A c \in Calls : WF_contractVars(Log(c)) /\ WF_contractVars(Answer(c))

FairSpec == Spec /\ Promise
====
