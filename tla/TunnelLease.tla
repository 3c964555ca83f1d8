---- MODULE TunnelLease ----
(***************************************************************************)
(* What port_forward promises about its slots and tunnels, with nothing    *)
(* said of goroutines, channels and timers: at most Limit leases are out;  *)
(* who is turned away met a full house; a tunnel comes up under its lease  *)
(* or, late, after it was told to stop; a stop is sent once, and only by   *)
(* the lease that still stands; and a lease is given back once, never      *)
(* leaving a tunnel behind that nobody told to stop.                       *)
(***************************************************************************)
EXTENDS Naturals, FiniteSets

CONSTANTS Calls,   \* the calls clients may make
          Limit    \* how many leases may be out at once

VARIABLES lease,    \* lease[c]: "none", "denied", "held" or "returned"
          tunnel,   \* tunnel[c]: "none", "up" or "down"
          stopped   \* the calls whose tunnel was told to stop

leaseVars == <<lease, tunnel, stopped>>

Held == {c \in Calls : lease[c] = "held"}

Init ==
    /\ lease = [c \in Calls |-> "none"]
    /\ tunnel = [c \in Calls |-> "none"]
    /\ stopped = {}

\* A call gets a lease, if the limit leaves room for it.
Grant(c) ==
    /\ lease[c] = "none"
    /\ Cardinality(Held) < Limit
    /\ lease' = [lease EXCEPT ![c] = "held"]
    /\ UNCHANGED <<tunnel, stopped>>

\* A call is turned away, and only when every lease is out.
Deny(c) ==
    /\ lease[c] = "none"
    /\ Cardinality(Held) = Limit
    /\ lease' = [lease EXCEPT ![c] = "denied"]
    /\ UNCHANGED <<tunnel, stopped>>

\* A tunnel comes up under its lease, or late, after it was told to stop.
Up(c) ==
    /\ tunnel[c] = "none"
    /\ lease[c] = "held" \/ c \in stopped
    /\ tunnel' = [tunnel EXCEPT ![c] = "up"]
    /\ UNCHANGED <<lease, stopped>>

\* A tunnel ends, or never came up.
Down(c) ==
    /\ tunnel[c] # "down"
    /\ lease[c] = "held" \/ c \in stopped
    /\ tunnel' = [tunnel EXCEPT ![c] = "down"]
    /\ UNCHANGED <<lease, stopped>>

\* The holder of a lease tells its tunnel to stop.
TellToStop(c) ==
    /\ lease[c] = "held"
    /\ c \notin stopped
    /\ stopped' = stopped \cup {c}
    /\ UNCHANGED <<lease, tunnel>>

\* A lease is given back once its tunnel was told to stop, or is not up.
Return(c) ==
    /\ lease[c] = "held"
    /\ c \in stopped \/ tunnel[c] # "up"
    /\ lease' = [lease EXCEPT ![c] = "returned"]
    /\ UNCHANGED <<tunnel, stopped>>

Next ==
    \E c \in Calls :
        Grant(c) \/ Deny(c) \/ Up(c) \/ Down(c) \/ TellToStop(c) \/ Return(c)

Spec == Init /\ [][Next]_leaseVars
====
