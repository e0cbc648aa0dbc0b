------------------------------ MODULE PortLease ------------------------------
(***************************************************************************)
(* What the port allocation of the AFTR daemon promises for each dynamic   *)
(* port of each pool, whatever the bookkeeping: the port is free, reserved *)
(* by one tunnel, used by one flow of one tunnel, or on hold until a date. *)
(* A port that was used is on hold for HoldTime before anyone can have it  *)
(* again; a port that was only reserved may go back at once.               *)
(*                                                                         *)
(* One step of the daemon (an expiry, the deletion of a tunnel) may move   *)
(* many ports: each follows its own automaton.                             *)
(***************************************************************************)
EXTENDS Naturals

CONSTANTS
    Res,        \* the ports, each with its pool and protocol
    Owner,      \* the tunnels
    Flow,       \* the flows of a tunnel
    HoldTime    \* hold_lifetime

VARIABLES
    lease,      \* [Res -> Lease]
    now         \* the clock

Free == [st |-> "free"]
Reserved(o) == [st |-> "reserved", owner |-> o]
Used(o, f) == [st |-> "used", owner |-> o, flow |-> f]
OnHold(due) == [st |-> "hold", due |-> due]

LInit ==
    /\ lease = [r \in Res |-> Free]
    /\ now \in Nat

\* the automaton of one port: l becomes m
Moves(l, m) ==
    \/ m = l
    \/ /\ l = Free
       /\ \E o \in Owner : m = Reserved(o) \/ \E f \in Flow : m = Used(o, f)
    \/ /\ l = Free
       /\ m = OnHold(now + HoldTime)
    \/ \E o \in Owner :
           /\ l = Reserved(o)
           /\ \/ m = Free
              \/ m = OnHold(now + HoldTime)
              \/ \E f \in Flow : m = Used(o, f)
    \/ /\ \E o \in Owner, f \in Flow : l = Used(o, f)
       /\ m = OnHold(now + HoldTime)
    \/ /\ \E due \in 0..now : l = OnHold(due)
       /\ m = Free

LNext ==
    /\ now' \in Nat /\ now' >= now
    /\ lease' = [r \in Res |-> lease'[r]]
    /\ \A r \in Res : Moves(lease[r], lease'[r])

LSpec == LInit /\ [][LNext]_<<lease, now>>
=============================================================================
