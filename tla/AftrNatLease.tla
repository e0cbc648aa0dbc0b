---------------------------- MODULE AftrNatLease ----------------------------
(***************************************************************************)
(* The NAT core implements PortLease: the lease of a port is read off the  *)
(* free maps, the buckets, the bindings and the on-hold queues.            *)
(***************************************************************************)
EXTENDS AftrNat

LeaseRes == Key \X DynPort

LeaseFlow == (Src \cup (Pool \X Port)) \X (Dst \cup {AllDst})

Binder(k, q) == CHOOSE n \in nats : InRange(n, k) /\ n.port = q
Drawer(k, q) == CHOOSE t \in Tunnel : q \in BuckPorts(t, k)
Place(k, q)  == CHOOSE i \in DOMAIN helds[k] : helds[k][i].port = q

LeaseOf(k, q) ==
    CASE q \in BoundPorts(k) ->
           [st |-> "used", owner |-> Binder(k, q).tun,
            flow |-> <<Binder(k, q).src, Binder(k, q).dst>>]
      [] q \in HeldPorts(k) \ BoundPorts(k) ->
           [st |-> "hold", due |-> helds[k][Place(k, q)].timeout]
      [] q \in freebm[k] \ (BoundPorts(k) \cup HeldPorts(k)) ->
           [st |-> "free"]
      [] OTHER -> [st |-> "reserved", owner |-> Drawer(k, q)]

Lease ==
    INSTANCE PortLease WITH
        Res <- LeaseRes, Owner <- Tunnel, Flow <- LeaseFlow, HoldTime <- Hold,
        lease <- [r \in LeaseRes |-> LeaseOf(r[1], r[2])], now <- seconds

\* Every behaviour of the NAT core is one of the port leases: the steps of
\* new_nat(), del_nat(), del_tunnel() and free_heldnats() move each port as
\* the abstract automaton allows.
ImplementsLease == Lease!LSpec
=============================================================================
