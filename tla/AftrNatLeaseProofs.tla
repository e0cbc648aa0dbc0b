-------------------------- MODULE AftrNatLeaseProofs --------------------------
(***************************************************************************)
(* AftrNat implements PortLease, for any pools, ports, tunnels and         *)
(* lifetimes: each port follows the automaton of a lease.  The proof rests *)
(* on the conservation of the ports (IInv), which says what the lease of a *)
(* port is, on their quarantine, and on where the uses of a step come from.*)
(***************************************************************************)
EXTENDS AftrNatLease, AftrNatTimeProofs

USE NatAssumption

(***************************************************************************)
(* The lease of a port, by its use.                                        *)
(***************************************************************************)
LeaseRead ==
    \A k \in Key, q \in DynPort :
        /\ q \in freebm[k] => LeaseOf(k, q) = Lease!Free
        /\ \A t \in Tunnel : q \in BuckPorts(t, k) => LeaseOf(k, q) = Lease!Reserved(t)
        /\ \A n \in nats : InRange(n, k) /\ n.port = q
               => LeaseOf(k, q) = Lease!Used(n.tun, <<n.src, n.dst>>)
        /\ \A due \in DueFor(k, q) : LeaseOf(k, q) = Lease!OnHold(due)

\* The CHOOSEs of LeaseOf have one possible value: a port has one use.
LEMMA LeaseIs == IInv => LeaseRead
<1> SUFFICES ASSUME IInv, NEW k \in Key, NEW q \in DynPort
             PROVE  /\ q \in freebm[k] => LeaseOf(k, q) = Lease!Free
                    /\ \A t \in Tunnel : q \in BuckPorts(t, k)
                           => LeaseOf(k, q) = Lease!Reserved(t)
                    /\ \A n \in nats : InRange(n, k) /\ n.port = q
                           => LeaseOf(k, q) = Lease!Used(n.tun, <<n.src, n.dst>>)
                    /\ \A due \in DueFor(k, q) : LeaseOf(k, q) = Lease!OnHold(due)
  BY DEF LeaseRead
<1>1. /\ freebm[k] \cap BoundPorts(k) = {} /\ freebm[k] \cap HeldPorts(k) = {}
      /\ BoundPorts(k) \cap HeldPorts(k) = {}
      /\ \A t \in Tunnel :
             /\ BuckPorts(t, k) \cap freebm[k] = {}
             /\ BuckPorts(t, k) \cap BoundPorts(k) = {}
             /\ BuckPorts(t, k) \cap HeldPorts(k) = {}
             /\ \A u \in Tunnel \ {t} : BuckPorts(t, k) \cap BuckPorts(u, k) = {}
      /\ \A n, m \in nats :
             InRange(n, k) /\ InRange(m, k) /\ n.port = m.port => n = m
      /\ Distinct(helds[k])
  BY ConservedIs DEF OneUse
<1>2. ASSUME q \in freebm[k] PROVE LeaseOf(k, q) = Lease!Free
  BY <1>1, <1>2 DEF LeaseOf, Lease!Free
<1>3. ASSUME NEW t \in Tunnel, q \in BuckPorts(t, k)
      PROVE  LeaseOf(k, q) = Lease!Reserved(t)
  <2>1. Drawer(k, q) = t
    BY <1>1, <1>3 DEF Drawer
  <2>2. q \notin BoundPorts(k) /\ q \notin HeldPorts(k) /\ q \notin freebm[k]
    BY <1>1, <1>3
  <2> QED
    BY <2>1, <2>2 DEF LeaseOf, Lease!Reserved
<1>4. ASSUME NEW n \in nats, InRange(n, k), n.port = q
      PROVE  LeaseOf(k, q) = Lease!Used(n.tun, <<n.src, n.dst>>)
  <2>1. Binder(k, q) = n
    BY <1>1, <1>4 DEF Binder
  <2>2. q \in BoundPorts(k)
    BY <1>4 DEF BoundPorts
  <2> QED
    BY <2>1, <2>2 DEF LeaseOf, Lease!Used
<1>5. ASSUME NEW due \in DueFor(k, q) PROVE LeaseOf(k, q) = Lease!OnHold(due)
  <2>1. PICK i \in DOMAIN helds[k] : helds[k][i].port = q /\ helds[k][i].timeout = due
    BY <1>5 DEF DueFor, DueIn
  <2>2. Place(k, q) = i
    BY <1>1, <2>1 DEF Place, Distinct
  <2>3. q \in HeldPorts(k)
    BY <2>1 DEF HeldPorts, PortsOf
  <2>4. q \notin BoundPorts(k)
    BY <1>1, <2>3
  <2> QED
    BY <2>1, <2>2, <2>3, <2>4 DEF LeaseOf, Lease!OnHold
<1> QED
  BY <1>2, <1>3, <1>4, <1>5

(***************************************************************************)
(* Where the uses of a step come from.                                     *)
(***************************************************************************)

\* A port in a bucket was there, or free; a binding is one there was, or has
\* a port that was free or in a bucket of its tunnel; a deadline is one there
\* was, or the hold lifetime from now.
OriginStep ==
    \A k \in Key :
        /\ \A u \in Tunnel : BuckPorts(u, k)' \subseteq BuckPorts(u, k) \cup freebm[k]
        /\ \A m \in nats' : InRange(m, k) =>
               \/ \E n \in nats : SameBinding(m, n)
               \/ m.tun \in Tunnel /\ m.port \in freebm[k] \cup BuckPorts(m.tun, k)
        /\ \A q \in DynPort : DueFor(k, q)' \subseteq DueFor(k, q) \cup {seconds + Hold}

\* No port is drawn and no queue changes.
LEMMA StillOrigin ==
    ASSUME helds' = helds, \A k \in Key : Buckets(k)' = Buckets(k),
           \A m \in nats' : m.port \in DynPort => \E n \in nats : SameBinding(m, n)
    PROVE  OriginStep
<1>1. \A k \in Key, u \in Tunnel : BuckPorts(u, k)' = BuckPorts(u, k)
  <2> SUFFICES ASSUME NEW k \in Key, NEW u \in Tunnel
               PROVE  BuckPorts(u, k)' = BuckPorts(u, k)
    OBVIOUS
  <2>1. Buckets(k)[u] = BuckPorts(u, k) /\ (Buckets(k)')[u] = BuckPorts(u, k)'
    BY DEF Buckets
  <2> QED
    BY <2>1
<1>2. \A k, q : DueFor(k, q)' = DueFor(k, q)
  BY DEF DueFor
<1> QED
  BY <1>1, <1>2 DEF OriginStep, InRange

\* Bindings are released, from queues whose first entries may have gone.
LEMMA ReleaseOrigin ==
    ASSUME IInv, NEW S \in SUBSET nats, nats' = nats \ S, srcidx' = srcidx,
           \A s \in Slot : bucket'[s] \subseteq bucket[s],
           \A k \in Key : \E r \in Seq(Held) :
               /\ helds'[k] = Requeue(r, S, k)
               /\ \A q \in DynPort : DueIn(r, q) \subseteq DueFor(k, q)
    PROVE  OriginStep
<1> SUFFICES ASSUME NEW k \in Key
             PROVE  /\ \A u \in Tunnel : BuckPorts(u, k)' \subseteq BuckPorts(u, k)
                    /\ \A m \in nats' : SameBinding(m, m) /\ m \in nats
                    /\ \A q \in DynPort :
                           DueFor(k, q)' \subseteq DueFor(k, q) \cup {seconds + Hold}
  BY DEF OriginStep
<1>1. \A u \in Tunnel : BuckPorts(u, k)' \subseteq BuckPorts(u, k)
  BY DEF BuckPorts, Slot, Key
<1>2. ASSUME NEW q \in DynPort
      PROVE  DueFor(k, q)' \subseteq DueFor(k, q) \cup {seconds + Hold}
  <2>1. PICK r \in Seq(Held) :
            helds'[k] = Requeue(r, S, k) /\ DueIn(r, q) \subseteq DueFor(k, q)
    OBVIOUS
  <2>2. IsFiniteSet(S) /\ S \subseteq Binding /\ seconds \in Nat /\ NatAssumption
    BY FS_Subset, NatAssumption DEF IInv, TypeOK
  <2>3. DueIn(Requeue(r, S, k), q) \subseteq DueIn(r, q) \cup {seconds + Hold}
    BY <2>2, DueRequeue
  <2>4. DueFor(k, q)' = DueIn(helds'[k], q)
    BY DEF DueFor, DueIn
  <2> QED
    BY <2>1, <2>3, <2>4
<1> QED
  BY <1>1, <1>2 DEF SameBinding

\* What Draw leaves in the buckets, and where it takes the port from.
LEMMA DrawOrigin ==
    ASSUME TypeOK, NEW t \in Tunnel, NEW pr \in Proto, NEW q0 \in DynPort,
           Draw(t, pr, q0), UNCHANGED srcidx, NEW k \in Key
    PROVE  /\ \A u \in Tunnel : BuckPorts(u, k)' \subseteq BuckPorts(u, k) \cup freebm[k]
           /\ k = <<srcidx[t], pr>> => q0 \in freebm[k] \cup BuckPorts(t, k)
<1> DEFINE k0 == <<srcidx[t], pr>>
           s0 == <<t, pr>>
<1>1. k0 \in Key /\ s0 \in Slot /\ k = <<k[1], k[2]>> /\ k[1] \in Pool /\ k[2] \in Proto
  BY DEF TypeOK, Key, Slot
<1>2. /\ q0 \in bucket[s0] \cup freebm[k0]
      /\ bucket'[s0] \subseteq bucket[s0] \cup freebm[k0]
      /\ \A s \in Slot \ {s0} : bucket'[s] = bucket[s]
  BY <1>1 DEF Draw, TypeOK
<1>3. ASSUME NEW u \in Tunnel, NEW p \in BuckPorts(u, k)'
      PROVE  p \in BuckPorts(u, k) \cup freebm[k]
  <2>1. srcidx[u] = k[1] /\ p \in bucket'[<<u, k[2]>>] /\ <<u, k[2]>> \in Slot
    BY <1>1, <1>3 DEF BuckPorts, Slot
  <2>2. CASE <<u, k[2]>> = s0
    <3>1. u = t /\ k = k0
      BY <1>1, <2>1, <2>2
    <3> QED
      BY <1>2, <2>1, <2>2, <3>1 DEF BuckPorts
  <2>3. CASE <<u, k[2]>> # s0
    BY <1>2, <2>1, <2>3 DEF BuckPorts
  <2> QED
    BY <2>2, <2>3
<1>4. k = k0 => q0 \in freebm[k] \cup BuckPorts(t, k)
  BY <1>2 DEF BuckPorts
<1> QED
  BY <1>3, <1>4

\* A port drawn is bound by the tunnel, or goes on hold at once.
LEMMA NewOrigin ==
    ASSUME IInv, NEW t \in Tunnel, NEW pr \in Proto, NEW src \in Src, NEW d \in Dst,
           NEW q0 \in DynPort,
           \/ \E fl \in Flags(pr) : NatInNew(t, pr, src, d, q0, fl)
           \/ NatInHeapFull(t, pr, src, d, q0)
    PROVE  OriginStep
<1> DEFINE k0 == <<srcidx[t], pr>>
           h == [port |-> q0, timeout |-> seconds + Hold]
<1>1. TypeOK /\ Draw(t, pr, q0) /\ UNCHANGED srcidx /\ k0 \in Key
  BY DEF IInv, NatInNew, NatInHeapFull, tunVars, TypeOK, Key
<1>2. \A k \in Key :
          /\ \A u \in Tunnel : BuckPorts(u, k)' \subseteq BuckPorts(u, k) \cup freebm[k]
          /\ k = k0 => q0 \in freebm[k] \cup BuckPorts(t, k)
  BY <1>1, DrawOrigin
<1>3. ASSUME NEW k \in Key, NEW m \in nats', InRange(m, k)
      PROVE  \/ \E n \in nats : SameBinding(m, n)
             \/ m.tun \in Tunnel /\ m.port \in freebm[k] \cup BuckPorts(m.tun, k)
  <2>1. CASE m \in nats
    BY <2>1 DEF SameBinding
  <2>2. CASE m \notin nats
    <3>1. PICK fl \in Flags(pr) : m = RefreshIn(Dynamic(t, pr, src, d, q0), fl)
      BY <1>3, <2>2 DEF NatInNew, NatInHeapFull
    <3>2. m.tun = t /\ m.port = q0 /\ m.pool = srcidx[t] /\ m.pr = pr
      BY <1>1, <3>1, DynamicKeeps
    <3>3. k = <<k[1], k[2]>> /\ k[1] = m.pool /\ k[2] = m.pr
      BY <1>3 DEF InRange, Key
    <3>4. k = k0
      BY <3>2, <3>3
    <3> QED
      BY <1>2, <3>2, <3>4
  <2> QED
    BY <2>1, <2>2
<1>4. ASSUME NEW k \in Key, NEW q \in DynPort
      PROVE  DueFor(k, q)' \subseteq DueFor(k, q) \cup {seconds + Hold}
  <2>1. DueFor(k, q)' = DueIn(helds'[k], q) /\ DueFor(k, q) = DueIn(helds[k], q)
    BY DEF DueFor, DueIn
  <2>2. CASE helds'[k] = helds[k]
    BY <2>1, <2>2
  <2>3. CASE helds'[k] # helds[k]
    <3> DEFINE hs == <<h>>
    <3>1. h \in Held /\ helds[k] \in Seq(Held) /\ h.timeout = seconds + Hold
      <4>1. seconds + Hold \in Nat
        BY <1>1 DEF TypeOK, NatAssumption
      <4> QED
        BY <1>1, <4>1 DEF Held, TypeOK
    <3> HIDE DEF h
    <3>2. k = k0 /\ helds'[k] = Append(helds[k], h)
      BY <1>1, <2>3 DEF NatInNew, NatInHeapFull, TypeOK, h
    <3>3. hs \in Seq(Held) /\ DOMAIN hs = {1} /\ hs[1] = h /\ helds'[k] = helds[k] \o hs
      BY <3>1, <3>2
    <3> HIDE DEF hs
    <3>4. DueIn(hs, q) \subseteq {seconds + Hold}
      BY <3>1, <3>3 DEF DueIn
    <3>5. DueIn(helds[k] \o hs, q) = DueIn(helds[k], q) \cup DueIn(hs, q)
      BY <3>1, <3>3, DueConcat
    <3> QED
      BY <2>1, <3>3, <3>4, <3>5
  <2> QED
    BY <2>2, <2>3
<1> QED
  BY <1>2, <1>3, <1>4 DEF OriginStep

\* Expiry: the queues lose their first entries and get those of the bindings.
LEMMA ExpireOrigin ==
    ASSUME IInv, Expire
    PROVE  OriginStep
<1>1. PICK cut :
           /\ \A k \in Key : cut[k] \in UNION {0..Len(helds[kk]) : kk \in Key}
           /\ \A k \in Key : FreedPrefix(helds[k], cut[k])
           /\ helds' = [k \in Key |->
                  Requeue(SubSeq(helds[k], cut[k] + 1, Len(helds[k])), Expired, k)]
  BY DEF Expire
<1>2. Expired \in SUBSET nats /\ nats' = nats \ Expired /\ srcidx' = srcidx
      /\ bucket' = bucket /\ TypeOK
  BY DEF Expire, Expired, Release, tunVars, IInv
<1>3. ASSUME NEW k \in Key
      PROVE  \E r \in Seq(Held) :
                 /\ helds'[k] = Requeue(r, Expired, k)
                 /\ \A q \in DynPort : DueIn(r, q) \subseteq DueFor(k, q)
  <2> DEFINE r == SubSeq(helds[k], cut[k] + 1, Len(helds[k]))
  <2>1. helds[k] \in Seq(Held) /\ Distinct(helds[k]) /\ seconds \in Nat
    BY <1>2 DEF IInv, Conserved, TypeOK
  <2>2. cut[k] \in 0..Len(helds[k]) /\ FreedPrefix(helds[k], cut[k])
    <3>1. PICK j \in Key : cut[k] \in 0..Len(helds[j])
      BY <1>1
    <3>2. Len(helds[j]) \in Nat /\ Len(helds[k]) \in Nat
      <4>1. helds[j] \in Seq(Held)
        BY <1>2 DEF TypeOK
      <4> QED
        BY <2>1, <4>1, LenProperties
    <3>3. cut[k] \in Nat
      BY <3>1, <3>2
    <3>4. cut[k] <= Len(helds[k])
      BY <1>1 DEF FreedPrefix
    <3> QED
      BY <1>1, <3>2, <3>3, <3>4
  <2>3. r \in Seq(Held) /\ PortsOf(helds[k]) = PrefixPorts(helds[k], cut[k]) \cup PortsOf(r)
        /\ PrefixPorts(helds[k], cut[k]) \cap PortsOf(r) = {}
    BY <2>1, <2>2, CutPorts
  <2>4. ASSUME NEW q \in DynPort PROVE DueIn(r, q) \subseteq DueFor(k, q)
    <3>1. CASE q \in PrefixPorts(helds[k], cut[k])
      <4>1. DueIn(r, q) = {}
        BY <2>3, <3>1, DueWhenHeld
      <4> QED
        BY <4>1
    <3>2. CASE q \notin PrefixPorts(helds[k], cut[k])
      BY <2>1, <2>2, <3>2, DueCut DEF DueFor
    <3> QED
      BY <3>1, <3>2
  <2>5. helds'[k] = Requeue(r, Expired, k)
    BY <1>1
  <2> HIDE DEF r
  <2> QED
    BY <2>3, <2>4, <2>5
<1>4. \A s \in Slot : bucket'[s] \subseteq bucket[s]
  BY <1>2
<1> HIDE DEF Expired
<1> QED
  BY <1>2, <1>3, <1>4, ReleaseOrigin

\* Every step of the daemon takes its ports from the free maps and from the
\* buckets, and its deadlines from the hold lifetime.
LEMMA Origins == IInv /\ [Next]_vars => OriginStep
<1> SUFFICES ASSUME IInv, [Next]_vars PROVE OriginStep
  OBVIOUS
<1>0. TypeOK /\ Deserted
  BY DEF IInv
<1>1. ASSUME UNCHANGED <<helds, bucket, srcidx>>,
             \A m \in nats' : m.port \in DynPort => \E n \in nats : SameBinding(m, n)
      PROVE  OriginStep
  <2>1. \A k \in Key : Buckets(k)' = Buckets(k)
    BY <1>1 DEF Buckets, BuckPorts
  <2> QED
    BY <1>1, <2>1, StillOrigin
<1>2. ASSUME nats' = nats, UNCHANGED <<helds, bucket, srcidx>>
      PROVE  OriginStep
  BY <1>1, <1>2 DEF SameBinding
<1>3. ASSUME NEW n \in nats, NEW m, SameBinding(m, n), Replace(n, m),
             UNCHANGED <<helds, bucket, srcidx>>
      PROVE  OriginStep
  BY <1>1, <1>3 DEF Replace, SameBinding
<1>4. ASSUME NEW S \in SUBSET nats, nats' = nats \ S, srcidx' = srcidx,
             \A s \in Slot : bucket'[s] \subseteq bucket[s],
             helds' = [k \in Key |-> Requeue(helds[k], S, k)]
      PROVE  OriginStep
  <2>1. \A k \in Key : helds[k] \in Seq(Held)
    BY <1>0 DEF TypeOK
  <2>2. \A k \in Key : helds'[k] = Requeue(helds[k], S, k)
                       /\ \A q \in DynPort : DueIn(helds[k], q) \subseteq DueFor(k, q)
    BY <1>4 DEF DueFor
  <2>3. \A k \in Key : \E r \in Seq(Held) :
            /\ helds'[k] = Requeue(r, S, k)
            /\ \A q \in DynPort : DueIn(r, q) \subseteq DueFor(k, q)
    BY <2>1, <2>2
  <2> QED
    BY <1>4, <2>3, ReleaseOrigin
<1>5. ASSUME NEW t \in Tunnel, DelTunnel(t)
      PROVE  OriginStep
  <2> DEFINE S == {n \in nats : n.tun = t}
  <2>1. S \in SUBSET nats
    OBVIOUS
  <2>2. nats' = nats \ S /\ helds' = [k \in Key |-> Requeue(helds[k], S, k)]
        /\ srcidx' = srcidx /\ \A s \in Slot : bucket'[s] \subseteq bucket[s]
    BY <1>5 DEF DelTunnel, Release
  <2> HIDE DEF S
  <2> QED
    BY <1>4, <2>1, <2>2
<1>6. ASSUME NEW n \in nats, DelPermanent(n)
      PROVE  OriginStep
  <2>1. nats' = nats \ {n} /\ helds' = [k \in Key |-> Requeue(helds[k], {n}, k)]
        /\ srcidx' = srcidx /\ bucket' = bucket
    BY <1>6 DEF DelPermanent, Release, tunVars
  <2> QED
    BY <1>4, <2>1
<1>7. ASSUME NEW n \in nats, NEW fl, NatInHit(n, fl) \/ NatOut(n, fl)
      PROVE  OriginStep
  <2>1. SameBinding(RefreshIn(n, fl), n)
        /\ \A m \in {n, Extend(n, n.lifetime)} : SameBinding(RefreshOut(m, fl), n)
    BY <1>0, RefreshBoth DEF TypeOK
  <2> QED
    BY <1>3, <1>7, <2>1 DEF NatInHit, NatOut, tunVars
<1>8. ASSUME NEW n \in nats, TooBigOut(n) \/ NatIcmpOut(n)
      PROVE  OriginStep
  <2>1. n.lifetime \in Nat /\ Echo \in Nat /\ n \in Binding /\ seconds \in Nat
    BY <1>0 DEF TypeOK, Binding, NatAssumption
  <2>2. SameBinding(Extend(n, n.lifetime), n) /\ SameBinding(Extend(n, Echo), n)
    BY <2>1, ExtendKeeps
  <2> QED
    BY <1>3, <1>8, <2>2 DEF TooBigOut, NatIcmpOut, tunVars
<1>9. ASSUME NEW t \in Tunnel, NEW pr \in Proto, NEW src \in Src, NEW d \in Dst,
             NatInOverRate(t, pr, src, d) \/ NatInNoPort(t, pr, src, d)
      PROVE  OriginStep
  BY <1>2, <1>9 DEF NatInOverRate, NatInNoPort, portVars, tunVars
<1>10. ASSUME NEW t \in Tunnel, NEW p \in Pool, t \notin tunnels, NewTunnel(t, p),
              UNCHANGED <<helds, bucket>>,
              \A m \in nats' : m.port \in DynPort => \E n \in nats : SameBinding(m, n)
       PROVE  OriginStep
  <2>1. \A k \in Key : Buckets(k)' = Buckets(k)
    BY <1>0, <1>10, NewTunnelBuckets
  <2> QED
    BY <1>10, <2>1, StillOrigin
<1>11. ASSUME NEW t \in Tunnel, NEW p \in Pool, AddTunnel(t, p)
       PROVE  OriginStep
  <2>1. \A m \in nats' : \E n \in nats : SameBinding(m, n)
    BY <1>11 DEF AddTunnel, portVars, SameBinding
  <2> QED
    BY <1>10, <1>11, <2>1 DEF AddTunnel, portVars
<1>12. ASSUME NEW b, b.tun \in Tunnel, NEW p2 \in Pool, AddPermanent(b, p2)
       PROVE  OriginStep
  <2>1. \A m \in nats' : m.port \in DynPort => \E n \in nats : SameBinding(m, n)
    BY <1>12 DEF AddPermanent, SameBinding
  <2>2. CASE b.tun \in tunnels
    BY <1>1, <1>12, <2>1, <2>2 DEF AddPermanent, tunVars
  <2>3. CASE b.tun \notin tunnels
    BY <1>10, <1>12, <2>1, <2>3 DEF AddPermanent
  <2> QED
    BY <2>2, <2>3
<1>13. CASE Select \/ CommandsDone \/ SameSecond \/ UNCHANGED vars
  BY <1>2, <1>13 DEF Select, CommandsDone, SameSecond, vars, portVars, tunVars
<1>14. CASE Loop
  BY <1>13, <1>14, ExpireOrigin DEF Loop
<1>15. CASE Command
  BY <1>5, <1>6, <1>11, <1>12, <1>15 DEF Command, AddSnat, AddPrr, Permanent
<1>16. CASE Traffic
  BY <1>7, <1>8, <1>9, <1>16, NewOrigin DEF Traffic, Hit
<1> QED
  BY <1>13, <1>14, <1>15, <1>16 DEF Next

(***************************************************************************)
(* Each port follows the automaton of a lease.                             *)
(***************************************************************************)

\* What each use of a port excludes, and that a port has one.
UsesSplit ==
    \A k \in Key, q \in DynPort :
        /\ q \in freebm[k] => /\ q \notin BoundPorts(k) /\ DueFor(k, q) = {}
                              /\ \A t \in Tunnel : q \notin BuckPorts(t, k)
        /\ q \in BoundPorts(k) => /\ DueFor(k, q) = {}
                                  /\ \A t \in Tunnel : q \notin BuckPorts(t, k)
        /\ \A t \in Tunnel : q \in BuckPorts(t, k) =>
               /\ DueFor(k, q) = {}
               /\ \A u \in Tunnel : q \in BuckPorts(u, k) => u = t
        /\ \A n, m \in nats :
               InRange(n, k) /\ InRange(m, k) /\ n.port = q /\ m.port = q => n = m
        /\ DueFor(k, q) = {} =>
               \/ q \in freebm[k]
               \/ \E n \in nats : InRange(n, k) /\ n.port = q
               \/ \E t \in Tunnel : q \in BuckPorts(t, k)
        /\ DueFor(k, q) \subseteq Nat

LEMMA UsesApart == IInv => UsesSplit
<1> SUFFICES ASSUME IInv, NEW k \in Key, NEW q \in DynPort
             PROVE  /\ q \in freebm[k] => /\ q \notin BoundPorts(k) /\ DueFor(k, q) = {}
                                          /\ \A t \in Tunnel : q \notin BuckPorts(t, k)
                    /\ q \in BoundPorts(k) => /\ DueFor(k, q) = {}
                                              /\ \A t \in Tunnel : q \notin BuckPorts(t, k)
                    /\ \A t \in Tunnel : q \in BuckPorts(t, k) =>
                           /\ DueFor(k, q) = {}
                           /\ \A u \in Tunnel : q \in BuckPorts(u, k) => u = t
                    /\ \A n, m \in nats : InRange(n, k) /\ InRange(m, k)
                                          /\ n.port = q /\ m.port = q => n = m
                    /\ DueFor(k, q) = {} =>
                           \/ q \in freebm[k]
                           \/ \E n \in nats : InRange(n, k) /\ n.port = q
                           \/ \E t \in Tunnel : q \in BuckPorts(t, k)
                    /\ DueFor(k, q) \subseteq Nat
  BY DEF UsesSplit
<1>1. OneUse /\ NoneLost
  BY ConservedIs
<1>2. DueFor(k, q) = {} <=> q \notin HeldPorts(k)
  BY DEF DueFor, DueIn, HeldPorts, PortsOf
<1>3. q \in BoundPorts(k) <=> \E n \in nats : InRange(n, k) /\ n.port = q
  BY DEF BoundPorts
<1>4. DueFor(k, q) \subseteq Nat
  <2>1. helds[k] \in Seq(Held)
    BY DEF IInv, TypeOK
  <2>2. \A i \in DOMAIN helds[k] : helds[k][i] \in Held
    BY <2>1
  <2> QED
    BY <2>2 DEF DueFor, DueIn, Held
<1> QED
  BY <1>1, <1>2, <1>3, <1>4 DEF OneUse, NoneLost

\* One port in one step.
LEMMA PortMoves ==
    ASSUME TypeOK, TypeOK', LeaseRead, LeaseRead', UsesSplit, UsesSplit',
           OriginStep, QuarantineStep, NEW k \in Key, NEW q \in DynPort
    PROVE  Lease!Moves(LeaseOf(k, q), LeaseOf(k, q)')
<1> DEFINE l == LeaseOf(k, q)
           m == LeaseOf(k, q)'
           new == seconds + Hold
<1>1. /\ q \in freebm[k] => l = Lease!Free
      /\ \A t \in Tunnel : q \in BuckPorts(t, k) => l = Lease!Reserved(t)
      /\ \A n \in nats : InRange(n, k) /\ n.port = q
             => l = Lease!Used(n.tun, <<n.src, n.dst>>)
      /\ \A due \in DueFor(k, q) : l = Lease!OnHold(due)
  BY DEF LeaseRead
<1>2. /\ q \in freebm'[k] => m = Lease!Free
      /\ \A t \in Tunnel : q \in BuckPorts(t, k)' => m = Lease!Reserved(t)
      /\ \A n \in nats' : InRange(n, k) /\ n.port = q
             => m = Lease!Used(n.tun, <<n.src, n.dst>>)
      /\ \A due \in DueFor(k, q)' : m = Lease!OnHold(due)
  BY DEF LeaseRead
<1>3. /\ q \in freebm[k] => /\ q \notin BoundPorts(k) /\ DueFor(k, q) = {}
                            /\ \A t \in Tunnel : q \notin BuckPorts(t, k)
      /\ q \in BoundPorts(k) => /\ DueFor(k, q) = {}
                                /\ \A t \in Tunnel : q \notin BuckPorts(t, k)
      /\ \A t \in Tunnel : q \in BuckPorts(t, k) =>
             /\ DueFor(k, q) = {}
             /\ \A u \in Tunnel : q \in BuckPorts(u, k) => u = t
      /\ \A n, b \in nats :
             InRange(n, k) /\ InRange(b, k) /\ n.port = q /\ b.port = q => n = b
      /\ DueFor(k, q) = {} =>
             \/ q \in freebm[k]
             \/ \E n \in nats : InRange(n, k) /\ n.port = q
             \/ \E t \in Tunnel : q \in BuckPorts(t, k)
      /\ DueFor(k, q) \subseteq Nat
  BY DEF UsesSplit
<1>4. /\ q \in freebm'[k] => q \notin BoundPorts(k)' /\ DueFor(k, q)' = {}
      /\ q \in BoundPorts(k)' => DueFor(k, q)' = {}
      /\ \A t \in Tunnel : q \in BuckPorts(t, k)' =>
             q \notin BoundPorts(k)' /\ DueFor(k, q)' = {}
      /\ DueFor(k, q)' = {} =>
             \/ q \in freebm'[k]
             \/ \E n \in nats' : InRange(n, k) /\ n.port = q
             \/ \E t \in Tunnel : q \in BuckPorts(t, k)'
  BY DEF UsesSplit
<1>5. /\ \A u \in Tunnel : q \in BuckPorts(u, k)' => q \in BuckPorts(u, k) \cup freebm[k]
      /\ \A b \in nats' : InRange(b, k) /\ b.port = q =>
             \/ \E n \in nats : SameBinding(b, n)
             \/ b.tun \in Tunnel /\ q \in freebm[k] \cup BuckPorts(b.tun, k)
      /\ \A due \in DueFor(k, q)' : due \in DueFor(k, q) \/ due = new
  BY DEF OriginStep
<1>6. /\ q \in BoundPorts(k) /\ q \notin BoundPorts(k)' => DueFor(k, q)' = {new}
      /\ DueFor(k, q) # {} /\ DueFor(k, q)' # DueFor(k, q)
             => q \in freebm'[k] /\ \A due \in DueFor(k, q) : due <= seconds
  BY DEF QuarantineStep
<1>7. \A n : InRange(n, k) /\ n.port = q =>
          /\ n \in nats => q \in BoundPorts(k)
          /\ n \in nats' => q \in BoundPorts(k)'
  BY DEF BoundPorts
<1>8. \A n : n \in nats \/ n \in nats' =>
          n.tun \in Tunnel /\ <<n.src, n.dst>> \in LeaseFlow
  BY DEF TypeOK, Binding, LeaseFlow
<1>9. \A b \in nats', n \in nats : SameBinding(b, n) /\ InRange(b, k) /\ b.port = q =>
          /\ InRange(n, k) /\ n.port = q
          /\ Lease!Used(b.tun, <<b.src, b.dst>>) = Lease!Used(n.tun, <<n.src, n.dst>>)
  BY DEF SameBinding, InRange
<1> HIDE DEF l, m, new
<1>10. CASE q \in freebm[k]
  <2>1. l = Lease!Free /\ DueFor(k, q) = {}
    BY <1>1, <1>3, <1>10
  <2>2. \A due \in DueFor(k, q)' : m = Lease!OnHold(new)
    BY <1>2, <1>5, <2>1
  <2>3. \A b \in nats' : InRange(b, k) /\ b.port = q =>
            \E o \in Tunnel, f \in LeaseFlow : m = Lease!Used(o, f)
    BY <1>2, <1>8
  <2>4. \/ m = Lease!Free \/ m = Lease!OnHold(new)
        \/ \E o \in Tunnel : m = Lease!Reserved(o)
        \/ \E o \in Tunnel, f \in LeaseFlow : m = Lease!Used(o, f)
    BY <1>2, <1>4, <2>2, <2>3
  <2> QED
    BY <2>1, <2>4 DEF Lease!Moves, l, m, new
<1>11. ASSUME NEW t \in Tunnel, q \in BuckPorts(t, k)
       PROVE  Lease!Moves(l, m)
  <2>1. l = Lease!Reserved(t) /\ DueFor(k, q) = {} /\ q \notin freebm[k]
        /\ q \notin BoundPorts(k)
        /\ \A u \in Tunnel : q \in BuckPorts(u, k) => u = t
    BY <1>1, <1>3, <1>11
  <2>2. \A due \in DueFor(k, q)' : m = Lease!OnHold(new)
    BY <1>2, <1>5, <2>1
  <2>3. \A u \in Tunnel : q \in BuckPorts(u, k)' => m = l
    BY <1>2, <1>5, <2>1
  <2>4. \A b \in nats' : InRange(b, k) /\ b.port = q =>
            \E f \in LeaseFlow : m = Lease!Used(t, f)
    <3>1. ASSUME NEW b \in nats', InRange(b, k), b.port = q PROVE b.tun = t
      BY <1>5, <1>7, <1>9, <2>1, <3>1
    <3> QED
      BY <1>2, <1>8, <3>1
  <2>5. \/ m = l \/ m = Lease!Free \/ m = Lease!OnHold(new)
        \/ \E f \in LeaseFlow : m = Lease!Used(t, f)
    BY <1>2, <1>4, <2>2, <2>3, <2>4
  <2> QED
    BY <2>1, <2>5 DEF Lease!Moves, new
<1>12. ASSUME NEW n \in nats, InRange(n, k), n.port = q
       PROVE  Lease!Moves(l, m)
  <2>1. q \in BoundPorts(k) /\ q \notin freebm[k] /\ DueFor(k, q) = {}
        /\ \A t \in Tunnel : q \notin BuckPorts(t, k)
    BY <1>3, <1>7, <1>12
  <2>2. l = Lease!Used(n.tun, <<n.src, n.dst>>)
    BY <1>1, <1>12
  <2>3. ASSUME NEW b \in nats', InRange(b, k), b.port = q PROVE m = l
    <3>1. PICK c \in nats : SameBinding(b, c)
      BY <1>5, <2>1, <2>3
    <3>2. c = n
      BY <1>3, <1>9, <1>12, <2>3, <3>1
    <3> QED
      BY <1>2, <1>9, <2>2, <2>3, <3>1, <3>2
  <2>4. CASE q \in BoundPorts(k)'
    BY <2>3, <2>4 DEF BoundPorts, Lease!Moves
  <2>5. CASE q \notin BoundPorts(k)'
    <3>1. DueFor(k, q)' = {new}
      BY <1>6, <2>1, <2>5
    <3>2. m = Lease!OnHold(new)
      BY <1>2, <3>1
    <3> QED
      BY <1>8, <2>2, <3>2 DEF Lease!Moves, new
  <2> QED
    BY <2>4, <2>5
<1>13. ASSUME NEW due \in DueFor(k, q)
       PROVE  Lease!Moves(l, m)
  <2>1. l = Lease!OnHold(due) /\ due \in Nat /\ seconds \in Nat
    BY <1>1, <1>3, <1>13 DEF TypeOK
  <2>2. CASE DueFor(k, q)' = DueFor(k, q)
    <3>1. m = l
      BY <1>2, <1>13, <2>1, <2>2
    <3> QED
      BY <3>1 DEF Lease!Moves
  <2>3. CASE DueFor(k, q)' # DueFor(k, q)
    <3>1. m = Lease!Free /\ due \in 0..seconds
      BY <1>2, <1>6, <1>13, <2>1, <2>3
    <3> QED
      BY <2>1, <3>1 DEF Lease!Moves
  <2> QED
    BY <2>2, <2>3
<1> QED
  BY <1>3, <1>10, <1>11, <1>12, <1>13 DEF l, m

\* Every port of every pool follows the automaton of a lease, for any pools,
\* tunnels, bucket sizes and lifetimes: whatever new_nat(), del_nat(),
\* del_tunnel() and free_heldnats() do, a port that was used is on hold for
\* the hold lifetime before it is free, and one owner has it at a time.
THEOREM LeaseImplemented == Spec => ImplementsLease
<1>1. Init => Lease!LInit
  <2> SUFFICES ASSUME Init PROVE Lease!LInit
    OBVIOUS
  <2>1. LeaseRead
    BY ConservedInit, LeaseIs
  <2>2. \A k \in Key, q \in DynPort : LeaseOf(k, q) = Lease!Free
    BY <2>1 DEF LeaseRead, Init
  <2>3. [r \in LeaseRes |-> LeaseOf(r[1], r[2])] = [r \in LeaseRes |-> Lease!Free]
    BY <2>2 DEF LeaseRes
  <2> QED
    BY <2>3 DEF Lease!LInit, Init
<1>2. ASSUME IInv, IInv', LeaseRead, LeaseRead', UsesSplit, UsesSplit', [Next]_vars
      PROVE  Lease!LNext
  <2>1. OriginStep /\ QuarantineStep /\ TypeOK /\ TypeOK'
    BY <1>2, Origins, QuarantineNext DEF IInv
  <2>2. \A k \in Key, q \in DynPort : Lease!Moves(LeaseOf(k, q), LeaseOf(k, q)')
    BY <1>2, <2>1, PortMoves
  <2>3. \A r \in LeaseRes : r[1] \in Key /\ r[2] \in DynPort
    BY DEF LeaseRes
  <2>4. seconds' \in Nat /\ seconds' >= seconds
    <3>1. seconds \in Nat
      BY <2>1 DEF TypeOK
    <3> QED
      BY <1>2, <2>1, <3>1, ClockStep
  <2> QED
    BY <2>2, <2>3, <2>4 DEF Lease!LNext
<1> QED
  BY <1>1, <1>2, AlwaysConserved, LeaseIs, UsesApart, PTL
     DEF Spec, ImplementsLease, Lease!LSpec
=============================================================================
