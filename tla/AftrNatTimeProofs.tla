-------------------------- MODULE AftrNatTimeProofs --------------------------
(***************************************************************************)
(* Proofs about the time in AftrNat, for any lifetimes and rates: the      *)
(* on-hold queues are in order, nothing is overdue after an expiry, a      *)
(* closed TCP connection is short-lived and nothing else comes forward,    *)
(* and what a tunnel makes in a second is bounded by its rate (AftrRate).  *)
(***************************************************************************)
EXTENDS AftrNatCountProofs, AftrRate

USE NatAssumption

(***************************************************************************)
(* The timeout of one binding.                                             *)
(***************************************************************************)
Short == AtLeast(Closed, AtLeast(Echo, Retrans))

NotDue(n) == n.timeout = 0 \/ n.timeout >= seconds

Brief(n) == n.kind = "dyn" /\ Closing \subseteq n.tcpst =>
                n.timeout <= seconds + Short /\ n.lifetime <= Short

\* What a packet may make of the timeout of n.
Aged(n, m) ==
    /\ m \in Binding /\ SameBinding(m, n)
    /\ NotDue(n) => NotDue(m)
    /\ Brief(n) => Brief(m)
    /\ m.timeout < n.timeout => Closing \subseteq m.tcpst

LEMMA ShortBounds ==
    /\ Short \in Nat /\ Closed <= Short /\ Echo <= Short /\ Retrans <= Short
    /\ \A st, fl : CloseLifetime(st, fl) \in Nat /\ CloseLifetime(st, fl) <= Short
BY DEF Short, AtLeast, CloseLifetime, NatAssumption

\* extend_timeout() by no more than the short lifetimes.
LEMMA ExtendAges ==
    ASSUME seconds \in Nat, NEW n \in Binding, NEW secs \in Nat,
           Brief(n) /\ n.kind = "dyn" /\ Closing \subseteq n.tcpst => secs <= Short
    PROVE  Aged(n, Extend(n, secs)) /\ Extend(n, secs).timeout >= n.timeout
           /\ Extend(n, secs).lifetime = n.lifetime /\ Extend(n, secs).tcpst = n.tcpst
<1>1. Extend(n, secs) \in Binding /\ SameBinding(Extend(n, secs), n)
  BY ExtendKeeps
<1>2. n.timeout \in Nat /\ n.lifetime \in Nat
  BY DEF Binding
<1>3. CASE n.timeout # 0 /\ seconds + secs > n.timeout
  <2>1. Extend(n, secs) = [n EXCEPT !.timeout = seconds + secs]
    BY <1>3 DEF Extend
  <2>2. Extend(n, secs).timeout = seconds + secs /\ Extend(n, secs).lifetime = n.lifetime
        /\ Extend(n, secs).tcpst = n.tcpst /\ Extend(n, secs).kind = n.kind
    BY <2>1 DEF Binding
  <2>3. Short \in Nat
    BY ShortBounds
  <2> QED
    BY <1>1, <1>2, <1>3, <2>2, <2>3 DEF Aged, NotDue, Brief
<1>4. CASE ~(n.timeout # 0 /\ seconds + secs > n.timeout)
  BY <1>1, <1>2, <1>4 DEF Extend, Aged, NotDue, Brief
<1> QED
  BY <1>3, <1>4

\* tcpstate_in() and tcpstate_out() alone.
LEMMA TcpStateAges ==
    ASSUME seconds \in Nat, NEW n \in Binding, NEW fl, NEW me \in {"in", "out"}
    PROVE  Aged(n, TcpState(n, fl, me))
<1> DEFINE m == TcpState(n, fl, me)
           st == TcpMark(n, fl, me)
           lt == CloseLifetime(st, fl)
<1>1. m \in Binding /\ SameBinding(m, n)
  BY TcpStateKeeps
<1>2. n.timeout \in Nat /\ n.lifetime \in Nat /\ n.tcpst \in SUBSET {"acked", "in", "out"}
  BY DEF Binding, TcpSt
<1>3. lt \in Nat /\ lt <= Short /\ Short \in Nat
  BY ShortBounds
<1>4. CASE n.timeout = 0
  BY <1>1, <1>2, <1>4 DEF TcpState, Aged, NotDue, Brief
<1>5. CASE n.timeout # 0 /\ TcpCloses(n, fl, me)
  <2>1. m.tcpst = st /\ m.lifetime = lt
        /\ m.timeout = IF n.timeout > seconds + lt THEN seconds + lt ELSE n.timeout
    BY <1>5 DEF TcpState, Binding
  <2>2. Closing \subseteq st
    BY <1>5 DEF TcpCloses
  <2> HIDE DEF st, lt, m
  <2>3. m.timeout \in Nat /\ m.timeout <= seconds + lt /\ m.timeout <= n.timeout
        /\ (m.timeout < n.timeout => m.timeout >= seconds)
    BY <1>2, <1>3, <2>1
  <2>4. m.timeout <= seconds + Short
    BY <1>3, <2>3
  <2>5. NotDue(n) => NotDue(m)
    BY <1>2, <2>3 DEF NotDue
  <2>6. Brief(m)
    BY <1>3, <2>1, <2>4 DEF Brief
  <2>7. Aged(n, m)
    BY <1>1, <2>1, <2>2, <2>5, <2>6 DEF Aged
  <2> QED
    BY <2>7 DEF m
<1>6. CASE n.timeout # 0 /\ ~TcpCloses(n, fl, me)
  <2>1. m.tcpst = st /\ m.lifetime = n.lifetime /\ m.timeout = n.timeout
    BY <1>6 DEF TcpState, Binding
  <2>2. Closing \subseteq st => Closing \subseteq n.tcpst
    BY <1>2, <1>6 DEF TcpCloses, TcpMark, Closing
  <2>3. m.kind = n.kind
    BY <1>1 DEF SameBinding
  <2> HIDE DEF st, lt, m
  <2>4. NotDue(n) => NotDue(m)
    BY <2>1 DEF NotDue
  <2>5. Brief(n) => Brief(m)
    BY <2>1, <2>2, <2>3 DEF Brief
  <2>6. ~(m.timeout < n.timeout)
    BY <1>2, <2>1
  <2>7. Aged(n, m)
    BY <1>1, <2>4, <2>5, <2>6 DEF Aged
  <2> QED
    BY <2>7 DEF m
<1> QED
  BY <1>4, <1>5, <1>6

LEMMA AgedTwice ==
    ASSUME NEW n \in Binding, NEW m \in Binding, NEW b, Aged(n, m), Aged(m, b),
           n.timeout <= m.timeout \/ (Closing \subseteq m.tcpst => Closing \subseteq b.tcpst)
    PROVE  Aged(n, b)
<1>1. n.timeout \in Nat /\ m.timeout \in Nat /\ b.timeout \in Nat
  BY DEF Aged, Binding
<1>2. b \in Binding /\ SameBinding(b, n) /\ (NotDue(n) => NotDue(b)) /\ (Brief(n) => Brief(b))
  BY DEF Aged, SameBinding
<1>3. m.timeout < n.timeout => Closing \subseteq m.tcpst
  BY DEF Aged
<1>4. b.timeout < m.timeout => Closing \subseteq b.tcpst
  BY DEF Aged
<1>5. b.timeout < n.timeout => Closing \subseteq b.tcpst
  BY <1>1, <1>3, <1>4
<1> QED
  BY <1>2, <1>5 DEF Aged

\* The end of natin() and natout().
LEMMA RefreshAges ==
    ASSUME seconds \in Nat, NEW n \in Binding, NEW fl
    PROVE  Aged(n, RefreshIn(n, fl)) /\ Aged(n, RefreshOut(n, fl))
<1>1. ASSUME NEW me \in {"in", "out"}, NEW secs \in Nat,
             LET m == TcpState(n, fl, me)
             IN  Brief(m) /\ m.kind = "dyn" /\ Closing \subseteq m.tcpst => secs <= Short
      PROVE  Aged(n, Refresh(n, fl, me, secs))
  <2> DEFINE m == TcpState(n, fl, me)
             b == Extend(m, secs)
  <2>1. Aged(n, m) /\ m \in Binding
    BY TcpStateAges DEF Aged
  <2>2. Aged(m, b) /\ b.tcpst = m.tcpst
    BY <1>1, <2>1, ExtendAges
  <2>3. Aged(n, b)
    BY <2>1, <2>2, AgedTwice
  <2>4. Refresh(n, fl, me, secs) \in {m, b}
    BY DEF Refresh
  <2> QED
    BY <2>1, <2>3, <2>4
<1>2. Retrans \in Nat /\ Retrans <= Short
  BY ShortBounds DEF NatAssumption
<1>3. TcpState(n, fl, "out").lifetime \in Nat
  BY TcpStateKeeps DEF Binding
<1>4. Brief(TcpState(n, fl, "out")) /\ TcpState(n, fl, "out").kind = "dyn"
      /\ Closing \subseteq TcpState(n, fl, "out").tcpst
      => TcpState(n, fl, "out").lifetime <= Short
  BY DEF Brief
<1>5. Aged(n, Refresh(n, fl, "in", Retrans))
  BY <1>1, <1>2
<1>6. Aged(n, Refresh(n, fl, "out", TcpState(n, fl, "out").lifetime))
  BY <1>1, <1>3, <1>4
<1> QED
  BY <1>5, <1>6 DEF RefreshIn, RefreshOut

\* A new binding of natin().
LEMMA DynamicAges ==
    ASSUME TypeOK, NEW t \in Tunnel, NEW pr \in Proto, NEW src \in Src, NEW d \in Dst,
           NEW q \in DynPort, NEW fl
    PROVE  LET b == RefreshIn(Dynamic(t, pr, src, d, q), fl) IN NotDue(b) /\ Brief(b)
<1> DEFINE n == Dynamic(t, pr, src, d, q)
<1>1. n \in Binding
  BY DynamicIsBinding
<1>2. n.timeout = seconds + Retrans /\ n.tcpst = {} /\ seconds \in Nat /\ Retrans \in Nat
  BY DEF Dynamic, TypeOK, NatAssumption
<1> HIDE DEF n
<1>3. NotDue(n)
  BY <1>2 DEF NotDue
<1>4. Brief(n)
  BY <1>2 DEF Brief, Closing
<1>5. Aged(n, RefreshIn(n, fl))
  BY <1>1, <1>2, RefreshAges
<1> QED
  BY <1>3, <1>4, <1>5 DEF Aged, n

(***************************************************************************)
(* Where the bindings of a step come from.                                 *)
(***************************************************************************)
Ages ==
    \A m \in nats' :
        \/ \E n \in nats : m = n
        \/ \E n \in nats : Aged(n, m)
        \/ NotDue(m) /\ Brief(m) /\ \A n \in nats : BindingKey(n) # BindingKey(m)

LEMMA StepAges == TypeOK /\ [Next]_vars => Ages
<1> SUFFICES ASSUME TypeOK, [Next]_vars PROVE Ages
  OBVIOUS
<1>0. seconds \in Nat /\ nats \subseteq Binding
  BY DEF TypeOK
<1>1. ASSUME nats' \subseteq nats PROVE Ages
  BY <1>1 DEF Ages
<1>2. ASSUME NEW n \in nats, NEW m, Aged(n, m), Replace(n, m) PROVE Ages
  BY <1>2 DEF Ages, Replace
<1>3. ASSUME NEW n \in nats, NEW fl, NatInHit(n, fl) \/ NatOut(n, fl) PROVE Ages
  <2>1. n \in Binding /\ n.lifetime \in Nat
    BY <1>0 DEF Binding
  <2>2. Aged(n, RefreshIn(n, fl)) /\ Aged(n, RefreshOut(n, fl))
    BY <1>0, <2>1, RefreshAges
  <2>3. Aged(n, RefreshOut(Extend(n, n.lifetime), fl))
    <3> DEFINE m == Extend(n, n.lifetime)
    <3>1. Brief(n) /\ n.kind = "dyn" /\ Closing \subseteq n.tcpst => n.lifetime <= Short
      BY DEF Brief
    <3>2. Aged(n, m) /\ m.timeout >= n.timeout /\ m \in Binding
      BY <1>0, <2>1, <3>1, ExtendAges DEF Aged
    <3>3. Aged(m, RefreshOut(m, fl))
      BY <1>0, <3>2, RefreshAges
    <3>4. n.timeout <= m.timeout
      BY <2>1, <3>2 DEF Binding
    <3> HIDE DEF m
    <3>5. Aged(n, RefreshOut(m, fl))
      BY <2>1, <3>2, <3>3, <3>4, AgedTwice
    <3> QED
      BY <3>5 DEF m
  <2> QED
    BY <1>2, <1>3, <2>2, <2>3 DEF NatInHit, NatOut
<1>4. ASSUME NEW n \in nats, TooBigOut(n) \/ NatIcmpOut(n) PROVE Ages
  <2>1. n \in Binding /\ n.lifetime \in Nat /\ Echo \in Nat /\ Echo <= Short
    BY <1>0, ShortBounds DEF Binding, NatAssumption
  <2>2. Brief(n) /\ n.kind = "dyn" /\ Closing \subseteq n.tcpst => n.lifetime <= Short
    BY DEF Brief
  <2>3. Aged(n, Extend(n, n.lifetime)) /\ Aged(n, Extend(n, Echo))
    BY <1>0, <2>1, <2>2, ExtendAges
  <2> QED
    BY <1>2, <1>4, <2>3 DEF TooBigOut, NatIcmpOut
<1>5. ASSUME NEW t \in Tunnel, NEW pr \in Proto, NEW src \in Src, NEW d \in Dst,
             NEW q \in DynPort, NEW fl, NatInNew(t, pr, src, d, q, fl)
      PROVE  Ages
  <2> DEFINE b == RefreshIn(Dynamic(t, pr, src, d, q), fl)
  <2>1. b.tun = t /\ b.pr = pr /\ b.kind = "dyn" /\ b.src = src /\ b.dst = d
    BY DynamicKeeps, DynamicSame
  <2>2. NotDue(b) /\ Brief(b)
    BY DynamicAges
  <2>3. nats' = nats \cup {b} /\ InMatches(t, pr, src, d) = {}
    BY <1>5 DEF NatInNew, Miss
  <2> HIDE DEF b
  <2>4. \A n \in nats : BindingKey(n) # BindingKey(b)
    BY <2>1, <2>3 DEF InMatches, BindingKey
  <2> QED
    BY <2>2, <2>3, <2>4 DEF Ages
<1>6. ASSUME NEW t \in Tunnel, NEW pr \in Proto, NEW src \in Src, NEW d \in Dst,
             \/ NatInOverRate(t, pr, src, d) \/ NatInNoPort(t, pr, src, d)
             \/ \E q \in DynPort : NatInHeapFull(t, pr, src, d, q)
      PROVE  Ages
  BY <1>1, <1>6 DEF NatInOverRate, NatInNoPort, NatInHeapFull, portVars
<1>7. ASSUME NEW b, NEW p2, AddPermanent(b, p2), b.timeout = 0, b.kind # "dyn"
      PROVE  Ages
  <2>1. NotDue(b) /\ Brief(b)
    BY <1>7 DEF NotDue, Brief
  <2>2. nats' = nats \/ (nats' = nats \cup {b} /\ ~Collides(b))
    BY <1>7 DEF AddPermanent
  <2>3. ~Collides(b) => \A n \in nats : BindingKey(n) # BindingKey(b)
    BY DEF Collides, BindingKey
  <2> QED
    BY <2>1, <2>2, <2>3 DEF Ages
<1>8. ASSUME NEW t \in Tunnel, DelTunnel(t) PROVE Ages
  BY <1>1, <1>8 DEF DelTunnel, Release
<1>9. ASSUME NEW n \in nats, DelPermanent(n) PROVE Ages
  BY <1>1, <1>9 DEF DelPermanent, Release
<1>10. ASSUME NEW t \in Tunnel, NEW p \in Pool, AddTunnel(t, p) PROVE Ages
  BY <1>1, <1>10 DEF AddTunnel, portVars
<1>11. CASE Select \/ CommandsDone \/ SameSecond \/ UNCHANGED vars
  BY <1>1, <1>11 DEF Select, CommandsDone, SameSecond, vars, portVars
<1>12. CASE Expire
  BY <1>1, <1>12 DEF Expire, Release
<1>13. CASE Loop
  BY <1>11, <1>12, <1>13 DEF Loop
<1>14. CASE Command
  BY <1>7, <1>8, <1>9, <1>10, <1>14 DEF Command, AddSnat, AddPrr, Permanent
<1>15. CASE Traffic
  BY <1>3, <1>4, <1>5, <1>6, <1>15 DEF Traffic, Hit
<1> QED
  BY <1>11, <1>13, <1>14, <1>15 DEF Next

(***************************************************************************)
(* Closed connections.                                                     *)
(***************************************************************************)
AllBrief == \A n \in nats : Brief(n)

\* Nothing but the clock of loop() moves the clock, and forwards.
LEMMA ClockStep ==
    TypeOK /\ [Next]_vars =>
        \/ seconds' = seconds /\ (Expire \/ lastsecs' = lastsecs)
        \/ /\ UNCHANGED <<nats, helds, lastsecs>>
           /\ seconds' \in Nat /\ seconds' >= seconds
<1> SUFFICES ASSUME TypeOK, [Next]_vars
             PROVE  \/ seconds' = seconds /\ (Expire \/ lastsecs' = lastsecs)
                    \/ /\ UNCHANGED <<nats, helds, lastsecs>>
                       /\ seconds' \in Nat /\ seconds' >= seconds
  OBVIOUS
<1>1. CASE Select
  <2>1. PICK d \in 0..MaxSkip : seconds' = seconds + d
    BY <1>1 DEF Select
  <2>2. seconds' \in Nat /\ seconds' >= seconds
    BY <2>1 DEF TypeOK, NatAssumption
  <2> QED
    BY <1>1, <2>2 DEF Select, portVars
<1>2. CASE Expire
  BY <1>2 DEF Expire
<1>3. CASE CommandsDone \/ SameSecond \/ UNCHANGED vars
  BY <1>3 DEF CommandsDone, SameSecond, vars, loopVars
<1>4. CASE Command
  <2>1. \A t, p : AddTunnel(t, p) => UNCHANGED <<seconds, lastsecs>>
    BY DEF AddTunnel, loopVars
  <2>2. \A t : DelTunnel(t) => UNCHANGED <<seconds, lastsecs>>
    BY DEF DelTunnel, loopVars
  <2>3. \A b, p2 : AddPermanent(b, p2) => UNCHANGED <<seconds, lastsecs>>
    BY DEF AddPermanent, loopVars
  <2>4. \A n : DelPermanent(n) => UNCHANGED <<seconds, lastsecs>>
    BY DEF DelPermanent, loopVars
  <2> QED
    BY <1>4, <2>1, <2>2, <2>3, <2>4 DEF Command, AddSnat, AddPrr
<1>5. CASE Traffic
  <2>1. \A n, fl : NatInHit(n, fl) \/ NatOut(n, fl) \/ TooBigOut(n) \/ NatIcmpOut(n)
            => UNCHANGED <<seconds, lastsecs>>
    BY DEF NatInHit, NatOut, TooBigOut, NatIcmpOut, loopVars
  <2>2. \A t, pr, src, d :
            NatInOverRate(t, pr, src, d) \/ NatInNoPort(t, pr, src, d)
            => UNCHANGED <<seconds, lastsecs>>
    BY DEF NatInOverRate, NatInNoPort, loopVars
  <2>3. \A t, pr, src, d, q :
            NatInHeapFull(t, pr, src, d, q) => UNCHANGED <<seconds, lastsecs>>
    BY DEF NatInHeapFull, loopVars
  <2>4. \A t, pr, src, d, q, fl :
            NatInNew(t, pr, src, d, q, fl) => UNCHANGED <<seconds, lastsecs>>
    BY DEF NatInNew, loopVars
  <2> QED
    BY <1>5, <2>1, <2>2, <2>3, <2>4 DEF Traffic, Hit
<1> QED
  BY <1>1, <1>2, <1>3, <1>4, <1>5 DEF Next, Loop

LEMMA BriefStep == TypeOK /\ AllBrief /\ [Next]_vars => AllBrief'
<1> SUFFICES ASSUME TypeOK, AllBrief, [Next]_vars PROVE AllBrief'
  OBVIOUS
<1>1. CASE seconds' = seconds
  <2>1. \A m \in nats' : Brief(m)
    BY StepAges DEF Ages, AllBrief, Aged
  <2>2. \A m : Brief(m)' <=> Brief(m)
    BY <1>1 DEF Brief, Short, AtLeast
  <2> QED
    BY <2>1, <2>2 DEF AllBrief
<1>2. CASE nats' = nats /\ seconds' \in Nat /\ seconds' >= seconds
  <2>1. ASSUME NEW n \in nats PROVE Brief(n)'
    <3>1. Brief(n) /\ n.timeout \in Nat /\ Short \in Nat /\ seconds \in Nat /\ Short' = Short
      BY <2>1, ShortBounds DEF AllBrief, TypeOK, Binding, Short, AtLeast
    <3> QED
      BY <1>2, <3>1 DEF Brief
  <2> QED
    BY <1>2, <2>1 DEF AllBrief
<1> QED
  BY <1>1, <1>2, ClockStep

\* A TCP connection that both sides have closed is short-lived, whatever
\* segments follow its FIN or RST and in whatever order.
THEOREM ClosedShort == Spec => []ClosedIsShort
<1>1. Init => AllBrief
  BY DEF Init, AllBrief
<1>2. AllBrief => ClosedIsShort
  BY DEF AllBrief, Brief, ClosedIsShort, Short
<1> QED
  BY <1>1, <1>2, BriefStep, TypeCorrect, PTL DEF Spec

\* The timeout of a binding comes forward only when both sides have closed
\* its connection: no packet of an open flow shortens it.
THEOREM CloseAloneShortens == Spec => OnlyCloseShortens
<1>1. CInv /\ [Next]_vars =>
          [\A n \in nats, m \in nats' :
               BindingKey(m) = BindingKey(n) /\ m.timeout < n.timeout
                   => Closing \subseteq m.tcpst]_vars
  <2> SUFFICES ASSUME CInv, [Next]_vars, NEW n \in nats, NEW m \in nats',
                      BindingKey(m) = BindingKey(n), m.timeout < n.timeout
               PROVE  Closing \subseteq m.tcpst
    OBVIOUS
  <2>1. Ages /\ OneBindingPerFlow /\ n.timeout \in Nat
    BY StepAges DEF CInv, TypeOK, Binding
  <2>2. \A b \in nats : BindingKey(b) = BindingKey(m) => b = n
    BY <2>1 DEF OneBindingPerFlow, BindingKey
  <2>3. CASE m \in nats
    BY <2>1, <2>2, <2>3
  <2>4. ASSUME NEW b \in nats, Aged(b, m) PROVE Closing \subseteq m.tcpst
    <3>1. BindingKey(b) = BindingKey(m)
      BY <2>4 DEF Aged, SameBinding, BindingKey
    <3> QED
      BY <2>2, <2>4, <3>1 DEF Aged
  <2> QED
    BY <2>1, <2>3, <2>4 DEF Ages
<1> QED
  BY <1>1, AlwaysCounted, PTL DEF Spec, OnlyCloseShortens

(***************************************************************************)
(* The on-hold queues.                                                     *)
(***************************************************************************)
Ordered(q) == \A i, j \in DOMAIN q : i < j => q[i].timeout <= q[j].timeout

Within(q, due) == \A i \in DOMAIN q : q[i].timeout <= due

After(q, due) == \A i \in DOMAIN q : q[i].timeout > due

\* Entries appended with one deadline, at least as late as the others.
LEMMA OrderedConcat ==
    ASSUME NEW q \in Seq(Held), NEW r \in Seq(Held), NEW due \in Nat,
           Ordered(q), Within(q, due), \A i \in DOMAIN r : r[i].timeout = due
    PROVE  /\ Ordered(q \o r) /\ Within(q \o r, due)
           /\ \A s \in Nat : After(q, s) /\ s < due => After(q \o r, s)
<1>1. /\ DOMAIN q = 1..Len(q) /\ DOMAIN r = 1..Len(r)
      /\ DOMAIN (q \o r) = 1..(Len(q) + Len(r))
      /\ Len(q) \in Nat /\ Len(r) \in Nat
      /\ \A i \in 1..Len(q) : (q \o r)[i] = q[i]
      /\ \A i \in (Len(q) + 1)..(Len(q) + Len(r)) : (q \o r)[i] = r[i - Len(q)]
  BY ConcatProperties, LenProperties
<1> DEFINE c == q \o r
<1> HIDE DEF c
<1>2. \A i \in DOMAIN c : \/ i \in DOMAIN q /\ c[i] = q[i]
                          \/ i > Len(q) /\ c[i].timeout = due
  <2> SUFFICES ASSUME NEW i \in DOMAIN c
               PROVE  \/ i \in DOMAIN q /\ c[i] = q[i]
                      \/ i > Len(q) /\ c[i].timeout = due
    OBVIOUS
  <2>1. i \in 1..(Len(q) + Len(r))
    BY <1>1 DEF c
  <2>2. CASE i <= Len(q)
    BY <1>1, <2>1, <2>2 DEF c
  <2>3. CASE i > Len(q)
    <3>1. i - Len(q) \in DOMAIN r /\ c[i] = r[i - Len(q)]
      BY <1>1, <2>1, <2>3 DEF c
    <3> QED
      BY <2>3, <3>1
  <2> QED
    BY <1>1, <2>1, <2>2, <2>3
<1>3. Within(c, due)
  BY <1>2 DEF Within
<1>4. ASSUME NEW i \in DOMAIN c, NEW j \in DOMAIN c, i < j
      PROVE  c[i].timeout <= c[j].timeout
  <2>1. CASE j \in DOMAIN q /\ c[j] = q[j]
    <3>1. i \in DOMAIN q /\ c[i] = q[i]
      BY <1>1, <1>2, <1>4, <2>1 DEF c
    <3> QED
      BY <1>4, <2>1, <3>1 DEF Ordered
  <2>2. CASE c[j].timeout = due
    BY <1>3, <2>2 DEF Within
  <2> QED
    BY <1>2, <2>1, <2>2
<1>5. ASSUME NEW s \in Nat, After(q, s), s < due PROVE After(c, s)
  BY <1>2, <1>5 DEF After
<1> QED
  BY <1>3, <1>4, <1>5 DEF Ordered, c

\* The rest of a queue cut after its first i entries.
LEMMA OrderedCut ==
    ASSUME NEW q \in Seq(Held), NEW i \in 0..Len(q), NEW due, Ordered(q), Within(q, due)
    PROVE  LET r == SubSeq(q, i + 1, Len(q)) IN
           /\ r \in Seq(Held) /\ Ordered(r) /\ Within(r, due)
           /\ FreedPrefix(q, i) /\ seconds \in Nat => After(r, seconds)
<1> DEFINE r == SubSeq(q, i + 1, Len(q))
<1>1. Len(q) \in Nat /\ DOMAIN q = 1..Len(q) /\ \A j \in DOMAIN q : q[j].timeout \in Nat
  <2>1. \A j \in DOMAIN q : q[j] \in Held
    OBVIOUS
  <2> QED
    BY <2>1, LenProperties DEF Held
<1>2. /\ r \in Seq(Held) /\ Len(r) = Len(q) - i
      /\ DOMAIN r = 1..(Len(q) - i)
      /\ \A j \in 1..(Len(q) - i) : r[j] = q[i + j]
  OBVIOUS
<1>3. DOMAIN r = 1..(Len(q) - i)
  BY <1>2
<1> HIDE DEF r
<1>4. \A j \in DOMAIN r : i + j \in DOMAIN q /\ r[j] = q[i + j]
  BY <1>1, <1>2, <1>3
<1>5. Within(r, due)
  BY <1>4 DEF Within
<1>6. ASSUME NEW j \in DOMAIN r, NEW l \in DOMAIN r, j < l
      PROVE  r[j].timeout <= r[l].timeout
  <2>1. i + j < i + l
    BY <1>3, <1>6
  <2> QED
    BY <1>4, <2>1 DEF Ordered
<1>7. ASSUME FreedPrefix(q, i), seconds \in Nat, NEW j \in DOMAIN r
      PROVE  r[j].timeout > seconds
  <2>1. i < Len(q) /\ q[i + 1].timeout > seconds /\ i + 1 \in DOMAIN q
    BY <1>1, <1>3, <1>7 DEF FreedPrefix
  <2>2. i + j \in DOMAIN q /\ i + 1 <= i + j /\ r[j] = q[i + j]
    BY <1>3, <1>4
  <2>3. q[i + 1].timeout <= q[i + j].timeout
    BY <1>1, <2>1, <2>2 DEF Ordered
  <2>4. q[i + j].timeout > seconds
    BY <1>1, <1>7, <2>1, <2>2, <2>3
  <2> QED
    BY <2>2, <2>4
<1> QED
  BY <1>2, <1>5, <1>6, <1>7 DEF Ordered, After, r

QInv == \A k \in Key : Ordered(helds[k]) /\ Within(helds[k], seconds + Hold)

\* Nothing is overdue, whatever the loop is doing, until the clock moves.
Timely == /\ lastsecs <= seconds
          /\ seconds = lastsecs =>
                 /\ \A n \in nats : NotDue(n)
                 /\ Hold > 0 => \A k \in Key : After(helds[k], seconds)

LateEntries(r) == r \in Seq(Held) /\ \A i \in DOMAIN r : r[i].timeout = seconds + Hold

\* The entries of the bindings released by a step.
LEMMA HeldsOfLate ==
    ASSUME TypeOK, NEW S \in SUBSET nats, NEW k \in Key
    PROVE  LateEntries(HeldsOf(S, k))
<1>1. IsFiniteSet(S) /\ S \subseteq Binding /\ seconds \in Nat
  BY FS_Subset DEF TypeOK
<1> QED
  BY <1>1, HeldsOfLists DEF LateEntries, HeldOf

\* A step but Expire appends to the queues.
Appends == \A k \in Key : \E r : LateEntries(r) /\ helds'[k] = helds[k] \o r

LEMMA QueueSteps == TypeOK /\ [Next]_vars => helds' = helds \/ Appends \/ Expire
<1> SUFFICES ASSUME TypeOK, [Next]_vars PROVE helds' = helds \/ Appends \/ Expire
  OBVIOUS
<1>1. ASSUME NEW S \in SUBSET nats, helds' = [k \in Key |-> Requeue(helds[k], S, k)]
      PROVE  Appends
  BY <1>1, HeldsOfLate DEF Appends, Requeue
<1>2. ASSUME NEW t \in Tunnel, DelTunnel(t) PROVE Appends
  <2> DEFINE S == {n \in nats : n.tun = t}
  <2>1. S \in SUBSET nats /\ helds' = [k \in Key |-> Requeue(helds[k], S, k)]
    BY <1>2 DEF DelTunnel
  <2> HIDE DEF S
  <2> QED
    BY <1>1, <2>1
<1>3. ASSUME NEW n \in nats, DelPermanent(n) PROVE Appends
  <2>1. {n} \in SUBSET nats /\ helds' = [k \in Key |-> Requeue(helds[k], {n}, k)]
    BY <1>3 DEF DelPermanent
  <2> QED
    BY <1>1, <2>1
<1>4. ASSUME NEW t \in Tunnel, NEW pr \in Proto, NEW src, NEW d, NEW q \in DynPort,
             NatInHeapFull(t, pr, src, d, q)
      PROVE  Appends
  <2> DEFINE k0 == <<srcidx[t], pr>>
             h == [port |-> q, timeout |-> seconds + Hold]
  <2>1. helds' = [helds EXCEPT ![k0] = Append(@, h)]
    BY <1>4 DEF NatInHeapFull
  <2>2. h \in Held /\ h.timeout = seconds + Hold
    BY DEF Held, TypeOK, NatAssumption
  <2> HIDE DEF h
  <2>3. LateEntries(<<h>>) /\ LateEntries(<< >>)
    BY <2>2 DEF LateEntries
  <2>4. \A k \in Key : helds'[k] = IF k = k0 THEN Append(helds[k], h) ELSE helds[k]
    BY <2>1 DEF TypeOK
  <2>5. \A k \in Key : helds[k] \in Seq(Held)
    BY DEF TypeOK
  <2>6. \A k \in Key : Append(helds[k], h) = helds[k] \o <<h>>
                       /\ helds[k] = helds[k] \o << >>
    BY <2>2, <2>5
  <2> QED
    BY <2>3, <2>4, <2>6 DEF Appends
<1>5. CASE Loop \/ UNCHANGED vars
  BY <1>5 DEF Loop, Select, CommandsDone, SameSecond, vars, portVars
<1>6. CASE Command
  <2>1. \A b, p2 : AddPermanent(b, p2) => helds' = helds
    BY DEF AddPermanent
  <2>2. \A t, p : AddTunnel(t, p) => helds' = helds
    BY DEF AddTunnel, portVars
  <2> QED
    BY <1>2, <1>3, <1>6, <2>1, <2>2 DEF Command, AddSnat, AddPrr
<1>7. CASE Traffic
  <2>1. \A n, fl : NatInHit(n, fl) \/ NatOut(n, fl) \/ TooBigOut(n) \/ NatIcmpOut(n)
            => helds' = helds
    BY DEF NatInHit, NatOut, TooBigOut, NatIcmpOut
  <2>2. \A t, pr, src, d :
            NatInOverRate(t, pr, src, d) \/ NatInNoPort(t, pr, src, d) => helds' = helds
    BY DEF NatInOverRate, NatInNoPort, portVars
  <2>3. \A t, pr, src, d, q, fl : NatInNew(t, pr, src, d, q, fl) => helds' = helds
    BY DEF NatInNew
  <2> QED
    BY <1>4, <1>7, <2>1, <2>2, <2>3 DEF Traffic, Hit
<1> QED
  BY <1>5, <1>6, <1>7 DEF Next

\* What Expire leaves in a queue: the rest of it, which is not due, and the
\* bindings it releases.
LEMMA ExpireQueues ==
    ASSUME TypeOK, QInv, Expire, NEW k \in Key
    PROVE  Ordered(helds'[k]) /\ Within(helds'[k], seconds + Hold)
           /\ (Hold > 0 => After(helds'[k], seconds))
<1>1. PICK cut :
           /\ \A j \in Key : cut[j] \in UNION {0..Len(helds[kk]) : kk \in Key}
           /\ \A j \in Key : FreedPrefix(helds[j], cut[j])
           /\ helds' = [j \in Key |->
                  Requeue(SubSeq(helds[j], cut[j] + 1, Len(helds[j])), Expired, j)]
  BY DEF Expire
<1> DEFINE q == helds[k]
           r == SubSeq(q, cut[k] + 1, Len(q))
<1>2. q \in Seq(Held) /\ seconds \in Nat /\ seconds + Hold \in Nat
  BY DEF TypeOK, NatAssumption
<1>3. cut[k] \in 0..Len(q) /\ FreedPrefix(q, cut[k])
  BY <1>1, <1>2, LenProperties DEF FreedPrefix, TypeOK
<1>4. Ordered(q) /\ Within(q, seconds + Hold)
  BY DEF QInv
<1>5. helds'[k] = r \o HeldsOf(Expired, k)
  BY <1>1 DEF Requeue
<1>6. LateEntries(HeldsOf(Expired, k))
  BY HeldsOfLate DEF Expired
<1> HIDE DEF q
<1>7. r \in Seq(Held) /\ Ordered(r) /\ Within(r, seconds + Hold) /\ After(r, seconds)
  BY <1>2, <1>3, <1>4, OrderedCut
<1> HIDE DEF r
<1>8. Hold > 0 => seconds < seconds + Hold
  BY <1>2 DEF NatAssumption
<1> QED
  BY <1>2, <1>5, <1>6, <1>7, <1>8, OrderedConcat DEF LateEntries

LEMMA QueueStep == TypeOK /\ QInv /\ [Next]_vars => QInv'
<1> SUFFICES ASSUME TypeOK, QInv, [Next]_vars, NEW k \in Key
             PROVE  Ordered(helds'[k]) /\ Within(helds'[k], seconds' + Hold)
  BY DEF QInv, Ordered, Within
<1>0. helds[k] \in Seq(Held) /\ seconds \in Nat /\ seconds + Hold \in Nat /\ Hold \in Nat
      /\ Ordered(helds[k]) /\ Within(helds[k], seconds + Hold)
  BY DEF QInv, TypeOK, NatAssumption
<1>1. seconds' \in Nat /\ seconds' >= seconds
  BY <1>0, ClockStep
<1>2. CASE helds' = helds
  <2>1. \A i \in DOMAIN helds[k] : helds[k][i].timeout \in Nat
    <3>1. \A i \in DOMAIN helds[k] : helds[k][i] \in Held
      BY <1>0
    <3> QED
      BY <3>1 DEF Held
  <2> QED
    BY <1>0, <1>1, <1>2, <2>1 DEF Within
<1>3. CASE Expire
  <2>1. seconds' = seconds
    BY <1>3 DEF Expire
  <2> QED
    BY <1>3, <2>1, ExpireQueues
<1>4. CASE Appends /\ helds' # helds
  <2>1. PICK r : LateEntries(r) /\ helds'[k] = helds[k] \o r
    BY <1>4 DEF Appends
  <2>2. seconds' = seconds
    BY <1>4, ClockStep
  <2> QED
    BY <1>0, <2>1, <2>2, OrderedConcat DEF LateEntries
<1> QED
  BY <1>2, <1>3, <1>4, QueueSteps

\* free_heldnats() may stop at the first port that is not due: the queues are
\* in the order of their deadlines, however ports come to them.
THEOREM HeldsOrdered == Spec => []HeldsInOrder
<1>1. Init => QInv
  <2> SUFFICES ASSUME Init, NEW k \in Key
               PROVE  Ordered(helds[k]) /\ Within(helds[k], seconds + Hold)
    BY DEF QInv
  <2>1. helds[k] = << >> /\ DOMAIN << >> = {}
    BY DEF Init
  <2> QED
    BY <2>1 DEF Ordered, Within
<1>2. QInv => HeldsInOrder
  BY DEF QInv, Ordered, HeldsInOrder
<1> QED
  BY <1>1, <1>2, QueueStep, TypeCorrect, PTL DEF Spec

(***************************************************************************)
(* Nothing overdue.                                                        *)
(***************************************************************************)
LEMMA TimelyStep == TypeOK /\ QInv /\ Timely /\ [Next]_vars => Timely'
<1> SUFFICES ASSUME TypeOK, QInv, Timely, [Next]_vars PROVE Timely'
  OBVIOUS
<1>0. seconds \in Nat /\ lastsecs \in Nat /\ lastsecs <= seconds /\ Hold \in Nat
  BY DEF TypeOK, Timely, NatAssumption
<1>1. CASE Expire
  <2>1. seconds' = seconds /\ lastsecs' = seconds /\ nats' = nats \ Expired
    BY <1>1 DEF Expire, Release
  <2>2. \A n \in nats' : NotDue(n)
    <3>1. \A n \in nats : n.timeout \in Nat
      BY DEF TypeOK, Binding
    <3> QED
      BY <1>0, <2>1, <3>1 DEF Expired, NotDue
  <2>3. \A k \in Key : Hold > 0 => After(helds'[k], seconds)
    BY <1>1, ExpireQueues
  <2> QED
    BY <1>0, <2>1, <2>2, <2>3 DEF Timely, NotDue, After
<1>2. CASE seconds' = seconds /\ lastsecs' = lastsecs /\ ~Expire
  <2> SUFFICES ASSUME seconds = lastsecs
               PROVE  /\ \A n \in nats' : NotDue(n)
                      /\ Hold > 0 => \A k \in Key : After(helds'[k], seconds)
    BY <1>0, <1>2 DEF Timely, NotDue, After
  <2>1. \A n \in nats' : NotDue(n)
    BY StepAges DEF Timely, Ages, Aged
  <2>2. ASSUME Hold > 0, NEW k \in Key PROVE After(helds'[k], seconds)
    <3>1. After(helds[k], seconds) /\ Ordered(helds[k])
          /\ Within(helds[k], seconds + Hold) /\ helds[k] \in Seq(Held)
      BY <2>2 DEF Timely, QInv, TypeOK
    <3>2. CASE helds' = helds
      BY <3>1, <3>2
    <3>3. CASE Appends
      <4>1. PICK r : LateEntries(r) /\ helds'[k] = helds[k] \o r
        BY <3>3 DEF Appends
      <4>2. seconds < seconds + Hold /\ seconds + Hold \in Nat
        BY <1>0, <2>2
      <4> QED
        BY <1>0, <3>1, <4>1, <4>2, OrderedConcat DEF LateEntries
    <3> QED
      BY <1>2, <3>2, <3>3, QueueSteps
  <2> QED
    BY <2>1, <2>2
<1>3. CASE UNCHANGED <<nats, helds, lastsecs>> /\ seconds' \in Nat /\ seconds' >= seconds
  <2>1. lastsecs' <= seconds'
    BY <1>0, <1>3
  <2>2. ASSUME seconds' = lastsecs' PROVE seconds' = seconds
    BY <1>0, <1>3, <2>2
  <2> QED
    BY <1>3, <2>1, <2>2 DEF Timely, NotDue, After
<1> QED
  BY <1>1, <1>2, <1>3, ClockStep

\* Once an iteration of loop() has been through its expiry, no binding is past
\* its timeout and, with a hold lifetime, no port past its deadline, not even
\* behind another in its queue.
THEOREM OverdueNever == Spec => []NothingOverdue
<1>1. Init => QInv /\ Timely
  <2> SUFFICES ASSUME Init PROVE QInv /\ Timely
    OBVIOUS
  <2>1. nats = {} /\ seconds = 1 /\ lastsecs = 1
        /\ \A k \in Key : helds[k] = << >> /\ DOMAIN helds[k] = {}
    BY DEF Init
  <2> QED
    BY <2>1 DEF QInv, Timely, Ordered, Within, After
<1>2. TypeOK /\ Timely => NothingOverdue
  <2> SUFFICES ASSUME TypeOK, Timely, seconds = lastsecs
               PROVE  /\ Expired = {}
                      /\ Hold > 0 => \A k \in Key : \A i \in DOMAIN helds[k] :
                                         helds[k][i].timeout > seconds
    BY DEF NothingOverdue
  <2>1. \A n \in nats : n.timeout \in Nat /\ (n.timeout = 0 \/ n.timeout >= seconds)
    BY DEF Timely, NotDue, TypeOK, Binding
  <2>2. Expired = {}
    BY <2>1 DEF Expired, TypeOK
  <2> QED
    BY <2>2 DEF Timely, After
<1> QED
  BY <1>1, <1>2, QueueStep, TimelyStep, TypeCorrect, PTL DEF Spec

(***************************************************************************)
(* The rate of creation.  A step is steady for the tunnels that stay, or   *)
(* it is an attempt counted by natin(), and makes a binding only when the  *)
(* rate allows.                                                            *)
(***************************************************************************)
Steady == \A s \in Slot : SameLife(s) =>
              /\ Fresh(s) = {} /\ tnatrt'[s] = tnatrt[s]
              /\ lastnat'[s[1]] = lastnat[s[1]]

Counts == \E t \in Tunnel, pr \in Proto :
              /\ Attempt(t, pr) /\ UNCHANGED <<tunnels, seconds>>
              /\ \A s \in Slot : Fresh(s) # {} =>
                     s = <<t, pr>> /\ RateAllows(t, pr) /\ \E x : Fresh(s) = {x}

\* No dynamic binding is of a new flow.
LEMMA NoneFresh ==
    ASSUME \A m \in nats' : m.kind = "dyn" => \E n \in nats : BindingKey(n) = BindingKey(m)
    PROVE  \A s \in Slot : Fresh(s) = {}
<1> SUFFICES ASSUME NEW s \in Slot, NEW x \in DynKeys(nats', s)
             PROVE  x \in DynKeys(nats, s)
  BY DEF Fresh
<1>1. PICK m \in nats' : x = BindingKey(m) /\ <<m.tun, m.pr>> = s /\ m.kind = "dyn"
  BY DEF DynKeys
<1>2. PICK n \in nats : BindingKey(n) = BindingKey(m)
  BY <1>1
<1>3. n.tun = m.tun /\ n.pr = m.pr /\ n.kind = m.kind
  BY <1>2 DEF BindingKey
<1> QED
  BY <1>1, <1>2, <1>3 DEF DynKeys

LEMMA SteadyWhen ==
    ASSUME \A m \in nats' : m.kind = "dyn" => \E n \in nats : BindingKey(n) = BindingKey(m),
           UNCHANGED rateVars
    PROVE  Steady
BY NoneFresh DEF Steady, rateVars

\* A new tunnel has no past in this second.
LEMMA NewTunnelSteady ==
    ASSUME TypeOK, NEW t \in Tunnel, NEW p, t \notin tunnels, NewTunnel(t, p),
           \A m \in nats' : m.kind = "dyn" => \E n \in nats : BindingKey(n) = BindingKey(m)
    PROVE  Steady
<1> SUFFICES ASSUME NEW s \in Slot, SameLife(s)
             PROVE  /\ Fresh(s) = {} /\ tnatrt'[s] = tnatrt[s]
                    /\ lastnat'[s[1]] = lastnat[s[1]]
  BY DEF Steady
<1>1. s[1] # t /\ s[1] \in Tunnel
  BY DEF SameLife, Slot
<1>2. tnatrt'[s] = tnatrt[s] /\ lastnat'[s[1]] = lastnat[s[1]]
  BY <1>1 DEF NewTunnel, TypeOK
<1> QED
  BY <1>2, NoneFresh

LEMMA RateSteps == TypeOK /\ [Next]_vars => Steady \/ Counts
<1> SUFFICES ASSUME TypeOK, [Next]_vars PROVE Steady \/ Counts
  OBVIOUS
<1>1. ASSUME nats' \subseteq nats, UNCHANGED rateVars PROVE Steady
  BY <1>1, SteadyWhen
<1>2. ASSUME NEW n \in nats, NEW m, SameBinding(m, n), Replace(n, m), UNCHANGED rateVars
      PROVE  Steady
  <2>1. BindingKey(m) = BindingKey(n)
    BY <1>2 DEF SameBinding, BindingKey
  <2>2. \A x \in nats' : \E y \in nats : BindingKey(y) = BindingKey(x)
    BY <1>2, <2>1 DEF Replace
  <2> QED
    BY <1>2, <2>2, SteadyWhen
<1>3. ASSUME NEW n \in nats, NEW fl, NatInHit(n, fl) \/ NatOut(n, fl) PROVE Steady
  <2>1. n \in Binding /\ seconds \in Nat
    BY DEF TypeOK
  <2>2. SameBinding(RefreshIn(n, fl), n)
        /\ \A m \in {n, Extend(n, n.lifetime)} : SameBinding(RefreshOut(m, fl), n)
    BY <2>1, RefreshBoth
  <2>3. UNCHANGED rateVars
    BY <1>3 DEF NatInHit, NatOut
  <2>4. \E m : Replace(n, m) /\ SameBinding(m, n)
    BY <1>3, <2>2 DEF NatInHit, NatOut
  <2> QED
    BY <1>2, <2>3, <2>4
<1>4. ASSUME NEW n \in nats, TooBigOut(n) \/ NatIcmpOut(n) PROVE Steady
  <2>1. n \in Binding /\ n.lifetime \in Nat /\ Echo \in Nat /\ seconds \in Nat
    BY DEF TypeOK, Binding, NatAssumption
  <2>2. SameBinding(Extend(n, n.lifetime), n) /\ SameBinding(Extend(n, Echo), n)
    BY <2>1, ExtendKeeps
  <2> QED
    BY <1>2, <1>4, <2>2 DEF TooBigOut, NatIcmpOut
<1>5. ASSUME NEW t \in Tunnel, NEW pr \in Proto, NEW src \in Src, NEW d \in Dst,
             NEW q \in DynPort, NEW fl, NatInNew(t, pr, src, d, q, fl)
      PROVE  Counts
  <2> DEFINE b == RefreshIn(Dynamic(t, pr, src, d, q), fl)
  <2>1. b.tun = t /\ b.pr = pr
    BY DynamicKeeps
  <2>2. /\ nats' = nats \cup {b} /\ Attempt(t, pr) /\ RateAllows(t, pr)
        /\ UNCHANGED <<tunnels, seconds>>
    BY <1>5 DEF NatInNew, tunVars, loopVars
  <2> HIDE DEF b
  <2>3. ASSUME NEW s \in Slot, Fresh(s) # {}
        PROVE  s = <<t, pr>> /\ \E x : Fresh(s) = {x}
    <3>1. ASSUME NEW x \in Fresh(s)
          PROVE  x = BindingKey(b) /\ s = <<t, pr>>
      <4>1. PICK m \in nats' : x = BindingKey(m) /\ <<m.tun, m.pr>> = s /\ m.kind = "dyn"
        BY <3>1 DEF Fresh, DynKeys
      <4>2. m \notin nats
        BY <3>1, <4>1 DEF Fresh, DynKeys
      <4> QED
        BY <2>1, <2>2, <4>1, <4>2
    <3> QED
      BY <2>3, <3>1
  <2> QED
    BY <2>2, <2>3 DEF Counts
<1>6. ASSUME NEW t \in Tunnel, NEW pr \in Proto, NEW src \in Src, NEW d \in Dst,
             \/ NatInOverRate(t, pr, src, d) \/ NatInNoPort(t, pr, src, d)
             \/ \E q \in DynPort : NatInHeapFull(t, pr, src, d, q)
      PROVE  Counts
  <2>1. Attempt(t, pr) /\ nats' = nats /\ UNCHANGED <<tunnels, seconds>>
    BY <1>6 DEF NatInOverRate, NatInNoPort, NatInHeapFull, portVars, tunVars, loopVars
  <2>2. \A s \in Slot : Fresh(s) = {}
    BY <2>1, NoneFresh
  <2> QED
    BY <2>1, <2>2 DEF Counts
<1>7. ASSUME NEW b, NEW p2, AddPermanent(b, p2), b.tun \in Tunnel, b.kind # "dyn"
      PROVE  Steady
  <2>1. \A m \in nats' : m.kind = "dyn" => \E n \in nats : BindingKey(n) = BindingKey(m)
    BY <1>7 DEF AddPermanent
  <2>2. CASE b.tun \in tunnels
    BY <1>7, <2>1, <2>2, SteadyWhen DEF AddPermanent
  <2>3. CASE b.tun \notin tunnels
    BY <1>7, <2>1, <2>3, NewTunnelSteady DEF AddPermanent
  <2> QED
    BY <2>2, <2>3
<1>8. ASSUME NEW t \in Tunnel, DelTunnel(t) PROVE Steady
  BY <1>1, <1>8 DEF DelTunnel, Release
<1>9. ASSUME NEW n \in nats, DelPermanent(n) PROVE Steady
  BY <1>1, <1>9 DEF DelPermanent, Release
<1>10. ASSUME NEW t \in Tunnel, NEW p \in Pool, AddTunnel(t, p) PROVE Steady
  <2>1. nats' = nats /\ t \notin tunnels /\ NewTunnel(t, p)
    BY <1>10 DEF AddTunnel, portVars
  <2> QED
    BY <2>1, NewTunnelSteady
<1>11. CASE Select \/ CommandsDone \/ SameSecond \/ UNCHANGED vars
  BY <1>1, <1>11 DEF Select, CommandsDone, SameSecond, vars, portVars
<1>12. CASE Expire
  BY <1>1, <1>12 DEF Expire, Release
<1>13. CASE Loop
  BY <1>11, <1>12, <1>13 DEF Loop
<1>14. CASE Command
  BY <1>7, <1>8, <1>9, <1>10, <1>14 DEF Command, AddSnat, AddPrr, Permanent
<1>15. CASE Traffic
  BY <1>3, <1>4, <1>5, <1>6, <1>15 DEF Traffic, Hit
<1> QED
  BY <1>11, <1>13, <1>14, <1>15 DEF Next

\* The sums of one slot: a lap of the counter of attempts is worth m bindings.
LEMMA RateSums ==
    ASSUME NEW m \in Nat, m >= 1, NEW l \in Nat, NEW r \in Nat, NEW c \in Nat,
           c <= m * l + m, c <= m * l + r + 1
    PROVE  /\ m * l \in Nat /\ m * (l + 1) = m * l + m
           /\ r + 1 < m => c + 1 <= m * l + m
           /\ c + 1 <= m * (l + 1) + m /\ c + 1 <= m * (l + 1) + 1
<1>1. m * l \in Nat /\ m * (l + 1) = m * l + m
  OBVIOUS
<1> DEFINE p == m * l
           p1 == m * (l + 1)
<1>2. p \in Nat /\ p1 = p + m /\ c <= p + m /\ c <= p + r + 1
  BY <1>1
<1> HIDE DEF p, p1
<1>3. /\ r + 1 < m => c + 1 <= p + m
      /\ c + 1 <= p1 + m /\ c + 1 <= p1 + 1
  BY <1>2
<1> QED
  BY <1>1, <1>3 DEF p, p1

LEMMA NextCount ==
    ASSUME NEW r \in 0..(RateMod - 1)
    PROVE  (r + 1) % RateMod = IF r + 1 = RateMod THEN 0 ELSE r + 1
BY DEF NatAssumption

Rated(s) ==
    /\ s[1] \notin tunnels \/ lastnat[s[1]] # seconds => laps[s] = 0 /\ made[s] = 0
    /\ made[s] <= MaxNatRt[s[2]] * laps[s] + MaxNatRt[s[2]]
    /\ made[s] <= MaxNatRt[s[2]] * laps[s] + tnatrt[s] + 1

RateInv ==
    /\ laps \in [Slot -> Nat] /\ made \in [Slot -> Nat]
    /\ \A s \in Slot : Rated(s)

\* A slot in a steady step.
LEMMA RatedSteady ==
    ASSUME TypeOK, RateInv, RNext, NEW s \in Slot, SameLife(s), Fresh(s) = {},
           tnatrt'[s] = tnatrt[s], lastnat'[s[1]] = lastnat[s[1]]
    PROVE  laps'[s] \in Nat /\ made'[s] \in Nat /\ Rated(s)'
<1>1. ~Wraps(s) /\ Cardinality(Fresh(s)) = 0
  BY FS_EmptySet DEF Wraps
<1>2. laps'[s] = laps[s] /\ made'[s] = made[s]
  BY <1>1 DEF RNext, RateInv
<1> QED
  BY <1>2 DEF Rated, RateInv, SameLife

\* The slot that is counted, in a second in which it was counted before.
LEMMA RatedAgain ==
    ASSUME TypeOK, RateInv, RNext, NEW s \in Slot, SameLife(s), lastnat[s[1]] = seconds,
           Attempt(s[1], s[2]),
           Fresh(s) # {} => RateAllows(s[1], s[2]) /\ \E x : Fresh(s) = {x}
    PROVE  laps'[s] \in Nat /\ made'[s] \in Nat /\ Rated(s)'
<1> DEFINE m == MaxNatRt[s[2]]
           l == laps[s]
           r == tnatrt[s]
           c == made[s]
           n == Cardinality(Fresh(s))
<1>1. /\ s = <<s[1], s[2]>> /\ s[1] \in Tunnel /\ s[2] \in Proto
      /\ m \in 1..(RateMod - 1) /\ RateMod \in Nat
  <2>1. s = <<s[1], s[2]>> /\ s[1] \in Tunnel /\ s[2] \in Proto
    BY DEF Slot
  <2>2. \A pr \in Proto : MaxNatRt[pr] \in 1..(RateMod - 1)
    BY DEF NatAssumption
  <2> QED
    BY <2>1, <2>2 DEF NatAssumption
<1>2. r \in 0..(RateMod - 1) /\ l \in Nat /\ c \in Nat
  BY DEF TypeOK, RateInv
<1>3. tnatrt'[s] = (r + 1) % RateMod /\ lastnat'[s[1]] = seconds
  BY <1>1 DEF Attempt, TypeOK
<1>4. tnatrt'[s] = IF r + 1 = RateMod THEN 0 ELSE r + 1
  BY <1>2, <1>3, NextCount
<1>5. /\ laps'[s] = IF r + 1 = RateMod THEN l + 1 ELSE l
      /\ made'[s] = c + n
  <2>1. Wraps(s) <=> r + 1 = RateMod
    BY <1>1, <1>2, <1>3, <1>4 DEF Wraps, NatAssumption
  <2> QED
    BY <2>1 DEF RNext
<1>6. n \in {0, 1} /\ (n = 1 => r + 1 = RateMod \/ r + 1 < m)
  <2>1. CASE Fresh(s) = {}
    BY <2>1, FS_EmptySet
  <2>2. CASE Fresh(s) # {}
    <3>1. n = 1
      BY <2>2, FS_Singleton
    <3>2. (r + 1) % RateMod < m
      BY <1>1, <2>2 DEF RateAllows
    <3> QED
      BY <1>2, <3>1, <3>2, NextCount
  <2> QED
    BY <2>1, <2>2
<1>7. c <= m * l + m /\ c <= m * l + r + 1
  BY DEF RateInv, Rated
<1> HIDE DEF m, l, r, c, n
<1>8. /\ m * l \in Nat /\ m * (l + 1) = m * l + m
      /\ r + 1 < m => c + 1 <= m * l + m
      /\ c + 1 <= m * (l + 1) + m /\ c + 1 <= m * (l + 1) + 1
  BY <1>1, <1>2, <1>7, RateSums
<1>9. /\ made'[s] <= m * laps'[s] + m
      /\ made'[s] <= m * laps'[s] + tnatrt'[s] + 1
  <2>1. CASE r + 1 = RateMod
    <3>1. laps'[s] = l + 1 /\ tnatrt'[s] = 0 /\ made'[s] <= c + 1
      BY <1>2, <1>4, <1>5, <1>6, <2>1
    <3> DEFINE p == m * (l + 1)
    <3>2. p \in Nat /\ c + 1 <= p + m /\ c + 1 <= p + 1
      BY <1>1, <1>8
    <3>3. made'[s] \in Nat
      BY <1>2, <1>5, <1>6
    <3>4. m * laps'[s] = p
      BY <3>1
    <3> HIDE DEF p
    <3>5. made'[s] <= p + m /\ made'[s] <= p + 0 + 1
      BY <1>1, <1>2, <3>1, <3>2, <3>3
    <3> QED
      BY <3>1, <3>4, <3>5
  <2>2. CASE r + 1 # RateMod
    <3>1. laps'[s] = l /\ tnatrt'[s] = r + 1 /\ made'[s] = c + n
      BY <1>4, <1>5, <2>2
    <3> DEFINE p == m * l
    <3>2. p \in Nat /\ (r + 1 < m => c + 1 <= p + m) /\ c <= p + m /\ c <= p + r + 1
      BY <1>7, <1>8
    <3>3. m * laps'[s] = p
      BY <3>1
    <3> HIDE DEF p
    <3>4. c + n <= p + m /\ c + n <= p + (r + 1) + 1
      BY <1>1, <1>2, <1>6, <2>2, <3>2
    <3> QED
      BY <3>1, <3>3, <3>4
  <2> QED
    BY <2>1, <2>2
<1>10. laps'[s] \in Nat /\ made'[s] \in Nat
  BY <1>2, <1>5, <1>6
<1> QED
  BY <1>3, <1>9, <1>10 DEF Rated, SameLife, m

\* A slot of the tunnel that is counted, the first time in a second.
LEMMA RatedFirst ==
    ASSUME TypeOK, RateInv, RNext, NEW s \in Slot, NEW pr \in Proto, SameLife(s),
           lastnat[s[1]] # seconds, Attempt(s[1], pr),
           Fresh(s) # {} => s[2] = pr /\ \E x : Fresh(s) = {x}
    PROVE  laps'[s] \in Nat /\ made'[s] \in Nat /\ Rated(s)'
<1> DEFINE m == MaxNatRt[s[2]]
           n == Cardinality(Fresh(s))
<1>1. s[1] \in Tunnel /\ s[2] \in Proto /\ m \in Nat /\ m >= 1
  <2>1. s[1] \in Tunnel /\ s[2] \in Proto
    BY DEF Slot
  <2>2. \A x \in Proto : MaxNatRt[x] \in 1..(RateMod - 1)
    BY DEF NatAssumption
  <2> QED
    BY <2>1, <2>2
<1>2. /\ tnatrt'[s] = IF s[2] = pr THEN 1 ELSE 0
      /\ lastnat'[s[1]] = seconds
  BY <1>1 DEF Attempt, TypeOK
<1>3. n \in {0, 1}
  BY FS_EmptySet, FS_Singleton
<1>4. laps[s] = 0 /\ made[s] = 0
  BY DEF RateInv, Rated
<1>5. laps'[s] = 0 /\ made'[s] = n
  <2>1. ~Wraps(s)
    BY <1>2 DEF Wraps
  <2>2. laps'[s] = laps[s] /\ made'[s] = made[s] + n
    BY <2>1 DEF RNext
  <2> QED
    BY <1>3, <1>4, <2>2
<1>6. m * 0 = 0
  BY <1>1
<1> HIDE DEF m, n
<1>7. n <= 0 + m /\ n <= 0 + tnatrt'[s] + 1
  BY <1>1, <1>2, <1>3
<1> QED
  BY <1>2, <1>3, <1>5, <1>6, <1>7 DEF Rated, SameLife, m

\* A slot whose tunnel goes or comes, or of a new second.
LEMMA RatedAnew ==
    ASSUME TypeOK', RNext, NEW s \in Slot, ~SameLife(s)
    PROVE  laps'[s] \in Nat /\ made'[s] \in Nat /\ Rated(s)'
<1> DEFINE m == MaxNatRt[s[2]]
<1>1. laps'[s] = 0 /\ made'[s] = 0
  BY DEF RNext
<1>2. m \in Nat /\ tnatrt'[s] \in Nat
  <2>1. s[2] \in Proto
    BY DEF Slot
  <2>2. \A pr \in Proto : MaxNatRt[pr] \in 1..(RateMod - 1)
    BY DEF NatAssumption
  <2>3. tnatrt'[s] \in 0..(RateMod - 1)
    BY DEF TypeOK
  <2> QED
    BY <2>1, <2>2, <2>3
<1>3. m * 0 = 0
  BY <1>2
<1> HIDE DEF m
<1>4. 0 <= 0 + m /\ 0 <= 0 + tnatrt'[s] + 1
  BY <1>2
<1> QED
  BY <1>1, <1>3, <1>4 DEF Rated, m

LEMMA RateStep == TypeOK /\ RateInv /\ [RNext]_rvars => RateInv'
<1> SUFFICES ASSUME TypeOK, RateInv, [RNext]_rvars PROVE RateInv'
  OBVIOUS
<1>1. CASE UNCHANGED rvars
  BY <1>1 DEF rvars, vars, rateVars, tunVars, loopVars, RateInv, Rated
<1>2. CASE RNext
  <2>1. TypeOK' /\ (Steady \/ Counts)
    BY <1>2, TypeStep, RateSteps DEF RNext
  <2>2. ASSUME NEW s \in Slot
        PROVE  laps'[s] \in Nat /\ made'[s] \in Nat /\ Rated(s)'
    <3>1. CASE ~SameLife(s)
      BY <1>2, <2>1, <3>1, RatedAnew
    <3>2. CASE SameLife(s) /\ Steady
      BY <1>2, <3>2, RatedSteady DEF Steady
    <3>3. ASSUME NEW t \in Tunnel, NEW pr \in Proto, SameLife(s), Attempt(t, pr),
                 Fresh(s) # {} =>
                     s = <<t, pr>> /\ RateAllows(t, pr) /\ \E x : Fresh(s) = {x}
          PROVE  laps'[s] \in Nat /\ made'[s] \in Nat /\ Rated(s)'
      <4>1. s = <<s[1], s[2]>> /\ s[1] \in Tunnel /\ s[2] \in Proto
        BY DEF Slot
      <4>2. CASE s[1] # t \/ (s[2] # pr /\ lastnat[t] = seconds)
        <5>1. Fresh(s) = {}
          BY <3>3, <4>2
        <5>2. tnatrt'[s] = tnatrt[s] /\ lastnat'[s[1]] = lastnat[s[1]]
          BY <3>3, <4>1, <4>2 DEF Attempt, TypeOK
        <5> QED
          BY <1>2, <3>3, <5>1, <5>2, RatedSteady
      <4>3. CASE s[1] = t /\ lastnat[t] # seconds
        BY <1>2, <3>3, <4>3, RatedFirst
      <4>4. CASE s[1] = t /\ s[2] = pr /\ lastnat[t] = seconds
        BY <1>2, <3>3, <4>4, RatedAgain
      <4> QED
        BY <4>2, <4>3, <4>4
    <3> QED
      BY <2>1, <3>1, <3>2, <3>3 DEF Counts
  <2>3. laps' \in [Slot -> Nat] /\ made' \in [Slot -> Nat]
    BY <1>2, <2>2 DEF RNext
  <2> QED
    BY <2>2, <2>3 DEF RateInv
<1> QED
  BY <1>1, <1>2

LEMMA RateHolds == RSpec => [](TypeOK /\ RateInv)
<1>1. RInit => TypeOK /\ RateInv
  <2> SUFFICES ASSUME RInit PROVE TypeOK /\ RateInv
    OBVIOUS
  <2>1. TypeOK
    BY TypeInit DEF RInit
  <2>2. ASSUME NEW s \in Slot
        PROVE  Rated(s)
    <3>1. laps[s] = 0 /\ made[s] = 0 /\ tnatrt[s] = 0
      BY <2>2 DEF RInit, Init
    <3>2. s[2] \in Proto /\ \A pr \in Proto : MaxNatRt[pr] \in 1..(RateMod - 1)
      BY DEF Slot, NatAssumption
    <3> DEFINE m == MaxNatRt[s[2]]
    <3>3. m \in Nat
      BY <3>2
    <3>4. m * 0 = 0
      BY <3>3
    <3> HIDE DEF m
    <3>5. 0 <= 0 + m
      BY <3>3
    <3> QED
      BY <3>1, <3>4, <3>5 DEF Rated, m
  <2> QED
    BY <2>1, <2>2 DEF RInit, RateInv
<1>2. TypeOK /\ [RNext]_rvars => TypeOK'
  <2>1. [RNext]_rvars => [Next]_vars
    BY DEF RNext, rvars
  <2> QED
    BY <2>1, TypeStep
<1> QED
  BY <1>1, <1>2, RateStep, PTL DEF RSpec

\* natin() counts what a tunnel tries to make in a second in 8 bits, and refuses
\* when the count is the rate or more: however many times the count comes round, it
\* lets the tunnel make no more than its rate for each time.
THEOREM RateHasBound == RSpec => []RateBounded
<1>1. ASSUME TypeOK, RateInv, NEW s \in Slot
      PROVE  made[s] <= MaxNatRt[s[2]] * (laps[s] + 1)
  <2> DEFINE m == MaxNatRt[s[2]]
             l == laps[s]
  <2>1. s[2] \in Proto /\ \A pr \in Proto : MaxNatRt[pr] \in 1..(RateMod - 1)
    BY DEF Slot, NatAssumption
  <2>2. m \in Nat /\ l \in Nat
    BY <1>1, <2>1 DEF RateInv
  <2>3. made[s] <= m * l + m
    BY <1>1 DEF RateInv, Rated
  <2> HIDE DEF m, l
  <2>4. m * (l + 1) = m * l + m
    BY <2>2
  <2>5. made[s] <= m * (l + 1)
    BY <2>3, <2>4
  <2> QED
    BY <2>5 DEF m, l
<1>2. TypeOK /\ RateInv => RateBounded
  BY <1>1 DEF RateBounded
<1> QED
  BY <1>2, RateHolds, PTL

\* The maximum rate of dynamic NAT creation per second is kept in every second in
\* which no tunnel tries more often than its 8-bit counter can count.
THEOREM RateKeptInByte == RSpec => []((\A s \in Slot : laps[s] = 0) => RateKept)
<1>1. ASSUME RateBounded, \A s \in Slot : laps[s] = 0, NEW s \in Slot
      PROVE  made[s] <= MaxNatRt[s[2]]
  <2> DEFINE m == MaxNatRt[s[2]]
  <2>1. s[2] \in Proto /\ \A pr \in Proto : MaxNatRt[pr] \in 1..(RateMod - 1)
    BY DEF Slot, NatAssumption
  <2>2. m \in Nat
    BY <2>1
  <2>3. made[s] <= m * (0 + 1)
    BY <1>1 DEF RateBounded
  <2> HIDE DEF m
  <2>4. m * (0 + 1) = m
    BY <2>2
  <2> QED
    BY <2>3, <2>4 DEF m
<1>2. RateBounded => ((\A s \in Slot : laps[s] = 0) => RateKept)
  BY <1>1 DEF RateKept
<1> QED
  BY <1>2, RateHasBound, PTL
==============================================================================
