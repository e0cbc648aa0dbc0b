---------------------------- MODULE AftrNatProofs ----------------------------
(***************************************************************************)
(* Proofs about AftrNat, for any pools, ports, tunnels and lifetimes: the  *)
(* types, and the conservation of the dynamic ports (each of them is in    *)
(* exactly one of the free map, one bucket, one binding, one place of the  *)
(* on-hold queue).                                                         *)
(***************************************************************************)
EXTENDS AftrNat, FiniteSetTheorems, SequenceTheorems, TLAPS

(***************************************************************************)
(* Sequences and queues.                                                   *)
(***************************************************************************)

\* SetToSeq lists a finite set, each element once.
LEMMA SetToSeqLists ==
    ASSUME NEW S, IsFiniteSet(S)
    PROVE  /\ SetToSeq(S) \in Seq(S)
           /\ \A x \in S : \E i \in DOMAIN SetToSeq(S) : SetToSeq(S)[i] = x
           /\ IsInjective(SetToSeq(S))
<1> DEFINE n == Cardinality(S)
           f == SetToSeq(S)
<1>1. n \in Nat /\ ExistsBijection(1..n, S)
  BY FS_CardinalityType
<1>2. \E g \in [1..n -> S] : IsInjective(g)
  BY <1>1 DEF ExistsBijection, Bijection, Injection
<1>3. f \in [1..n -> S] /\ IsInjective(f)
  BY <1>2 DEF SetToSeq
<1>4. f \in Injection(1..n, S)
  BY <1>3 DEF Injection
<1>5. IsFiniteSet(1..n) /\ Cardinality(1..n) = n
  BY <1>1, FS_Interval
<1>6. f \in Surjection(1..n, S)
  BY <1>4, <1>5, FS_Injection
<1>7. \A x \in S : \E i \in 1..n : f[i] = x
  BY <1>6 DEF Surjection
<1>8. f \in Seq(S)
  BY <1>1, <1>3
<1> QED
  BY <1>3, <1>7, <1>8

\* Concatenation joins the ports of two queues and keeps them distinct when
\* they have none in common.
LEMMA ConcatPorts ==
    ASSUME NEW q \in Seq(Held), NEW r \in Seq(Held)
    PROVE  /\ q \o r \in Seq(Held)
           /\ PortsOf(q \o r) = PortsOf(q) \cup PortsOf(r)
           /\ Distinct(q) /\ Distinct(r) /\ PortsOf(q) \cap PortsOf(r) = {}
                  => Distinct(q \o r)
<1>1. q \o r \in Seq(Held)
  OBVIOUS
<1>2. /\ Len(q \o r) = Len(q) + Len(r)
      /\ \A i \in 1..Len(q) : (q \o r)[i] = q[i]
      /\ \A i \in 1..Len(r) : (q \o r)[i + Len(q)] = r[i]
      /\ \A i \in (Len(q) + 1)..(Len(q) + Len(r)) : (q \o r)[i] = r[i - Len(q)]
  OBVIOUS
<1>3. /\ DOMAIN q = 1..Len(q) /\ DOMAIN r = 1..Len(r)
      /\ DOMAIN (q \o r) = 1..(Len(q) + Len(r))
      /\ Len(q) \in Nat /\ Len(r) \in Nat
  BY <1>1, <1>2
<1>4. PortsOf(q \o r) \subseteq PortsOf(q) \cup PortsOf(r)
  <2> SUFFICES ASSUME NEW i \in 1..(Len(q) + Len(r))
               PROVE  (q \o r)[i].port \in PortsOf(q) \cup PortsOf(r)
    BY <1>3 DEF PortsOf
  <2>1. CASE i \in 1..Len(q)
    BY <2>1, <1>2, <1>3 DEF PortsOf
  <2>2. CASE i \in (Len(q) + 1)..(Len(q) + Len(r))
    <3>1. i - Len(q) \in 1..Len(r)
      BY <2>2, <1>3
    <3> QED
      BY <3>1, <2>2, <1>2, <1>3 DEF PortsOf
  <2> QED
    BY <2>1, <2>2, <1>3
<1>5. PortsOf(q) \subseteq PortsOf(q \o r)
  <2> SUFFICES ASSUME NEW i \in 1..Len(q)
               PROVE  q[i].port \in PortsOf(q \o r)
    BY <1>3 DEF PortsOf
  <2>1. i \in DOMAIN (q \o r) /\ (q \o r)[i] = q[i]
    BY <1>2, <1>3
  <2> QED
    BY <2>1 DEF PortsOf
<1>6. PortsOf(r) \subseteq PortsOf(q \o r)
  <2> SUFFICES ASSUME NEW i \in 1..Len(r)
               PROVE  r[i].port \in PortsOf(q \o r)
    BY <1>3 DEF PortsOf
  <2>1. i + Len(q) \in DOMAIN (q \o r) /\ (q \o r)[i + Len(q)] = r[i]
    BY <1>2, <1>3
  <2> QED
    BY <2>1 DEF PortsOf
<1>7. ASSUME Distinct(q), Distinct(r), PortsOf(q) \cap PortsOf(r) = {}
      PROVE  Distinct(q \o r)
  <2> SUFFICES ASSUME NEW i \in 1..(Len(q) + Len(r)), NEW j \in 1..(Len(q) + Len(r)),
                      (q \o r)[i].port = (q \o r)[j].port
               PROVE  i = j
    BY <1>3 DEF Distinct
  <2> DEFINE Left(x) == x \in 1..Len(q)
             Right(x) == x - Len(q) \in 1..Len(r)
  <2>1. \A x \in 1..(Len(q) + Len(r)) :
            \/ Left(x) /\ (q \o r)[x] = q[x] /\ q[x].port \in PortsOf(q)
            \/ Right(x) /\ (q \o r)[x] = r[x - Len(q)] /\ r[x - Len(q)].port \in PortsOf(r)
    <3> TAKE x \in 1..(Len(q) + Len(r))
    <3>1. CASE Left(x)
      BY <3>1, <1>2, <1>3 DEF PortsOf
    <3>2. CASE ~Left(x)
      <4>1. Right(x) /\ x \in (Len(q) + 1)..(Len(q) + Len(r))
        BY <3>2, <1>3
      <4> QED
        BY <4>1, <1>2, <1>3 DEF PortsOf
    <3> QED
      BY <3>1, <3>2
  <2>2. CASE Left(i) /\ Left(j) /\ (q \o r)[i] = q[i] /\ (q \o r)[j] = q[j]
    BY <2>2, <1>3, <1>7 DEF Distinct
  <2>3. CASE Right(i) /\ Right(j) /\ (q \o r)[i] = r[i - Len(q)]
             /\ (q \o r)[j] = r[j - Len(q)]
    <3>1. i - Len(q) = j - Len(q)
      BY <2>3, <1>3, <1>7 DEF Distinct
    <3> QED
      BY <3>1, <1>3
  <2> QED
    BY <2>1, <2>2, <2>3, <1>7
<1> QED
  BY <1>1, <1>4, <1>5, <1>6, <1>7

\* Cutting a queue after its place i splits its ports.
LEMMA CutPorts ==
    ASSUME NEW q \in Seq(Held), NEW i \in 0..Len(q)
    PROVE  LET r == SubSeq(q, i + 1, Len(q)) IN
           /\ r \in Seq(Held)
           /\ PortsOf(q) = PrefixPorts(q, i) \cup PortsOf(r)
           /\ Distinct(q) => Distinct(r) /\ PrefixPorts(q, i) \cap PortsOf(r) = {}
<1> DEFINE r == SubSeq(q, i + 1, Len(q))
<1>0. Len(q) \in Nat /\ i \in Nat /\ i <= Len(q)
  OBVIOUS
<1>1. /\ Len(q) \in Nat /\ DOMAIN q = 1..Len(q)
      /\ r \in Seq(Held) /\ Len(r) = Len(q) - i
      /\ DOMAIN r = 1..(Len(q) - i)
      /\ \A j \in 1..(Len(q) - i) : r[j] = q[i + j]
  OBVIOUS
<1> HIDE DEF r
<1>2. PortsOf(r) = {q[j].port : j \in (i + 1)..Len(q)}
  <2>1. ASSUME NEW j \in 1..(Len(q) - i)
        PROVE  r[j].port \in {q[x].port : x \in (i + 1)..Len(q)}
    <3>1. i + j \in (i + 1)..Len(q)
      BY <1>0
    <3> QED
      BY <3>1, <1>1
  <2>2. ASSUME NEW j \in (i + 1)..Len(q)
        PROVE  q[j].port \in {r[x].port : x \in 1..(Len(q) - i)}
    <3>1. j - i \in 1..(Len(q) - i) /\ i + (j - i) = j
      BY <1>0
    <3> QED
      BY <3>1, <1>1
  <2> QED
    BY <2>1, <2>2, <1>1 DEF PortsOf
<1>3. PortsOf(q) = PrefixPorts(q, i) \cup PortsOf(r)
  <2>1. DOMAIN q = (1..i) \cup ((i + 1)..Len(q))
    BY <1>0, <1>1
  <2> QED
    BY <2>1, <1>2 DEF PortsOf, PrefixPorts
<1>4. ASSUME Distinct(q)
      PROVE  Distinct(r) /\ PrefixPorts(q, i) \cap PortsOf(r) = {}
  <2>1. Distinct(r)
    <3> SUFFICES ASSUME NEW a \in 1..(Len(q) - i), NEW b \in 1..(Len(q) - i),
                        r[a].port = r[b].port
                 PROVE  a = b
      BY <1>1 DEF Distinct
    <3>1. i + a \in 1..Len(q) /\ i + b \in 1..Len(q)
      BY <1>0
    <3>2. q[i + a].port = q[i + b].port
      BY <1>1
    <3>3. i + a = i + b
      BY <1>1, <3>1, <3>2, <1>4 DEF Distinct
    <3> QED
      BY <3>3, <1>0
  <2>2. PrefixPorts(q, i) \cap PortsOf(r) = {}
    <3> SUFFICES ASSUME NEW a \in 1..i, NEW b \in (i + 1)..Len(q), q[a].port = q[b].port
                 PROVE  FALSE
      BY <1>2 DEF PrefixPorts
    <3>1. a \in 1..Len(q) /\ b \in 1..Len(q) /\ a # b
      BY <1>0
    <3> QED
      BY <1>1, <3>1, <1>4 DEF Distinct
  <2> QED
    BY <2>1, <2>2
<1> QED
  BY <1>1, <1>3, <1>4 DEF r

\* The dynamic ports of the pool and protocol k bound in a set of bindings.
PortsIn(S, k) == {n.port : n \in {m \in S : InRange(m, k)}}

\* No two bindings of S share a dynamic port of k.
OnePerPort(S, k) ==
    \A n, m \in S : InRange(n, k) /\ InRange(m, k) /\ n.port = m.port => n = m

\* The entries of the queue made for a finite set of bindings.
LEMMA HeldsOfLists ==
    ASSUME NatAssumption, seconds \in Nat, NEW k \in Key,
           NEW S, IsFiniteSet(S), S \subseteq Binding
    PROVE  /\ HeldsOf(S, k) \in Seq(Held)
           /\ \A i \in DOMAIN HeldsOf(S, k) :
                  \E n \in S : InRange(n, k) /\ HeldsOf(S, k)[i] = HeldOf(n)
           /\ \A n \in S : InRange(n, k) =>
                  \E i \in DOMAIN HeldsOf(S, k) : HeldsOf(S, k)[i] = HeldOf(n)
           /\ OnePerPort(S, k) => Distinct(HeldsOf(S, k))
<1> DEFINE D == {n \in S : InRange(n, k)}
           s == SetToSeq(D)
           r == HeldsOf(S, k)
<1>1. /\ s \in Seq(D) /\ (\A x \in D : \E i \in DOMAIN s : s[i] = x)
      /\ IsInjective(s)
  <2>1. IsFiniteSet(D)
    BY FS_Subset
  <2> QED
    BY <2>1, SetToSeqLists
<1>2. DOMAIN s = 1..Len(s) /\ Len(s) \in Nat /\ \A i \in DOMAIN s : s[i] \in D
  BY <1>1, LenProperties
<1>3. r = [i \in DOMAIN s |-> HeldOf(s[i])]
  BY DEF HeldsOf
<1> HIDE DEF s, r
<1>4. \A n \in D : HeldOf(n) \in Held
  BY DEF HeldOf, Held, InRange, NatAssumption
<1>5. r \in Seq(Held)
  BY <1>2, <1>3, <1>4
<1>6. \A i \in DOMAIN r : r[i] = HeldOf(s[i]) /\ s[i] \in D
  BY <1>2, <1>3
<1>7. \A n \in D : \E i \in DOMAIN r : r[i] = HeldOf(n)
  BY <1>1, <1>3
<1>8. ASSUME OnePerPort(S, k), NEW i \in DOMAIN r, NEW j \in DOMAIN r,
             r[i].port = r[j].port
      PROVE  i = j
  <2>1. s[i].port = s[j].port
    BY <1>6, <1>8 DEF HeldOf
  <2>2. s[i] = s[j]
    BY <1>6, <1>8, <2>1 DEF OnePerPort
  <2> QED
    BY <1>1, <1>3, <2>2 DEF IsInjective
<1> QED
  BY <1>5, <1>6, <1>7, <1>8 DEF r, Distinct

\* Releasing a finite set of bindings appends their ports to the queue.
LEMMA RequeuePorts ==
    ASSUME NatAssumption, seconds \in Nat, NEW k \in Key,
           NEW q \in Seq(Held), NEW S, IsFiniteSet(S), S \subseteq Binding
    PROVE  /\ Requeue(q, S, k) \in Seq(Held)
           /\ PortsOf(Requeue(q, S, k)) = PortsOf(q) \cup PortsIn(S, k)
           /\ /\ Distinct(q) /\ OnePerPort(S, k)
              /\ PortsOf(q) \cap PortsIn(S, k) = {}
              => Distinct(Requeue(q, S, k))
<1> DEFINE r == HeldsOf(S, k)
<1>1. /\ r \in Seq(Held)
      /\ \A i \in DOMAIN r : \E n \in S : InRange(n, k) /\ r[i] = HeldOf(n)
      /\ \A n \in S : InRange(n, k) => \E i \in DOMAIN r : r[i] = HeldOf(n)
      /\ OnePerPort(S, k) => Distinct(r)
  BY HeldsOfLists
<1>2. Requeue(q, S, k) = q \o r
  BY DEF Requeue
<1> HIDE DEF r
<1>3. \A n : HeldOf(n).port = n.port
  BY DEF HeldOf
<1>4. PortsOf(r) = PortsIn(S, k)
  BY <1>1, <1>3 DEF PortsOf, PortsIn
<1> QED
  BY <1>1, <1>2, <1>4, ConcatPorts

(***************************************************************************)
(* Bindings.                                                               *)
(***************************************************************************)

\* m is the binding n with another timeout, lifetime or TCP state.
SameBinding(m, n) ==
    /\ m.tun = n.tun /\ m.pr = n.pr /\ m.src = n.src /\ m.dst = n.dst
    /\ m.pool = n.pool /\ m.port = n.port /\ m.kind = n.kind

LEMMA ExtendKeeps ==
    ASSUME NatAssumption, seconds \in Nat, NEW n \in Binding, NEW secs \in Nat
    PROVE  Extend(n, secs) \in Binding /\ SameBinding(Extend(n, secs), n)
BY DEF Extend, Binding, SameBinding

LEMMA TcpStateKeeps ==
    ASSUME NatAssumption, seconds \in Nat, NEW n \in Binding, NEW fl,
           NEW me \in {"in", "out"}
    PROVE  TcpState(n, fl, me) \in Binding /\ SameBinding(TcpState(n, fl, me), n)
<1> DEFINE st == TcpMark(n, fl, me)
           lt == CloseLifetime(st, fl)
<1>1. st \in TcpSt
  BY DEF TcpMark, TcpSt, Closing, Binding
<1>2. lt \in Nat
  BY DEF CloseLifetime, NatAssumption
<1> HIDE DEF st, lt
<1>3. TcpState(n, fl, me) =
         IF n.timeout = 0 THEN n
         ELSE IF TcpCloses(n, fl, me)
              THEN [n EXCEPT !.tcpst = st, !.lifetime = lt,
                             !.timeout = IF @ > seconds + lt THEN seconds + lt ELSE @]
              ELSE [n EXCEPT !.tcpst = st]
  BY DEF TcpState, st, lt
<1>4. CASE n.timeout # 0 /\ TcpCloses(n, fl, me)
  <2> DEFINE to == IF n.timeout > seconds + lt THEN seconds + lt ELSE n.timeout
             m == [n EXCEPT !.tcpst = st, !.lifetime = lt, !.timeout = to]
  <2>1. to \in Nat
    BY <1>2 DEF Binding
  <2> HIDE DEF to
  <2>2. m \in Binding /\ SameBinding(m, n)
    BY <1>1, <1>2, <2>1 DEF Binding, SameBinding
  <2>3. TcpState(n, fl, me) = m
    BY <1>3, <1>4 DEF to
  <2> QED
    BY <2>2, <2>3
<1>5. CASE n.timeout # 0 /\ ~TcpCloses(n, fl, me)
  <2>1. TcpState(n, fl, me) = [n EXCEPT !.tcpst = st]
    BY <1>3, <1>5
  <2> QED
    BY <1>1, <2>1 DEF Binding, SameBinding
<1>6. CASE n.timeout = 0
  BY <1>3, <1>6 DEF SameBinding
<1> QED
  BY <1>4, <1>5, <1>6

LEMMA RefreshKeeps ==
    ASSUME NatAssumption, seconds \in Nat, NEW n \in Binding, NEW fl
    PROVE  /\ RefreshIn(n, fl) \in Binding /\ SameBinding(RefreshIn(n, fl), n)
           /\ RefreshOut(n, fl) \in Binding /\ SameBinding(RefreshOut(n, fl), n)
<1>1. ASSUME NEW me \in {"in", "out"}, NEW secs \in Nat
      PROVE  Refresh(n, fl, me, secs) \in Binding
             /\ SameBinding(Refresh(n, fl, me, secs), n)
  <2>1. TcpState(n, fl, me) \in Binding /\ SameBinding(TcpState(n, fl, me), n)
    BY TcpStateKeeps
  <2>2. Extend(TcpState(n, fl, me), secs) \in Binding
        /\ SameBinding(Extend(TcpState(n, fl, me), secs), TcpState(n, fl, me))
    BY <2>1, ExtendKeeps
  <2> QED
    BY <2>1, <2>2 DEF Refresh, SameBinding
<1>2. Retrans \in Nat
  BY DEF NatAssumption
<1>3. TcpState(n, fl, "out").lifetime \in Nat
  BY TcpStateKeeps DEF Binding
<1> QED
  BY <1>1, <1>2, <1>3 DEF RefreshIn, RefreshOut

\* What NatInHit and NatOut make of a binding.
LEMMA RefreshBoth ==
    ASSUME NatAssumption, seconds \in Nat, NEW n \in Binding, NEW fl
    PROVE  /\ RefreshIn(n, fl) \in Binding /\ SameBinding(RefreshIn(n, fl), n)
           /\ \A m \in {n, Extend(n, n.lifetime)} :
                  RefreshOut(m, fl) \in Binding /\ SameBinding(RefreshOut(m, fl), n)
<1>1. n.lifetime \in Nat
  BY DEF Binding
<1>2. Extend(n, n.lifetime) \in Binding /\ SameBinding(Extend(n, n.lifetime), n)
  BY <1>1, ExtendKeeps
<1> QED
  BY <1>2, RefreshKeeps DEF SameBinding

\* A binding of new_nat() for a packet from the inside.
LEMMA DynamicIsBinding ==
    ASSUME NatAssumption, TypeOK, NEW t \in Tunnel, NEW pr \in Proto,
           NEW src \in Src, NEW d \in Dst, NEW q \in DynPort
    PROVE  LET b == Dynamic(t, pr, src, d, q)
           IN  b \in Binding /\ b.tun = t /\ b.pool = srcidx[t] /\ b.pr = pr /\ b.port = q
               /\ b.kind = "dyn"
<1>1. seconds + Retrans \in Nat /\ Lifetime[pr] \in Nat
  BY DEF TypeOK, NatAssumption
<1>2. srcidx[t] \in Pool /\ q \in Port /\ {} \in TcpSt
  BY DEF TypeOK, Port, TcpSt
<1> QED
  BY <1>1, <1>2 DEF Dynamic, Binding

\* What a new dynamic binding is.
LEMMA DynamicKeeps ==
    ASSUME NatAssumption, TypeOK, NEW t \in Tunnel, NEW pr \in Proto,
           NEW src \in Src, NEW d \in Dst, NEW q \in DynPort, NEW fl
    PROVE  LET n == RefreshIn(Dynamic(t, pr, src, d, q), fl)
           IN  n \in Binding /\ n.tun = t /\ n.pool = srcidx[t]
               /\ n.pr = pr /\ n.port = q /\ n.kind = "dyn"
<1> DEFINE b == Dynamic(t, pr, src, d, q)
<1>1. b \in Binding /\ b.tun = t /\ b.pool = srcidx[t] /\ b.pr = pr /\ b.port = q
      /\ b.kind = "dyn"
  BY DynamicIsBinding
<1> QED
  BY <1>1, RefreshKeeps DEF SameBinding, TypeOK

LEMMA PermanentIsBinding ==
    ASSUME NEW kind \in {"snat", "prr"}, NEW t \in Tunnel, NEW pr \in Proto,
           NEW src \in Src \cup (Pool \X Port), NEW p \in Pool, NEW q \in Port
    PROVE  LET b == Permanent(kind, t, pr, src, p, q)
           IN  b \in Binding /\ b.tun = t /\ b.pr = pr /\ b.port = q /\ b.pool = p
BY DEF Permanent, Binding, TcpSt

(***************************************************************************)
(* Types.                                                                  *)
(***************************************************************************)
USE NatAssumption

LEMMA CountsAreNat ==
    ASSUME NEW S, IsFiniteSet(S)
    PROVE  /\ \A t, pr : CountIf(S, t, pr) \in Nat
           /\ \A kind : KindCount(S, kind) \in Nat
           /\ \A pr : IsFiniteSet({n \in S : n.pr = pr})
<1>1. \A T \in SUBSET S : IsFiniteSet(T) /\ Cardinality(T) \in Nat
  BY FS_Subset, FS_CardinalityType
<1> QED
  BY <1>1 DEF CountIf, KindCount

\* Releasing bindings keeps the types of the bindings and of the counters.
LEMMA ReleaseTypes ==
    ASSUME TypeOK, NEW S \in SUBSET nats, Release(S)
    PROVE  /\ nats' \subseteq Binding /\ IsFiniteSet(nats')
           /\ tnatcnt' \in [Slot -> Int] /\ dyncnt' \in [Proto -> Int]
           /\ snatcnt' \in Int /\ prrcnt' \in Int
<1>1. IsFiniteSet(S) /\ IsFiniteSet(nats \ S)
  BY FS_Subset DEF TypeOK
<1>2. \A pr \in Proto : KindCount({n \in S : n.pr = pr}, "dyn") \in Nat
  BY <1>1, CountsAreNat
<1>3. KindCount(S, "snat") \in Nat /\ KindCount(S, "prr") \in Nat
  BY <1>1, CountsAreNat
<1>4. \A t, pr : CountIf(S, t, pr) \in Nat
  BY <1>1, CountsAreNat
<1>5. nats' \subseteq Binding /\ IsFiniteSet(nats')
  BY <1>1 DEF Release, TypeOK
<1>6. tnatcnt' \in [Slot -> Int]
  BY <1>4 DEF Release, TypeOK
<1>7. dyncnt' \in [Proto -> Int]
  <2> DEFINE c(pr) == KindCount({n \in S : n.pr = pr}, "dyn")
  <2>1. dyncnt' = [pr \in Proto |-> dyncnt[pr] - c(pr)]
    BY DEF Release
  <2>2. \A pr \in Proto : c(pr) \in Nat
    BY <1>2
  <2> HIDE DEF c
  <2> QED
    BY <2>1, <2>2 DEF TypeOK
<1>8. snatcnt' \in Int /\ prrcnt' \in Int
  BY <1>3 DEF Release, TypeOK
<1> QED
  BY <1>5, <1>6, <1>7, <1>8

\* Replacing a binding by a version of itself keeps the type.
LEMMA ReplaceTypes ==
    ASSUME TypeOK, NEW n \in nats, NEW m \in Binding, Replace(n, m)
    PROVE  nats' \subseteq Binding /\ IsFiniteSet(nats')
<1>1. IsFiniteSet((nats \ {n}) \cup {m})
  BY FS_RemoveElement, FS_AddElement DEF TypeOK
<1> QED
  BY <1>1 DEF Replace, TypeOK

\* What drawing a port does to the free maps and to the buckets.
LEMMA DrawTypes ==
    ASSUME TypeOK, NEW t \in Tunnel, NEW pr \in Proto, NEW q \in DynPort, Draw(t, pr, q)
    PROVE  freebm' \in [Key -> SUBSET DynPort] /\ bucket' \in [Slot -> SUBSET DynPort]
<1> DEFINE k == <<srcidx[t], pr>>
           s == <<t, pr>>
<1>1. k \in Key /\ s \in Slot
  BY DEF TypeOK, Key, Slot
<1>2. CASE bucket' = [bucket EXCEPT ![s] = @ \ {q}] /\ UNCHANGED freebm
  BY <1>1, <1>2 DEF TypeOK
<1>3. ASSUME NEW B \in SUBSET freebm[k],
             freebm' = [freebm EXCEPT ![k] = @ \ B],
             bucket' = [bucket EXCEPT ![s] = B \ {q}]
      PROVE  freebm' \in [Key -> SUBSET DynPort] /\ bucket' \in [Slot -> SUBSET DynPort]
  BY <1>1, <1>3 DEF TypeOK
<1> QED
  BY <1>2, <1>3 DEF Draw

\* Counting an attempt keeps the rates in the width of a u_char.
LEMMA AttemptTypes ==
    ASSUME TypeOK, NEW t \in Tunnel, NEW pr \in Proto, Attempt(t, pr)
    PROVE  lastnat' \in [Tunnel -> Nat] /\ tnatrt' \in [Slot -> 0..(RateMod - 1)]
<1>1. \A x \in Nat : x % RateMod \in 0..(RateMod - 1)
  BY DEF NatAssumption
<1>2. lastnat' \in [Tunnel -> Nat]
  BY DEF Attempt, TypeOK
<1>3. 0 \in 0..(RateMod - 1) /\ 1 \in 0..(RateMod - 1)
  BY DEF NatAssumption
<1>4. \A s \in Slot : tnatrt[s] \in 0..(RateMod - 1) /\ tnatrt[s] + 1 \in Nat
  BY DEF TypeOK
<1> DEFINE next(s) == (tnatrt[s] + 1) % RateMod
<1>5. \A s \in Slot : next(s) \in 0..(RateMod - 1)
  BY <1>1, <1>4
<1>6. tnatrt' = [s \in Slot |->
           IF s[1] # t THEN tnatrt[s]
           ELSE IF lastnat[t] # seconds THEN (IF s[2] = pr THEN 1 ELSE 0)
           ELSE IF s[2] = pr THEN next(s) ELSE tnatrt[s]]
  BY DEF Attempt
<1> HIDE DEF next
<1>7. tnatrt' \in [Slot -> 0..(RateMod - 1)]
  BY <1>3, <1>4, <1>5, <1>6
<1> QED
  BY <1>2, <1>7

\* A new tunnel, and the bindings the commands make.
LEMMA NewTunnelTypes ==
    ASSUME TypeOK, NEW t \in Tunnel, NEW p \in Pool, NewTunnel(t, p)
    PROVE  /\ tunnels' \subseteq Tunnel /\ srcidx' \in [Tunnel -> Pool]
           /\ lastnat' \in [Tunnel -> Nat] /\ tnatrt' \in [Slot -> 0..(RateMod - 1)]
<1>1. 0 \in 0..(RateMod - 1)
  BY DEF NatAssumption
<1>2. tunnels' \subseteq Tunnel /\ srcidx' \in [Tunnel -> Pool] /\ lastnat' \in [Tunnel -> Nat]
  BY DEF NewTunnel, TypeOK
<1>3. tnatrt' \in [Slot -> 0..(RateMod - 1)]
  BY <1>1 DEF NewTunnel, TypeOK
<1> QED
  BY <1>2, <1>3

LEMMA AddPermanentTypes ==
    ASSUME TypeOK, NEW b \in Binding, NEW p2 \in Pool, AddPermanent(b, p2)
    PROVE  /\ tunnels' \subseteq Tunnel /\ srcidx' \in [Tunnel -> Pool]
           /\ lastnat' \in [Tunnel -> Nat] /\ tnatrt' \in [Slot -> 0..(RateMod - 1)]
           /\ nats' \subseteq Binding /\ IsFiniteSet(nats') /\ tnatcnt' \in [Slot -> Int]
<1>1. b.tun \in Tunnel
  BY DEF Binding
<1>2. /\ tunnels' \subseteq Tunnel /\ srcidx' \in [Tunnel -> Pool]
      /\ lastnat' \in [Tunnel -> Nat] /\ tnatrt' \in [Slot -> 0..(RateMod - 1)]
  <2>1. CASE b.tun \in tunnels
    BY <2>1 DEF AddPermanent, TypeOK, tunVars, rateVars
  <2>2. CASE b.tun \notin tunnels
    BY <1>1, <2>2, NewTunnelTypes DEF AddPermanent
  <2> QED
    BY <2>1, <2>2
<1>3. nats' \subseteq Binding /\ IsFiniteSet(nats')
  <2>1. nats' = nats \/ nats' = nats \cup {b}
    BY DEF AddPermanent
  <2>2. IsFiniteSet(nats) /\ IsFiniteSet(nats \cup {b}) /\ nats \subseteq Binding
    BY FS_AddElement DEF TypeOK
  <2> QED
    BY <2>1, <2>2
<1>4. tnatcnt' \in [Slot -> Int]
  <2>1. <<b.tun, b.pr>> \in Slot
    BY DEF Binding, Slot
  <2>2. tnatcnt' = tnatcnt \/ tnatcnt' = [tnatcnt EXCEPT ![<<b.tun, b.pr>>] = @ + 1]
    BY DEF AddPermanent
  <2>3. tnatcnt \in [Slot -> Int]
    BY DEF TypeOK
  <2>4. CASE tnatcnt' = tnatcnt
    BY <2>3, <2>4
  <2>5. CASE tnatcnt' = [tnatcnt EXCEPT ![<<b.tun, b.pr>>] = @ + 1]
    BY <2>1, <2>3, <2>5
  <2> QED
    BY <2>2, <2>4, <2>5
<1> QED
  BY <1>2, <1>3, <1>4

LEMMA HeldsTypes ==
    ASSUME TypeOK, NEW S \in SUBSET nats, NEW k \in Key, NEW q \in Seq(Held)
    PROVE  Requeue(q, S, k) \in Seq(Held)
<1>1. IsFiniteSet(S) /\ S \subseteq Binding /\ seconds \in Nat
  BY FS_Subset DEF TypeOK
<1> QED
  BY <1>1, RequeuePorts

\* Every step keeps the types.
LEMMA TypeStep == TypeOK /\ [Next]_vars => TypeOK'
<1> SUFFICES ASSUME TypeOK, [Next]_vars PROVE TypeOK'
  OBVIOUS
<1>s. TypeOK
  OBVIOUS
<1>1. ASSUME NEW t \in Tunnel, NEW p \in Pool, AddTunnel(t, p)
      PROVE  TypeOK'
  <2>1. NewTunnel(t, p)
    BY <1>1 DEF AddTunnel
  <2> QED
    BY <1>1, <2>1, NewTunnelTypes DEF AddTunnel, TypeOK, portVars, cntVars, loopVars
<1>2. ASSUME NEW t \in Tunnel, DelTunnel(t)
      PROVE  TypeOK'
  <2> DEFINE S == {n \in nats : n.tun = t}
  <2>0. S \in SUBSET nats
    OBVIOUS
  <2>1. /\ nats' \subseteq Binding /\ IsFiniteSet(nats')
        /\ tnatcnt' \in [Slot -> Int] /\ dyncnt' \in [Proto -> Int]
        /\ snatcnt' \in Int /\ prrcnt' \in Int
    BY <1>2, <2>0, ReleaseTypes DEF DelTunnel
  <2>2. helds' \in [Key -> Seq(Held)]
    <3>1. \A k \in Key : Requeue(helds[k], S, k) \in Seq(Held)
      BY <2>0, HeldsTypes DEF TypeOK
    <3>2. helds' = [k \in Key |-> Requeue(helds[k], S, k)]
      BY <1>2 DEF DelTunnel
    <3> HIDE DEF S
    <3> QED
      BY <3>1, <3>2
  <2>3. freebm' \in [Key -> SUBSET DynPort]
    <3>1. \A k \in Key : k[2] \in Proto /\ <<t, k[2]>> \in Slot
      BY DEF Key, Slot
    <3> QED
      BY <1>2, <3>1 DEF DelTunnel, TypeOK
  <2>4. bucket' \in [Slot -> SUBSET DynPort]
    BY <1>2 DEF DelTunnel, TypeOK
  <2>5. /\ tunnels' \subseteq Tunnel
        /\ UNCHANGED <<natcnt, srcidx, lastnat, tnatrt, seconds, lastsecs, pc>>
    BY <1>2 DEF DelTunnel, TypeOK, rateVars, loopVars
  <2> QED
    BY <2>1, <2>2, <2>3, <2>4, <2>5 DEF TypeOK
<1>3. ASSUME NEW b \in Binding, NEW p2 \in Pool, AddPermanent(b, p2),
             snatcnt' \in Int, prrcnt' \in Int
      PROVE  TypeOK'
  BY <1>3, AddPermanentTypes DEF AddPermanent, TypeOK, loopVars
<1>4. ASSUME NEW t \in Tunnel, NEW pr \in Proto, NEW src \in Src,
             NEW p \in Pool, NEW q \in Port, AddSnat(t, pr, src, p, q)
      PROVE  TypeOK'
  <2>1. Permanent("snat", t, pr, src, p, q) \in Binding
    BY PermanentIsBinding
  <2>2. snatcnt' \in Int /\ prrcnt' \in Int
    BY <1>4 DEF AddSnat, TypeOK
  <2> QED
    BY <1>3, <1>4, <2>1, <2>2 DEF AddSnat
<1>5. ASSUME NEW t \in Tunnel, NEW pr \in Proto, NEW p \in Pool, NEW q \in Port,
             NEW p2 \in Pool, AddPrr(t, pr, p, q, p2)
      PROVE  TypeOK'
  <2>1. Permanent("prr", t, pr, <<p, q>>, p, q) \in Binding
    BY PermanentIsBinding
  <2>2. snatcnt' \in Int /\ prrcnt' \in Int
    BY <1>5 DEF AddPrr, TypeOK
  <2> QED
    BY <1>3, <1>5, <2>1, <2>2 DEF AddPrr
<1>6. ASSUME NEW n \in nats, DelPermanent(n)
      PROVE  TypeOK'
  <2>0. {n} \in SUBSET nats
    OBVIOUS
  <2>1. /\ nats' \subseteq Binding /\ IsFiniteSet(nats')
        /\ tnatcnt' \in [Slot -> Int] /\ dyncnt' \in [Proto -> Int]
        /\ snatcnt' \in Int /\ prrcnt' \in Int
    BY <1>6, <2>0, ReleaseTypes DEF DelPermanent
  <2>2. helds' \in [Key -> Seq(Held)]
    <3>1. \A k \in Key : Requeue(helds[k], {n}, k) \in Seq(Held)
      BY <2>0, HeldsTypes DEF TypeOK
    <3> QED
      BY <1>6, <3>1 DEF DelPermanent
  <2> QED
    BY <1>6, <2>1, <2>2 DEF DelPermanent, TypeOK, rateVars, tunVars, loopVars
<1>7. ASSUME NEW n \in nats, NEW m \in Binding, Replace(n, m),
             UNCHANGED <<freebm, bucket, helds, cntVars, rateVars, tunVars, loopVars>>
      PROVE  TypeOK'
  <2>1. nats' \subseteq Binding /\ IsFiniteSet(nats')
    BY <1>7, ReplaceTypes
  <2> QED
    BY <1>7, <2>1 DEF TypeOK, cntVars, rateVars, tunVars, loopVars
<1>8. ASSUME NEW n \in nats, NEW fl, NatInHit(n, fl) \/ NatOut(n, fl)
      PROVE  TypeOK'
  <2>1. RefreshIn(n, fl) \in Binding
        /\ \A m \in {n, Extend(n, n.lifetime)} : RefreshOut(m, fl) \in Binding
    BY RefreshBoth DEF TypeOK
  <2> QED
    BY <1>7, <1>8, <2>1 DEF NatInHit, NatOut
<1>9. ASSUME NEW n \in nats, TooBigOut(n) \/ NatIcmpOut(n)
      PROVE  TypeOK'
  <2>1. n.lifetime \in Nat /\ Echo \in Nat
    BY DEF TypeOK, Binding, NatAssumption
  <2>2. Extend(n, n.lifetime) \in Binding /\ Extend(n, Echo) \in Binding
    BY <2>1, ExtendKeeps DEF TypeOK
  <2> QED
    BY <1>7, <1>9, <2>2 DEF TooBigOut, NatIcmpOut
<1>10. ASSUME NEW t \in Tunnel, NEW pr \in Proto, NEW src \in Src, NEW d \in Dst,
              NatInOverRate(t, pr, src, d) \/ NatInNoPort(t, pr, src, d)
       PROVE  TypeOK'
  <2>1. lastnat' \in [Tunnel -> Nat] /\ tnatrt' \in [Slot -> 0..(RateMod - 1)]
    BY <1>10, AttemptTypes DEF NatInOverRate, NatInNoPort
  <2>2. UNCHANGED <<portVars, cntVars, tunVars, loopVars>>
    BY <1>10 DEF NatInOverRate, NatInNoPort
  <2> QED
    BY <2>1, <2>2 DEF TypeOK, portVars, cntVars, tunVars, loopVars
<1>11. ASSUME NEW t \in Tunnel, NEW pr \in Proto, NEW src \in Src, NEW d \in Dst,
              NEW q \in DynPort, NEW fl, NatInNew(t, pr, src, d, q, fl)
       PROVE  TypeOK'
  <2> DEFINE b == RefreshIn(Dynamic(t, pr, src, d, q), fl)
  <2>1. lastnat' \in [Tunnel -> Nat] /\ tnatrt' \in [Slot -> 0..(RateMod - 1)]
    BY <1>11, AttemptTypes DEF NatInNew
  <2>2. freebm' \in [Key -> SUBSET DynPort] /\ bucket' \in [Slot -> SUBSET DynPort]
    BY <1>11, DrawTypes DEF NatInNew
  <2>3. b \in Binding
    BY DynamicKeeps
  <2>4. nats' \subseteq Binding /\ IsFiniteSet(nats')
    <3>1. nats' = nats \cup {b}
      BY <1>11 DEF NatInNew
    <3> HIDE DEF b
    <3> QED
      BY <2>3, <3>1, FS_AddElement DEF TypeOK
  <2>5. natcnt' \in [Key -> Int] /\ tnatcnt' \in [Slot -> Int] /\ dyncnt' \in [Proto -> Int]
    <3>1. /\ natcnt' = [natcnt EXCEPT ![<<srcidx[t], pr>>] = @ + 1]
          /\ tnatcnt' = [tnatcnt EXCEPT ![<<t, pr>>] = @ + 1]
          /\ dyncnt' = [dyncnt EXCEPT ![pr] = @ + 1]
      BY <1>11 DEF NatInNew
    <3>2. <<srcidx[t], pr>> \in Key /\ <<t, pr>> \in Slot
      BY DEF Key, Slot, TypeOK
    <3> QED
      BY <3>1, <3>2 DEF TypeOK
  <2>6. UNCHANGED <<helds, snatcnt, prrcnt, tunnels, srcidx, seconds, lastsecs, pc>>
    BY <1>11 DEF NatInNew, tunVars, loopVars
  <2> QED
    BY <2>1, <2>2, <2>4, <2>5, <2>6 DEF TypeOK
<1>12. ASSUME NEW t \in Tunnel, NEW pr \in Proto, NEW src \in Src, NEW d \in Dst,
              NEW q \in DynPort, NatInHeapFull(t, pr, src, d, q)
       PROVE  TypeOK'
  <2> DEFINE h == [port |-> q, timeout |-> seconds + Hold]
  <2>1. lastnat' \in [Tunnel -> Nat] /\ tnatrt' \in [Slot -> 0..(RateMod - 1)]
    BY <1>12, AttemptTypes DEF NatInHeapFull
  <2>2. freebm' \in [Key -> SUBSET DynPort] /\ bucket' \in [Slot -> SUBSET DynPort]
    BY <1>12, DrawTypes DEF NatInHeapFull
  <2>3. helds' \in [Key -> Seq(Held)]
    <3>1. h \in Held
      BY DEF Held, TypeOK, NatAssumption
    <3>2. helds' = [helds EXCEPT ![<<srcidx[t], pr>>] = Append(@, h)]
      BY <1>12 DEF NatInHeapFull
    <3>3. <<srcidx[t], pr>> \in Key
      BY DEF Key, TypeOK
    <3> HIDE DEF h
    <3>4. Append(helds[<<srcidx[t], pr>>], h) \in Seq(Held)
      BY <3>1, <3>3, AppendProperties DEF TypeOK
    <3> QED
      BY <3>2, <3>4 DEF TypeOK
  <2>4. natcnt' \in [Key -> Int]
    <3>1. natcnt' = [natcnt EXCEPT ![<<srcidx[t], pr>>] = @ + 1]
      BY <1>12 DEF NatInHeapFull
    <3>2. <<srcidx[t], pr>> \in Key
      BY DEF Key, TypeOK
    <3> QED
      BY <3>1, <3>2 DEF TypeOK
  <2>5. UNCHANGED <<nats, tnatcnt, dyncnt, snatcnt, prrcnt, tunnels, srcidx,
                    seconds, lastsecs, pc>>
    BY <1>12 DEF NatInHeapFull, tunVars, loopVars
  <2> QED
    BY <2>1, <2>2, <2>3, <2>4, <2>5 DEF TypeOK
<1>13. CASE Select \/ CommandsDone \/ SameSecond
  BY <1>13 DEF Select, CommandsDone, SameSecond, TypeOK, NatAssumption,
               portVars, cntVars, rateVars, tunVars
<1>14. CASE Expire
  <2>0. Expired \in SUBSET nats
    BY DEF Expired
  <2>1. /\ nats' \subseteq Binding /\ IsFiniteSet(nats')
        /\ tnatcnt' \in [Slot -> Int] /\ dyncnt' \in [Proto -> Int]
        /\ snatcnt' \in Int /\ prrcnt' \in Int
    BY <1>14, <2>0, ReleaseTypes DEF Expire
  <2>2. PICK cut \in [Key -> UNION {0..Len(helds[kk]) : kk \in Key}] :
           /\ \A k \in Key : FreedPrefix(helds[k], cut[k])
           /\ freebm' = [k \in Key |-> freebm[k] \cup PrefixPorts(helds[k], cut[k])]
           /\ natcnt' = [k \in Key |-> natcnt[k] - cut[k]]
           /\ helds' = [k \in Key |->
                  Requeue(SubSeq(helds[k], cut[k] + 1, Len(helds[k])), Expired, k)]
    BY <1>14 DEF Expire
  <2>3. \A k \in Key : cut[k] \in 0..Len(helds[k])
    BY <2>2, LenProperties DEF FreedPrefix, TypeOK
  <2>4. helds' \in [Key -> Seq(Held)]
    <3>1. \A k \in Key : SubSeq(helds[k], cut[k] + 1, Len(helds[k])) \in Seq(Held)
      BY <2>3, CutPorts DEF TypeOK
    <3>2. \A k \in Key : Requeue(SubSeq(helds[k], cut[k] + 1, Len(helds[k])), Expired, k)
                            \in Seq(Held)
      BY <2>0, <3>1, HeldsTypes
    <3> QED
      BY <2>2, <3>2
  <2>5. freebm' \in [Key -> SUBSET DynPort]
    <3>1. ASSUME NEW k \in Key
          PROVE  PrefixPorts(helds[k], cut[k]) \subseteq DynPort
      <4>1. helds[k] \in Seq(Held) /\ cut[k] \in 0..Len(helds[k])
        BY <2>3 DEF TypeOK
      <4>2. \A j \in 1..cut[k] : helds[k][j] \in Held
        BY <4>1
      <4> QED
        BY <4>2 DEF PrefixPorts, Held
    <3> QED
      BY <2>2, <3>1 DEF TypeOK
  <2>6. natcnt' \in [Key -> Int]
    <3>1. \A k \in Key : cut[k] \in Int
      BY <2>3
    <3> QED
      BY <2>2, <3>1 DEF TypeOK
  <2>7. /\ UNCHANGED <<bucket, lastnat, tnatrt, tunnels, srcidx, seconds>>
        /\ lastsecs' = seconds /\ pc' = "select"
    BY <1>14 DEF Expire, rateVars, tunVars
  <2> QED
    BY <2>1, <2>4, <2>5, <2>6, <2>7 DEF TypeOK
<1>15. CASE UNCHANGED vars
  BY <1>15 DEF TypeOK, vars, portVars, cntVars, rateVars, tunVars, loopVars
<1>16. CASE Loop
  BY <1>13, <1>14, <1>16 DEF Loop
<1>17. CASE Command
  BY <1>1, <1>2, <1>4, <1>5, <1>6, <1>17 DEF Command
<1>18. CASE Traffic
  BY <1>8, <1>9, <1>10, <1>11, <1>12, <1>18 DEF Traffic, Hit
<1> QED
  BY <1>15, <1>16, <1>17, <1>18 DEF Next

LEMMA TypeInit == Init => TypeOK
<1> SUFFICES ASSUME Init PROVE TypeOK
  OBVIOUS
<1>1. 0 \in 0..(RateMod - 1)
  BY DEF NatAssumption
<1>2. IsFiniteSet({})
  BY FS_EmptySet
<1> QED
  BY <1>1, <1>2 DEF Init, TypeOK

\* The types of the state, in every reachable state.
THEOREM TypeCorrect == Spec => []TypeOK
<1> QED
  BY TypeInit, TypeStep, PTL DEF Spec

(***************************************************************************)
(* Conservation of the dynamic ports.  For one pool and protocol k: F the  *)
(* free ports, B the buckets, P the bound ports, H the ports on hold.      *)
(***************************************************************************)
Apart(F, B, P, H) ==
    /\ F \cap P = {} /\ F \cap H = {} /\ P \cap H = {}
    /\ \A t \in Tunnel :
           /\ B[t] \cap F = {} /\ B[t] \cap P = {} /\ B[t] \cap H = {}
           /\ \A u \in Tunnel \ {t} : B[t] \cap B[u] = {}

Covered(F, B, P, H) ==
    \A q \in DynPort : q \in F \/ q \in P \/ q \in H \/ \E t \in Tunnel : q \in B[t]

Split(F, B, P, H) == Apart(F, B, P, H) /\ Covered(F, B, P, H)

Buckets(k) == [t \in Tunnel |-> BuckPorts(t, k)]

\* The ports of k are split between their four uses, and no two bindings or
\* places of the queue hold the same one.
Conserved(k) ==
    /\ Split(freebm[k], Buckets(k), PortsIn(nats, k), PortsOf(helds[k]))
    /\ OnePerPort(nats, k)
    /\ Distinct(helds[k])

\* A tunnel that does not exist has nothing in its buckets, so that it may
\* come back with another pool.
Deserted == \A s \in Slot : s[1] \notin tunnels => bucket[s] = {}

IInv == TypeOK /\ Deserted /\ \A k \in Key : Conserved(k)

LEMMA ConservedIs == IInv => OneUse /\ NoneLost
BY DEF IInv, Conserved, Split, Apart, Covered, Buckets, OneUse, NoneLost,
       PortsIn, OnePerPort, BoundPorts, HeldPorts

\* Taking a part of the bindings takes their ports.
LEMMA PortsInMinus ==
    ASSUME NEW k, NEW N, NEW S \in SUBSET N, OnePerPort(N, k)
    PROVE  /\ PortsIn(N \ S, k) = PortsIn(N, k) \ PortsIn(S, k)
           /\ PortsIn(S, k) \subseteq PortsIn(N, k)
           /\ OnePerPort(N \ S, k)
BY DEF PortsIn, OnePerPort

\* Ports that go from bindings to the queue stay apart and covered.
LEMMA ReleaseSplit ==
    ASSUME TypeOK, NEW k \in Key, Conserved(k), NEW S \in SUBSET nats,
           NEW q \in Seq(Held), Distinct(q), PortsOf(q) \subseteq PortsOf(helds[k])
    PROVE  /\ OnePerPort(nats \ S, k)
           /\ Distinct(Requeue(q, S, k))
           /\ PortsOf(Requeue(q, S, k)) = PortsOf(q) \cup PortsIn(S, k)
           /\ PortsIn(nats \ S, k) = PortsIn(nats, k) \ PortsIn(S, k)
           /\ PortsIn(S, k) \subseteq PortsIn(nats, k)
<1>1. IsFiniteSet(S) /\ S \subseteq Binding /\ seconds \in Nat
  BY FS_Subset DEF TypeOK
<1>2. /\ PortsIn(nats \ S, k) = PortsIn(nats, k) \ PortsIn(S, k)
      /\ PortsIn(S, k) \subseteq PortsIn(nats, k)
      /\ OnePerPort(nats \ S, k)
  BY PortsInMinus DEF Conserved
<1>3. PortsOf(q) \cap PortsIn(S, k) = {}
  BY <1>2 DEF Conserved, Split, Apart
<1>4. OnePerPort(S, k)
  BY DEF Conserved, OnePerPort
<1> QED
  BY <1>1, <1>2, <1>3, <1>4, RequeuePorts

\* A binding replaced by itself, with another timeout, keeps its port.
LEMMA ReplacePorts ==
    ASSUME NEW k, NEW N, NEW n \in N, NEW m, SameBinding(m, n), OnePerPort(N, k)
    PROVE  LET M == (N \ {n}) \cup {m} IN
           PortsIn(M, k) = PortsIn(N, k) /\ OnePerPort(M, k)
<1> DEFINE M == (N \ {n}) \cup {m}
<1>1. m.port = n.port /\ (InRange(m, k) <=> InRange(n, k))
  BY DEF SameBinding, InRange
<1>2. PortsIn(M, k) = PortsIn(N, k)
  BY <1>1 DEF PortsIn
<1>3. OnePerPort(M, k)
  BY <1>1 DEF OnePerPort
<1> QED
  BY <1>2, <1>3

\* A binding outside the dynamic range uses no dynamic port.
LEMMA OutsidePorts ==
    ASSUME NEW k, NEW N, NEW m, m.port \notin DynPort, OnePerPort(N, k)
    PROVE  PortsIn(N \cup {m}, k) = PortsIn(N, k) /\ OnePerPort(N \cup {m}, k)
BY DEF PortsIn, OnePerPort, InRange

\* A new tunnel brings no port, its buckets being empty.
LEMMA NewTunnelBuckets ==
    ASSUME TypeOK, Deserted, NEW t \in Tunnel, t \notin tunnels, NEW p \in Pool,
           NewTunnel(t, p), bucket' = bucket, NEW k \in Key
    PROVE  Buckets(k)' = Buckets(k) /\ Deserted'
<1>1. \A pr \in Proto : bucket[<<t, pr>>] = {}
  BY DEF Deserted, Slot
<1>2. k[2] \in Proto
  BY DEF Key
<1>3. \A u \in Tunnel : BuckPorts(u, k)' = BuckPorts(u, k)
  BY <1>1, <1>2 DEF NewTunnel, BuckPorts, TypeOK
<1>4. Deserted'
  BY DEF Deserted, NewTunnel
<1> QED
  BY <1>3, <1>4 DEF Buckets

\* A port drawn from a bucket, filled first when it is empty, leaves the free
\* map and the buckets, and those of the other pools and protocols are as
\* they were.
LEMMA DrawSplit ==
    ASSUME TypeOK, NEW t \in Tunnel, NEW pr \in Proto, NEW q \in DynPort, Draw(t, pr, q),
           UNCHANGED srcidx, NEW k \in Key, Conserved(k)
    PROVE  IF k = <<srcidx[t], pr>>
           THEN /\ q \notin PortsIn(nats, k) /\ q \notin PortsOf(helds[k])
                /\ Split(freebm'[k], Buckets(k)', PortsIn(nats, k) \cup {q}, PortsOf(helds[k]))
                /\ Split(freebm'[k], Buckets(k)', PortsIn(nats, k), PortsOf(helds[k]) \cup {q})
           ELSE freebm'[k] = freebm[k] /\ Buckets(k)' = Buckets(k)
<1> DEFINE k0 == <<srcidx[t], pr>>
           s0 == <<t, pr>>
           P == PortsIn(nats, k)
           H == PortsOf(helds[k])
<1>1. k0 \in Key /\ s0 \in Slot /\ k = <<k[1], k[2]>> /\ k[1] \in Pool /\ k[2] \in Proto
  BY DEF TypeOK, Key, Slot
<1>2. Split(freebm[k], Buckets(k), P, H)
  BY DEF Conserved
<1>3. ASSUME k # k0 PROVE freebm'[k] = freebm[k] /\ Buckets(k)' = Buckets(k)
  <2>1. freebm'[k] = freebm[k] /\ \A s \in Slot : s # s0 => bucket'[s] = bucket[s]
    BY <1>1, <1>3 DEF Draw, TypeOK
  <2>2. \A u \in Tunnel : srcidx[u] = k[1] => <<u, k[2]>> \in Slot /\ <<u, k[2]>> # s0
    BY <1>1, <1>3 DEF Slot
  <2>3. \A u \in Tunnel : BuckPorts(u, k)' = BuckPorts(u, k)
    BY <2>1, <2>2 DEF BuckPorts
  <2> QED
    BY <2>1, <2>3 DEF Buckets
<1>4. ASSUME k = k0
      PROVE  /\ q \notin P /\ q \notin H
             /\ Split(freebm'[k], Buckets(k)', P \cup {q}, H)
             /\ Split(freebm'[k], Buckets(k)', P, H \cup {q})
  <2>1. BuckPorts(t, k) = bucket[s0] /\ BuckPorts(t, k)' = bucket'[s0]
    BY <1>4 DEF BuckPorts
  <2>2. \A u \in Tunnel \ {t} : BuckPorts(u, k)' = BuckPorts(u, k)
    <3>1. \A u \in Tunnel \ {t} : <<u, k[2]>> \in Slot /\ <<u, k[2]>> # s0
      BY <1>1 DEF Slot
    <3>2. \A s \in Slot : s # s0 => bucket'[s] = bucket[s]
      BY <1>1 DEF Draw, TypeOK
    <3> QED
      BY <3>1, <3>2 DEF BuckPorts
  <2>3. \/ /\ q \in bucket[s0] /\ bucket'[s0] = bucket[s0] \ {q} /\ freebm'[k] = freebm[k]
        \/ /\ bucket[s0] = {}
           /\ \E B \in SUBSET freebm[k] :
                  q \in B /\ freebm'[k] = freebm[k] \ B /\ bucket'[s0] = B \ {q}
    BY <1>1, <1>4 DEF Draw, TypeOK
  <2> DEFINE F == freebm[k]
             F2 == freebm'[k]
             D == BuckPorts(t, k)
             D2 == BuckPorts(t, k)'
             BB == Buckets(k)
             BB2 == Buckets(k)'
  <2>4. /\ BB[t] = D /\ BB2[t] = D2
        /\ \A u \in Tunnel \ {t} : BB2[u] = BB[u]
    BY <2>2 DEF Buckets
  <2>5. \/ q \in D /\ D2 = D \ {q} /\ F2 = F
        \/ D = {} /\ \E B \in SUBSET F : q \in B /\ F2 = F \ B /\ D2 = B \ {q}
    BY <2>1, <2>3
  <2> HIDE DEF P, H, F, F2, D, D2, BB, BB2
  <2>6. Split(F, BB, P, H)
    BY <1>2 DEF F, BB
  <2>7. q \notin P /\ q \notin H
    BY <2>4, <2>5, <2>6 DEF Split, Apart
  <2>8. CASE q \in D /\ D2 = D \ {q} /\ F2 = F
    <3>1. Apart(F2, BB2, P \cup {q}, H) /\ Apart(F2, BB2, P, H \cup {q})
      BY <2>4, <2>6, <2>8 DEF Split, Apart
    <3>2. Covered(F2, BB2, P \cup {q}, H) /\ Covered(F2, BB2, P, H \cup {q})
      BY <2>4, <2>6, <2>8 DEF Split, Covered
    <3> QED
      BY <2>7, <3>1, <3>2 DEF Split, F2, BB2
  <2>9. ASSUME D = {}, NEW B \in SUBSET F, q \in B, F2 = F \ B, D2 = B \ {q}
        PROVE  Split(F2, BB2, P \cup {q}, H) /\ Split(F2, BB2, P, H \cup {q})
    <3>1. Apart(F2, BB2, P \cup {q}, H) /\ Apart(F2, BB2, P, H \cup {q})
      BY <2>4, <2>6, <2>9 DEF Split, Apart
    <3>2. Covered(F2, BB2, P \cup {q}, H) /\ Covered(F2, BB2, P, H \cup {q})
      BY <2>4, <2>6, <2>9 DEF Split, Covered
    <3> QED
      BY <3>1, <3>2 DEF Split
  <2> QED
    BY <2>5, <2>7, <2>8, <2>9 DEF F2, BB2
<1> QED
  BY <1>3, <1>4

\* When neither the free map, nor the buckets, nor the ports bound, nor the
\* queue of k change, k stays conserved.
LEMMA SameConserved ==
    ASSUME NEW k \in Key, Conserved(k), freebm' = freebm, helds' = helds,
           Buckets(k)' = Buckets(k), PortsIn(nats', k) = PortsIn(nats, k),
           OnePerPort(nats', k)
    PROVE  Conserved(k)'
BY DEF Conserved

\* A step that gives a binding another timeout, lifetime or TCP state.
LEMMA ReplaceConserves ==
    ASSUME IInv, NEW n \in nats, NEW m, SameBinding(m, n), Replace(n, m),
           UNCHANGED <<freebm, bucket, helds, tunVars>>
    PROVE  Deserted' /\ \A k \in Key : Conserved(k)'
<1>1. Deserted'
  BY DEF IInv, Deserted, tunVars
<1>2. ASSUME NEW k \in Key PROVE Conserved(k)'
  <2>1. Conserved(k) /\ OnePerPort(nats, k)
    BY DEF IInv, Conserved
  <2>2. PortsIn(nats', k) = PortsIn(nats, k) /\ OnePerPort(nats', k)
    BY <2>1, ReplacePorts DEF Replace
  <2>3. Buckets(k)' = Buckets(k)
    BY DEF Buckets, BuckPorts, tunVars
  <2> QED
    BY <2>1, <2>2, <2>3, SameConserved
<1> QED
  BY <1>1, <1>2

\* A permanent binding, with the tunnel it may bring along.
LEMMA PermanentConserves ==
    ASSUME IInv, NEW b \in Binding, NEW p2 \in Pool, AddPermanent(b, p2)
    PROVE  Deserted' /\ \A k \in Key : Conserved(k)'
<1>1. bucket' = bucket /\ b.tun \in Tunnel /\ b.port \notin DynPort
      /\ freebm' = freebm /\ helds' = helds
  BY DEF AddPermanent, Binding
<1>2. Deserted' /\ \A k \in Key : Buckets(k)' = Buckets(k)
  <2>1. CASE b.tun \in tunnels
    BY <1>1, <2>1 DEF AddPermanent, tunVars, IInv, Deserted, Buckets, BuckPorts
  <2>2. CASE b.tun \notin tunnels
    <3>1. NewTunnel(b.tun, p2)
      BY <2>2 DEF AddPermanent
    <3>2. TypeOK /\ Deserted
      BY DEF IInv
    <3>3. \A k \in Key : Buckets(k)' = Buckets(k)
      BY <1>1, <2>2, <3>1, <3>2, NewTunnelBuckets
    <3>4. Deserted'
      BY <1>1, <3>1, <3>2 DEF Deserted, NewTunnel
    <3> QED
      BY <3>3, <3>4
  <2> QED
    BY <2>1, <2>2
<1>3. nats' = nats \/ nats' = nats \cup {b}
  BY DEF AddPermanent
<1>4. ASSUME NEW k \in Key PROVE Conserved(k)'
  <2>1. Conserved(k) /\ OnePerPort(nats, k)
    BY DEF IInv, Conserved
  <2>2. PortsIn(nats', k) = PortsIn(nats, k) /\ OnePerPort(nats', k)
    BY <1>1, <1>3, <2>1, OutsidePorts
  <2> QED
    BY <1>1, <1>2, <2>1, <2>2, SameConserved
<1> QED
  BY <1>2, <1>4

\* Deleting a tunnel: its ports go to the queues and to the free maps.
LEMMA DelTunnelConserves ==
    ASSUME IInv, NEW t \in Tunnel, DelTunnel(t)
    PROVE  Deserted' /\ \A k \in Key : Conserved(k)'
<1> DEFINE S == {n \in nats : n.tun = t}
<1>1. /\ nats' = nats \ S
      /\ helds' = [k \in Key |-> Requeue(helds[k], S, k)]
      /\ freebm' = [k \in Key |-> IF k[1] = srcidx[t]
                        THEN freebm[k] \cup bucket[<<t, k[2]>>] ELSE freebm[k]]
      /\ bucket' = [s \in Slot |-> IF s[1] = t THEN {} ELSE bucket[s]]
      /\ tunnels' = tunnels \ {t}
      /\ srcidx' = srcidx
  BY DEF DelTunnel, Release
<1>2. S \in SUBSET nats
  OBVIOUS
<1> HIDE DEF S
<1>3. Deserted'
  BY <1>1 DEF IInv, Deserted
<1>4. ASSUME NEW k \in Key PROVE Conserved(k)'
  <2>1. TypeOK /\ Conserved(k) /\ helds[k] \in Seq(Held) /\ Distinct(helds[k])
    BY DEF IInv, Conserved, TypeOK
  <2> DEFINE R == PortsIn(S, k)
             P == PortsIn(nats, k)
             H == PortsOf(helds[k])
             F == freebm[k]
             BB == Buckets(k)
             BB2 == Buckets(k)'
  <2>2. /\ OnePerPort(nats', k) /\ Distinct(helds'[k])
        /\ PortsOf(helds'[k]) = H \cup R
        /\ PortsIn(nats', k) = P \ R /\ R \subseteq P
    BY <1>1, <1>2, <2>1, ReleaseSplit
  <2>3. Split(F, BB, P, H)
    BY <2>1 DEF Conserved
  <2>4. freebm'[k] = F \cup BuckPorts(t, k)
    BY <1>1 DEF BuckPorts
  <2>5. BB2[t] = {} /\ \A u \in Tunnel \ {t} : BB2[u] = BB[u]
    <3>1. \A u \in Tunnel : <<u, k[2]>> \in Slot
      BY DEF Key, Slot
    <3> QED
      BY <1>1, <3>1 DEF Buckets, BuckPorts
  <2>6. BuckPorts(t, k) = BB[t]
    BY DEF Buckets
  <2> HIDE DEF R, P, H, F, BB, BB2
  <2>7. Apart(F \cup BB[t], BB2, P \ R, H \cup R)
    BY <2>2, <2>3, <2>5 DEF Split, Apart
  <2>8. Covered(F \cup BB[t], BB2, P \ R, H \cup R)
    BY <2>2, <2>3, <2>5 DEF Split, Covered
  <2> QED
    BY <2>2, <2>4, <2>6, <2>7, <2>8 DEF Conserved, Split, BB2
<1> QED
  BY <1>3, <1>4

\* A new dynamic binding, or the port put on hold when the heap is full.
LEMMA NewConserves ==
    ASSUME IInv, NEW t \in Tunnel, NEW pr \in Proto, NEW src \in Src, NEW d \in Dst,
           NEW q \in DynPort,
           \/ \E fl \in Flags(pr) : NatInNew(t, pr, src, d, q, fl)
           \/ NatInHeapFull(t, pr, src, d, q)
    PROVE  Deserted' /\ \A k \in Key : Conserved(k)'
<1> DEFINE k0 == <<srcidx[t], pr>>
<1>1. Draw(t, pr, q) /\ t \in tunnels /\ UNCHANGED <<tunnels, srcidx>> /\ TypeOK
  BY DEF NatInNew, NatInHeapFull, Miss, tunVars, IInv
<1>2. Deserted'
  <2>1. \A s \in Slot : s # <<t, pr>> => bucket'[s] = bucket[s]
    BY <1>1 DEF Draw, TypeOK
  <2>2. <<t, pr>>[1] = t
    OBVIOUS
  <2> QED
    BY <1>1, <2>1, <2>2 DEF IInv, Deserted
<1>3. ASSUME NEW k \in Key, NEW fl \in Flags(pr), NatInNew(t, pr, src, d, q, fl)
      PROVE  Conserved(k)'
  <2> DEFINE b == RefreshIn(Dynamic(t, pr, src, d, q), fl)
  <2>1. b \in Binding /\ b.pool = srcidx[t] /\ b.pr = pr /\ b.port = q
    BY <1>1, DynamicKeeps
  <2>2. nats' = nats \cup {b} /\ helds' = helds
    BY <1>3 DEF NatInNew
  <2>3. Conserved(k) /\ OnePerPort(nats, k) /\ Distinct(helds[k])
    BY DEF IInv, Conserved
  <2>4. k = <<k[1], k[2]>>
    BY DEF Key
  <2> HIDE DEF b
  <2>5. CASE k = k0
    <3>1. InRange(b, k)
      BY <2>1, <2>5 DEF InRange
    <3>2. PortsIn(nats', k) = PortsIn(nats, k) \cup {q}
      BY <2>1, <2>2, <3>1 DEF PortsIn
    <3>3. q \notin PortsIn(nats, k)
          /\ Split(freebm'[k], Buckets(k)', PortsIn(nats, k) \cup {q}, PortsOf(helds[k]))
      BY <1>1, <2>3, <2>5, DrawSplit
    <3>4. OnePerPort(nats', k)
      BY <2>1, <2>2, <2>3, <3>3 DEF OnePerPort, PortsIn
    <3> QED
      BY <2>2, <2>3, <3>2, <3>3, <3>4 DEF Conserved
  <2>6. CASE k # k0
    <3>1. ~InRange(b, k)
      BY <2>1, <2>4, <2>6 DEF InRange
    <3>2. PortsIn(nats', k) = PortsIn(nats, k) /\ OnePerPort(nats', k)
      BY <2>2, <2>3, <3>1 DEF PortsIn, OnePerPort
    <3>3. freebm'[k] = freebm[k] /\ Buckets(k)' = Buckets(k)
      BY <1>1, <2>3, <2>6, DrawSplit
    <3> QED
      BY <2>2, <2>3, <3>2, <3>3 DEF Conserved
  <2> QED
    BY <2>5, <2>6
<1>4. ASSUME NEW k \in Key, NatInHeapFull(t, pr, src, d, q)
      PROVE  Conserved(k)'
  <2> DEFINE h == [port |-> q, timeout |-> seconds + Hold]
             hs == <<h>>
  <2>1. /\ nats' = nats
        /\ helds' = [helds EXCEPT ![k0] = Append(@, h)]
    BY <1>4 DEF NatInHeapFull
  <2>2. Conserved(k) /\ OnePerPort(nats, k) /\ Distinct(helds[k]) /\ helds[k] \in Seq(Held)
    BY <1>1 DEF IInv, Conserved, TypeOK
  <2>3. h \in Held
    BY <1>1 DEF Held, TypeOK, NatAssumption
  <2>4. CASE k = k0
    <3>1. /\ q \notin PortsOf(helds[k])
          /\ Split(freebm'[k], Buckets(k)', PortsIn(nats, k), PortsOf(helds[k]) \cup {q})
      BY <1>1, <2>2, <2>4, DrawSplit
    <3>2. h.port = q
      OBVIOUS
    <3> HIDE DEF h
    <3>3. Append(helds[k], h) = helds[k] \o hs
      BY <2>2, <2>3
    <3>4. helds'[k] = helds[k] \o hs
      BY <2>1, <2>4, <3>3, <1>1 DEF TypeOK
    <3>5. hs \in Seq(Held) /\ DOMAIN hs = {1} /\ hs[1] = h
      BY <2>3
    <3> HIDE DEF hs
    <3>6. PortsOf(hs) = {q} /\ Distinct(hs)
      BY <3>2, <3>5 DEF PortsOf, Distinct
    <3>7. PortsOf(helds'[k]) = PortsOf(helds[k]) \cup {q} /\ Distinct(helds'[k])
      BY <2>2, <3>1, <3>4, <3>5, <3>6, ConcatPorts
    <3> QED
      BY <2>1, <2>2, <3>1, <3>7 DEF Conserved
  <2>5. CASE k # k0
    <3>1. freebm'[k] = freebm[k] /\ Buckets(k)' = Buckets(k)
      BY <1>1, <2>2, <2>5, DrawSplit
    <3>2. helds'[k] = helds[k]
      BY <2>1, <2>5, <1>1 DEF TypeOK
    <3> QED
      BY <2>1, <2>2, <3>1, <3>2 DEF Conserved
  <2> QED
    BY <2>4, <2>5
<1> QED
  BY <1>2, <1>3, <1>4

\* Expiry: the first ports of every queue become free, and the bindings past
\* their timeout go on hold.
LEMMA ExpireConserves ==
    ASSUME IInv, Expire
    PROVE  Deserted' /\ \A k \in Key : Conserved(k)'
<1>1. PICK cut \in [Key -> UNION {0..Len(helds[kk]) : kk \in Key}] :
           /\ \A k \in Key : FreedPrefix(helds[k], cut[k])
           /\ freebm' = [k \in Key |-> freebm[k] \cup PrefixPorts(helds[k], cut[k])]
           /\ helds' = [k \in Key |->
                  Requeue(SubSeq(helds[k], cut[k] + 1, Len(helds[k])), Expired, k)]
  BY DEF Expire
<1>2. nats' = nats \ Expired /\ UNCHANGED <<bucket, tunnels, srcidx>>
  BY DEF Expire, Release, tunVars
<1>3. Expired \in SUBSET nats
  BY DEF Expired
<1>4. Deserted'
  BY <1>2 DEF IInv, Deserted
<1>5. ASSUME NEW k \in Key PROVE Conserved(k)'
  <2>1. TypeOK /\ Conserved(k) /\ helds[k] \in Seq(Held) /\ Distinct(helds[k])
    BY DEF IInv, Conserved, TypeOK
  <2>2. cut[k] \in 0..Len(helds[k])
    BY <1>1, <2>1, LenProperties DEF FreedPrefix, TypeOK
  <2> DEFINE q == SubSeq(helds[k], cut[k] + 1, Len(helds[k]))
             G == PrefixPorts(helds[k], cut[k])
             R == PortsIn(Expired, k)
             P == PortsIn(nats, k)
             H == PortsOf(helds[k])
             H2 == PortsOf(q)
             F == freebm[k]
             BB == Buckets(k)
  <2>3. q \in Seq(Held) /\ H = G \cup H2 /\ Distinct(q) /\ G \cap H2 = {}
    BY <2>1, <2>2, CutPorts
  <2>4. helds'[k] = Requeue(q, Expired, k) /\ freebm'[k] = F \cup G
    BY <1>1
  <2> HIDE DEF q
  <2>5. /\ OnePerPort(nats', k) /\ Distinct(helds'[k])
        /\ PortsOf(helds'[k]) = H2 \cup R
        /\ PortsIn(nats', k) = P \ R /\ R \subseteq P
    <3>1. PortsOf(q) \subseteq PortsOf(helds[k])
      BY <2>3
    <3>2. /\ OnePerPort(nats \ Expired, k)
          /\ Distinct(Requeue(q, Expired, k))
          /\ PortsOf(Requeue(q, Expired, k)) = PortsOf(q) \cup PortsIn(Expired, k)
          /\ PortsIn(nats \ Expired, k) = PortsIn(nats, k) \ PortsIn(Expired, k)
          /\ PortsIn(Expired, k) \subseteq PortsIn(nats, k)
      BY <1>3, <2>1, <2>3, <3>1, ReleaseSplit
    <3> QED
      BY <1>2, <2>4, <3>2
  <2>6. Buckets(k)' = BB
    BY <1>2 DEF Buckets, BuckPorts
  <2>7. Split(F, BB, P, H)
    BY <2>1 DEF Conserved
  <2> HIDE DEF G, R, P, H, H2, F, BB
  <2>8. Apart(F \cup G, BB, P \ R, H2 \cup R)
    BY <2>3, <2>5, <2>7 DEF Split, Apart
  <2>9. Covered(F \cup G, BB, P \ R, H2 \cup R)
    BY <2>3, <2>5, <2>7 DEF Split, Covered
  <2> QED
    BY <2>4, <2>5, <2>6, <2>8, <2>9 DEF Conserved, Split
<1> QED
  BY <1>4, <1>5

\* Every step keeps the ports conserved.
LEMMA ConservedStep == IInv /\ [Next]_vars => IInv'
<1> SUFFICES ASSUME IInv, [Next]_vars PROVE Deserted' /\ \A k \in Key : Conserved(k)'
  BY TypeStep DEF IInv
<1>0. IInv /\ TypeOK
  BY DEF IInv
<1>1. ASSUME NEW t \in Tunnel, NEW p \in Pool, AddTunnel(t, p)
      PROVE  Deserted' /\ \A k \in Key : Conserved(k)'
  <2>1. /\ NewTunnel(t, p) /\ t \notin tunnels
        /\ UNCHANGED <<freebm, bucket, nats, helds>>
    BY <1>1 DEF AddTunnel, portVars
  <2>2. Deserted'
    BY <2>1 DEF IInv, Deserted, NewTunnel
  <2>3. ASSUME NEW k \in Key PROVE Conserved(k)'
    <3>1. Buckets(k)' = Buckets(k)
      BY <2>1, NewTunnelBuckets DEF IInv
    <3>2. Conserved(k) /\ OnePerPort(nats, k)
      BY DEF IInv, Conserved
    <3> QED
      BY <2>1, <3>1, <3>2, SameConserved
  <2> QED
    BY <2>2, <2>3
<1>2. ASSUME NEW t \in Tunnel, NEW pr \in Proto, NEW src \in Src,
             NEW p \in Pool, NEW q \in Port, AddSnat(t, pr, src, p, q)
      PROVE  Deserted' /\ \A k \in Key : Conserved(k)'
  BY <1>2, PermanentIsBinding, PermanentConserves DEF AddSnat
<1>3. ASSUME NEW t \in Tunnel, NEW pr \in Proto, NEW p \in Pool, NEW q \in Port,
             NEW p2 \in Pool, AddPrr(t, pr, p, q, p2)
      PROVE  Deserted' /\ \A k \in Key : Conserved(k)'
  <2>1. Permanent("prr", t, pr, <<p, q>>, p, q) \in Binding
    BY PermanentIsBinding
  <2> QED
    BY <1>3, <2>1, PermanentConserves DEF AddPrr
<1>4. ASSUME NEW n \in nats, DelPermanent(n)
      PROVE  Deserted' /\ \A k \in Key : Conserved(k)'
  <2>1. /\ nats' = nats \ {n}
        /\ helds' = [k \in Key |-> Requeue(helds[k], {n}, k)]
        /\ UNCHANGED <<freebm, bucket, tunnels, srcidx>>
    BY <1>4 DEF DelPermanent, Release, tunVars
  <2>2. Deserted'
    BY <2>1 DEF IInv, Deserted
  <2>3. ASSUME NEW k \in Key PROVE Conserved(k)'
    <3>1. TypeOK /\ Conserved(k) /\ helds[k] \in Seq(Held) /\ Distinct(helds[k])
      BY DEF IInv, Conserved, TypeOK
    <3>2. /\ OnePerPort(nats', k) /\ Distinct(helds'[k])
          /\ PortsOf(helds'[k]) = PortsOf(helds[k]) \cup PortsIn({n}, k)
          /\ PortsIn(nats', k) = PortsIn(nats, k) \ PortsIn({n}, k)
          /\ PortsIn({n}, k) \subseteq PortsIn(nats, k)
      BY <2>1, <3>1, ReleaseSplit
    <3>3. freebm'[k] = freebm[k] /\ Buckets(k)' = Buckets(k)
      BY <2>1 DEF Buckets, BuckPorts
    <3> QED
      BY <3>1, <3>2, <3>3 DEF Conserved, Split, Apart, Covered
  <2> QED
    BY <2>2, <2>3
<1>5. ASSUME NEW n \in nats, NEW m, SameBinding(m, n), Replace(n, m),
             UNCHANGED <<freebm, bucket, helds, tunVars>>
      PROVE  Deserted' /\ \A k \in Key : Conserved(k)'
  BY <1>5, ReplaceConserves
<1>6. ASSUME NEW n \in nats, NEW fl, NatInHit(n, fl) \/ NatOut(n, fl)
      PROVE  Deserted' /\ \A k \in Key : Conserved(k)'
  <2>1. SameBinding(RefreshIn(n, fl), n)
        /\ \A m \in {n, Extend(n, n.lifetime)} : SameBinding(RefreshOut(m, fl), n)
    BY <1>0, RefreshBoth DEF TypeOK
  <2> QED
    BY <1>5, <1>6, <2>1 DEF NatInHit, NatOut
<1>7. ASSUME NEW n \in nats, TooBigOut(n) \/ NatIcmpOut(n)
      PROVE  Deserted' /\ \A k \in Key : Conserved(k)'
  <2>1. n.lifetime \in Nat /\ Echo \in Nat /\ n \in Binding /\ seconds \in Nat
    BY <1>0 DEF TypeOK, Binding, NatAssumption
  <2>2. SameBinding(Extend(n, n.lifetime), n) /\ SameBinding(Extend(n, Echo), n)
    BY <2>1, ExtendKeeps
  <2> QED
    BY <1>5, <1>7, <2>2 DEF TooBigOut, NatIcmpOut
<1>8. ASSUME UNCHANGED <<freebm, bucket, nats, helds, tunnels, srcidx>>
      PROVE  Deserted' /\ \A k \in Key : Conserved(k)'
  <2>1. Deserted'
    BY <1>8 DEF IInv, Deserted
  <2>2. ASSUME NEW k \in Key PROVE Conserved(k)'
    <3>1. Conserved(k) /\ OnePerPort(nats, k)
      BY DEF IInv, Conserved
    <3>2. Buckets(k)' = Buckets(k)
      BY <1>8 DEF Buckets, BuckPorts
    <3> QED
      BY <1>8, <3>1, <3>2, SameConserved
  <2> QED
    BY <2>1, <2>2
<1>9. ASSUME NEW t \in Tunnel, NEW pr \in Proto, NEW src \in Src, NEW d \in Dst,
             NatInOverRate(t, pr, src, d) \/ NatInNoPort(t, pr, src, d)
      PROVE  Deserted' /\ \A k \in Key : Conserved(k)'
  BY <1>8, <1>9 DEF NatInOverRate, NatInNoPort, portVars, tunVars
<1>10. CASE Select \/ CommandsDone \/ SameSecond \/ UNCHANGED vars
  BY <1>8, <1>10 DEF Select, CommandsDone, SameSecond, vars, portVars, tunVars
<1>11. CASE Loop
  BY <1>10, <1>11, ExpireConserves DEF Loop
<1>12. CASE Command
  BY <1>1, <1>2, <1>3, <1>4, <1>12, DelTunnelConserves DEF Command
<1>13. CASE Traffic
  BY <1>6, <1>7, <1>9, <1>13, NewConserves DEF Traffic, Hit
<1> QED
  BY <1>10, <1>11, <1>12, <1>13 DEF Next

LEMMA ConservedInit == Init => IInv
<1> SUFFICES ASSUME Init PROVE IInv
  OBVIOUS
<1>1. TypeOK
  BY TypeInit
<1>2. Deserted
  BY DEF Init, Deserted
<1>3. ASSUME NEW k \in Key PROVE Conserved(k)
  <2>1. /\ freebm[k] = DynPort /\ nats = {} /\ helds[k] = <<>>
        /\ \A u \in Tunnel : BuckPorts(u, k) = {}
    <3>1. \A u \in Tunnel : <<u, k[2]>> \in Slot
      BY DEF Key, Slot
    <3> QED
      BY <3>1 DEF Init, BuckPorts
  <2>2. PortsIn(nats, k) = {} /\ PortsOf(helds[k]) = {}
    BY <2>1 DEF PortsIn, PortsOf
  <2> QED
    BY <2>1, <2>2 DEF Conserved, Split, Apart, Covered, Buckets, OnePerPort, Distinct
<1> QED
  BY <1>1, <1>2, <1>3 DEF IInv

LEMMA AlwaysConserved == Spec => []IInv
<1> QED
  BY ConservedInit, ConservedStep, PTL DEF Spec

\* No dynamic port of any pool ever has two uses, for any pools, tunnels and
\* lifetimes: del_nat(), del_tunnel(), fill_bucket() and free_heldnats() hand
\* each port over exactly once.
THEOREM PortsUsedOnce == Spec => []OneUse
<1> QED
  BY AlwaysConserved, ConservedIs, PTL

\* No dynamic port is ever lost by the handlers that move it.
THEOREM PortsNeverLost == Spec => []NoneLost
<1> QED
  BY AlwaysConserved, ConservedIs, PTL

(***************************************************************************)
(* Quarantine.                                                             *)
(***************************************************************************)
LEMMA DueConcat ==
    ASSUME NEW q \in Seq(Held), NEW r \in Seq(Held), NEW p
    PROVE  DueIn(q \o r, p) = DueIn(q, p) \cup DueIn(r, p)
<1>1. /\ DOMAIN q = 1..Len(q) /\ DOMAIN r = 1..Len(r)
      /\ DOMAIN (q \o r) = 1..(Len(q) + Len(r))
      /\ Len(q) \in Nat /\ Len(r) \in Nat
      /\ \A i \in 1..Len(q) : (q \o r)[i] = q[i]
      /\ \A i \in 1..Len(r) : (q \o r)[i + Len(q)] = r[i]
      /\ \A i \in (Len(q) + 1)..(Len(q) + Len(r)) : (q \o r)[i] = r[i - Len(q)]
  OBVIOUS
<1>2. ASSUME NEW i \in 1..(Len(q) + Len(r)), (q \o r)[i].port = p
      PROVE  (q \o r)[i].timeout \in DueIn(q, p) \cup DueIn(r, p)
  <2>1. CASE i \in 1..Len(q)
    BY <1>1, <1>2, <2>1 DEF DueIn
  <2>2. CASE i \notin 1..Len(q)
    <3>1. i - Len(q) \in 1..Len(r) /\ i \in (Len(q) + 1)..(Len(q) + Len(r))
      BY <1>1, <2>2
    <3> QED
      BY <1>1, <1>2, <3>1 DEF DueIn
  <2> QED
    BY <2>1, <2>2
<1>3. ASSUME NEW i \in 1..Len(q), q[i].port = p
      PROVE  q[i].timeout \in DueIn(q \o r, p)
  <2>1. i \in DOMAIN (q \o r) /\ (q \o r)[i] = q[i]
    BY <1>1
  <2> QED
    BY <1>3, <2>1 DEF DueIn
<1>4. ASSUME NEW i \in 1..Len(r), r[i].port = p
      PROVE  r[i].timeout \in DueIn(q \o r, p)
  <2>1. i + Len(q) \in DOMAIN (q \o r) /\ (q \o r)[i + Len(q)] = r[i]
    BY <1>1
  <2> QED
    BY <1>4, <2>1 DEF DueIn
<1>5. ASSUME NEW due \in DueIn(q \o r, p) PROVE due \in DueIn(q, p) \cup DueIn(r, p)
  <2>1. PICK i \in 1..(Len(q) + Len(r)) : (q \o r)[i].port = p /\ (q \o r)[i].timeout = due
    BY <1>1, <1>5 DEF DueIn
  <2> QED
    BY <1>2, <2>1
<1>6. ASSUME NEW due \in DueIn(q, p) PROVE due \in DueIn(q \o r, p)
  <2>1. PICK i \in 1..Len(q) : q[i].port = p /\ q[i].timeout = due
    BY <1>1, <1>6 DEF DueIn
  <2> QED
    BY <1>3, <2>1
<1>7. ASSUME NEW due \in DueIn(r, p) PROVE due \in DueIn(q \o r, p)
  <2>1. PICK i \in 1..Len(r) : r[i].port = p /\ r[i].timeout = due
    BY <1>1, <1>7 DEF DueIn
  <2> QED
    BY <1>4, <2>1
<1> QED
  BY <1>5, <1>6, <1>7

\* A queue has a deadline for the ports it holds, and for no other.
LEMMA DueWhenHeld ==
    ASSUME NEW q, NEW p
    PROVE  DueIn(q, p) # {} <=> p \in PortsOf(q)
BY DEF DueIn, PortsOf

\* The ports released by a step have one deadline.
LEMMA DueRequeue ==
    ASSUME NatAssumption, seconds \in Nat, NEW k \in Key, NEW q \in Seq(Held),
           NEW S, IsFiniteSet(S), S \subseteq Binding, NEW p
    PROVE  DueIn(Requeue(q, S, k), p) =
               DueIn(q, p) \cup (IF p \in PortsIn(S, k) THEN {seconds + Hold} ELSE {})
<1> DEFINE r == HeldsOf(S, k)
<1>1. /\ r \in Seq(Held)
      /\ \A i \in DOMAIN r : \E n \in S : InRange(n, k) /\ r[i] = HeldOf(n)
      /\ \A n \in S : InRange(n, k) => \E i \in DOMAIN r : r[i] = HeldOf(n)
  BY HeldsOfLists
<1>2. Requeue(q, S, k) = q \o r
  BY DEF Requeue
<1> HIDE DEF r
<1>3. \A n : HeldOf(n).port = n.port /\ HeldOf(n).timeout = seconds + Hold
  BY DEF HeldOf
<1>4. DueIn(r, p) = IF p \in PortsIn(S, k) THEN {seconds + Hold} ELSE {}
  BY <1>1, <1>3 DEF DueIn, PortsIn
<1> QED
  BY <1>1, <1>2, <1>4, DueConcat

\* The prefix cut from a queue by free_heldnats(), and the rest of it.
LEMMA DueCut ==
    ASSUME seconds \in Nat, NEW q \in Seq(Held), NEW i \in 0..Len(q), FreedPrefix(q, i),
           Distinct(q), NEW p
    PROVE  LET r == SubSeq(q, i + 1, Len(q)) IN
           IF p \in PrefixPorts(q, i)
           THEN \A due \in DueIn(q, p) : due <= seconds
           ELSE DueIn(r, p) = DueIn(q, p)
<1> DEFINE r == SubSeq(q, i + 1, Len(q))
<1>0. Len(q) \in Nat /\ i \in Nat /\ i <= Len(q)
  OBVIOUS
<1>1. /\ DOMAIN q = 1..Len(q)
      /\ DOMAIN r = 1..(Len(q) - i)
      /\ \A j \in 1..(Len(q) - i) : r[j] = q[i + j]
  OBVIOUS
<1> HIDE DEF r
<1>2. ASSUME p \in PrefixPorts(q, i), NEW due \in DueIn(q, p)
      PROVE  due <= seconds
  <2>1. PICK a \in 1..i : q[a].port = p
    BY <1>2 DEF PrefixPorts
  <2>2. PICK b \in DOMAIN q : q[b].port = p /\ q[b].timeout = due
    BY <1>2 DEF DueIn
  <2>3. a \in DOMAIN q
    BY <1>0, <1>1
  <2>4. a = b
    BY <2>1, <2>2, <2>3 DEF Distinct
  <2> QED
    BY <2>1, <2>2, <2>4 DEF FreedPrefix
<1>3. ASSUME p \notin PrefixPorts(q, i)
      PROVE  DueIn(r, p) = DueIn(q, p)
  <2>1. ASSUME NEW j \in 1..Len(q), q[j].port = p
        PROVE  q[j].timeout \in DueIn(r, p)
    <3>1. j \notin 1..i
      BY <1>3, <2>1 DEF PrefixPorts
    <3>2. j - i \in 1..(Len(q) - i) /\ i + (j - i) = j
      BY <1>0, <3>1
    <3>3. r[j - i] = q[j]
      BY <1>1, <3>2
    <3> QED
      BY <1>1, <2>1, <3>2, <3>3 DEF DueIn
  <2>2. ASSUME NEW j \in 1..(Len(q) - i), r[j].port = p
        PROVE  r[j].timeout \in DueIn(q, p)
    <3>1. i + j \in 1..Len(q) /\ r[j] = q[i + j]
      BY <1>0, <1>1
    <3> QED
      BY <1>1, <2>2, <3>1 DEF DueIn
  <2> QED
    BY <1>1, <2>1, <2>2 DEF DueIn
<1> QED
  BY <1>2, <1>3 DEF r

LEMMA BoundIsPortsIn == \A k : BoundPorts(k) = PortsIn(nats, k)
BY DEF BoundPorts, PortsIn

\* No binding loses its port and no queue changes.
LEMMA StillQuarantine ==
    ASSUME helds' = helds, \A k \in Key : PortsIn(nats, k) \subseteq PortsIn(nats', k)
    PROVE  QuarantineStep
<1>1. \A k : BoundPorts(k) = PortsIn(nats, k) /\ BoundPorts(k)' = PortsIn(nats', k)
  BY DEF BoundPorts, PortsIn
<1>2. \A k, q : DueFor(k, q)' = DueFor(k, q)
  BY DEF DueFor
<1> QED
  BY <1>1, <1>2 DEF QuarantineStep

\* Bindings are released, and nothing leaves the queues.
LEMMA ReleaseQuarantine ==
    ASSUME IInv, NEW S \in SUBSET nats, nats' = nats \ S,
           helds' = [k \in Key |-> Requeue(helds[k], S, k)]
    PROVE  QuarantineStep
<1> SUFFICES ASSUME NEW k \in Key, NEW q \in DynPort
             PROVE  /\ q \in BoundPorts(k) /\ q \notin BoundPorts(k)'
                           => DueFor(k, q)' = {seconds + Hold}
                    /\ DueFor(k, q) # {} => DueFor(k, q)' = DueFor(k, q)
  BY DEF QuarantineStep
<1>1. /\ TypeOK /\ Conserved(k) /\ helds[k] \in Seq(Held)
      /\ IsFiniteSet(S) /\ S \subseteq Binding /\ seconds \in Nat
  BY FS_Subset DEF IInv, TypeOK
<1>2. DueFor(k, q)' = DueFor(k, q) \cup (IF q \in PortsIn(S, k) THEN {seconds + Hold} ELSE {})
  BY <1>1, DueRequeue DEF DueFor
<1>3. BoundPorts(k) = PortsIn(nats, k) /\ BoundPorts(k)' = PortsIn(nats \ S, k)
  BY DEF BoundPorts, PortsIn
<1>4. /\ PortsIn(nats \ S, k) = PortsIn(nats, k) \ PortsIn(S, k)
      /\ PortsIn(S, k) \subseteq PortsIn(nats, k)
  BY <1>1, PortsInMinus DEF Conserved
<1>5. PortsIn(nats, k) \cap PortsOf(helds[k]) = {}
  BY <1>1 DEF Conserved, Split, Apart
<1>6. DueFor(k, q) # {} <=> q \in PortsOf(helds[k])
  BY DueWhenHeld DEF DueFor
<1> QED
  BY <1>2, <1>3, <1>4, <1>5, <1>6

\* Expiry: the first ports of the queues leave it, being due.
LEMMA ExpireQuarantine ==
    ASSUME IInv, Expire
    PROVE  QuarantineStep
<1>1. PICK cut :
           /\ cut \in [Key -> UNION {0..Len(helds[kk]) : kk \in Key}]
           /\ \A k \in Key : FreedPrefix(helds[k], cut[k])
           /\ freebm' = [k \in Key |-> freebm[k] \cup PrefixPorts(helds[k], cut[k])]
           /\ helds' = [k \in Key |->
                  Requeue(SubSeq(helds[k], cut[k] + 1, Len(helds[k])), Expired, k)]
  BY DEF Expire
<1> SUFFICES ASSUME NEW k \in Key, NEW q \in DynPort
             PROVE  /\ q \in BoundPorts(k) /\ q \notin BoundPorts(k)'
                           => DueFor(k, q)' = {seconds + Hold}
                    /\ DueFor(k, q) # {} /\ DueFor(k, q)' # DueFor(k, q)
                           => /\ q \in freebm'[k]
                              /\ \A due \in DueFor(k, q) : due <= seconds
  BY DEF QuarantineStep
<1> DEFINE r == SubSeq(helds[k], cut[k] + 1, Len(helds[k]))
           G == PrefixPorts(helds[k], cut[k])
<1>2. /\ TypeOK /\ Conserved(k) /\ helds[k] \in Seq(Held) /\ Distinct(helds[k])
      /\ seconds \in Nat
  BY DEF IInv, Conserved, TypeOK
<1>3. /\ IsFiniteSet(Expired) /\ Expired \subseteq Binding /\ Expired \subseteq nats
  BY FS_Subset DEF IInv, TypeOK, Expired
<1>4. nats' = nats \ Expired
  BY DEF Expire, Release
<1>5. cut[k] \in 0..Len(helds[k]) /\ FreedPrefix(helds[k], cut[k])
  <2>1. FreedPrefix(helds[k], cut[k]) /\ cut[k] \in UNION {0..Len(helds[j]) : j \in Key}
    BY <1>1
  <2>2. PICK j \in Key : cut[k] \in 0..Len(helds[j])
    BY <2>1
  <2>3. Len(helds[j]) \in Nat /\ Len(helds[k]) \in Nat
    <3>1. helds[j] \in Seq(Held)
      BY <1>2 DEF TypeOK
    <3> QED
      BY <1>2, <3>1, LenProperties
  <2>4. cut[k] \in Nat
    BY <2>2, <2>3
  <2>5. cut[k] <= Len(helds[k])
    BY <2>1 DEF FreedPrefix
  <2> QED
    BY <2>1, <2>3, <2>4, <2>5
<1>6. r \in Seq(Held) /\ PortsOf(helds[k]) = G \cup PortsOf(r)
  BY <1>2, <1>5, CutPorts
<1>7. IF q \in G THEN \A due \in DueIn(helds[k], q) : due <= seconds
                 ELSE DueIn(r, q) = DueIn(helds[k], q)
  BY <1>2, <1>5, DueCut
<1>8. helds'[k] = Requeue(r, Expired, k) /\ freebm'[k] = freebm[k] \cup G
  BY <1>1
<1> HIDE DEF r, G
<1>9. DueFor(k, q)' = DueIn(r, q) \cup
          (IF q \in PortsIn(Expired, k) THEN {seconds + Hold} ELSE {})
  <2>1. DueIn(Requeue(r, Expired, k), q) = DueIn(r, q) \cup
          (IF q \in PortsIn(Expired, k) THEN {seconds + Hold} ELSE {})
    <3>1. r \in Seq(Held) /\ seconds \in Nat /\ NatAssumption
      BY <1>2, <1>6, NatAssumption
    <3>2. IsFiniteSet(Expired) /\ Expired \subseteq Binding
      BY <1>3
    <3> QED
      BY <3>1, <3>2, DueRequeue
  <2>2. DueFor(k, q)' = DueIn(helds'[k], q)
    BY DEF DueFor, DueIn
  <2> QED
    BY <1>8, <2>1, <2>2
<1>10. BoundPorts(k) = PortsIn(nats, k) /\ BoundPorts(k)' = PortsIn(nats \ Expired, k)
  BY <1>4 DEF BoundPorts, PortsIn
<1>11. /\ PortsIn(nats \ Expired, k) = PortsIn(nats, k) \ PortsIn(Expired, k)
       /\ PortsIn(Expired, k) \subseteq PortsIn(nats, k)
  BY <1>2, <1>3, PortsInMinus DEF Conserved
<1>12. PortsIn(nats, k) \cap PortsOf(helds[k]) = {}
  BY <1>2 DEF Conserved, Split, Apart
<1>13. /\ DueFor(k, q) = DueIn(helds[k], q)
       /\ DueFor(k, q) # {} <=> q \in PortsOf(helds[k])
       /\ DueIn(r, q) # {} <=> q \in PortsOf(r)
  BY DueWhenHeld DEF DueFor
<1>14. q \in BoundPorts(k) /\ q \notin BoundPorts(k)' => DueFor(k, q)' = {seconds + Hold}
  BY <1>6, <1>9, <1>10, <1>11, <1>12, <1>13
<1>15. ASSUME DueFor(k, q) # {}, DueFor(k, q)' # DueFor(k, q)
       PROVE  q \in freebm'[k] /\ \A due \in DueFor(k, q) : due <= seconds
  <2>1. q \notin PortsIn(Expired, k)
    BY <1>11, <1>12, <1>13, <1>15
  <2>2. q \in G
    BY <1>7, <1>9, <1>13, <1>15, <2>1
  <2> QED
    BY <1>7, <1>8, <1>13, <2>2
<1> QED
  BY <1>14, <1>15

\* A new binding takes no port from another; a port put on hold at once was
\* not there.
LEMMA NewQuarantine ==
    ASSUME IInv, NEW t \in Tunnel, NEW pr \in Proto, NEW src \in Src, NEW d \in Dst,
           NEW q0 \in DynPort,
           \/ \E fl \in Flags(pr) : NatInNew(t, pr, src, d, q0, fl)
           \/ NatInHeapFull(t, pr, src, d, q0)
    PROVE  QuarantineStep
<1>1. CASE \E fl \in Flags(pr) : NatInNew(t, pr, src, d, q0, fl)
  <2>1. helds' = helds /\ nats \subseteq nats'
    BY <1>1 DEF NatInNew
  <2>2. \A k \in Key : PortsIn(nats, k) \subseteq PortsIn(nats', k)
    BY <2>1 DEF PortsIn
  <2> QED
    BY <2>1, <2>2, StillQuarantine
<1>2. CASE NatInHeapFull(t, pr, src, d, q0)
  <2> DEFINE h == [port |-> q0, timeout |-> seconds + Hold]
             k0 == <<srcidx[t], pr>>
             hs == <<h>>
  <2>1. /\ nats' = nats /\ Draw(t, pr, q0) /\ UNCHANGED srcidx /\ TypeOK
        /\ helds' = [helds EXCEPT ![k0] = Append(@, h)]
    BY <1>2 DEF NatInHeapFull, tunVars, IInv
  <2>2. h \in Held /\ h.port = q0
    BY <2>1 DEF Held, TypeOK, NatAssumption
  <2> HIDE DEF h
  <2>3. ASSUME NEW k \in Key, NEW q \in DynPort, DueFor(k, q) # {}
        PROVE  DueFor(k, q)' = DueFor(k, q)
    <3>1. CASE k = k0
      <4>1. Conserved(k) /\ helds[k] \in Seq(Held)
        BY <2>1 DEF IInv, TypeOK
      <4>2. q0 \notin PortsOf(helds[k])
        BY <2>1, <3>1, <4>1, DrawSplit
      <4>3. q # q0
        BY <2>3, <4>2, DueWhenHeld DEF DueFor
      <4>4. helds'[k] = helds[k] \o hs
        BY <2>1, <2>2, <3>1, <4>1 DEF TypeOK
      <4>5. hs \in Seq(Held) /\ DOMAIN hs = {1} /\ hs[1] = h
        BY <2>2
      <4> HIDE DEF hs
      <4>6. DueIn(hs, q) = {}
        BY <2>2, <4>3, <4>5 DEF DueIn
      <4> QED
        <5>1. DueIn(helds[k] \o hs, q) = DueIn(helds[k], q) \cup DueIn(hs, q)
          BY <4>1, <4>5, DueConcat
        <5>2. DueFor(k, q)' = DueIn(helds'[k], q)
          BY DEF DueFor, DueIn
        <5> QED
          BY <4>4, <4>6, <5>1, <5>2 DEF DueFor
    <3>2. CASE k # k0
      <4>1. helds'[k] = helds[k]
        BY <2>1, <3>2 DEF TypeOK
      <4> QED
        BY <4>1 DEF DueFor
    <3> QED
      BY <3>1, <3>2
  <2>4. \A k : BoundPorts(k)' = BoundPorts(k)
    BY <2>1 DEF BoundPorts
  <2> QED
    BY <2>3, <2>4 DEF QuarantineStep
<1> QED
  BY <1>1, <1>2

LEMMA QuarantineNext == IInv /\ [Next]_vars => QuarantineStep
<1> SUFFICES ASSUME IInv, [Next]_vars PROVE QuarantineStep
  OBVIOUS
<1>0. TypeOK
  BY DEF IInv
<1>1. ASSUME helds' = helds, nats \subseteq nats'
      PROVE  QuarantineStep
  <2>1. \A k \in Key : PortsIn(nats, k) \subseteq PortsIn(nats', k)
    BY <1>1 DEF PortsIn
  <2> QED
    BY <1>1, <2>1, StillQuarantine
<1>2. ASSUME NEW t \in Tunnel, DelTunnel(t)
      PROVE  QuarantineStep
  <2> DEFINE S == {n \in nats : n.tun = t}
  <2>1. S \in SUBSET nats
    OBVIOUS
  <2>2. nats' = nats \ S /\ helds' = [k \in Key |-> Requeue(helds[k], S, k)]
    BY <1>2 DEF DelTunnel, Release
  <2> HIDE DEF S
  <2> QED
    BY <2>1, <2>2, ReleaseQuarantine
<1>3. ASSUME NEW n \in nats, DelPermanent(n)
      PROVE  QuarantineStep
  <2>1. nats' = nats \ {n} /\ helds' = [k \in Key |-> Requeue(helds[k], {n}, k)]
    BY <1>3 DEF DelPermanent, Release
  <2> QED
    BY <2>1, ReleaseQuarantine
<1>4. ASSUME NEW n \in nats, NEW m, SameBinding(m, n), Replace(n, m), helds' = helds
      PROVE  QuarantineStep
  <2>1. \A k \in Key : PortsIn(nats', k) = PortsIn(nats, k)
    BY <1>4, ReplacePorts DEF Replace, IInv, Conserved
  <2> QED
    BY <1>4, <2>1, StillQuarantine
<1>5. ASSUME NEW n \in nats, NEW fl, NatInHit(n, fl) \/ NatOut(n, fl)
      PROVE  QuarantineStep
  <2>1. SameBinding(RefreshIn(n, fl), n)
        /\ \A m \in {n, Extend(n, n.lifetime)} : SameBinding(RefreshOut(m, fl), n)
    BY <1>0, RefreshBoth DEF TypeOK
  <2> QED
    BY <1>4, <1>5, <2>1 DEF NatInHit, NatOut
<1>6. ASSUME NEW n \in nats, TooBigOut(n) \/ NatIcmpOut(n)
      PROVE  QuarantineStep
  <2>1. n.lifetime \in Nat /\ Echo \in Nat /\ n \in Binding /\ seconds \in Nat
    BY <1>0 DEF TypeOK, Binding, NatAssumption
  <2>2. SameBinding(Extend(n, n.lifetime), n) /\ SameBinding(Extend(n, Echo), n)
    BY <2>1, ExtendKeeps
  <2> QED
    BY <1>4, <1>6, <2>2 DEF TooBigOut, NatIcmpOut
<1>7. ASSUME NEW t \in Tunnel, NEW pr \in Proto, NEW src \in Src, NEW d \in Dst,
             NatInOverRate(t, pr, src, d) \/ NatInNoPort(t, pr, src, d)
      PROVE  QuarantineStep
  BY <1>1, <1>7 DEF NatInOverRate, NatInNoPort, portVars
<1>8. ASSUME NEW t \in Tunnel, NEW p \in Pool, AddTunnel(t, p)
      PROVE  QuarantineStep
  BY <1>1, <1>8 DEF AddTunnel, portVars
<1>9. ASSUME NEW b, NEW p2, AddPermanent(b, p2)
      PROVE  QuarantineStep
  BY <1>1, <1>9 DEF AddPermanent
<1>10. CASE Select \/ CommandsDone \/ SameSecond \/ UNCHANGED vars
  BY <1>1, <1>10 DEF Select, CommandsDone, SameSecond, vars, portVars
<1>11. CASE Loop
  BY <1>10, <1>11, ExpireQuarantine DEF Loop
<1>12. CASE Command
  BY <1>2, <1>3, <1>8, <1>9, <1>12 DEF Command, AddSnat, AddPrr
<1>13. CASE Traffic
  BY <1>5, <1>6, <1>7, <1>13, NewQuarantine DEF Traffic, Hit
<1> QED
  BY <1>10, <1>11, <1>12, <1>13 DEF Next

\* A port that was bound is on hold for the whole hold lifetime before any
\* tunnel has it again, for any pools, tunnels and lifetimes.
THEOREM PortsQuarantined == Spec => Quarantine
<1>1. IInv /\ [Next]_vars => [QuarantineStep]_vars
  BY QuarantineNext
<1> QED
  BY <1>1, AlwaysConserved, PTL DEF Spec, Quarantine
=============================================================================
