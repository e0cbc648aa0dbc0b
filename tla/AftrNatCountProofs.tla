-------------------------- MODULE AftrNatCountProofs --------------------------
(***************************************************************************)
(* Proofs about the bindings of AftrNat and their counters, for any pools, *)
(* tunnels and ports: a flow has one binding, a binding belongs to a live  *)
(* tunnel, and the counters of tunnels, daemon and pools are right.        *)
(*                                                                         *)
(* For the bindings a step is of one of four kinds: it leaves them alone,  *)
(* releases some, replaces one by itself with another timeout, or makes    *)
(* one for a flow that had none.                                           *)
(***************************************************************************)
EXTENDS AftrNatProofs

USE NatAssumption

(***************************************************************************)
(* Counting the bindings of a class C.                                     *)
(***************************************************************************)
LEMMA ClassFinite ==
    ASSUME NEW N, IsFiniteSet(N), NEW C
    PROVE  IsFiniteSet(N \cap C) /\ Cardinality(N \cap C) \in Nat
<1>1. N \cap C \in SUBSET N
  OBVIOUS
<1> QED
  BY <1>1, FS_Subset, FS_CardinalityType

LEMMA ClassMinus ==
    ASSUME NEW N, IsFiniteSet(N), NEW S \in SUBSET N, NEW C
    PROVE  Cardinality((N \ S) \cap C) = Cardinality(N \cap C) - Cardinality(S \cap C)
<1>1. (N \ S) \cap C = (N \cap C) \ (S \cap C) /\ (N \cap C) \cap (S \cap C) = S \cap C
  OBVIOUS
<1> QED
  BY <1>1, ClassFinite, FS_Difference

LEMMA ClassAdd ==
    ASSUME NEW N, IsFiniteSet(N), NEW b, b \notin N, NEW C
    PROVE  Cardinality((N \cup {b}) \cap C) =
               Cardinality(N \cap C) + (IF b \in C THEN 1 ELSE 0)
<1>1. IsFiniteSet(N \cap C) /\ Cardinality(N \cap C) \in Nat
  BY ClassFinite
<1>2. CASE b \in C
  <2>1. (N \cup {b}) \cap C = (N \cap C) \cup {b} /\ b \notin N \cap C
    BY <1>2
  <2> QED
    BY <1>1, <1>2, <2>1, FS_AddElement
<1>3. CASE b \notin C
  <2>1. (N \cup {b}) \cap C = N \cap C
    BY <1>3
  <2>2. Cardinality(N \cap C) = Cardinality(N \cap C) + 0
    BY <1>1
  <2> QED
    BY <1>3, <2>1, <2>2
<1> QED
  BY <1>2, <1>3

LEMMA ClassSame ==
    ASSUME NEW N, IsFiniteSet(N), NEW n \in N, NEW m, m \notin N \ {n}, NEW C,
           m \in C <=> n \in C
    PROVE  Cardinality(((N \ {n}) \cup {m}) \cap C) = Cardinality(N \cap C)
<1> DEFINE M == N \ {n}
<1>1. IsFiniteSet(M) /\ n \notin M /\ m \notin M /\ N = M \cup {n}
  BY FS_RemoveElement
<1> HIDE DEF M
<1>2. /\ Cardinality((M \cup {m}) \cap C) =
             Cardinality(M \cap C) + (IF m \in C THEN 1 ELSE 0)
      /\ Cardinality((M \cup {n}) \cap C) =
             Cardinality(M \cap C) + (IF n \in C THEN 1 ELSE 0)
  BY <1>1, ClassAdd
<1> QED
  BY <1>1, <1>2 DEF M

\* The classes the daemon counts.
TunClass(t, pr)     == {n \in Binding : n.tun = t /\ n.pr = pr}
KindClass(kind)     == {n \in Binding : n.kind = kind}
PrClass(pr, kind)   == {n \in Binding : n.pr = pr /\ n.kind = kind}
RangeClass(k)       == {n \in Binding : InRange(n, k)}

LEMMA CountsByClass ==
    ASSUME NEW N \in SUBSET Binding
    PROVE  /\ \A t, pr : CountIf(N, t, pr) = Cardinality(N \cap TunClass(t, pr))
           /\ \A kind : KindCount(N, kind) = Cardinality(N \cap KindClass(kind))
           /\ \A pr, kind : KindCount({n \in N : n.pr = pr}, kind)
                                = Cardinality(N \cap PrClass(pr, kind))
           /\ \A k : Cardinality({n \in N : InRange(n, k)})
                         = Cardinality(N \cap RangeClass(k))
<1>1. \A t, pr : {n \in N : n.tun = t /\ n.pr = pr} = N \cap TunClass(t, pr)
  BY DEF TunClass
<1>2. \A kind : {n \in N : n.kind = kind} = N \cap KindClass(kind)
  BY DEF KindClass
<1>3. \A pr, kind : {n \in {x \in N : x.pr = pr} : n.kind = kind} = N \cap PrClass(pr, kind)
  BY DEF PrClass
<1>4. \A k : {n \in N : InRange(n, k)} = N \cap RangeClass(k)
  BY DEF RangeClass
<1> QED
  BY <1>1, <1>2, <1>3, <1>4 DEF CountIf, KindCount

\* The counters, by class.
Counted ==
    /\ \A s \in Slot : tnatcnt[s] = Cardinality(nats \cap TunClass(s[1], s[2]))
    /\ \A pr \in Proto : dyncnt[pr] = Cardinality(nats \cap PrClass(pr, "dyn"))
    /\ snatcnt = Cardinality(nats \cap KindClass("snat"))
    /\ prrcnt = Cardinality(nats \cap KindClass("prr"))

LEMMA CountedIs == TypeOK => (BindingCounts <=> Counted)
<1> SUFFICES ASSUME TypeOK PROVE BindingCounts <=> Counted
  OBVIOUS
<1>1. nats \in SUBSET Binding
  BY DEF TypeOK
<1>2. /\ \A t, pr : CountIf(nats, t, pr) = Cardinality(nats \cap TunClass(t, pr))
      /\ \A kind : KindCount(nats, kind) = Cardinality(nats \cap KindClass(kind))
      /\ \A pr, kind : KindCount({n \in nats : n.pr = pr}, kind)
                           = Cardinality(nats \cap PrClass(pr, kind))
  BY <1>1, CountsByClass
<1> QED
  BY <1>2 DEF BindingCounts, Counted

(***************************************************************************)
(* The four kinds of steps.                                                *)
(***************************************************************************)
Counters == <<tnatcnt, dyncnt, snatcnt, prrcnt>>

OneMore(b) ==
    /\ tnatcnt' = [tnatcnt EXCEPT ![<<b.tun, b.pr>>] = @ + 1]
    /\ dyncnt' = IF b.kind = "dyn" THEN [dyncnt EXCEPT ![b.pr] = @ + 1] ELSE dyncnt
    /\ snatcnt' = IF b.kind = "snat" THEN snatcnt + 1 ELSE snatcnt
    /\ prrcnt' = IF b.kind = "prr" THEN prrcnt + 1 ELSE prrcnt

Altered == \E n \in nats, m \in Binding :
               Replace(n, m) /\ SameBinding(m, n) /\ UNCHANGED Counters

Dropped == \E S \in SUBSET nats : Release(S)

Made == \E b \in Binding :
            /\ \A n \in nats : BindingKey(n) # BindingKey(b)
            /\ nats' = nats \cup {b}
            /\ OneMore(b)

Kinds == UNCHANGED <<nats, Counters>> \/ Altered \/ Dropped \/ Made

\* The flow of a new binding.
LEMMA DynamicSame ==
    ASSUME TypeOK, NEW t \in Tunnel, NEW pr \in Proto, NEW src \in Src, NEW d \in Dst,
           NEW q \in DynPort, NEW fl
    PROVE  LET b == RefreshIn(Dynamic(t, pr, src, d, q), fl)
           IN  b.src = src /\ b.dst = d
<1>1. Dynamic(t, pr, src, d, q) \in Binding
  BY DynamicIsBinding
<1>2. SameBinding(RefreshIn(Dynamic(t, pr, src, d, q), fl), Dynamic(t, pr, src, d, q))
  BY <1>1, RefreshKeeps DEF TypeOK
<1> QED
  BY <1>2 DEF SameBinding, Dynamic

LEMMA StepKinds == TypeOK /\ [Next]_vars => Kinds
<1> SUFFICES ASSUME TypeOK, [Next]_vars PROVE Kinds
  OBVIOUS
<1>1. ASSUME NEW t \in Tunnel, DelTunnel(t) PROVE Kinds
  <2> DEFINE S == {n \in nats : n.tun = t}
  <2>1. S \in SUBSET nats /\ Release(S)
    BY <1>1 DEF DelTunnel
  <2> QED
    BY <2>1 DEF Kinds, Dropped
<1>2. ASSUME NEW n \in nats, DelPermanent(n) PROVE Kinds
  <2>1. {n} \in SUBSET nats /\ Release({n})
    BY <1>2 DEF DelPermanent
  <2> QED
    BY <2>1 DEF Kinds, Dropped
<1>3. CASE Expire
  <2>1. Expired \in SUBSET nats /\ Release(Expired)
    BY <1>3 DEF Expire, Expired
  <2> QED
    BY <2>1 DEF Kinds, Dropped
<1>4. ASSUME NEW n \in nats, NEW fl, NatInHit(n, fl) \/ NatOut(n, fl) PROVE Kinds
  <2>1. n \in Binding /\ seconds \in Nat
    BY DEF TypeOK
  <2>2. RefreshIn(n, fl) \in Binding /\ SameBinding(RefreshIn(n, fl), n)
        /\ \A m \in {n, Extend(n, n.lifetime)} :
               RefreshOut(m, fl) \in Binding /\ SameBinding(RefreshOut(m, fl), n)
    BY <2>1, RefreshBoth
  <2>3. UNCHANGED Counters
    BY <1>4 DEF NatInHit, NatOut, cntVars, Counters
  <2>4. \E m \in Binding : Replace(n, m) /\ SameBinding(m, n)
    BY <1>4, <2>2 DEF NatInHit, NatOut
  <2> QED
    BY <2>3, <2>4 DEF Kinds, Altered
<1>5. ASSUME NEW n \in nats, TooBigOut(n) \/ NatIcmpOut(n) PROVE Kinds
  <2>1. n \in Binding /\ n.lifetime \in Nat /\ Echo \in Nat /\ seconds \in Nat
    BY DEF TypeOK, Binding, NatAssumption
  <2>2. Extend(n, n.lifetime) \in Binding /\ SameBinding(Extend(n, n.lifetime), n)
        /\ Extend(n, Echo) \in Binding /\ SameBinding(Extend(n, Echo), n)
    BY <2>1, ExtendKeeps
  <2>3. UNCHANGED Counters
    BY <1>5 DEF TooBigOut, NatIcmpOut, cntVars, Counters
  <2>4. \E m \in Binding : Replace(n, m) /\ SameBinding(m, n)
    BY <1>5, <2>2 DEF TooBigOut, NatIcmpOut
  <2> QED
    BY <2>3, <2>4 DEF Kinds, Altered
<1>6. ASSUME NEW t \in Tunnel, NEW pr \in Proto, NEW src \in Src, NEW d \in Dst,
             NEW q \in DynPort, NEW fl, NatInNew(t, pr, src, d, q, fl)
      PROVE  Kinds
  <2> DEFINE b == RefreshIn(Dynamic(t, pr, src, d, q), fl)
  <2>1. b \in Binding /\ b.tun = t /\ b.pr = pr /\ b.kind = "dyn"
    BY DynamicKeeps
  <2>2. b.src = src /\ b.dst = d
    BY DynamicSame
  <2>3. /\ nats' = nats \cup {b} /\ InMatches(t, pr, src, d) = {}
        /\ tnatcnt' = [tnatcnt EXCEPT ![<<t, pr>>] = @ + 1]
        /\ dyncnt' = [dyncnt EXCEPT ![pr] = @ + 1]
        /\ snatcnt' = snatcnt /\ prrcnt' = prrcnt
    BY <1>6 DEF NatInNew, Miss
  <2> HIDE DEF b
  <2>4. \A n \in nats : BindingKey(n) # BindingKey(b)
    BY <2>1, <2>2, <2>3 DEF InMatches, BindingKey
  <2>5. OneMore(b)
    BY <2>1, <2>3 DEF OneMore
  <2> QED
    BY <2>1, <2>3, <2>4, <2>5 DEF Kinds, Made
<1>7. ASSUME NEW t \in Tunnel, NEW pr \in Proto, NEW src \in Src, NEW d \in Dst,
             \/ NatInOverRate(t, pr, src, d) \/ NatInNoPort(t, pr, src, d)
             \/ \E q \in DynPort : NatInHeapFull(t, pr, src, d, q)
      PROVE  Kinds
  BY <1>7 DEF NatInOverRate, NatInNoPort, NatInHeapFull, Kinds, Counters, portVars, cntVars
<1>8. ASSUME NEW b \in Binding, NEW p2, AddPermanent(b, p2), b.kind \in {"snat", "prr"},
             ~Collides(b) => OneMore(b),
             Collides(b) => UNCHANGED <<snatcnt, prrcnt>>
      PROVE  Kinds
  <2>1. CASE Collides(b)
    BY <1>8, <2>1 DEF AddPermanent, Kinds, Counters
  <2>2. CASE ~Collides(b)
    <3>1. \A n \in nats : BindingKey(n) # BindingKey(b)
      BY <2>2 DEF Collides, BindingKey
    <3> QED
      BY <1>8, <2>2, <3>1 DEF AddPermanent, Kinds, Made
  <2> QED
    BY <2>1, <2>2
<1>9. ASSUME NEW t \in Tunnel, NEW pr \in Proto, NEW src \in Src, NEW p \in Pool,
             NEW q \in Port, AddSnat(t, pr, src, p, q)
      PROVE  Kinds
  <2> DEFINE b == Permanent("snat", t, pr, src, p, q)
  <2>1. b \in Binding /\ b.tun = t /\ b.pr = pr /\ b.kind = "snat"
    BY PermanentIsBinding DEF Permanent
  <2>2. AddPermanent(b, p) /\ prrcnt' = prrcnt
        /\ snatcnt' = IF Collides(b) THEN snatcnt ELSE snatcnt + 1
    BY <1>9 DEF AddSnat
  <2> HIDE DEF b
  <2>3. ~Collides(b) => OneMore(b)
    BY <2>1, <2>2 DEF OneMore, AddPermanent
  <2> QED
    BY <1>8, <2>1, <2>2, <2>3
<1>10. ASSUME NEW t \in Tunnel, NEW pr \in Proto, NEW p \in Pool, NEW q \in Port,
              NEW p2 \in Pool, AddPrr(t, pr, p, q, p2)
       PROVE  Kinds
  <2> DEFINE b == Permanent("prr", t, pr, <<p, q>>, p, q)
  <2>1. b \in Binding /\ b.tun = t /\ b.pr = pr /\ b.kind = "prr"
    BY PermanentIsBinding DEF Permanent
  <2>2. AddPermanent(b, p2) /\ snatcnt' = snatcnt
        /\ prrcnt' = IF Collides(b) THEN prrcnt ELSE prrcnt + 1
    BY <1>10 DEF AddPrr
  <2> HIDE DEF b
  <2>3. ~Collides(b) => OneMore(b)
    BY <2>1, <2>2 DEF OneMore, AddPermanent
  <2> QED
    BY <1>8, <2>1, <2>2, <2>3
<1>11. ASSUME NEW t \in Tunnel, NEW p \in Pool, AddTunnel(t, p) PROVE Kinds
  BY <1>11 DEF AddTunnel, Kinds, Counters, portVars, cntVars
<1>12. CASE Select \/ CommandsDone \/ SameSecond \/ UNCHANGED vars
  BY <1>12 DEF Select, CommandsDone, SameSecond, vars, Kinds, Counters, portVars, cntVars
<1>13. CASE Loop
  BY <1>3, <1>12, <1>13 DEF Loop
<1>14. CASE Command
  BY <1>1, <1>2, <1>9, <1>10, <1>11, <1>14 DEF Command
<1>15. CASE Traffic
  BY <1>4, <1>5, <1>6, <1>7, <1>15 DEF Traffic, Hit
<1> QED
  BY <1>12, <1>13, <1>14, <1>15 DEF Next

(***************************************************************************)
(* One binding per flow, and the counters of the bindings.                 *)
(***************************************************************************)
CInv == TypeOK /\ OneBindingPerFlow /\ Counted

\* A binding that replaces another is not one of the rest.
LEMMA AlteredFresh ==
    ASSUME OneBindingPerFlow, NEW n \in nats, NEW m, SameBinding(m, n)
    PROVE  m \notin nats \ {n}
BY DEF OneBindingPerFlow, SameBinding

LEMMA OneBindingStep == OneBindingPerFlow /\ Kinds => OneBindingPerFlow'
<1> SUFFICES ASSUME OneBindingPerFlow, Kinds PROVE OneBindingPerFlow'
  OBVIOUS
<1>1. CASE Altered
  BY <1>1 DEF Altered, Replace, SameBinding, OneBindingPerFlow
<1>2. CASE Dropped
  BY <1>2 DEF Dropped, Release, OneBindingPerFlow
<1>3. CASE Made
  BY <1>3 DEF Made, BindingKey, OneBindingPerFlow
<1> QED
  BY <1>1, <1>2, <1>3 DEF Kinds, OneBindingPerFlow

LEMMA CountedStep == CInv /\ Kinds => Counted'
<1> SUFFICES ASSUME CInv, Kinds PROVE Counted'
  OBVIOUS
<1>0. /\ IsFiniteSet(nats) /\ nats \in SUBSET Binding /\ OneBindingPerFlow /\ Counted
      /\ tnatcnt \in [Slot -> Int] /\ dyncnt \in [Proto -> Int]
      /\ snatcnt \in Int /\ prrcnt \in Int
  BY DEF CInv, TypeOK
<1>1. CASE Altered
  <2>1. PICK n \in nats, m \in Binding :
            Replace(n, m) /\ SameBinding(m, n) /\ UNCHANGED Counters
    BY <1>1 DEF Altered
  <2>2. m \notin nats \ {n}
    BY <1>0, <2>1, AlteredFresh
  <2>3. n \in Binding
    BY <1>0
  <2>4. /\ \A t, pr : m \in TunClass(t, pr) <=> n \in TunClass(t, pr)
        /\ \A kind : m \in KindClass(kind) <=> n \in KindClass(kind)
        /\ \A pr, kind : m \in PrClass(pr, kind) <=> n \in PrClass(pr, kind)
    BY <2>1, <2>3 DEF SameBinding, TunClass, KindClass, PrClass
  <2>5. \A C : (m \in C <=> n \in C)
            => Cardinality(nats' \cap C) = Cardinality(nats \cap C)
    BY <1>0, <2>1, <2>2, ClassSame DEF Replace
  <2> QED
    BY <1>0, <2>1, <2>4, <2>5 DEF Counted, Counters
<1>2. CASE Dropped
  <2>1. PICK S \in SUBSET nats : Release(S)
    BY <1>2 DEF Dropped
  <2>2. S \in SUBSET Binding /\ nats' = nats \ S
    BY <1>0, <2>1 DEF Release
  <2>3. \A C : Cardinality(nats' \cap C) = Cardinality(nats \cap C) - Cardinality(S \cap C)
    <3>1. \A C : Cardinality((nats \ S) \cap C)
                     = Cardinality(nats \cap C) - Cardinality(S \cap C)
      BY <1>0, ClassMinus
    <3> QED
      BY <2>2, <3>1
  <2>4. /\ tnatcnt' = [s \in Slot |->
                tnatcnt[s] - Cardinality(S \cap TunClass(s[1], s[2]))]
        /\ dyncnt' = [pr \in Proto |-> dyncnt[pr] - Cardinality(S \cap PrClass(pr, "dyn"))]
        /\ snatcnt' = snatcnt - Cardinality(S \cap KindClass("snat"))
        /\ prrcnt' = prrcnt - Cardinality(S \cap KindClass("prr"))
    <3>1. /\ \A t, pr : CountIf(S, t, pr) = Cardinality(S \cap TunClass(t, pr))
          /\ \A kind : KindCount(S, kind) = Cardinality(S \cap KindClass(kind))
          /\ \A pr, kind : KindCount({n \in S : n.pr = pr}, kind)
                               = Cardinality(S \cap PrClass(pr, kind))
      BY <2>2, CountsByClass
    <3> QED
      BY <2>1, <3>1 DEF Release
  <2> QED
    BY <1>0, <2>3, <2>4 DEF Counted
<1>3. CASE Made
  <2>1. PICK b \in Binding :
            /\ \A n \in nats : BindingKey(n) # BindingKey(b)
            /\ nats' = nats \cup {b}
            /\ OneMore(b)
    BY <1>3 DEF Made
  <2>2. b \notin nats /\ b.tun \in Tunnel /\ b.pr \in Proto
        /\ b.kind \in {"dyn", "snat", "prr"} /\ <<b.tun, b.pr>> \in Slot
    BY <2>1 DEF Binding, Slot
  <2>3. \A C : Cardinality(nats' \cap C) =
                   Cardinality(nats \cap C) + (IF b \in C THEN 1 ELSE 0)
    BY <1>0, <2>1, <2>2, ClassAdd
  <2>4. /\ \A t, pr : b \in TunClass(t, pr) <=> b.tun = t /\ b.pr = pr
        /\ \A kind : b \in KindClass(kind) <=> b.kind = kind
        /\ \A pr, kind : b \in PrClass(pr, kind) <=> b.pr = pr /\ b.kind = kind
    BY DEF TunClass, KindClass, PrClass
  <2>5. ASSUME NEW s \in Slot
        PROVE  tnatcnt'[s] = Cardinality(nats' \cap TunClass(s[1], s[2]))
    <3>1. s = <<s[1], s[2]>>
      BY DEF Slot
    <3>2. s = <<b.tun, b.pr>> <=> b \in TunClass(s[1], s[2])
      BY <2>4, <3>1
    <3>3. tnatcnt[s] \in Int /\ tnatcnt[s] = Cardinality(nats \cap TunClass(s[1], s[2]))
      BY <1>0 DEF Counted
    <3>4. tnatcnt'[s] = IF s = <<b.tun, b.pr>> THEN tnatcnt[s] + 1 ELSE tnatcnt[s]
      BY <1>0, <2>1, <2>2 DEF OneMore
    <3> QED
      BY <2>3, <3>2, <3>3, <3>4
  <2>6. ASSUME NEW pr \in Proto
        PROVE  dyncnt'[pr] = Cardinality(nats' \cap PrClass(pr, "dyn"))
    <3>1. dyncnt[pr] \in Int /\ dyncnt[pr] = Cardinality(nats \cap PrClass(pr, "dyn"))
      BY <1>0 DEF Counted
    <3>2. dyncnt'[pr] = IF b.kind = "dyn" /\ b.pr = pr THEN dyncnt[pr] + 1 ELSE dyncnt[pr]
      BY <1>0, <2>1, <2>2 DEF OneMore
    <3> QED
      BY <2>3, <2>4, <3>1, <3>2
  <2>7. /\ snatcnt' = Cardinality(nats' \cap KindClass("snat"))
        /\ prrcnt' = Cardinality(nats' \cap KindClass("prr"))
    <3>1. /\ snatcnt' = IF b.kind = "snat" THEN snatcnt + 1 ELSE snatcnt
          /\ prrcnt' = IF b.kind = "prr" THEN prrcnt + 1 ELSE prrcnt
      BY <2>1 DEF OneMore
    <3>2. snatcnt = Cardinality(nats \cap KindClass("snat"))
          /\ prrcnt = Cardinality(nats \cap KindClass("prr"))
      BY <1>0 DEF Counted
    <3> QED
      BY <1>0, <2>3, <2>4, <3>1, <3>2
  <2> QED
    BY <2>5, <2>6, <2>7 DEF Counted
<1>4. CASE UNCHANGED <<nats, Counters>>
  BY <1>0, <1>4 DEF Counted, Counters
<1> QED
  BY <1>1, <1>2, <1>3, <1>4 DEF Kinds

LEMMA CountedInit == Init => OneBindingPerFlow /\ Counted
<1> SUFFICES ASSUME Init PROVE OneBindingPerFlow /\ Counted
  OBVIOUS
<1>1. nats = {} /\ \A C : Cardinality(nats \cap C) = 0
  <2>1. nats = {} /\ \A C : nats \cap C = {}
    BY DEF Init
  <2> QED
    BY <2>1, FS_EmptySet
<1> QED
  BY <1>1 DEF Init, OneBindingPerFlow, Counted

LEMMA AlwaysCounted == Spec => []CInv
<1>1. Init => CInv
  BY TypeInit, CountedInit DEF CInv
<1>2. CInv /\ [Next]_vars => CInv'
  BY TypeStep, StepKinds, OneBindingStep, CountedStep DEF CInv
<1> QED
  BY <1>1, <1>2, PTL DEF Spec

\* natin() never makes a second binding for a flow, whatever collides in the
\* splay trees and however static bindings come and go.
THEOREM FlowsBoundOnce == Spec => []OneBindingPerFlow
<1>1. CInv => OneBindingPerFlow
  BY DEF CInv
<1> QED
  BY <1>1, AlwaysCounted, PTL

\* The counters of tunnels and of the daemon are the numbers of bindings they
\* stand for, over creations, expiries, collisions and tunnel deletions.
THEOREM CountersRight == Spec => []BindingCounts
<1>1. CInv => BindingCounts
  BY CountedIs DEF CInv
<1> QED
  BY <1>1, AlwaysCounted, PTL

(***************************************************************************)
(* Bindings and tunnels.                                                   *)
(***************************************************************************)
Moored ==
    \A n \in nats : /\ n.tun \in tunnels
                    /\ n.kind = "dyn" <=> n.port \in DynPort
                    /\ n.kind = "dyn" => n.pool = srcidx[n.tun]

\* A step keeps the tunnels of the bindings it keeps.
LEMMA MooredStep == TypeOK /\ Moored /\ [Next]_vars => Moored'
<1> SUFFICES ASSUME TypeOK, Moored, [Next]_vars PROVE Moored'
  OBVIOUS
<1>1. ASSUME UNCHANGED <<tunnels, srcidx>>,
             \A m \in nats' : (\E n \in nats : SameBinding(m, n))
      PROVE  Moored'
  BY <1>1 DEF Moored, SameBinding
<1>2. ASSUME UNCHANGED <<tunnels, srcidx>>, nats' \subseteq nats
      PROVE  Moored'
  BY <1>2 DEF Moored
<1>3. ASSUME NEW t \in Tunnel, DelTunnel(t) PROVE Moored'
  <2>1. nats' = {n \in nats : n.tun # t} /\ tunnels' = tunnels \ {t} /\ srcidx' = srcidx
    BY <1>3 DEF DelTunnel, Release
  <2> QED
    BY <2>1 DEF Moored
<1>4. ASSUME NEW t \in Tunnel, t \notin tunnels, NEW p \in Pool, NewTunnel(t, p)
      PROVE  /\ t \in tunnels' /\ tunnels \subseteq tunnels'
             /\ \A n \in nats : n.tun \in tunnels' /\ srcidx'[n.tun] = srcidx[n.tun]
  <2>1. tunnels' = tunnels \cup {t} /\ srcidx' = [srcidx EXCEPT ![t] = p]
        /\ srcidx \in [Tunnel -> Pool] /\ \A n \in nats : n.tun \in tunnels /\ n.tun \in Tunnel
    BY <1>4 DEF NewTunnel, TypeOK, Moored, Binding
  <2> QED
    BY <1>4, <2>1
<1>5. ASSUME NEW t \in Tunnel, NEW p \in Pool, AddTunnel(t, p) PROVE Moored'
  BY <1>4, <1>5 DEF AddTunnel, portVars, Moored
<1>6. ASSUME NEW b \in Binding, b.kind # "dyn", NEW p2 \in Pool, AddPermanent(b, p2)
      PROVE  Moored'
  <2>1. b.tun \in Tunnel /\ b.port \notin DynPort /\ nats' \subseteq nats \cup {b}
    BY <1>6 DEF AddPermanent, Binding
  <2>2. b.tun \in tunnels'
        /\ \A n \in nats : n.tun \in tunnels' /\ srcidx'[n.tun] = srcidx[n.tun]
    <3>1. CASE b.tun \in tunnels
      BY <1>6, <3>1 DEF AddPermanent, tunVars, Moored
    <3>2. CASE b.tun \notin tunnels
      BY <1>4, <1>6, <2>1, <3>2 DEF AddPermanent
    <3> QED
      BY <3>1, <3>2
  <2> QED
    BY <1>6, <2>1, <2>2 DEF Moored
<1>7. ASSUME NEW kind \in {"snat", "prr"}, NEW t \in Tunnel, NEW pr \in Proto,
             NEW src \in Src \cup (Pool \X Port), NEW p \in Pool, NEW q \in Port,
             NEW p2 \in Pool, AddPermanent(Permanent(kind, t, pr, src, p, q), p2)
      PROVE  Moored'
  <2>1. Permanent(kind, t, pr, src, p, q) \in Binding
        /\ Permanent(kind, t, pr, src, p, q).kind # "dyn"
    BY PermanentIsBinding DEF Permanent
  <2> QED
    BY <1>6, <1>7, <2>1
<1>8. ASSUME NEW n \in nats, DelPermanent(n) PROVE Moored'
  BY <1>2, <1>8 DEF DelPermanent, Release, tunVars
<1>9. ASSUME NEW n \in nats, NEW fl, NatInHit(n, fl) \/ NatOut(n, fl)
      PROVE  Moored'
  <2>1. SameBinding(RefreshIn(n, fl), n)
        /\ \A m \in {n, Extend(n, n.lifetime)} : SameBinding(RefreshOut(m, fl), n)
    BY RefreshBoth DEF TypeOK
  <2> QED
    BY <1>1, <1>9, <2>1 DEF NatInHit, NatOut, Replace, tunVars, SameBinding
<1>10. ASSUME NEW n \in nats, TooBigOut(n) \/ NatIcmpOut(n)
       PROVE  Moored'
  <2>1. n \in Binding /\ n.lifetime \in Nat /\ Echo \in Nat /\ seconds \in Nat
    BY DEF TypeOK, Binding, NatAssumption
  <2>2. SameBinding(Extend(n, n.lifetime), n) /\ SameBinding(Extend(n, Echo), n)
    BY <2>1, ExtendKeeps
  <2> QED
    BY <1>1, <1>10, <2>2 DEF TooBigOut, NatIcmpOut, Replace, tunVars, SameBinding
<1>11. ASSUME NEW t \in Tunnel, NEW pr \in Proto, NEW src \in Src, NEW d \in Dst,
              NEW q \in DynPort, NEW fl, NatInNew(t, pr, src, d, q, fl)
       PROVE  Moored'
  <2> DEFINE b == RefreshIn(Dynamic(t, pr, src, d, q), fl)
  <2>1. b.tun = t /\ b.kind = "dyn" /\ b.port = q /\ b.pool = srcidx[t]
    BY DynamicKeeps
  <2>2. t \in tunnels /\ nats' = nats \cup {b} /\ UNCHANGED <<tunnels, srcidx>>
    BY <1>11 DEF NatInNew, Miss, tunVars
  <2> HIDE DEF b
  <2> QED
    BY <2>1, <2>2 DEF Moored
<1>12. ASSUME NEW t \in Tunnel, NEW pr \in Proto, NEW src \in Src, NEW d \in Dst,
              \/ NatInOverRate(t, pr, src, d) \/ NatInNoPort(t, pr, src, d)
              \/ \E q \in DynPort : NatInHeapFull(t, pr, src, d, q)
       PROVE  Moored'
  BY <1>2, <1>12 DEF NatInOverRate, NatInNoPort, NatInHeapFull, portVars, tunVars
<1>13. CASE Expire
  BY <1>2, <1>13 DEF Expire, Release, tunVars
<1>14. CASE Select \/ CommandsDone \/ SameSecond \/ UNCHANGED vars
  BY <1>2, <1>14 DEF Select, CommandsDone, SameSecond, vars, portVars, tunVars
<1>15. CASE Loop
  BY <1>13, <1>14, <1>15 DEF Loop
<1>16. CASE Command
  BY <1>3, <1>5, <1>7, <1>8, <1>16 DEF Command, AddSnat, AddPrr
<1>17. CASE Traffic
  BY <1>9, <1>10, <1>11, <1>12, <1>17 DEF Traffic, Hit
<1> QED
  BY <1>14, <1>15, <1>16, <1>17 DEF Next

\* No step of a binding refers to a tunnel that is gone: del_tunnel() takes
\* the bindings, the bucket and the count of the tunnel along, and a tunnel
\* keeps its pool as long as it has bindings.
THEOREM BindingsAnchored == Spec => []Anchored
<1>1. Init => Moored
  BY DEF Init, Moored
<1>2. CInv /\ IInv /\ Moored => Anchored
  <2> SUFFICES ASSUME CInv, IInv, Moored PROVE Anchored
    OBVIOUS
  <2>1. ASSUME NEW s \in Slot, s[1] \notin tunnels
        PROVE  bucket[s] = {} /\ tnatcnt[s] = 0
    <3>1. bucket[s] = {}
      BY <2>1 DEF IInv, Deserted
    <3>2. nats \cap TunClass(s[1], s[2]) = {}
      BY <2>1 DEF Moored, TunClass
    <3>3. tnatcnt[s] = 0
      BY <3>2, FS_EmptySet DEF CInv, Counted
    <3> QED
      BY <3>1, <3>3
  <2> QED
    BY <2>1 DEF Anchored, Moored
<1>3. CInv /\ Moored /\ [Next]_vars => Moored'
  BY MooredStep DEF CInv
<1> QED
  BY <1>1, <1>2, <1>3, AlwaysCounted, AlwaysConserved, PTL DEF Spec

(***************************************************************************)
(* The counter of a pool.                                                  *)
(***************************************************************************)

\* One entry of the queue for each binding released.
LEMMA HeldsOfLength ==
    ASSUME NEW S, IsFiniteSet(S), NEW k
    PROVE  /\ Len(HeldsOf(S, k)) = Cardinality({n \in S : InRange(n, k)})
           /\ Len(HeldsOf(S, k)) \in Nat
<1> DEFINE D == {n \in S : InRange(n, k)}
           s == SetToSeq(D)
<1>1. IsFiniteSet(D)
  BY FS_Subset
<1>2. /\ s \in Seq(D) /\ (\A x \in D : \E i \in DOMAIN s : s[i] = x)
      /\ IsInjective(s)
  BY <1>1, SetToSeqLists
<1>3. HeldsOf(S, k) = [i \in DOMAIN s |-> HeldOf(s[i])]
  BY DEF HeldsOf
<1> HIDE DEF s, D
<1>4. Len(s) \in Nat /\ DOMAIN s = 1..Len(s) /\ s \in [1..Len(s) -> D]
  BY <1>2, LenProperties
<1>5. s \in Bijection(1..Len(s), D)
  BY <1>2, <1>4 DEF Bijection, Injection, Surjection, IsInjective
<1>6. IsFiniteSet(1..Len(s)) /\ Cardinality(1..Len(s)) = Len(s)
  BY <1>4, FS_Interval
<1>7. Cardinality(D) = Len(s)
  BY <1>5, <1>6, FS_Bijection DEF ExistsBijection
<1>8. Len(HeldsOf(S, k)) = Len(s)
  BY <1>3, <1>4
<1> QED
  BY <1>4, <1>7, <1>8 DEF D

Used(k) == Cardinality(nats \cap RangeClass(k)) + Len(helds[k])

Pooled == \A k \in Key : natcnt[k] = Used(k)

LEMMA PooledIs == TypeOK => (PoolCount <=> Pooled)
<1> SUFFICES ASSUME TypeOK PROVE PoolCount <=> Pooled
  OBVIOUS
<1>1. \A k : Cardinality({n \in nats : InRange(n, k)}) = Cardinality(nats \cap RangeClass(k))
  BY CountsByClass DEF TypeOK
<1> QED
  BY <1>1 DEF PoolCount, Pooled, Used

\* Releasing bindings turns them into entries of the queue, of which cut[k]
\* may have left before.
LEMMA ReleasePooled ==
    ASSUME TypeOK, Pooled, NEW S \in SUBSET nats, nats' = nats \ S,
           NEW cut, \A k \in Key : cut[k] \in 0..Len(helds[k]),
           \A k \in Key : natcnt'[k] = natcnt[k] - cut[k],
           \A k \in Key : \E r \in Seq(Held) :
               helds'[k] = Requeue(r, S, k) /\ Len(r) = Len(helds[k]) - cut[k]
    PROVE  Pooled'
<1> SUFFICES ASSUME NEW k \in Key PROVE natcnt'[k] = Used(k)'
  BY DEF Pooled
<1>1. PICK r \in Seq(Held) :
          helds'[k] = Requeue(r, S, k) /\ Len(r) = Len(helds[k]) - cut[k]
  OBVIOUS
<1>2. IsFiniteSet(nats) /\ IsFiniteSet(S) /\ S \in SUBSET Binding /\ seconds \in Nat
      /\ Len(helds[k]) \in Nat /\ cut[k] \in Nat /\ helds[k] \in Seq(Held)
  <2>1. helds[k] \in Seq(Held) /\ cut[k] \in 0..Len(helds[k])
    BY DEF TypeOK
  <2> QED
    BY <2>1, FS_Subset, LenProperties DEF TypeOK
<1>3. HeldsOf(S, k) \in Seq(Held) /\ Len(HeldsOf(S, k)) = Cardinality(S \cap RangeClass(k))
      /\ Len(HeldsOf(S, k)) \in Nat
  <2>1. HeldsOf(S, k) \in Seq(Held)
    BY <1>2, HeldsOfLists
  <2>2. Cardinality({n \in S : InRange(n, k)}) = Cardinality(S \cap RangeClass(k))
    BY <1>2, CountsByClass
  <2> QED
    BY <1>2, <2>1, <2>2, HeldsOfLength
<1>4. Len(helds'[k]) = Len(r) + Len(HeldsOf(S, k))
  BY <1>1, <1>3, ConcatProperties DEF Requeue
<1>5. Cardinality(nats' \cap RangeClass(k)) =
          Cardinality(nats \cap RangeClass(k)) - Cardinality(S \cap RangeClass(k))
  <2>1. \A C : Cardinality((nats \ S) \cap C) =
                   Cardinality(nats \cap C) - Cardinality(S \cap C)
    BY <1>2, ClassMinus
  <2> QED
    BY <2>1
<1>6. Cardinality(nats \cap RangeClass(k)) \in Nat
  BY <1>2, ClassFinite
<1>7. natcnt'[k] = natcnt[k] - cut[k]
      /\ natcnt[k] = Cardinality(nats \cap RangeClass(k)) + Len(helds[k])
  BY DEF Pooled, Used
<1>8. RangeClass(k)' = RangeClass(k)
  BY DEF RangeClass
<1>9. Used(k)' = Cardinality(nats' \cap RangeClass(k)) + Len(helds'[k])
  BY <1>8 DEF Used
<1> DEFINE bound == Cardinality(nats \cap RangeClass(k))
           gone == Cardinality(S \cap RangeClass(k))
           held == Len(helds[k])
           left == cut[k]
<1>10. /\ natcnt'[k] = bound + held - left
       /\ Used(k)' = (bound - gone) + ((held - left) + gone)
       /\ bound \in Nat /\ gone \in Nat /\ held \in Nat /\ left \in Nat
  BY <1>1, <1>2, <1>3, <1>4, <1>5, <1>6, <1>7, <1>9
<1> HIDE DEF bound, gone, held, left
<1> QED
  BY <1>10

LEMMA StillPooled ==
    ASSUME TypeOK, Pooled, UNCHANGED <<natcnt, helds>>,
           \A k \in Key : Cardinality(nats' \cap RangeClass(k))
                              = Cardinality(nats \cap RangeClass(k))
    PROVE  Pooled'
<1>1. \A k : RangeClass(k)' = RangeClass(k)
  BY DEF RangeClass
<1>2. \A k \in Key : Used(k)' = Used(k)
  BY <1>1 DEF Used
<1> QED
  BY <1>2 DEF Pooled

\* A step that draws a port adds it to the bindings or to the queue.
LEMMA NewPooled ==
    ASSUME CInv, Pooled, NEW t \in Tunnel, NEW pr \in Proto, NEW src \in Src,
           NEW d \in Dst, NEW q \in DynPort,
           \/ \E fl \in Flags(pr) : NatInNew(t, pr, src, d, q, fl)
           \/ NatInHeapFull(t, pr, src, d, q)
    PROVE  Pooled'
<1> DEFINE k0 == <<srcidx[t], pr>>
<1>1. /\ k0 \in Key /\ IsFiniteSet(nats) /\ natcnt \in [Key -> Int]
      /\ \A k \in Key : helds[k] \in Seq(Held) /\ Len(helds[k]) \in Nat
      /\ \A k \in Key : Cardinality(nats \cap RangeClass(k)) \in Nat
      /\ \A k : RangeClass(k)' = RangeClass(k)
  <2>1. TypeOK
    BY DEF CInv
  <2>2. k0 \in Key /\ IsFiniteSet(nats) /\ natcnt \in [Key -> Int]
        /\ \A k \in Key : helds[k] \in Seq(Held)
    BY <2>1 DEF TypeOK, Key
  <2>3. \A k \in Key : Len(helds[k]) \in Nat
    BY <2>2, LenProperties
  <2>4. \A C : Cardinality(nats \cap C) \in Nat
    BY <2>2, ClassFinite
  <2> QED
    BY <2>2, <2>3, <2>4 DEF RangeClass
<1>2. natcnt' = [natcnt EXCEPT ![k0] = @ + 1]
  BY DEF NatInNew, NatInHeapFull
<1> SUFFICES ASSUME NEW k \in Key PROVE natcnt'[k] = Used(k)'
  BY DEF Pooled
<1> DEFINE bound == Cardinality(nats \cap RangeClass(k))
           held == Len(helds[k])
           more == IF k = k0 THEN 1 ELSE 0
<1>3. natcnt'[k] = natcnt[k] + more /\ more \in Nat
  <2>1. natcnt[k] \in Int
    BY <1>1
  <2>2. CASE k = k0
    BY <1>1, <1>2, <2>2
  <2>3. CASE k # k0
    BY <1>1, <1>2, <2>1, <2>3
  <2> QED
    BY <2>2, <2>3
<1>4. natcnt[k] = bound + held /\ bound \in Nat /\ held \in Nat
  BY <1>1 DEF Pooled, Used
<1>5. Used(k)' = Cardinality(nats' \cap RangeClass(k)) + Len(helds'[k])
  BY <1>1 DEF Used
<1>6. CASE NatInHeapFull(t, pr, src, d, q)
  <2> DEFINE h == [port |-> q, timeout |-> seconds + Hold]
  <2>1. nats' = nats /\ helds' = [helds EXCEPT ![k0] = Append(@, h)]
    BY <1>6 DEF NatInHeapFull
  <2>2. h \in Held
    BY DEF CInv, TypeOK, Held, NatAssumption
  <2> HIDE DEF h
  <2>3. helds'[k] = IF k = k0 THEN Append(helds[k], h) ELSE helds[k]
    BY <1>1, <2>1 DEF CInv, TypeOK
  <2>4. Len(Append(helds[k], h)) = Len(helds[k]) + 1
    BY <1>1, <2>2, AppendProperties
  <2>5. Len(helds'[k]) = held + more
    <3>1. CASE k = k0
      BY <2>3, <2>4, <3>1
    <3>2. CASE k # k0
      <4>1. more = 0 /\ Len(helds'[k]) = held
        BY <2>3, <3>2
      <4> HIDE DEF more, held
      <4> QED
        BY <1>4, <4>1
    <3> QED
      BY <3>1, <3>2
  <2>6. Used(k)' = bound + (held + more)
    BY <1>5, <2>1, <2>5
  <2> HIDE DEF bound, held, more
  <2> QED
    BY <1>3, <1>4, <2>6
<1>7. ASSUME NEW fl \in Flags(pr), NatInNew(t, pr, src, d, q, fl)
      PROVE  natcnt'[k] = Used(k)'
  <2> DEFINE b == RefreshIn(Dynamic(t, pr, src, d, q), fl)
  <2>1. b \in Binding /\ b.tun = t /\ b.pr = pr /\ b.pool = srcidx[t] /\ b.port = q
    BY DynamicKeeps DEF CInv
  <2>2. b.src = src /\ b.dst = d
    BY DynamicSame DEF CInv
  <2>3. nats' = nats \cup {b} /\ helds' = helds /\ InMatches(t, pr, src, d) = {}
    BY <1>7 DEF NatInNew, Miss
  <2> HIDE DEF b
  <2>4. b \notin nats
    BY <2>1, <2>2, <2>3 DEF InMatches
  <2>5. b \in RangeClass(k) <=> k = k0
    <3>1. k = <<k[1], k[2]>>
      BY DEF Key
    <3> QED
      BY <2>1, <3>1 DEF RangeClass, InRange
  <2>6. \A C : Cardinality((nats \cup {b}) \cap C) =
                   Cardinality(nats \cap C) + (IF b \in C THEN 1 ELSE 0)
    BY <1>1, <2>4, ClassAdd
  <2>7. Cardinality(nats' \cap RangeClass(k)) = bound + more
    <3>1. Cardinality(nats' \cap RangeClass(k)) =
              bound + (IF b \in RangeClass(k) THEN 1 ELSE 0)
      BY <2>3, <2>6
    <3> HIDE DEF bound
    <3> QED
      BY <2>5, <3>1
  <2>8. Used(k)' = (bound + more) + held
    BY <1>5, <2>3, <2>7
  <2> HIDE DEF bound, held, more
  <2> QED
    BY <1>3, <1>4, <2>8
<1> QED
  BY <1>6, <1>7

LEMMA ExpirePooled ==
    ASSUME TypeOK, Pooled, Expire
    PROVE  Pooled'
<1>1. PICK cut :
           /\ \A k \in Key : cut[k] \in UNION {0..Len(helds[kk]) : kk \in Key}
           /\ \A k \in Key : FreedPrefix(helds[k], cut[k])
           /\ natcnt' = [k \in Key |-> natcnt[k] - cut[k]]
           /\ helds' = [k \in Key |->
                  Requeue(SubSeq(helds[k], cut[k] + 1, Len(helds[k])), Expired, k)]
  BY DEF Expire
<1>2. Expired \in SUBSET nats /\ nats' = nats \ Expired
  BY DEF Expire, Expired, Release
<1>3. \A k \in Key : cut[k] \in 0..Len(helds[k])
  BY <1>1, LenProperties DEF FreedPrefix, TypeOK
<1>4. ASSUME NEW k \in Key
      PROVE  \E r \in Seq(Held) :
                 helds'[k] = Requeue(r, Expired, k) /\ Len(r) = Len(helds[k]) - cut[k]
  <2> DEFINE r == SubSeq(helds[k], cut[k] + 1, Len(helds[k]))
  <2>1. helds[k] \in Seq(Held) /\ Len(helds[k]) \in Nat /\ cut[k] \in 0..Len(helds[k])
    BY <1>3, LenProperties DEF TypeOK
  <2>2. r \in Seq(Held) /\ Len(r) = Len(helds[k]) - cut[k]
    BY <2>1, SubSeqProperties
  <2>3. helds'[k] = Requeue(r, Expired, k)
    BY <1>1
  <2> HIDE DEF r
  <2> QED
    BY <2>2, <2>3
<1>5. \A k \in Key : natcnt'[k] = natcnt[k] - cut[k]
  BY <1>1
<1> HIDE DEF Expired
<1> QED
  BY <1>2, <1>3, <1>4, <1>5, ReleasePooled

LEMMA PooledStep == CInv /\ Pooled /\ [Next]_vars => Pooled'
<1> SUFFICES ASSUME CInv, Pooled, [Next]_vars PROVE Pooled'
  OBVIOUS
<1>0. TypeOK /\ IsFiniteSet(nats) /\ OneBindingPerFlow /\ nats \subseteq Binding
  BY DEF CInv, TypeOK
<1>1. ASSUME UNCHANGED <<nats, natcnt, helds>> PROVE Pooled'
  BY <1>0, <1>1, StillPooled
<1>2. ASSUME NEW n \in nats, NEW m \in Binding, SameBinding(m, n), Replace(n, m),
             UNCHANGED <<natcnt, helds>>
      PROVE  Pooled'
  <2>1. m \notin nats \ {n}
    BY <1>0, <1>2, AlteredFresh
  <2>2. \A k : m \in RangeClass(k) <=> n \in RangeClass(k)
    BY <1>0, <1>2 DEF SameBinding, RangeClass, InRange
  <2>3. \A C : (m \in C <=> n \in C) =>
            Cardinality(((nats \ {n}) \cup {m}) \cap C) = Cardinality(nats \cap C)
    BY <1>0, <2>1, ClassSame
  <2>4. \A k \in Key : Cardinality(nats' \cap RangeClass(k))
                           = Cardinality(nats \cap RangeClass(k))
    BY <1>2, <2>2, <2>3 DEF Replace
  <2> QED
    BY <1>0, <1>2, <2>4, StillPooled
<1>3. ASSUME NEW S \in SUBSET nats, nats' = nats \ S, natcnt' = natcnt,
             helds' = [k \in Key |-> Requeue(helds[k], S, k)]
      PROVE  Pooled'
  <2> DEFINE cut == [k \in Key |-> 0]
  <2>1. ASSUME NEW k \in Key
        PROVE  /\ cut[k] \in 0..Len(helds[k]) /\ natcnt'[k] = natcnt[k] - cut[k]
               /\ \E r \in Seq(Held) :
                      helds'[k] = Requeue(r, S, k) /\ Len(r) = Len(helds[k]) - cut[k]
    <3>1. helds[k] \in Seq(Held) /\ Len(helds[k]) \in Nat /\ natcnt[k] \in Int
          /\ cut[k] = 0
      BY <1>0, LenProperties DEF TypeOK
    <3>2. helds'[k] = Requeue(helds[k], S, k) /\ natcnt'[k] = natcnt[k]
      BY <1>3
    <3> HIDE DEF cut
    <3> QED
      BY <3>1, <3>2
  <2> HIDE DEF cut
  <2> QED
    BY <1>0, <1>3, <2>1, ReleasePooled
<1>4. ASSUME NEW t \in Tunnel, DelTunnel(t) PROVE Pooled'
  <2> DEFINE S == {n \in nats : n.tun = t}
  <2>1. S \in SUBSET nats /\ nats' = nats \ S /\ natcnt' = natcnt
        /\ helds' = [k \in Key |-> Requeue(helds[k], S, k)]
    BY <1>4 DEF DelTunnel, Release
  <2> HIDE DEF S
  <2> QED
    BY <1>3, <2>1
<1>5. ASSUME NEW n \in nats, DelPermanent(n) PROVE Pooled'
  <2>1. {n} \in SUBSET nats /\ nats' = nats \ {n} /\ natcnt' = natcnt
        /\ helds' = [k \in Key |-> Requeue(helds[k], {n}, k)]
    BY <1>5 DEF DelPermanent, Release
  <2> QED
    BY <1>3, <2>1
<1>6. ASSUME NEW b, NEW p2, AddPermanent(b, p2) PROVE Pooled'
  <2>1. nats' = nats \/ nats' = nats \cup {b}
    BY <1>6 DEF AddPermanent
  <2>2. b.port \notin DynPort /\ UNCHANGED <<natcnt, helds>>
    BY <1>6 DEF AddPermanent
  <2>3. \A k \in Key : nats' \cap RangeClass(k) = nats \cap RangeClass(k)
    BY <2>1, <2>2 DEF RangeClass, InRange
  <2> QED
    BY <1>0, <2>2, <2>3, StillPooled
<1>7. ASSUME NEW n \in nats, NEW fl, NatInHit(n, fl) \/ NatOut(n, fl) PROVE Pooled'
  <2>1. RefreshIn(n, fl) \in Binding /\ SameBinding(RefreshIn(n, fl), n)
        /\ \A m \in {n, Extend(n, n.lifetime)} :
               RefreshOut(m, fl) \in Binding /\ SameBinding(RefreshOut(m, fl), n)
    BY <1>0, RefreshBoth DEF TypeOK
  <2> QED
    BY <1>2, <1>7, <2>1 DEF NatInHit, NatOut, cntVars
<1>8. ASSUME NEW n \in nats, TooBigOut(n) \/ NatIcmpOut(n) PROVE Pooled'
  <2>1. n \in Binding /\ n.lifetime \in Nat /\ Echo \in Nat /\ seconds \in Nat
    BY <1>0 DEF TypeOK, Binding, NatAssumption
  <2>2. Extend(n, n.lifetime) \in Binding /\ SameBinding(Extend(n, n.lifetime), n)
        /\ Extend(n, Echo) \in Binding /\ SameBinding(Extend(n, Echo), n)
    BY <2>1, ExtendKeeps
  <2> QED
    BY <1>2, <1>8, <2>2 DEF TooBigOut, NatIcmpOut, cntVars
<1>9. ASSUME NEW t \in Tunnel, NEW pr \in Proto, NEW src \in Src, NEW d \in Dst,
             NatInOverRate(t, pr, src, d) \/ NatInNoPort(t, pr, src, d)
      PROVE  Pooled'
  BY <1>1, <1>9 DEF NatInOverRate, NatInNoPort, portVars, cntVars
<1>10. ASSUME NEW t \in Tunnel, NEW p \in Pool, AddTunnel(t, p) PROVE Pooled'
  BY <1>1, <1>10 DEF AddTunnel, portVars, cntVars
<1>11. CASE Select \/ CommandsDone \/ SameSecond \/ UNCHANGED vars
  BY <1>1, <1>11 DEF Select, CommandsDone, SameSecond, vars, portVars, cntVars
<1>12. CASE Loop
  BY <1>0, <1>11, <1>12, ExpirePooled DEF Loop
<1>13. CASE Command
  BY <1>4, <1>5, <1>6, <1>10, <1>13 DEF Command, AddSnat, AddPrr
<1>14. CASE Traffic
  BY <1>7, <1>8, <1>9, <1>14, NewPooled DEF Traffic, Hit
<1> QED
  BY <1>11, <1>12, <1>13, <1>14 DEF Next

\* The counter of a pool, incremented by new_nat() and decremented by
\* free_heldnats() much later, is the number of its ports bound or on hold.
THEOREM PoolCountRight == Spec => []PoolCount
<1>1. Init => Pooled
  <2> SUFFICES ASSUME Init PROVE Pooled
    OBVIOUS
  <2>1. \A k \in Key : nats \cap RangeClass(k) = {} /\ helds[k] = << >> /\ natcnt[k] = 0
    BY DEF Init
  <2>2. \A k \in Key : Cardinality(nats \cap RangeClass(k)) = 0
    BY <2>1, FS_EmptySet
  <2>3. \A k \in Key : Len(helds[k]) = 0
    BY <2>1
  <2> QED
    <3>1. \A k \in Key : Used(k) = 0
      BY <2>2, <2>3 DEF Used
    <3> QED
      BY <2>1, <3>1 DEF Pooled
<1>2. CInv /\ Pooled => PoolCount
  BY PooledIs DEF CInv
<1> QED
  BY <1>1, <1>2, PooledStep, AlwaysCounted, PTL DEF Spec
=============================================================================
