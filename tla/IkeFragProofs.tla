---------------------------- MODULE IkeFragProofs ----------------------------
(***************************************************************************)
(* Proofs about IkeFrag, for any number of messages, of any lengths, and   *)
(* however many fragments the chain may take: what is reassembled is in    *)
(* order, and is the message that its fragments are of, whole; and three   *)
(* rounds of its fragments get a message through.                          *)
(***************************************************************************)
EXTENDS IkeFrag, FiniteSetTheorems, FunctionTheorems, SequenceTheorems,
        WellFoundedInduction, TLAPS

(***************************************************************************)
(* Fragments and messages.                                                 *)
(***************************************************************************)

\* A set of natural numbers has a least element.
LEMMA LeastNat ==
    ASSUME NEW S, S \subseteq Nat, S # {}
    PROVE  \E i \in S : \A j \in S : i <= j
<1> DEFINE R == OpToRel(<, Nat)
<1>1. \E i \in S : \A j \in S : ~(<<j, i>> \in R)
  BY WFMin, NatLessThanWellFounded, Zenon
<1>2. \A i, j \in Nat : j < i => <<j, i>> \in R
  BY DEF OpToRel
<1>3. \A i, j \in S : ~(j < i) => i <= j
  OBVIOUS
<1> QED
  BY <1>1, <1>2, <1>3

\* A fragment is one of the numbered pieces of a message.
LEMMA FragType ==
    \A f : f \in Frag <=>
        \E m \in 1..NumMsg : \E n \in 1..Size[m] : f = [msg |-> m, num |-> n]
BY DEF Frag

\* Its fields.
LEMMA FragFields ==
    ASSUME NEW f \in Frag
    PROVE  /\ f.msg \in 1..NumMsg
           /\ Size[f.msg] \in Nat
           /\ f.num \in 1..Size[f.msg]
           /\ f.num \in Nat
           /\ f = [msg |-> f.msg, num |-> f.num]
<1>1. PICK m \in 1..NumMsg : \E n \in 1..Size[m] : f = [msg |-> m, num |-> n]
  BY FragType
<1>2. Size[m] \in Nat \ {0}
  BY IkeFragAssumption DEF IkeFragAssumption
<1>3. PICK n \in 1..Size[m] : f = [msg |-> m, num |-> n]
  BY <1>1
<1> QED
  BY <1>2, <1>3

\* If number n is in a chain, First() finds a fragment with it.
LEMMA FirstFinds ==
    ASSUME NEW c \in Seq(Frag), NEW n \in Nums(c)
    PROVE  First(c, n) \in 1..Len(c) /\ c[First(c, n)].num = n
<1> DEFINE at == {i \in 1..Len(c) : c[i].num = n}
<1>1. Len(c) \in Nat /\ at \subseteq Nat /\ at # {}
  BY DEF Nums
<1>2. PICK i \in at : \A j \in at : i <= j
  BY <1>1, LeastNat
<1>3. \A j \in 1..i - 1 : j \in 1..Len(c) /\ ~(i <= j)
  BY <1>1
<1>4. c[i].num = n /\ \A j \in 1..i - 1 : c[j].num # n
  BY <1>2, <1>3
<1>5. \E k \in 1..Len(c) : c[k].num = n /\ \A j \in 1..k - 1 : c[j].num # n
  BY <1>2, <1>4
<1> QED
  BY <1>5 DEF First

\* What isakmp_frag_reassembly() returns is a sequence of fragments of the chain,
\* in the order of their numbers.
LEMMA ReassemblyOrdered ==
    ASSUME NEW F, F \subseteq Frag, NEW c \in Seq(F)
    PROVE  /\ Reassembly(c) \in Seq(F)
           /\ \A i \in 1..Len(Reassembly(c)) : Reassembly(c)[i].num = i
           /\ Reassembly(c) # << >> =>
                 1..Len(c) \subseteq Nums(c) /\ Len(Reassembly(c)) = Len(c)
<1>1. Len(c) \in Nat /\ c \in Seq(Frag) /\ \A i \in 1..Len(c) : c[i] \in F
  OBVIOUS
<1>2. CASE ~(1..Len(c) \subseteq Nums(c))
  <2>1. Reassembly(c) = << >>
    BY <1>2 DEF Reassembly
  <2> QED
    BY <2>1
<1>3. CASE 1..Len(c) \subseteq Nums(c)
  <2> DEFINE r == [n \in 1..Len(c) |-> c[First(c, n)]]
  <2>1. Reassembly(c) = r
    BY <1>3 DEF Reassembly
  <2>2. \A n \in 1..Len(c) : First(c, n) \in 1..Len(c) /\ c[First(c, n)].num = n
    BY <1>1, <1>3, FirstFinds
  <2>3. \A n \in 1..Len(c) : r[n] \in F /\ r[n].num = n
    BY <1>1, <2>2
  <2>4. r \in Seq(F) /\ Len(r) = Len(c)
    BY <1>1, <2>3
  <2> QED
    BY <1>3, <2>1, <2>3, <2>4
<1> QED
  BY <1>2, <1>3

\* When the fragments put together are of one message, so is the chain: there are
\* as many numbers in it as fragments.
LEMMA OneMessageInChain ==
    ASSUME NEW c \in Seq(Frag), 1..Len(c) \subseteq Nums(c), NEW m,
           \A n \in 1..Len(c) : c[First(c, n)].msg = m
    PROVE  \A i \in 1..Len(c) : c[i].msg = m /\ c[i].num \in 1..Len(c)
<1> DEFINE S == 1..Len(c)
           h == [n \in S |-> First(c, n)]
<1>1. Len(c) \in Nat
  OBVIOUS
<1>2. \A n \in S : First(c, n) \in S /\ c[First(c, n)].num = n
  BY FirstFinds
<1>3. h \in [S -> S]
  BY <1>2
<1>4. \A a, b \in S : h[a] = h[b] => a = b
  BY <1>2
<1>5. h \in Injection(S, S)
  BY <1>3, <1>4, Fun_IsInj
<1>6. IsFiniteSet(S)
  BY <1>1, FS_Interval
<1>7. h \in Surjection(S, S)
  BY <1>5, <1>6, FS_Injection
<1>8. \A i \in S : \E n \in S : h[n] = i
  BY <1>7 DEF Surjection
<1> QED
  BY <1>2, <1>8

\* A chain taken for complete is reassembled to nothing or, when what comes out is
\* of one message, to that message.
LEMMA ReassemblyFaithful ==
    ASSUME NEW c \in Seq(Frag), NEW f \in Frag, Complete(c, f),
           NEW m \in 1..NumMsg,
           Reassembly(Append(c, f)) # << >>,
           \A i \in 1..Len(Reassembly(Append(c, f))) : Reassembly(Append(c, f))[i].msg = m
    PROVE  Reassembly(Append(c, f)) = Message(m)
<1> DEFINE d == Append(c, f)
           r == Reassembly(d)
<1>1. d \in Seq(Frag) /\ Len(d) \in Nat /\ Len(d) = Len(c) + 1 /\ d[Len(d)] = f
      /\ Len(c) \in Nat /\ \A i \in 1..Len(c) : d[i] = c[i]
  OBVIOUS
<1>2. 1..Len(d) \subseteq Nums(d) /\ Len(r) = Len(d) /\ r \in Seq(Frag)
      /\ \A i \in 1..Len(r) : r[i].num = i
  BY <1>1, ReassemblyOrdered
<1>3. r = [n \in 1..Len(d) |-> d[First(d, n)]]
  BY <1>2 DEF Reassembly
<1>4. \A i \in 1..Len(d) : d[i].msg = m /\ d[i].num \in 1..Len(d)
  <2>1. \A n \in 1..Len(d) : d[First(d, n)].msg = m
    <3> TAKE n \in 1..Len(d)
    <3>1. n \in 1..Len(r)
      BY <1>2
    <3>2. r[n].msg = m
      BY <3>1
    <3> HIDE DEF d
    <3>3. r[n] = d[First(d, n)]
      BY <1>3
    <3> QED
      BY <3>2, <3>3
  <2> QED
    BY <1>1, <1>2, <2>1, OneMessageInChain
<1>5. \E i \in 1..Len(d) : IsLast(d[i])
  BY <1>1 DEF Complete
<1>6. Size[m] \in 1..Len(d)
  BY <1>4, <1>5 DEF IsLast
<1>7. Len(d) \in 1..Len(d) /\ r[Len(d)] \in Frag /\ r[Len(d)].num = Len(d)
      /\ r[Len(d)].msg = m
  BY <1>1, <1>2
<1>8. Len(d) <= Size[m]
  BY <1>7, FragFields
<1>9. Len(d) = Size[m]
  BY <1>1, <1>6, <1>8
<1>10. \A n \in 1..Size[m] : r[n] = [msg |-> m, num |-> n]
  <2> TAKE n \in 1..Size[m]
  <2>1. n \in 1..Len(r) /\ r[n] \in Frag /\ r[n].num = n /\ r[n].msg = m
    BY <1>2, <1>9
  <2> QED
    BY <2>1, FragFields
<1>11. r = [n \in 1..Size[m] |-> r[n]]
  BY <1>3, <1>9
<1> QED
  BY <1>10, <1>11 DEF Message

(***************************************************************************)
(* The steps.                                                              *)
(***************************************************************************)

\* The fragments of the messages sent.
Sent(n) == {f \in Frag : f.msg <= n}

\* Init and every step keep the types and the order of what is reassembled.
LEMMA TypesKept ==
    /\ Init => TypeOK
    /\ TypeOK /\ [Next]_vars => TypeOK'
<1>1. Init => TypeOK
  BY IkeFragAssumption DEF Init, TypeOK, IkeFragAssumption
<1>2. ASSUME TypeOK, NEW f \in Frag, Receive(f)
      PROVE  TypeOK'
  <2>1. f \in Sent(msg) /\ chain \in Seq(Sent(msg)) /\ Sent(msg) \subseteq Frag
    BY <1>2 DEF TypeOK, Receive, Sent
  <2>2. Append(chain, f) \in Seq(Sent(msg))
    BY <2>1
  <2>3. chain' \in Seq(Sent(msg))
    BY <1>2, <2>2 DEF Receive, After
  <2>4. result' \in Seq(Sent(msg)) /\ \A i \in 1..Len(result') : result'[i].num = i
    <3>1. CASE Complete(chain, f)
      <4>1. result' = Reassembly(Append(chain, f))
        BY <1>2, <3>1 DEF Receive
      <4> QED
        BY <2>1, <2>2, <4>1, ReassemblyOrdered
    <3>2. CASE ~Complete(chain, f)
      <4>1. result' = result
        BY <1>2, <3>2 DEF Receive
      <4> QED
        BY <1>2, <4>1 DEF TypeOK, Sent
    <3> QED
      BY <3>1, <3>2
  <2> QED
    BY <1>2, <2>3, <2>4 DEF TypeOK, Receive, Sent
<1>3. ASSUME TypeOK, NEW f \in Frag, NoMemory(f)
      PROVE  TypeOK'
  BY <1>3 DEF TypeOK, NoMemory
<1>4. ASSUME TypeOK, NextMessage
      PROVE  TypeOK'
  <2>1. msg' \in 1..NumMsg /\ msg \in Nat /\ msg' = msg + 1
    BY <1>4, IkeFragAssumption DEF TypeOK, NextMessage, IkeFragAssumption
  <2>2. Sent(msg) \subseteq Sent(msg')
    BY <2>1, FragFields DEF Sent
  <2>3. Seq(Sent(msg)) \subseteq Seq(Sent(msg'))
    BY <2>2
  <2> QED
    BY <1>4, <2>1, <2>3 DEF TypeOK, NextMessage, Sent
<1>5. ASSUME TypeOK, UNCHANGED vars
      PROVE  TypeOK'
  BY <1>5 DEF TypeOK, vars
<1> QED
  BY <1>1, <1>2, <1>3, <1>4, <1>5 DEF Next

\* Init and every step leave a whole message, or one mixed of several.
LEMMA FaithfulKept ==
    /\ Init => Faithful
    /\ TypeOK /\ Faithful /\ [Next]_vars => Faithful'
<1>1. Init => Faithful
  BY DEF Init, Faithful
<1>2. ASSUME TypeOK, Faithful, NEW f \in Frag, Receive(f)
      PROVE  Faithful'
  <2>1. CASE Complete(chain, f)
    <3>1. result' = Reassembly(Append(chain, f))
      BY <1>2, <2>1 DEF Receive
    <3>2. chain \in Seq(Frag)
      BY <1>2 DEF TypeOK
    <3> QED
      BY <2>1, <3>1, <3>2, ReassemblyFaithful DEF Faithful
  <2>2. CASE ~Complete(chain, f)
    BY <1>2, <2>2 DEF Receive, Faithful
  <2> QED
    BY <2>1, <2>2
<1>3. ASSUME NEW f \in Frag, NoMemory(f)
      PROVE  Faithful'
  BY <1>3 DEF NoMemory, Faithful
<1>4. ASSUME Faithful, NextMessage \/ UNCHANGED vars
      PROVE  Faithful'
  BY <1>4 DEF NextMessage, Faithful, vars
<1> QED
  BY <1>1, <1>2, <1>3, <1>4 DEF Next

(***************************************************************************)
(* The theorems.                                                           *)
(***************************************************************************)

\* isakmp_frag_reassembly() returns fragments of messages that were sent, in the
\* order of their numbers.
THEOREM TypesHold == Spec => []TypeOK
BY TypesKept, PTL DEF Spec

\* A message put together by isakmp_frag_reassembly() from fragments of one message
\* is that message, whatever order isakmp_frag_extract() saw them in, and however
\* many of them came twice.
THEOREM FaithfulHolds == Spec => []Faithful
BY TypesKept, FaithfulKept, PTL DEF Spec
(***************************************************************************)
(* A message sent again and again.                                         *)
(*                                                                         *)
(* Feed is iterated over the numbers of the message.  There is no theorem  *)
(* of induction to cite: a set of counterexamples has a least element.     *)
(***************************************************************************)

\* fed is what the fragments of m, one after the other, make of state
Feeding(fed, state, m) ==
    /\ fed[0] = state
    /\ \A n \in 1..Size[m] : fed[n] = Feed(fed[n - 1], [msg |-> m, num |-> n])

\* The recursive function of Round is such a function.
LEMMA RoundIsFeeding ==
    ASSUME NEW state, NEW m \in 1..NumMsg
    PROVE  \E fed : Feeding(fed, state, m) /\ Round(state, m) = fed[Size[m]]
<1> DEFINE Step(g, n) == IF n = 0 THEN state ELSE Feed(g[n - 1], Message(m)[n])
           Upto(g, k) == g = [n \in 0..k |-> Step(g, n)]
           none == {k \in 0..Size[m] : ~\E g : Upto(g, k)}
<1>1. Size[m] \in Nat \ {0}
  BY IkeFragAssumption DEF IkeFragAssumption
<1>2. none = {}
  <2>1. SUFFICES ASSUME none # {} PROVE FALSE
    OBVIOUS
  <2>2. none \subseteq Nat
    BY <1>1
  <2>3. PICK k \in none : \A j \in none : k <= j
    BY <2>1, <2>2, LeastNat
  <2>4. k \in 0..Size[m] /\ ~\E g : Upto(g, k)
    OBVIOUS
  <2>5. CASE k = 0
    <3> DEFINE g == [n \in 0..0 |-> state]
    <3>1. \A n \in 0..0 : n = 0
      OBVIOUS
    <3>2. Upto(g, 0)
      BY <3>1, Zenon
    <3> QED
      BY <2>4, <2>5, <3>2
  <2>6. CASE k # 0
    <3>1. k - 1 \in 0..Size[m] /\ k \in Nat /\ k - 1 \in Nat /\ ~(k <= k - 1)
      BY <1>1, <2>4, <2>6
    <3>2. k - 1 \notin none
      BY <2>3, <3>1
    <3>3. PICK g : Upto(g, k - 1)
      BY <3>1, <3>2
    <3> DEFINE h == [n \in 0..k |-> IF n = k THEN Step(g, k) ELSE g[n]]
    <3>4. \A n \in 0..k : h[n] = Step(h, n)
      <4> TAKE n \in 0..k
      <4>1. CASE n = k
        <5>1. k - 1 \in 0..k /\ k - 1 # k
          BY <3>1
        <5>2. h[k - 1] = g[k - 1]
          BY <5>1
        <5> QED
          BY <2>6, <4>1, <5>2
      <4>2. CASE n # k
        <5>1. n \in 0..(k - 1)
          BY <3>1, <4>2
        <5>2. h[n] = g[n] /\ g[n] = Step(g, n)
          BY <3>3, <4>2, <5>1, Zenon
        <5>3. n # 0 => n - 1 \in 0..k /\ n - 1 # k
          BY <3>1, <4>2
        <5>4. n # 0 => h[n - 1] = g[n - 1]
          BY <5>3
        <5> QED
          BY <5>2, <5>4
      <4> QED
        BY <4>1, <4>2
    <3>5. Upto(h, k)
      <4> DEFINE H == [n \in 0..k |-> Step(h, n)]
      <4>1. \A n \in 0..k : h[n] = H[n]
        BY <3>4
      <4> QED
        BY <4>1
    <3> QED
      BY <2>4, <3>5
  <2> QED
    BY <2>5, <2>6
<1>3. \E g : Upto(g, Size[m])
  BY <1>1, <1>2
<1> DEFINE fed == CHOOSE g : Upto(g, Size[m])
<1>4. Upto(fed, Size[m])
  BY <1>3
<1>5. Round(state, m) = fed[Size[m]]
  BY DEF Round
<1>6. Feeding(fed, state, m)
  <2> HIDE DEF fed
  <2>1. \A n \in 0..Size[m] : fed[n] = Step(fed, n)
    BY <1>4, Zenon
  <2>2. 0 \in 0..Size[m] /\ \A n \in 1..Size[m] : n \in 0..Size[m] /\ n # 0
    BY <1>1
  <2>3. \A n \in 1..Size[m] : Message(m)[n] = [msg |-> m, num |-> n]
    BY DEF Message
  <2> QED
    BY <2>1, <2>2, <2>3 DEF Feeding
<1> QED
  BY <1>5, <1>6

\* Induction on the integers from j to k, over a set that stands for a predicate.
LEMMA CountUp ==
    ASSUME NEW j \in Nat, NEW k \in Nat, NEW G, j \in G,
           \A n \in Nat : (j <= n /\ n < k /\ n \in G) => n + 1 \in G
    PROVE  \A n \in j..k : n \in G
<1> DEFINE none == (j..k) \ G
<1>1. SUFFICES ASSUME none # {} PROVE FALSE
  OBVIOUS
<1>2. PICK n \in none : \A i \in none : n <= i
  <2>1. none \subseteq Nat
    OBVIOUS
  <2> QED
    BY <1>1, <2>1, LeastNat
<1>3. n \in Nat /\ j <= n /\ n <= k /\ n \notin G /\ n # j
  OBVIOUS
<1>4. n - 1 \in Nat /\ j <= n - 1 /\ n - 1 < k /\ n - 1 + 1 = n /\ ~(n <= n - 1)
  BY <1>3
<1>5. n - 1 \in j..k
  BY <1>4
<1>6. n - 1 \in G
  BY <1>2, <1>4, <1>5
<1>7. n - 1 + 1 \in G
  BY <1>4, <1>6
<1> QED
  BY <1>3, <1>4, <1>7

\* Chain b, and then fragments k + 1 to n of message m.
Run(b, m, k, n) ==
    [i \in 1..(Len(b) + n - k) |->
        IF i <= Len(b) THEN b[i] ELSE [msg |-> m, num |-> k + i - Len(b)]]

\* It is a chain, and what is in it.
LEMMA RunIsChain ==
    ASSUME NEW b \in Seq(Frag), NEW m \in 1..NumMsg,
           NEW k \in Nat, NEW n \in k..Size[m]
    PROVE  /\ Run(b, m, k, n) \in Seq(Frag)
           /\ Len(Run(b, m, k, n)) = Len(b) + n - k
           /\ \A i \in 1..Len(b) : Run(b, m, k, n)[i] = b[i]
           /\ \A x \in k + 1..n :
                 /\ Len(b) + x - k \in 1..Len(Run(b, m, k, n))
                 /\ Run(b, m, k, n)[Len(b) + x - k] = [msg |-> m, num |-> x]
           /\ Run(b, m, k, k) = b
<1> DEFINE r == Run(b, m, k, n)
           l == Len(b)
<1>1. Size[m] \in Nat /\ n \in Nat /\ k <= n /\ n <= Size[m] /\ l \in Nat /\ l + n - k \in Nat
  BY IkeFragAssumption DEF IkeFragAssumption
<1>2. \A i \in 1..(l + n - k) : r[i] = IF i <= l THEN b[i] ELSE [msg |-> m, num |-> k + i - l]
  BY DEF Run
<1>3. \A i \in 1..l : b[i] \in Frag
  OBVIOUS
<1>4. \A i \in 1..(l + n - k) : r[i] \in Frag
  <2> TAKE i \in 1..(l + n - k)
  <2>1. CASE i <= l
    <3>1. i \in 1..l
      BY <1>1, <2>1
    <3> QED
      BY <1>2, <1>3, <2>1, <3>1
  <2>2. CASE ~(i <= l)
    <3>1. k + i - l \in 1..Size[m]
      BY <1>1, <2>2
    <3> QED
      BY <1>2, <2>2, <3>1, FragType
  <2> QED
    BY <2>1, <2>2
<1>5. r \in Seq(Frag) /\ Len(r) = l + n - k
  BY <1>1, <1>4 DEF Run
<1>6. \A i \in 1..l : r[i] = b[i]
  <2>1. \A i \in 1..l : i <= l /\ i \in 1..(l + n - k)
    BY <1>1
  <2> QED
    BY <1>2, <2>1
<1>7. ASSUME NEW x \in k + 1..n
      PROVE  l + x - k \in 1..Len(r) /\ r[l + x - k] = [msg |-> m, num |-> x]
  <2>1. l + x - k \in 1..(l + n - k) /\ ~(l + x - k <= l) /\ k + (l + x - k) - l = x
    BY <1>1
  <2> QED
    BY <1>2, <1>5, <2>1
<1>8. Run(b, m, k, k) = b
  <2>1. l + k - k = l /\ \A i \in 1..l : i <= l
    BY <1>1
  <2>2. Run(b, m, k, k) = [i \in 1..l |-> b[i]]
    BY <2>1 DEF Run
  <2> QED
    BY <2>2
<1> HIDE DEF r, l
<1> QED
  BY <1>5, <1>6, <1>7, <1>8 DEF r, l

\* Its length,
LEMMA RunLen ==
    ASSUME NEW b \in Seq(Frag), NEW m \in 1..NumMsg,
           NEW k \in Nat, NEW n \in k..Size[m]
    PROVE  Run(b, m, k, n) \in Seq(Frag) /\ Len(Run(b, m, k, n)) = Len(b) + n - k
BY RunIsChain

\* its beginning, fragment by fragment,
LEMMA RunStart ==
    ASSUME NEW b \in Seq(Frag), NEW m \in 1..NumMsg,
           NEW k \in Nat, NEW n \in k..Size[m], NEW i \in 1..Len(b)
    PROVE  Run(b, m, k, n)[i] = b[i]
BY RunIsChain

\* its end,
LEMMA RunEnd ==
    ASSUME NEW b \in Seq(Frag), NEW m \in 1..NumMsg,
           NEW k \in Nat, NEW n \in k..Size[m], NEW x \in k + 1..n
    PROVE  /\ Len(b) + x - k \in 1..Len(Run(b, m, k, n))
           /\ Run(b, m, k, n)[Len(b) + x - k] = [msg |-> m, num |-> x]
BY RunIsChain

\* and when nothing has come.
LEMMA RunNothing ==
    ASSUME NEW b \in Seq(Frag), NEW m \in 1..NumMsg, NEW k \in 0..Size[m]
    PROVE  Run(b, m, k, k) = b
<1>1. k \in Nat /\ k \in k..Size[m]
  BY IkeFragAssumption DEF IkeFragAssumption
<1> QED
  BY <1>1, RunIsChain

\* The next fragment makes it longer.
LEMMA RunGrows ==
    ASSUME NEW b \in Seq(Frag), NEW m \in 1..NumMsg,
           NEW k \in Nat, NEW n \in k..Size[m], n < Size[m]
    PROVE  Append(Run(b, m, k, n), [msg |-> m, num |-> n + 1]) = Run(b, m, k, n + 1)
<1> DEFINE r == Run(b, m, k, n)
           s == Run(b, m, k, n + 1)
           l == Len(b)
           f == [msg |-> m, num |-> n + 1]
<1>1. Size[m] \in Nat /\ n \in Nat /\ k <= n /\ n < Size[m] /\ l \in Nat
  BY IkeFragAssumption DEF IkeFragAssumption
<1>2. n + 1 \in k..Size[m] /\ f \in Frag
  <2>1. n + 1 \in 1..Size[m]
    BY <1>1
  <2> QED
    BY <1>1, <2>1, FragType
<1>3. r \in Seq(Frag) /\ Len(r) = l + n - k /\ s \in Seq(Frag) /\ Len(s) = l + (n + 1) - k
  BY <1>2, RunIsChain
<1>4. \A i \in 1..(l + n - k) : r[i] = IF i <= l THEN b[i] ELSE [msg |-> m, num |-> k + i - l]
  BY DEF Run
<1>5. \A i \in 1..(l + (n + 1) - k) :
         s[i] = IF i <= l THEN b[i] ELSE [msg |-> m, num |-> k + i - l]
  BY DEF Run
<1>6. Append(r, f) \in Seq(Frag) /\ Len(Append(r, f)) = Len(s)
  <2> HIDE DEF r, s, f
  <2>1. Append(r, f) \in Seq(Frag) /\ Len(Append(r, f)) = Len(r) + 1
    BY <1>2, <1>3
  <2>2. l + n - k + 1 = l + (n + 1) - k
    BY <1>1
  <2> QED
    BY <1>3, <2>1, <2>2
<1>7. ASSUME NEW i \in 1..Len(s)
      PROVE  Append(r, f)[i] = s[i]
  <2>1. CASE i = Len(s)
    <3>1. Append(r, f)[i] = f
      <4>1. i = Len(r) + 1
        BY <1>1, <1>3, <2>1
      <4> HIDE DEF r, s, f
      <4>2. Append(r, f)[Len(r) + 1] = f
        BY <1>3
      <4> QED
        BY <4>1, <4>2
    <3>2. i \in 1..(l + (n + 1) - k) /\ ~(i <= l) /\ k + i - l = n + 1
      BY <1>1, <1>3, <2>1
    <3> QED
      BY <1>5, <3>1, <3>2
  <2>2. CASE i # Len(s)
    <3>1. i \in 1..Len(r) /\ i \in 1..(l + n - k) /\ i \in 1..(l + (n + 1) - k)
      BY <1>1, <1>3, <2>2
    <3>2. Append(r, f)[i] = r[i]
      <4> HIDE DEF r, s, f
      <4> QED
        BY <1>3, <3>1
    <3> QED
      BY <1>4, <1>5, <3>1, <3>2
  <2> QED
    BY <2>1, <2>2
<1> HIDE DEF r, s, f
<1>8. Append(r, f) = s
  BY <1>3, <1>6, <1>7, SeqEqual
<1> QED
  BY <1>8 DEF r, s, f

\* The last fragment completes a chain that ends in all the others.
LEMMA LastCompletes ==
    ASSUME NEW b \in Seq(Frag), NEW m \in 1..NumMsg
    PROVE  Complete(Run(b, m, 0, Size[m] - 1), [msg |-> m, num |-> Size[m]])
<1> DEFINE s == Size[m]
           f == [msg |-> m, num |-> s]
           r == Run(b, m, 0, s)
<1>1. s \in Nat /\ s >= 1 /\ Len(b) \in Nat
  BY IkeFragAssumption DEF IkeFragAssumption
<1>2. Append(Run(b, m, 0, s - 1), f) = r
  <2>1. s - 1 \in 0..s /\ s - 1 < s /\ s - 1 + 1 = s /\ 0 \in Nat
    BY <1>1
  <2> HIDE DEF s
  <2>2. Append(Run(b, m, 0, s - 1), [msg |-> m, num |-> s - 1 + 1]) = Run(b, m, 0, s - 1 + 1)
    BY <2>1, RunGrows DEF s
  <2> QED
    BY <2>1, <2>2
<1>3. \A x \in 1..s : Len(b) + x \in 1..Len(r) /\ r[Len(b) + x].num = x
  <2>1. s \in 0..s /\ 0 \in Nat
    BY <1>1
  <2> TAKE x \in 1..s
  <2>2. x \in 0 + 1..s /\ Len(b) + x - 0 = Len(b) + x
    BY <1>1
  <2>3. Len(b) + x - 0 \in 1..Len(r) /\ r[Len(b) + x - 0] = [msg |-> m, num |-> x]
    BY <2>1, <2>2, RunEnd
  <2> HIDE DEF r, s
  <2> QED
    BY <2>2, <2>3
<1>4. 1..s \subseteq Nums(r)
  BY <1>3 DEF Nums
<1>5. f.num = s /\ IsLast(f)
  BY DEF IsLast
<1> QED
  BY <1>2, <1>4, <1>5 DEF Complete

\* A fragment of message m is the last when its number is Size[m].
LEMMA RunLast ==
    ASSUME NEW m \in 1..NumMsg, NEW k \in Nat, NEW n \in k..Size[m],
           NEW i \in 1..Len(Run(<< >>, m, k, n))
    PROVE  /\ Run(<< >>, m, k, n)[i] = [msg |-> m, num |-> k + i]
           /\ k + i \in k + 1..n
           /\ Len(Run(<< >>, m, k, n)) = n - k
           /\ IsLast(Run(<< >>, m, k, n)[i]) <=> k + i = Size[m]
<1> DEFINE r == Run(<< >>, m, k, n)
<1>1. n \in Nat /\ k <= n
  BY IkeFragAssumption DEF IkeFragAssumption
<1>2. << >> \in Seq(Frag) /\ Len(<< >>) = 0
  OBVIOUS
<1>3. Len(r) = n - k
  <2>1. Len(r) = Len(<< >>) + n - k
    BY <1>2, RunIsChain
  <2> HIDE DEF r
  <2> QED
    BY <1>1, <1>2, <2>1
<1> HIDE DEF r
<1>4. i \in 1..(n - k)
  BY <1>3 DEF r
<1>5. k + i \in k + 1..n /\ Len(<< >>) + (k + i) - k = i
  BY <1>1, <1>2, <1>4
<1>6. r[i] = [msg |-> m, num |-> k + i]
  <2>1. r[Len(<< >>) + (k + i) - k] = [msg |-> m, num |-> k + i]
    <3>1. \A x \in k + 1..n :
             Run(<< >>, m, k, n)[Len(<< >>) + x - k] = [msg |-> m, num |-> x]
      BY <1>2, RunEnd
    <3> QED
      BY <1>5, <3>1 DEF r
  <2> QED
    BY <1>5, <2>1
<1> QED
  BY <1>3, <1>5, <1>6 DEF r, IsLast

\* Nothing is complete while number 1 is wanting.
LEMMA OneIsWanting ==
    ASSUME NEW m \in 1..NumMsg, NEW k \in Nat, k >= 1,
           NEW n \in k..Size[m], n < Size[m]
    PROVE  ~Complete(Run(<< >>, m, k, n), [msg |-> m, num |-> n + 1])
<1> DEFINE r == Run(<< >>, m, k, n + 1)
<1>1. Size[m] \in Nat /\ n \in Nat /\ n + 1 \in k..Size[m] /\ << >> \in Seq(Frag)
  BY IkeFragAssumption DEF IkeFragAssumption
<1>2. Append(Run(<< >>, m, k, n), [msg |-> m, num |-> n + 1]) = r
  BY <1>1, RunGrows
<1>3. \A i \in 1..Len(r) : r[i].num # 1
  <2> TAKE i \in 1..Len(r)
  <2>1. r[i] = [msg |-> m, num |-> k + i] /\ k + i \in k + 1..n + 1
    BY <1>1, RunLast
  <2>2. r[i].num = k + i /\ k + i # 1
    BY <1>1, <2>1
  <2> QED
    BY <2>2
<1>4. 1 \notin Nums(r)
  BY <1>3 DEF Nums
<1>5. 1 \in 1..(n + 1)
  BY <1>1
<1> QED
  BY <1>2, <1>4, <1>5 DEF Complete

\* An empty chain is not complete before the last fragment.
LEMMA LastIsWanting ==
    ASSUME NEW m \in 1..NumMsg, NEW n \in Nat, n + 1 < Size[m]
    PROVE  ~Complete(Run(<< >>, m, 0, n), [msg |-> m, num |-> n + 1])
<1> DEFINE r == Run(<< >>, m, 0, n)
<1>1. Size[m] \in Nat /\ n \in 0..Size[m] /\ 0 \in Nat
  BY IkeFragAssumption DEF IkeFragAssumption
<1>2. ~IsLast([msg |-> m, num |-> n + 1])
  BY <1>1 DEF IsLast
<1>3. \A i \in 1..Len(r) : ~IsLast(r[i])
  <2> TAKE i \in 1..Len(r)
  <2>1. (IsLast(r[i]) <=> 0 + i = Size[m]) /\ 0 + i \in 0 + 1..n
    BY <1>1, RunLast
  <2>2. 0 + i # Size[m]
    BY <1>1, <2>1
  <2> QED
    BY <2>1, <2>2
<1>4. Len(r) \in Nat
  <2>1. r \in Seq(Frag)
    BY <1>1, EmptySeq, RunIsChain, Zenon
  <2> QED
    BY <2>1
<1>5. \A i \in 1..Len(r) - 1 : i \in 1..Len(r)
  BY <1>4
<1> QED
  BY <1>2, <1>3, <1>5 DEF Complete

\* What is left in the chain after a premature completion by fragment k: number 1
\* does not complete it, and number 2 does.
LEMMA RestCompletes ==
    ASSUME NEW m \in 1..NumMsg, NEW k \in 1..Size[m] - 1
    PROVE  LET t == Run(<< >>, m, k, Size[m])
           IN  /\ ~Complete(Run(t, m, 0, 0), [msg |-> m, num |-> 1])
               /\ Complete(Run(t, m, 0, 1), [msg |-> m, num |-> 2])
<1> DEFINE s == Size[m]
           t == Run(<< >>, m, k, s)
<1>1. s \in Nat /\ k \in Nat /\ k >= 1 /\ k < s /\ s >= 2
  BY IkeFragAssumption DEF IkeFragAssumption
<1>2. k \in Nat /\ s \in k..Size[m] /\ 0 \in 0..Size[m] /\ 1 \in 0..Size[m] /\ 2 \in 0..Size[m]
  BY <1>1
<1>3. t \in Seq(Frag) /\ Len(t) = s - k
  <2>1. << >> \in Seq(Frag) /\ Len(<< >>) = 0
    OBVIOUS
  <2>2. t \in Seq(Frag) /\ Len(t) = Len(<< >>) + s - k
    BY <1>2, <2>1, RunIsChain, Zenon
  <2> HIDE DEF t
  <2> QED
    BY <1>1, <2>1, <2>2
<1>4. \A i \in 1..Len(t) : t[i].num = k + i /\ (IsLast(t[i]) <=> k + i = s)
  <2> TAKE i \in 1..Len(t)
  <2>1. t[i] = [msg |-> m, num |-> k + i] /\ (IsLast(t[i]) <=> k + i = Size[m])
    BY <1>2, RunLast
  <2> HIDE DEF t
  <2> QED
    BY <2>1
<1>5. ~Complete(Run(t, m, 0, 0), [msg |-> m, num |-> 1])
  <2>1. Run(t, m, 0, 0) = t
    BY <1>2, <1>3, RunNothing
  <2>2. ~IsLast([msg |-> m, num |-> 1])
    BY <1>1 DEF IsLast
  <2>3. \A i \in 1..Len(t) - 1 : i \in 1..Len(t) /\ k + i # s
    BY <1>1, <1>3
  <2>4. \A i \in 1..Len(t) - 1 : ~IsLast(t[i])
    BY <1>4, <2>3
  <2> QED
    BY <2>1, <2>2, <2>4 DEF Complete
<1>6. Complete(Run(t, m, 0, 1), [msg |-> m, num |-> 2])
  <2> DEFINE r == Run(t, m, 0, 1)
             q == Run(t, m, 0, 2)
  <2>1. r \in Seq(Frag) /\ Len(r) = Len(t) + 1 - 0 /\ \A i \in 1..Len(t) : r[i] = t[i]
    <3>1. r \in Seq(Frag) /\ Len(r) = Len(t) + 1 - 0
      BY <1>2, <1>3, RunIsChain
    <3>2. \A i \in 1..Len(t) : r[i] = t[i]
      BY <1>2, <1>3, RunStart
    <3> QED
      BY <3>1, <3>2
  <2>2. Append(r, [msg |-> m, num |-> 1 + 1]) = Run(t, m, 0, 1 + 1)
    <3>1. 1 < Size[m]
      BY <1>1
    <3> QED
      BY <1>2, <1>3, <3>1, RunGrows
  <2>3. Append(r, [msg |-> m, num |-> 2]) = q
    BY <2>2
  <2>4. \A x \in 1..2 : \E i \in 1..Len(q) : q[i].num = x
    <3> TAKE x \in 1..2
    <3>1. x \in 0 + 1..2
      OBVIOUS
    <3>2. Len(t) + x - 0 \in 1..Len(q) /\ q[Len(t) + x - 0] = [msg |-> m, num |-> x]
      BY <1>2, <1>3, <3>1, RunEnd
    <3> HIDE DEF q, t
    <3> QED
      BY <3>2
  <2> HIDE DEF r, q, t
  <2>5. 1..2 \subseteq Nums(q)
    BY <2>4 DEF Nums
  <2>6. Len(t) \in 1..Len(r) - 1 /\ Len(t) \in 1..Len(t) /\ k + Len(t) = s
    BY <1>1, <1>3, <2>1
  <2>7. IsLast(r[Len(t)])
    BY <1>4, <2>1, <2>6
  <2> QED
    BY <2>3, <2>5, <2>6, <2>7 DEF Complete, r
<1> QED
  BY <1>5, <1>6

\* A chain of as many fragments as the message has, all of it, each number there,
\* is put together to the message.
LEMMA ReassemblyWhole ==
    ASSUME NEW m \in 1..NumMsg, NEW c \in Seq(Frag), Len(c) = Size[m],
           \A i \in 1..Len(c) : c[i].msg = m, 1..Size[m] \subseteq Nums(c)
    PROVE  Reassembly(c) = Message(m)
<1>1. \A n \in 1..Size[m] : c[First(c, n)] = [msg |-> m, num |-> n]
  <2> TAKE n \in 1..Size[m]
  <2>1. First(c, n) \in 1..Len(c) /\ c[First(c, n)].num = n
    BY FirstFinds
  <2>2. c[First(c, n)] \in Frag /\ c[First(c, n)].msg = m
    BY <2>1
  <2> QED
    BY <2>1, <2>2, FragFields
<1>2. Reassembly(c) = [n \in 1..Size[m] |-> c[First(c, n)]]
  BY DEF Reassembly
<1> QED
  BY <1>1, <1>2 DEF Message

\* One more fragment of the round.
LEMMA FeedStep ==
    ASSUME NEW state, NEW m \in 1..NumMsg, NEW fed, Feeding(fed, state, m),
           NEW n \in Nat, n < Size[m]
    PROVE  LET c == fed[n].chain
               f == [msg |-> m, num |-> n + 1]
           IN  /\ fed[n + 1].chain = IF Complete(c, f) THEN << >> ELSE Append(c, f)
               /\ fed[n].got => fed[n + 1].got
               /\ Complete(c, f) /\ Reassembly(Append(c, f)) = Message(m)
                     => fed[n + 1].got
<1> DEFINE f == [msg |-> m, num |-> n + 1]
<1>1. n + 1 \in 1..Size[m] /\ n + 1 - 1 = n
  BY IkeFragAssumption DEF IkeFragAssumption
<1>2. fed[n + 1] = Feed(fed[n + 1 - 1], f)
  BY <1>1 DEF Feeding
<1>3. fed[n + 1] = Feed(fed[n], f) /\ f.msg = m
  BY <1>1, <1>2
<1> HIDE DEF f
<1>4. fed[n + 1].chain = After(fed[n].chain, f)
  BY <1>3 DEF Feed
<1>5. fed[n + 1].got = (\/ fed[n].got
                        \/ /\ Complete(fed[n].chain, f)
                           /\ Reassembly(Append(fed[n].chain, f)) = Message(m))
  BY <1>3 DEF Feed
<1> QED
  BY <1>4, <1>5, Zenon DEF After, f

\* What has been delivered stays so.
LEMMA GotKept ==
    ASSUME NEW state, NEW m \in 1..NumMsg, NEW fed, Feeding(fed, state, m),
           NEW j \in 0..Size[m], fed[j].got
    PROVE  fed[Size[m]].got
<1> DEFINE G == {n \in Nat : fed[n].got}
<1>1. Size[m] \in Nat /\ j \in Nat /\ j \in G
  BY IkeFragAssumption DEF IkeFragAssumption
<1>2. \A n \in Nat : (j <= n /\ n < Size[m] /\ n \in G) => n + 1 \in G
  <2> TAKE n \in Nat
  <2> HAVE j <= n /\ n < Size[m] /\ n \in G
  <2>1. fed[n].got => fed[n + 1].got
    BY FeedStep
  <2> QED
    BY <2>1
<1> HIDE DEF G
<1>3. \A n \in j..Size[m] : n \in G
  BY <1>1, <1>2, CountUp
<1>4. Size[m] \in j..Size[m]
  BY <1>1
<1> QED
  BY <1>3, <1>4 DEF G

\* When fragment j has emptied the chain, the rest stays in it.
LEMMA AfterCompletion ==
    ASSUME NEW state, NEW m \in 1..NumMsg, NEW fed, Feeding(fed, state, m),
           NEW j \in 1..Size[m], fed[j].chain = << >>
    PROVE  fed[Size[m]].chain = Run(<< >>, m, j, Size[m])
<1> DEFINE G == {n \in Nat : fed[n].chain = Run(<< >>, m, j, n)}
<1>1. Size[m] \in Nat /\ j \in Nat /\ j >= 1 /\ j \in 0..Size[m] /\ << >> \in Seq(Frag)
  BY IkeFragAssumption DEF IkeFragAssumption
<1>2. j \in G
  BY <1>1, RunNothing
<1>3. \A n \in Nat : (j <= n /\ n < Size[m] /\ n \in G) => n + 1 \in G
  <2> TAKE n \in Nat
  <2> HAVE j <= n /\ n < Size[m] /\ n \in G
  <2>1. n \in j..Size[m]
    BY <1>1
  <2>2. ~Complete(fed[n].chain, [msg |-> m, num |-> n + 1])
    BY <1>1, <2>1, OneIsWanting
  <2>3. fed[n + 1].chain = Append(fed[n].chain, [msg |-> m, num |-> n + 1])
    BY <2>2, FeedStep
  <2>4. Append(Run(<< >>, m, j, n), [msg |-> m, num |-> n + 1]) = Run(<< >>, m, j, n + 1)
    BY <1>1, <2>1, RunGrows
  <2>5. fed[n + 1].chain = Run(<< >>, m, j, n + 1)
    BY <2>3, <2>4
  <2> QED
    BY <2>5
<1> HIDE DEF G
<1>4. \A n \in j..Size[m] : n \in G
  BY <1>1, <1>2, <1>3, CountUp
<1>5. Size[m] \in j..Size[m]
  BY <1>1
<1> QED
  BY <1>4, <1>5 DEF G

\* A round, whatever is in the chain before it, completes it once, and leaves in it
\* the fragments after that.
LEMMA RoundFromAny ==
    ASSUME NEW state, NEW m \in 1..NumMsg, state.chain \in Seq(Frag)
    PROVE  \E k \in 1..Size[m] : Round(state, m).chain = Run(<< >>, m, k, Size[m])
<1>1. PICK fed : Feeding(fed, state, m) /\ Round(state, m) = fed[Size[m]]
  BY RoundIsFeeding
<1> DEFINE b == state.chain
           G == {n \in Nat : fed[n].chain = Run(b, m, 0, n)}
<1>2. Size[m] \in Nat /\ Size[m] >= 1 /\ Size[m] - 1 \in Nat /\ 0 \in 0..Size[m] /\ 0 \in Nat
  BY IkeFragAssumption DEF IkeFragAssumption
<1>3. \E k \in 1..Size[m] : fed[k].chain = << >>
  <2> SUFFICES ASSUME \A k \in 1..Size[m] : fed[k].chain # << >>
               PROVE  FALSE
    OBVIOUS
  <2>1. 0 \in G
    <3>1. fed[0].chain = b
      BY <1>1 DEF Feeding
    <3> HIDE DEF b
    <3>2. Run(b, m, 0, 0) = b
      BY <1>2, RunNothing DEF b
    <3> QED
      BY <3>1, <3>2
  <2>2. \A n \in Nat : (0 <= n /\ n < Size[m] - 1 /\ n \in G) => n + 1 \in G
    <3> TAKE n \in Nat
    <3> HAVE 0 <= n /\ n < Size[m] - 1 /\ n \in G
    <3>1. n \in 0..Size[m] /\ n < Size[m] /\ n + 1 \in 1..Size[m]
      BY <1>2
    <3>2. fed[n + 1].chain = Append(fed[n].chain, [msg |-> m, num |-> n + 1])
      BY <1>1, <3>1, FeedStep
    <3>3. Append(Run(b, m, 0, n), [msg |-> m, num |-> n + 1]) = Run(b, m, 0, n + 1)
      BY <1>2, <3>1, RunGrows
    <3>4. fed[n].chain = Run(b, m, 0, n)
      OBVIOUS
    <3>5. fed[n + 1].chain = Run(b, m, 0, n + 1)
      BY <3>2, <3>3, <3>4, Zenon
    <3> QED
      BY <3>5
  <2>3. Size[m] - 1 \in G
    <3> HIDE DEF G
    <3>1. \A n \in 0..Size[m] - 1 : n \in G
      BY <1>2, <2>1, <2>2, CountUp
    <3> QED
      BY <1>2, <3>1
  <2>4. Size[m] - 1 < Size[m] /\ Size[m] - 1 + 1 = Size[m] /\ Size[m] \in 1..Size[m]
    BY <1>2
  <2>5. Complete(fed[Size[m] - 1].chain, [msg |-> m, num |-> Size[m] - 1 + 1])
    <3>1. Complete(Run(b, m, 0, Size[m] - 1), [msg |-> m, num |-> Size[m]])
      BY LastCompletes
    <3> HIDE DEF b
    <3> QED
      BY <2>3, <2>4, <3>1
  <2>6. fed[Size[m] - 1 + 1].chain = << >>
    BY <1>1, <1>2, <2>4, <2>5, FeedStep
  <2> QED
    BY <2>4, <2>6
<1> QED
  BY <1>1, <1>3, AfterCompletion

\* A round into an empty chain delivers the message.
LEMMA RoundFromEmpty ==
    ASSUME NEW state, NEW m \in 1..NumMsg, state.chain = << >>
    PROVE  Round(state, m).got
<1>1. PICK fed : Feeding(fed, state, m) /\ Round(state, m) = fed[Size[m]]
  BY RoundIsFeeding
<1> DEFINE G == {n \in Nat : fed[n].chain = Run(<< >>, m, 0, n)}
           s == Size[m]
           d == Run(<< >>, m, 0, s)
<1>2. s \in Nat /\ s >= 1 /\ s - 1 \in Nat /\ 0 \in 0..s /\ 0 \in Nat
      /\ s \in 0..s /\ s - 1 \in 0..s /\ s - 1 < s /\ s - 1 + 1 = s /\ << >> \in Seq(Frag)
  BY IkeFragAssumption DEF IkeFragAssumption
<1>3. 0 \in G
  BY <1>1, <1>2, RunNothing DEF Feeding
<1>4. \A n \in Nat : (0 <= n /\ n < s - 1 /\ n \in G) => n + 1 \in G
  <2> TAKE n \in Nat
  <2> HAVE 0 <= n /\ n < s - 1 /\ n \in G
  <2>1. n \in 0..s /\ n < s /\ n + 1 < s
    BY <1>2
  <2>2. ~Complete(fed[n].chain, [msg |-> m, num |-> n + 1])
    BY <2>1, LastIsWanting
  <2>3. fed[n + 1].chain = Append(fed[n].chain, [msg |-> m, num |-> n + 1])
    BY <1>1, <2>1, <2>2, FeedStep
  <2>4. Append(Run(<< >>, m, 0, n), [msg |-> m, num |-> n + 1]) = Run(<< >>, m, 0, n + 1)
    BY <1>2, <2>1, RunGrows
  <2>5. fed[n + 1].chain = Run(<< >>, m, 0, n + 1)
    BY <2>3, <2>4
  <2> QED
    BY <2>5
<1>5. fed[s - 1].chain = Run(<< >>, m, 0, s - 1)
  <2> HIDE DEF G
  <2>1. \A n \in 0..s - 1 : n \in G
    BY <1>2, <1>3, <1>4, CountUp
  <2>2. s - 1 \in 0..s - 1
    BY <1>2
  <2> QED
    BY <2>1, <2>2 DEF G
<1>6. Complete(fed[s - 1].chain, [msg |-> m, num |-> s - 1 + 1])
  BY <1>2, <1>5, LastCompletes
<1>7. Append(fed[s - 1].chain, [msg |-> m, num |-> s - 1 + 1]) = d
  <2>1. Append(Run(<< >>, m, 0, s - 1), [msg |-> m, num |-> s - 1 + 1])
           = Run(<< >>, m, 0, s - 1 + 1)
    BY <1>2, RunGrows
  <2> HIDE DEF s
  <2> QED
    BY <1>2, <1>5, <2>1
<1>8. Reassembly(d) = Message(m)
  <2>1. d \in Seq(Frag) /\ Len(d) = s
    <3>1. d \in Seq(Frag) /\ Len(d) = Len(<< >>) + s - 0
      BY <1>2, RunLen
    <3> HIDE DEF d, s
    <3> QED
      BY <1>2, <3>1
  <2>2. \A i \in 1..Len(d) : d[i] = [msg |-> m, num |-> 0 + i]
    BY <1>2, RunLast
  <2> HIDE DEF d
  <2>3. \A i \in 1..Len(d) : d[i].msg = m /\ d[i].num = i
    <3> TAKE i \in 1..Len(d)
    <3>1. 0 + i = i
      OBVIOUS
    <3>2. d[i] = [msg |-> m, num |-> 0 + i]
      BY <2>2
    <3>3. d[i] = [msg |-> m, num |-> i]
      BY <3>1, <3>2
    <3> QED
      BY <3>3
  <2>4. 1..s \subseteq Nums(d)
    BY <2>1, <2>3 DEF Nums
  <2> QED
    BY <2>1, <2>3, <2>4, ReassemblyWhole
<1>9. fed[s - 1 + 1].got
  BY <1>1, <1>2, <1>6, <1>7, <1>8, FeedStep
<1> QED
  BY <1>1, <1>2, <1>9

\* A round into what a premature completion has left of the message before: number 2
\* completes the chain, which is the message when that was the fragment taken for
\* the last the time before.
LEMMA RoundFromRest ==
    ASSUME NEW state, NEW m \in 1..NumMsg, NEW k \in 1..Size[m] - 1,
           state.chain = Run(<< >>, m, k, Size[m])
    PROVE  /\ Round(state, m).chain = Run(<< >>, m, 2, Size[m])
           /\ k = 2 => Round(state, m).got
<1>1. PICK fed : Feeding(fed, state, m) /\ Round(state, m) = fed[Size[m]]
  BY RoundIsFeeding
<1> DEFINE s == Size[m]
           t == Run(<< >>, m, k, s)
           q == Run(t, m, 0, 2)
<1>2. s \in Nat /\ k \in Nat /\ k >= 1 /\ k < s /\ s >= 2 /\ s \in k..s /\ 0 \in 0..s
      /\ 1 \in 0..s /\ 2 \in 0..s /\ 2 \in 1..s /\ 0 < s /\ 1 < s /\ 0 \in Nat /\ 1 \in Nat
      /\ 0 + 1 = 1 /\ 1 + 1 = 2
  BY IkeFragAssumption DEF IkeFragAssumption
<1>3. t \in Seq(Frag) /\ Len(t) = s - k
  <2>1. t \in Seq(Frag) /\ Len(t) = Len(<< >>) + s - k
    BY <1>2, EmptySeq, RunLen
  <2> HIDE DEF t, s
  <2> QED
    BY <1>2, <2>1
<1>4. Run(t, m, 0, 0) = t
  BY <1>2, <1>3, RunNothing
<1>5. /\ Append(Run(t, m, 0, 0), [msg |-> m, num |-> 1]) = Run(t, m, 0, 1)
      /\ Append(Run(t, m, 0, 1), [msg |-> m, num |-> 2]) = q
  <2>1. Append(Run(t, m, 0, 0), [msg |-> m, num |-> 0 + 1]) = Run(t, m, 0, 0 + 1)
    BY <1>2, <1>3, RunGrows
  <2>2. Append(Run(t, m, 0, 1), [msg |-> m, num |-> 1 + 1]) = Run(t, m, 0, 1 + 1)
    BY <1>2, <1>3, RunGrows
  <2> HIDE DEF t
  <2> QED
    BY <1>2, <2>1, <2>2
<1>6. fed[0].chain = Run(t, m, 0, 0)
  BY <1>1, <1>4 DEF Feeding
<1>7. \A n \in Nat : \A p : (n < s /\ p = n + 1) =>
          fed[p].chain = IF Complete(fed[n].chain, [msg |-> m, num |-> p])
                         THEN << >>
                         ELSE Append(fed[n].chain, [msg |-> m, num |-> p])
  BY <1>1, FeedStep
<1>8. fed[1].chain = Run(t, m, 0, 1)
  <2>1. ~Complete(fed[0].chain, [msg |-> m, num |-> 1])
    BY <1>6, RestCompletes
  <2>2. fed[1].chain = Append(fed[0].chain, [msg |-> m, num |-> 1])
    BY <1>2, <1>7, <2>1
  <2> HIDE DEF t
  <2> QED
    BY <1>5, <1>6, <2>2
<1>9. Complete(fed[1].chain, [msg |-> m, num |-> 2])
  BY <1>8, RestCompletes
<1>10. fed[2].chain = << >>
  BY <1>2, <1>9, <1>7
<1>11. fed[s].chain = Run(<< >>, m, 2, s)
  BY <1>1, <1>2, <1>10, AfterCompletion
<1>12. ASSUME k = 2 PROVE fed[s].got
  <2>1. q \in Seq(Frag) /\ Len(q) = Len(t) + 2 - 0
    BY <1>2, <1>3, RunLen
  <2>2. Len(q) = s
    <3> HIDE DEF q, t, s
    <3> QED
      BY <1>2, <1>3, <1>12, <2>1
  <2>3. ASSUME NEW x \in 1..2
        PROVE  s - 2 + x \in 1..Len(q) /\ q[s - 2 + x] = [msg |-> m, num |-> x]
    <3>1. x \in 0 + 1..2
      OBVIOUS
    <3>2. Len(t) + x - 0 \in 1..Len(q) /\ q[Len(t) + x - 0] = [msg |-> m, num |-> x]
      BY <1>2, <1>3, <3>1, RunEnd
    <3> HIDE DEF q, t, s
    <3>3. Len(t) + x - 0 = s - 2 + x
      BY <1>2, <1>3, <1>12
    <3> QED
      BY <3>2, <3>3
  <2>4. ASSUME NEW i \in 1..s - 2
        PROVE  i \in 1..Len(q) /\ q[i] = [msg |-> m, num |-> 2 + i]
    <3>1. i \in 1..Len(t) /\ i \in 1..Len(q)
      <4> HIDE DEF q, t, s
      <4> QED
        BY <1>2, <1>3, <1>12, <2>2
    <3>2. q[i] = t[i]
      BY <1>2, <1>3, <3>1, RunStart
    <3>3. t[i] = [msg |-> m, num |-> k + i]
      BY <1>2, <3>1, RunLast
    <3> QED
      BY <1>12, <3>1, <3>2, <3>3
  <2> HIDE DEF q, t, s
  <2>5. \A i \in 1..Len(q) : q[i].msg = m
    <3> TAKE i \in 1..Len(q)
    <3>1. CASE i \in 1..s - 2
      <4>1. q[i] = [msg |-> m, num |-> 2 + i]
        BY <2>4, <3>1
      <4> QED
        BY <4>1
    <3>2. CASE i \notin 1..s - 2
      <4>1. i - s + 2 \in 1..2 /\ s - 2 + (i - s + 2) = i
        BY <1>2, <2>2, <3>2
      <4>2. q[s - 2 + (i - s + 2)] = [msg |-> m, num |-> i - s + 2]
        BY <2>3, <4>1
      <4> QED
        BY <4>1, <4>2
    <3> QED
      BY <3>1, <3>2
  <2>6. \A n \in 1..s : \E i \in 1..Len(q) : q[i].num = n
    <3> TAKE n \in 1..s
    <3>1. CASE n \in 1..2
      <4>1. s - 2 + n \in 1..Len(q) /\ q[s - 2 + n] = [msg |-> m, num |-> n]
        BY <2>3, <3>1
      <4> QED
        BY <4>1
    <3>2. CASE n \notin 1..2
      <4>1. n - 2 \in 1..s - 2 /\ 2 + (n - 2) = n
        BY <1>2, <3>2
      <4>2. n - 2 \in 1..Len(q) /\ q[n - 2] = [msg |-> m, num |-> 2 + (n - 2)]
        BY <2>4, <4>1
      <4> QED
        BY <4>1, <4>2
    <3> QED
      BY <3>1, <3>2
  <2>7. 1..s \subseteq Nums(q)
    BY <2>6 DEF Nums
  <2>8. Reassembly(q) = Message(m)
    BY <2>1, <2>2, <2>5, <2>7, ReassemblyWhole DEF s
  <2>9. Append(fed[1].chain, [msg |-> m, num |-> 1 + 1]) = q
    BY <1>2, <1>5, <1>8
  <2>10. fed[1 + 1].got
    BY <1>1, <1>2, <1>9, <2>8, <2>9, FeedStep DEF s
  <2>11. fed[2].got
    BY <1>2, <2>10
  <2> QED
    BY <1>1, <1>2, <2>11, GotKept DEF s
<1> QED
  BY <1>1, <1>11, <1>12

\* What has been delivered stays so, for the round.
LEMMA RoundKeepsGot ==
    ASSUME NEW state, NEW m \in 1..NumMsg, state.got
    PROVE  Round(state, m).got
<1>1. PICK fed : Feeding(fed, state, m) /\ Round(state, m) = fed[Size[m]]
  BY RoundIsFeeding
<1>2. 0 \in 0..Size[m]
  BY IkeFragAssumption DEF IkeFragAssumption
<1>3. fed[0].got
  BY <1>1 DEF Feeding
<1> QED
  BY <1>1, <1>2, <1>3, GotKept

\* Three rounds deliver the message, whatever is in the chain.
LEMMA ThreeRoundsDeliver ==
    ASSUME NEW state, NEW m \in 1..NumMsg, state.chain \in Seq(Frag)
    PROVE  Round(Round(Round(state, m), m), m).got
<1> DEFINE one == Round(state, m)
           two == Round(one, m)
           s == Size[m]
<1>1. s \in Nat /\ s \in 0..s
  BY IkeFragAssumption DEF IkeFragAssumption
<1>2. PICK k \in 1..s : one.chain = Run(<< >>, m, k, s)
  BY RoundFromAny
<1> HIDE DEF one
<1>3. CASE k = s
  <2>1. one.chain = << >>
    BY <1>1, <1>2, <1>3, EmptySeq, RunNothing
  <2> QED
    BY <2>1, RoundFromEmpty, RoundKeepsGot DEF one
<1>4. CASE k # s
  <2>1. k \in 1..s - 1
    BY <1>1, <1>4
  <2>2. two.chain = Run(<< >>, m, 2, s)
    BY <1>2, <2>1, RoundFromRest
  <2> HIDE DEF two
  <2>3. CASE s = 2
    <3>1. two.chain = << >>
      BY <1>1, <2>2, <2>3, EmptySeq, RunNothing
    <3> QED
      BY <3>1, RoundFromEmpty DEF one, two
  <2>4. CASE s # 2
    <3>1. 2 \in 1..s - 1
      BY <1>1, <2>1, <2>4
    <3> QED
      BY <2>2, <3>1, RoundFromRest DEF one, two
  <2> QED
    BY <2>3, <2>4
<1> QED
  BY <1>3, <1>4

\* Whatever loss, duplication and reordering have left in the chain, three times the
\* fragments of a message in order get it through (frag_handler()).
THEOREM RecoversHolds == Spec => []Recovers
<1>1. TypeOK => Recovers
  <2> SUFFICES ASSUME TypeOK, NEW m \in 1..msg
               PROVE  Round(Round(Round([chain |-> chain, got |-> FALSE], m), m), m).got
    BY DEF Recovers
  <2>1. m \in 1..NumMsg
    BY IkeFragAssumption DEF TypeOK, IkeFragAssumption
  <2>2. chain \in Seq(Frag)
    BY DEF TypeOK
  <2> QED
    BY <2>1, <2>2, ThreeRoundsDeliver
<1> QED
  BY <1>1, TypesHold, PTL
=============================================================================
