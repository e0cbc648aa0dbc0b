--------------------------- MODULE AftrReloadProofs ---------------------------
(***************************************************************************)
(* Proofs about AftrReload, for any bindings, generations, quantum and     *)
(* file, for fewer sessions at a time than session_nextgen() makes tries,  *)
(* and whether or not they have lines waiting: the types, that a free      *)
(* generation is found, that a binding is on one list, and that the        *)
(* cursors of the collection and of the backtrack point into the list they *)
(* walk. And, when none has, that the lists hold what the configuration    *)
(* and the sessions declared, that ConfigStore is implemented and that the *)
(* manual page is right.                                                   *)
(***************************************************************************)
EXTENDS AftrReloadConfig, FiniteSetTheorems, WellFoundedInduction, TLAPS

(***************************************************************************)
(* Types, group by group.                                                  *)
(***************************************************************************)
ListTypes ==
    /\ confnats \subseteq Entry
    /\ snats \in [Gen -> SUBSET Entry]
    /\ nonats \subseteq NoNat
    /\ gen \in [Item -> 0..MaxGen]

SessionTypes ==
    /\ sslist \in Seq(Gen)
    /\ sesgen \in Gen
    /\ orphans \subseteq Gen

ReloadTypes ==
    /\ reloading \in BOOLEAN
    /\ reload_session \in Gen \cup {0}
    /\ lastgen \in (FirstGen + 1)..MaxGen
    /\ reload_savedgen \in (FirstGen + 1)..MaxGen
    /\ lines \in 0..MaxLines

CollectorTypes ==
    /\ needgc \in 0..2 /\ gctodo \subseteq Entry
    /\ needbt \in 0..2 /\ bttodo \subseteq Entry

ControlTypes ==
    /\ phase \in {"top", "file", "accept", "commands", "gc", "bt"}
    /\ turn \in Seq(Gen)
    /\ curgen \in 0..MaxGen
    /\ remains \in Nat

HistoryTypes ==
    /\ declared \subseteq Item
    /\ accepted \subseteq Item
    /\ maker \in [Item -> Gen \cup {0}]

Types == ListTypes /\ SessionTypes /\ ReloadTypes /\ CollectorTypes /\ ControlTypes /\ HistoryTypes

LEMMA TypesAre == TypeOK <=> Types
BY DEF TypeOK, Types, ListTypes, SessionTypes, ReloadTypes, CollectorTypes, ControlTypes,
       HistoryTypes

(***************************************************************************)
(* The inductive invariant: where the loop is, and which of the two        *)
(* cursors may be in use.                                                  *)
(***************************************************************************)

\* The session being served is open; the file is read with the generation of
\* its reload; a slice that is run has something left to do.
Served ==
    /\ turn # <<>> => Head(turn) \in Open
    /\ phase = "commands" => turn # <<>>
    /\ phase = "file" => reloading /\ curgen = lastgen
    /\ phase \in {"gc", "bt"} => remains > 0

\* The two cursors are never in use together, nor while a reload runs.
OneCursor ==
    /\ needgc = 0 => gctodo = {}
    /\ needbt = 0 => bttodo = {}
    /\ needbt # 0 => needgc # 2 /\ gctodo = {}
    /\ reloading => needbt = 0 /\ needgc # 2

IInv == Types /\ Served /\ OneCursor /\ OneList /\ CursorsOnList

(***************************************************************************)
(* Sequences of sessions.                                                  *)
(***************************************************************************)

\* A set of natural numbers has a least element.
LEMMA LeastNat ==
    ASSUME NEW S, S \subseteq Nat, S # {}
    PROVE  \E i \in S : \A j \in S : i <= j
<1> DEFINE R == OpToRel(<, Nat)
<1>1. \E i \in S : \A j \in S : ~(<<j, i>> \in R)
  BY WFMin, NatLessThanWellFounded, Zenon
<1>2. \A i, j \in Nat : j < i => <<j, i>> \in R
  BY DEF OpToRel
<1>3. \A i, j \in S : ~(j < i) => i <= j
  OBVIOUS
<1> QED
  BY <1>1, <1>2, <1>3

\* What is left of the turn starts with a session of ss.
LEMMA RestIsOpen ==
    ASSUME turn \in Seq(Gen), turn # <<>>, NEW ss \in Seq(Gen)
    PROVE  /\ Rest(ss) \in Seq(Gen)
           /\ Rest(ss) # <<>> => Head(Rest(ss)) \in ToSet(ss)
<1> DEFINE t == Tail(turn)
           open == {i \in DOMAIN t : t[i] \in ToSet(ss)}
           k == CHOOSE i \in open : \A j \in open : i <= j
<1>1. t \in Seq(Gen) /\ DOMAIN t = 1..Len(t) /\ Len(t) \in Nat
  OBVIOUS
<1>2. CASE open = {}
  BY <1>2 DEF Rest
<1>3. CASE open # {}
  <2>1. open \subseteq Nat
    BY <1>1
  <2>2. \E i \in open : \A j \in open : i <= j
    BY <1>3, <2>1, LeastNat
  <2>3. k \in open
    BY <2>2
  <2>4. Rest(ss) = SubSeq(t, k, Len(t))
    BY <1>3 DEF Rest
  <2>5. k \in 1..Len(t) /\ t[k] \in ToSet(ss)
    BY <1>1, <2>3
  <2> HIDE DEF t, open, k
  <2>6. SubSeq(t, k, Len(t)) \in Seq(Gen) /\ Head(SubSeq(t, k, Len(t))) = t[k]
    BY <1>1, <2>5
  <2> QED
    BY <2>4, <2>5, <2>6
<1> QED
  BY <1>2, <1>3

LEMMA ConcatElements ==
    ASSUME NEW a \in Seq(Gen), NEW b \in Seq(Gen)
    PROVE  /\ Len(a \o b) = Len(a) + Len(b)
           /\ \A j \in 1..Len(a) : (a \o b)[j] = a[j]
           /\ \A j \in (Len(a) + 1)..(Len(a) + Len(b)) : (a \o b)[j] = b[j - Len(a)]
OBVIOUS

\* no session is in the list twice
Singular(s) == \A i, j \in DOMAIN s : s[i] = s[j] => i = j

\* Taking a session out of a list leaves the others.
LEMMA RemoveAtKeeps ==
    ASSUME NEW s \in Seq(Gen), NEW i \in DOMAIN s
    PROVE  /\ RemoveAt(s, i) \in Seq(Gen)
           /\ ToSet(s) \subseteq ToSet(RemoveAt(s, i)) \cup {s[i]}
           /\ Singular(s) => /\ Singular(RemoveAt(s, i))
                             /\ ToSet(RemoveAt(s, i)) \subseteq ToSet(s) \ {s[i]}
<1> DEFINE a == SubSeq(s, 1, i - 1)
           b == SubSeq(s, i + 1, Len(s))
           r == RemoveAt(s, i)
<1>1. Len(s) \in Nat /\ i \in 1..Len(s) /\ DOMAIN s = 1..Len(s)
  OBVIOUS
<1>2. /\ a \in Seq(Gen) /\ Len(a) = i - 1
      /\ \A j \in 1..(i - 1) : a[j] = s[j]
  BY <1>1
<1>3. /\ b \in Seq(Gen) /\ Len(b) = Len(s) - i
      /\ \A j \in 1..(Len(s) - i) : b[j] = s[j + i]
  BY <1>1
<1>4. r = a \o b /\ r \in Seq(Gen)
  BY <1>2, <1>3 DEF RemoveAt
<1>5. /\ DOMAIN r = 1..(Len(s) - 1)
      /\ \A j \in 1..(i - 1) : r[j] = s[j]
      /\ \A j \in i..(Len(s) - 1) : r[j] = s[j + 1]
  <2> HIDE DEF a, b, r
  <2>1. Len(a \o b) = Len(s) - 1
    <3>1. Len(a \o b) = Len(a) + Len(b)
      BY <1>2, <1>3, ConcatElements
    <3> QED
      BY <1>1, <1>2, <1>3, <3>1
  <2>2. DOMAIN r = 1..(Len(s) - 1)
    BY <1>4, <2>1
  <2>3. ASSUME NEW j \in 1..(i - 1)
        PROVE  r[j] = s[j]
    <3>1. j \in 1..Len(a)
      BY <1>2
    <3>2. r[j] = a[j]
      BY <1>2, <1>3, <1>4, <3>1, ConcatElements
    <3> QED
      BY <1>2, <3>2
  <2>4. ASSUME NEW j \in i..(Len(s) - 1)
        PROVE  r[j] = s[j + 1]
    <3>1. /\ j \in (Len(a) + 1)..(Len(a) + Len(b))
          /\ j - Len(a) \in 1..(Len(s) - i)
          /\ (j - Len(a)) + i = j + 1
      BY <1>1, <1>2, <1>3
    <3>2. r[j] = b[j - Len(a)]
      BY <1>2, <1>3, <1>4, <3>1, ConcatElements
    <3>3. b[j - Len(a)] = s[(j - Len(a)) + i]
      BY <1>3, <3>1
    <3> QED
      BY <3>1, <3>2, <3>3
  <2> QED
    BY <2>2, <2>3, <2>4
<1>6. ASSUME NEW j \in DOMAIN s, j # i
      PROVE  s[j] \in ToSet(r)
  <2> HIDE DEF r
  <2>1. CASE j < i
    <3>1. j \in DOMAIN r /\ r[j] = s[j]
      BY <1>1, <1>5, <2>1
    <3> QED
      BY <3>1 DEF ToSet
  <2>2. CASE j > i
    <3>1. j - 1 \in DOMAIN r /\ (j - 1) \in i..(Len(s) - 1) /\ (j - 1) + 1 = j
      BY <1>1, <1>5, <2>2
    <3>2. r[j - 1] = s[(j - 1) + 1]
      BY <1>5, <3>1
    <3> QED
      BY <3>1, <3>2 DEF ToSet
  <2> QED
    BY <1>1, <1>6, <2>1, <2>2
<1>7. ASSUME Singular(s)
      PROVE  Singular(r) /\ ToSet(r) \subseteq ToSet(s) \ {s[i]}
  <2> DEFINE at(j) == IF j < i THEN j ELSE j + 1
  <2> HIDE DEF r
  <2>1. \A j \in DOMAIN r : j \in 1..(Len(s) - 1)
    BY <1>5
  <2>2. \A j \in DOMAIN r : /\ at(j) \in DOMAIN s /\ at(j) # i /\ r[j] = s[at(j)]
    <3>1. ASSUME NEW j \in DOMAIN r
          PROVE  at(j) \in DOMAIN s /\ at(j) # i
      BY <1>1, <2>1
    <3>2. ASSUME NEW j \in DOMAIN r
          PROVE  r[j] = s[at(j)]
      <4>1. j \in 1..(Len(s) - 1)
        BY <2>1
      <4>2. CASE j < i
        <5>1. j \in 1..(i - 1)
          BY <1>1, <4>1, <4>2
        <5> QED
          BY <1>5, <4>2, <5>1
      <4>3. CASE ~(j < i)
        <5>1. j \in i..(Len(s) - 1)
          BY <1>1, <4>1, <4>3
        <5> QED
          BY <1>5, <4>3, <5>1
      <4> QED
        BY <4>2, <4>3
    <3> QED
      BY <3>1, <3>2
  <2>3. \A j, k \in DOMAIN r : at(j) = at(k) => j = k
    BY <1>1, <2>1
  <2> HIDE DEF at
  <2>4. Singular(r)
    BY <1>7, <2>2, <2>3 DEF Singular
  <2>5. \A j \in DOMAIN r : r[j] \in ToSet(s) /\ r[j] # s[i]
    BY <1>7, <2>2 DEF Singular, ToSet
  <2> QED
    BY <2>4, <2>5 DEF ToSet
<1> QED
  BY <1>4, <1>6, <1>7 DEF ToSet

\* A new session at the head leaves the others.
LEMMA PrependKeeps ==
    ASSUME NEW s \in Seq(Gen), NEW g \in Gen
    PROVE  /\ <<g>> \o s \in Seq(Gen)
           /\ ToSet(s) \subseteq ToSet(<<g>> \o s)
           /\ ToSet(<<g>> \o s) = ToSet(s) \cup {g}
           /\ Singular(s) /\ g \notin ToSet(s) => Singular(<<g>> \o s)
<1>1. /\ <<g>> \o s \in Seq(Gen)
      /\ Len(<<g>> \o s) = Len(s) + 1 /\ Len(s) \in Nat
      /\ \A i \in 1..Len(s) : (<<g>> \o s)[i + 1] = s[i]
  OBVIOUS
<1>2. ASSUME NEW i \in DOMAIN s
      PROVE  s[i] \in ToSet(<<g>> \o s)
  <2>1. i \in 1..Len(s) /\ i + 1 \in DOMAIN (<<g>> \o s)
    BY <1>1
  <2>2. (<<g>> \o s)[i + 1] = s[i]
    BY <1>1, <2>1
  <2> QED
    BY <2>1, <2>2 DEF ToSet
<1> DEFINE r == <<g>> \o s
<1>3. /\ DOMAIN r = 1..(Len(s) + 1) /\ DOMAIN s = 1..Len(s) /\ r[1] = g
      /\ \A j \in DOMAIN r : j # 1 => j - 1 \in DOMAIN s /\ r[j] = s[j - 1]
  BY <1>1
<1> HIDE DEF r
<1>4. ToSet(r) \subseteq ToSet(s) \cup {g} /\ g \in ToSet(r)
  <2>1. 1 \in DOMAIN r
    BY <1>1, <1>3
  <2> QED
    BY <1>3, <2>1 DEF ToSet
<1>5. ASSUME Singular(s), g \notin ToSet(s)
      PROVE  Singular(r)
  <2>1. SUFFICES ASSUME NEW j \in DOMAIN r, NEW k \in DOMAIN r, r[j] = r[k]
                 PROVE  j = k
    BY DEF Singular
  <2>2. \A m \in DOMAIN r : m # 1 => r[m] # g
    BY <1>3, <1>5 DEF ToSet
  <2>3. CASE j = 1 \/ k = 1
    BY <1>3, <2>1, <2>2, <2>3
  <2>4. CASE j # 1 /\ k # 1
    <3>1. j - 1 = k - 1
      BY <1>3, <1>5, <2>1, <2>4 DEF Singular
    <3> QED
      BY <1>1, <1>3, <3>1
  <2> QED
    BY <2>3, <2>4
<1>6. ToSet(s) \subseteq ToSet(r)
  BY <1>2 DEF ToSet, r
<1> QED
  BY <1>1, <1>4, <1>5, <1>6 DEF r

(***************************************************************************)
(* session_nextgen() finds a generation of a session and does not give up: *)
(* as many tries as it makes are different, one at most is FIRSTGEN, and   *)
(* so one is of a generation that is not in use.                           *)
(***************************************************************************)
LEMMA NextGenType ==
    ASSUME ReloadAssumption, SessionTypes, Cardinality(InUse) < MaxSess
    PROVE  Free # {} /\ NextGen \in Gen /\ NextGen \notin InUse
<1> USE DEF ReloadAssumption
<1> DEFINE taken == InUse \cup {0}
           try == [i \in 1..Attempts |-> Try(i)]
<1>1. InUse \subseteq Gen
  BY DEF SessionTypes, InUse, Open, ToSet
<1>2. IsFiniteSet(InUse) /\ Cardinality(InUse) \in Nat
  <2>1. IsFiniteSet(Gen)
    BY FS_Interval DEF Gen
  <2> QED
    BY <1>1, <2>1, FS_Subset, FS_CardinalityType
<1>3. 0 \notin InUse
  BY <1>1 DEF Gen
<1>4. IsFiniteSet(taken) /\ Cardinality(taken) < Attempts
  <2>1. IsFiniteSet(taken) /\ Cardinality(taken) = Cardinality(InUse) + 1
    BY <1>2, <1>3, FS_AddElement
  <2>2. Attempts \in Nat /\ MaxSess \in Nat /\ MaxSess <= Attempts - 1
    OBVIOUS
  <2> HIDE DEF taken
  <2> QED
    BY <1>2, <2>1, <2>2
<1>5. IsFiniteSet(1..Attempts) /\ Cardinality(1..Attempts) = Attempts
  BY FS_Interval
<1>6. \A i \in 1..Attempts : Try(i) \in Gen \cup {0}
  <2> TAKE i \in 1..Attempts
  <2>1. sesgen \in Nat /\ sesgen >= 1 /\ sesgen <= FirstGen - 1 /\ FirstGen \in Nat
    BY DEF SessionTypes, Gen
  <2>2. i \in Nat /\ i >= 1 /\ i <= FirstGen
    OBVIOUS
  <2>3. Try(i) \in Nat /\ Try(i) <= FirstGen - 1
    BY <2>1, <2>2 DEF Try
  <2> QED
    BY <2>1, <2>3 DEF Gen
<1>7. \A i, j \in 1..Attempts : Try(i) = Try(j) => i = j
  <2> TAKE i, j \in 1..Attempts
  <2>1. sesgen \in Nat /\ sesgen >= 1 /\ sesgen <= FirstGen - 1 /\ FirstGen \in Nat
    BY DEF SessionTypes, Gen
  <2>2. i \in Nat /\ i >= 1 /\ i <= FirstGen /\ j \in Nat /\ j >= 1 /\ j <= FirstGen
    OBVIOUS
  <2> QED
    BY <2>1, <2>2 DEF Try
<1>8. Free # {}
  <2> SUFFICES ASSUME Free = {} PROVE FALSE
    OBVIOUS
  <2>1. \A i \in 1..Attempts : Try(i) \in taken
    BY DEF Free
  <2>2. try \in Injection(1..Attempts, taken)
    BY <1>7, <2>1 DEF Injection, IsInjective
  <2>3. Cardinality(1..Attempts) <= Cardinality(taken)
    BY <1>4, <2>2, FS_Injection
  <2>4. Cardinality(taken) \in Nat /\ Attempts \in Nat
    BY <1>4, FS_CardinalityType
  <2> HIDE DEF taken
  <2> QED
    BY <1>4, <1>5, <2>3, <2>4
<1>9. Free \subseteq 1..Attempts /\ Free \subseteq Nat
  BY DEF Free
<1>10. \E i \in Free : \A j \in Free : i <= j
  BY <1>8, <1>9, LeastNat
<1>11. (CHOOSE i \in Free : \A j \in Free : i <= j) \in Free
  BY <1>10
<1>12. \A i \in Free : Try(i) \in Gen /\ Try(i) \notin InUse
  BY <1>6 DEF Free
<1> QED
  BY <1>8, <1>11, <1>12 DEF NextGen

(***************************************************************************)
(* The operations on the lists.                                            *)
(***************************************************************************)

\* A new binding goes to an open session or to the global list.
LEMMA AddEntryKeeps ==
    ASSUME ReloadAssumption, Types, OneList,
           NEW e \in Entry, NEW s, s \in Open \/ curgen >= FirstGen,
           AddEntry(e, s), UNCHANGED sessions
    PROVE  ListTypes' /\ OneList' /\ confnats \subseteq confnats'
<1> USE DEF Types, ListTypes, SessionTypes, ControlTypes, ReloadAssumption, sessions
<1>1. gen' \in [Item -> 0..MaxGen] /\ nonats' = nonats
  BY DEF AddEntry, SetGen
<1>2. e \notin confnats /\ \A r \in Gen : e \notin snats[r]
  BY DEF AddEntry, Present
<1>3. Open' = Open /\ Open \subseteq Gen
  BY DEF Open, ToSet
<1>4. CASE curgen < FirstGen
  <2>1. s \in Gen /\ s \in Open
    BY <1>3, <1>4
  <2>2. /\ snats' = [snats EXCEPT ![s] = @ \cup {e}]
        /\ confnats' = confnats
    BY <1>4 DEF AddEntry, Enlist
  <2>3. snats' \in [Gen -> SUBSET Entry]
    BY <2>1, <2>2
  <2>4. \A r \in Gen : snats'[r] = IF r = s THEN snats[r] \cup {e} ELSE snats[r]
    BY <2>1, <2>2
  <2> QED
    BY <1>1, <1>2, <1>3, <2>1, <2>2, <2>3, <2>4 DEF OneList
<1>5. CASE ~(curgen < FirstGen)
  <2>1. snats' = snats /\ confnats' = confnats \cup {e}
    BY <1>5 DEF AddEntry, Enlist
  <2> QED
    BY <1>1, <1>2, <1>3, <2>1 DEF OneList
<1> QED
  BY <1>4, <1>5

\* What is left of the lists of the sessions without a binding.
LEMMA OffType ==
    ASSUME snats \in [Gen -> SUBSET Entry], NEW e
    PROVE  /\ Off(e) \in [Gen -> SUBSET Entry]
           /\ \A s \in Gen : Off(e)[s] = snats[s] \ {e}
BY DEF Off

\* Promotion takes the binding from the list of its session.
LEMMA RenewEntryKeeps ==
    ASSUME ReloadAssumption, Types, OneList,
           NEW e \in Entry, RenewEntry(e), UNCHANGED sessions
    PROVE  ListTypes' /\ OneList' /\ confnats \subseteq confnats'
<1> USE DEF Types, ListTypes, SessionTypes, ControlTypes, ReloadAssumption, sessions
<1>1. gen' \in [Item -> 0..MaxGen] /\ nonats' = nonats
  BY DEF RenewEntry, SetGen
<1>2. Open' = Open
  BY DEF Open, ToSet
<1>3. CASE gen[e] <= FirstGen
  <2>1. snats' = Off(e) /\ confnats' = confnats \cup {e}
    BY <1>3 DEF RenewEntry
  <2> QED
    BY <1>1, <1>2, <2>1, OffType DEF OneList
<1>4. CASE ~(gen[e] <= FirstGen)
  BY <1>1, <1>2, <1>4 DEF RenewEntry, OneList
<1> QED
  BY <1>3, <1>4

LEMMA NatLineKeeps ==
    ASSUME ReloadAssumption, Types, OneList,
           NEW e \in Entry, NEW s, s \in Open \/ curgen >= FirstGen,
           NatLine(e, s), UNCHANGED sessions
    PROVE  ListTypes' /\ OneList' /\ confnats \subseteq confnats'
BY AddEntryKeeps, RenewEntryKeeps DEF NatLine

LEMMA NonatLineKeeps ==
    ASSUME ReloadAssumption, Types, OneList,
           NEW x \in NoNat, NonatLine(x), UNCHANGED sessions
    PROVE  ListTypes' /\ OneList' /\ confnats' = confnats
<1> USE DEF Types, ListTypes, ControlTypes, sessions, NonatLine
<1>1. gen' \in [Item -> 0..MaxGen]
  BY DEF SetGen
<1>2. Open' = Open
  BY DEF Open, ToSet
<1> QED
  BY <1>1, <1>2 DEF OneList

\* A binding that is deleted leaves the lists and the cursors.
LEMMA DeleteLineKeeps ==
    ASSUME ReloadAssumption, Types, OneList, CursorsOnList, OneCursor,
           NEW x \in Item, DeleteLine(x), UNCHANGED <<sessions, reloading>>
    PROVE  /\ ListTypes' /\ CollectorTypes' /\ HistoryTypes'
           /\ OneList' /\ CursorsOnList' /\ OneCursor'
<1> USE DEF Types, ListTypes, CollectorTypes, HistoryTypes, sessions, ReloadAssumption
<1>1. gen' \in [Item -> 0..MaxGen]
  BY DEF DeleteLine, DelEntry, DelNonat, SetGen
<1>2. HistoryTypes'
  BY DEF DeleteLine, SetMaker
<1>3. Open' = Open
  BY DEF Open, ToSet
<1>4. CASE x \in Entry
  <2>1. /\ confnats' = confnats \ {x} /\ snats' = Off(x) /\ nonats' = nonats
        /\ gctodo' = gctodo \ {x} /\ bttodo' = bttodo \ {x}
        /\ needgc' = needgc /\ needbt' = needbt
    BY <1>4 DEF DeleteLine, DelEntry
  <2>2. ListTypes'
    BY <1>1, <2>1, OffType
  <2>3. OneList'
    BY <1>3, <2>1, OffType DEF OneList
  <2> QED
    BY <1>2, <2>1, <2>2, <2>3 DEF CursorsOnList, OneCursor
<1>5. CASE x \notin Entry
  <2>1. /\ nonats' = nonats \ {x}
        /\ UNCHANGED <<confnats, snats, gctodo, bttodo, needgc, needbt>>
    BY <1>5 DEF DeleteLine, DelNonat
  <2> QED
    BY <1>1, <1>2, <1>3, <2>1 DEF OneList, CursorsOnList, OneCursor
<1> QED
  BY <1>4, <1>5

LEMMA CollectKeeps ==
    ASSUME ReloadAssumption, Types, OneList, NEW e \in Entry, Collect(e),
           UNCHANGED <<sslist, orphans, declared, accepted>>
    PROVE  ListTypes' /\ HistoryTypes' /\ OneList'
<1> USE DEF Types, ListTypes, HistoryTypes, ReloadAssumption
<1>1. gen' \in [Item -> 0..MaxGen]
  BY DEF Collect, SetGen
<1>2. HistoryTypes'
  BY DEF Collect, SetMaker
<1>3. Open' = Open
  BY DEF Open, ToSet
<1>4. confnats' = confnats \ {e} /\ snats' = Off(e) /\ nonats' = nonats
  BY DEF Collect
<1>5. OneList'
  BY <1>3, <1>4, OffType DEF OneList
<1> QED
  BY <1>1, <1>2, <1>4, <1>5, OffType

(***************************************************************************)
(* The control of the loop.                                                *)
(***************************************************************************)

\* The next session is served with its generation, or the collection starts.
LEMMA ServeKeeps ==
    ASSUME ReloadAssumption, NEW t \in Seq(Gen), Serve(t),
           t # <<>> => Head(t) \in Open'
    PROVE  ControlTypes' /\ Served'
<1> USE DEF Serve, ReloadAssumption
<1>1. CASE t = <<>>
  BY <1>1 DEF ControlTypes, Served
<1>2. CASE t # <<>>
  <2>1. Head(t) \in Gen /\ Gen \subseteq 0..MaxGen
    BY <1>2 DEF Gen
  <2> QED
    BY <1>2, <2>1 DEF ControlTypes, Served
<1> QED
  BY <1>1, <1>2

LEMMA AfterLineKeeps ==
    ASSUME ReloadAssumption, ControlTypes, Served, phase = "commands",
           sslist' \in Seq(Gen), AfterLine(sslist')
    PROVE  ControlTypes' /\ Served'
<1>1. turn \in Seq(Gen) /\ turn # <<>> /\ Open' = ToSet(sslist')
  BY DEF ControlTypes, Served, Open
<1>2. CASE Serve(Rest(sslist'))
  BY <1>1, <1>2, RestIsOpen, ServeKeeps
<1>3. CASE Head(turn) \in Open' /\ UNCHANGED control
  BY <1>1, <1>3 DEF control, ControlTypes, Served
<1> QED
  BY <1>1, <1>2, <1>3 DEF AfterLine

LEMMA WorkKeeps ==
    ASSUME ReloadAssumption, ControlTypes, Served, phase \in {"gc", "bt"},
           NEW next \in {"bt", "top"}, NEW budget \in Nat, next = "bt" => budget > 0,
           Work(next, budget), UNCHANGED <<turn, curgen, sslist>>
    PROVE  ControlTypes' /\ Served'
BY DEF Work, ControlTypes, Served, Open

(***************************************************************************)
(* Every action keeps the invariant.                                       *)
(***************************************************************************)
LEMMA InitIInv == ASSUME ReloadAssumption, Init PROVE IInv
<1> USE DEF Init, ReloadAssumption
<1>1. Stdio \in Gen /\ sslist = <<Stdio>>
  BY DEF Stdio, Gen
<1>2. ListTypes /\ CollectorTypes /\ ControlTypes
  BY DEF ListTypes, CollectorTypes, ControlTypes
<1>3. SessionTypes /\ ReloadTypes
  <2>1. SessionTypes
    BY <1>1 DEF SessionTypes
  <2>2. /\ reloading = FALSE /\ reload_session = 0 /\ lines = 0
        /\ lastgen = FirstGen + 1 /\ reload_savedgen = lastgen
    OBVIOUS
  <2>3. 0 \in 0..MaxLines /\ FirstGen + 1 \in (FirstGen + 1)..MaxGen
    OBVIOUS
  <2> QED
    BY ONLY <2>1, <2>2, <2>3 DEF ReloadTypes
<1>4. HistoryTypes
  BY DEF HistoryTypes, Item
<1>5. Served /\ OneCursor /\ OneList /\ CursorsOnList
  BY DEF Served, OneCursor, OneList, CursorsOnList
<1> QED
  BY <1>2, <1>3, <1>4, <1>5 DEF IInv, Types

\* The steps of the loop itself.
LEMMA LoopKeeps == ASSUME ReloadAssumption, IInv, Loop PROVE IInv'
<1> USE DEF IInv, Types
<1>1. UNCHANGED <<lists, sessions, reload, collector, history>>
  BY DEF Loop, LoopTop, StartCommands, EndTurn, SliceDone
<1>2. /\ ListTypes' /\ SessionTypes' /\ ReloadTypes' /\ CollectorTypes' /\ HistoryTypes'
      /\ OneCursor' /\ OneList' /\ CursorsOnList' /\ Open' = Open
  BY <1>1 DEF lists, sessions, reload, collector, history, ListTypes, SessionTypes,
              ReloadTypes, CollectorTypes, HistoryTypes, OneCursor, OneList, CursorsOnList, Open
<1>3. sslist \in Seq(Gen) /\ turn \in Seq(Gen) /\ sslist' = sslist
  BY <1>1 DEF SessionTypes, ControlTypes, sessions
<1>4. sslist # <<>> => Head(sslist) \in Open
  BY <1>3 DEF Open, ToSet
<1>5. turn # <<>> => Rest(sslist) \in Seq(Gen) /\ (Rest(sslist) # <<>> => Head(Rest(sslist)) \in Open')
  BY <1>2, <1>3, RestIsOpen DEF Open
<1>6. ControlTypes' /\ Served'
  <2>1. CASE LoopTop
    <3>1. CASE reloading
      <4>1. /\ phase' = "file" /\ curgen' = lastgen /\ remains' = Slice /\ turn' = turn
            /\ reloading' = reloading /\ lastgen' = lastgen
        BY <1>1, <2>1, <3>1 DEF LoopTop, reload
      <4>2. Slice \in Nat /\ lastgen \in 0..MaxGen
        BY DEF Slice, ReloadAssumption, ReloadTypes
      <4> QED
        BY <1>2, <1>3, <3>1, <4>1, <4>2 DEF ControlTypes, Served
    <3>2. CASE ~reloading
      <4>1. phase' = "accept" /\ turn' = sslist /\ curgen' = curgen /\ remains' = remains
        BY <2>1, <3>2 DEF LoopTop
      <4> QED
        BY <1>2, <1>3, <1>4, <4>1 DEF ControlTypes, Served
    <3> QED
      BY <3>1, <3>2
  <2>2. CASE StartCommands
    BY <1>2, <1>3, <2>2, ServeKeeps DEF StartCommands, Served
  <2>3. CASE EndTurn
    BY <1>5, <2>3, ServeKeeps DEF EndTurn, Served
  <2>4. CASE SliceDone
    <3>1. CASE Inline
      BY <1>5, <2>4, <3>1, ServeKeeps DEF SliceDone, Inline
    <3>2. CASE ~Inline
      BY <1>2, <2>4, <3>2 DEF SliceDone, Inline, ControlTypes, Served, ReloadAssumption
    <3> QED
      BY <3>1, <3>2
  <2> QED
    BY <2>1, <2>2, <2>3, <2>4 DEF Loop
<1> QED
  BY <1>2, <1>6

\* A new session is not yet served and has no binding.
LEMMA AcceptKeeps == ASSUME ReloadAssumption, IInv, Accept PROVE IInv'
<1> USE DEF IInv, Types
<1>1. /\ UNCHANGED <<lists, reload, collector, control, history>>
      /\ sslist' = <<NextGen>> \o sslist /\ orphans' = orphans
  BY DEF Accept
<1>2. NextGen \in Gen /\ sesgen' = NextGen
  BY NextGenType DEF Accept
<1>3. SessionTypes' /\ Open \subseteq Open'
  BY <1>1, <1>2, PrependKeeps DEF SessionTypes, Open
<1>4. /\ ListTypes' /\ ReloadTypes' /\ CollectorTypes' /\ HistoryTypes' /\ ControlTypes'
      /\ OneCursor' /\ CursorsOnList'
  BY <1>1 DEF lists, reload, collector, history, control, ListTypes, ControlTypes,
              ReloadTypes, CollectorTypes, HistoryTypes, OneCursor, CursorsOnList
<1>5. OneList' /\ Served'
  BY <1>1, <1>3 DEF lists, reload, control, OneList, Served
<1> QED
  BY <1>3, <1>4, <1>5

\* A session is closed: what it made is left to the collection.
LEMMA CmdCloseKeeps ==
    ASSUME ReloadAssumption, IInv, NEW c \in Gen, CmdClose(c)
    PROVE  IInv'
<1> USE DEF IInv, Types
<1>1. /\ CloseSession(c) /\ AfterLine(sslist') /\ phase = "commands"
      /\ UNCHANGED <<reload, declared>>
  BY DEF CmdClose, CanRead
<1>2. PICK i \in DOMAIN sslist : sslist[i] = c /\ sslist' = RemoveAt(sslist, i)
  BY <1>1 DEF CloseSession, Orphan
<1>3. sslist' \in Seq(Gen) /\ Open \subseteq Open' \cup {c}
  BY <1>2, RemoveAtKeeps DEF SessionTypes, Open
<1>4. orphans' = orphans \cup {c} /\ sesgen' = sesgen
  BY <1>1 DEF CloseSession, Orphan
<1>5. ListTypes'
  <2>1. gen' \in [Item -> 0..MaxGen]
    BY <1>1 DEF CloseSession, ListTypes, ReloadAssumption
  <2> QED
    BY <1>1, <2>1 DEF CloseSession, ListTypes
<1>6. HistoryTypes'
  BY <1>1 DEF CloseSession, HistoryTypes, SetMaker
<1>7. SessionTypes' /\ ReloadTypes'
  BY <1>1, <1>3, <1>4 DEF SessionTypes, ReloadTypes, reload
<1>8. CollectorTypes' /\ OneCursor' /\ CursorsOnList'
  <2>1. needbt' = needbt /\ bttodo' = bttodo /\ confnats' = confnats /\ reloading' = reloading
    BY <1>1 DEF CloseSession, Orphan, reload
  <2>2. \/ needgc = 0 /\ needgc' = 1 /\ gctodo' = {}
        \/ UNCHANGED <<needgc, gctodo>>
    BY <1>1 DEF CloseSession, Orphan
  <2> QED
    BY <2>1, <2>2 DEF CollectorTypes, OneCursor, CursorsOnList
<1>9. OneList'
  BY <1>1, <1>3, <1>4 DEF CloseSession, OneList
<1>10. ControlTypes' /\ Served'
  BY <1>1, <1>3, AfterLineKeeps
<1> QED
  BY <1>5, <1>6, <1>7, <1>8, <1>9, <1>10

\* The lines of a session.
LEMMA CommandKeeps == ASSUME ReloadAssumption, IInv, Command PROVE IInv'
<1> USE DEF IInv, Types
<1>1. phase = "commands" /\ turn # <<>> /\ Head(turn) \in Open /\ Head(turn) \in Gen
  <2>1. phase = "commands"
    BY DEF Command, CmdNat, CmdNonat, CmdDelete, CmdClose, CmdReload, CanRead
  <2> QED
    BY <2>1 DEF Served, ControlTypes
<1>2. ASSUME UNCHANGED <<sessions, reload>>
      PROVE  SessionTypes' /\ ReloadTypes' /\ sslist' \in Seq(Gen)
  BY <1>2 DEF sessions, reload, SessionTypes, ReloadTypes
<1>3. ASSUME NEW e \in Entry, CmdNat(e) PROVE IInv'
  <2>1. /\ NatLine(e, Head(turn)) /\ AfterLine(sslist')
        /\ UNCHANGED <<sessions, reload, collector, declared, accepted>>
        /\ maker' = IF e \in Present THEN maker ELSE SetMaker({e}, Head(turn))
    BY <1>3 DEF CmdNat, sessions
  <2>2. ListTypes' /\ OneList' /\ confnats \subseteq confnats'
    BY <1>1, <2>1, NatLineKeeps
  <2>3. CollectorTypes' /\ OneCursor' /\ CursorsOnList'
    BY <2>1, <2>2 DEF collector, reload, CollectorTypes, OneCursor, CursorsOnList
  <2>4. HistoryTypes'
    BY <1>1, <2>1 DEF HistoryTypes, SetMaker
  <2>5. ControlTypes' /\ Served'
    BY <1>1, <1>2, <2>1, AfterLineKeeps
  <2> QED
    BY <1>2, <2>1, <2>2, <2>3, <2>4, <2>5
<1>4. ASSUME NEW x \in NoNat, CmdNonat(x) PROVE IInv'
  <2>1. /\ NonatLine(x) /\ AfterLine(sslist')
        /\ UNCHANGED <<sessions, reload, collector, declared, accepted>>
        /\ maker' = IF x \in Present THEN maker ELSE SetMaker({x}, Head(turn))
    BY <1>4 DEF CmdNonat, sessions
  <2>2. ListTypes' /\ OneList' /\ confnats' = confnats
    BY <2>1, NonatLineKeeps
  <2>3. CollectorTypes' /\ OneCursor' /\ CursorsOnList'
    BY <2>1, <2>2 DEF collector, reload, CollectorTypes, OneCursor, CursorsOnList
  <2>4. HistoryTypes'
    BY <1>1, <2>1 DEF HistoryTypes, SetMaker
  <2>5. ControlTypes' /\ Served'
    BY <1>1, <1>2, <2>1, AfterLineKeeps
  <2> QED
    BY <1>2, <2>1, <2>2, <2>3, <2>4, <2>5
<1>5. ASSUME NEW x \in Item, CmdDelete(x) PROVE IInv'
  <2>1. DeleteLine(x) /\ AfterLine(sslist') /\ UNCHANGED <<sessions, reload>>
    BY <1>5 DEF CmdDelete, sessions
  <2>2. UNCHANGED <<sessions, reloading>>
    BY <2>1 DEF reload
  <2>3. /\ ListTypes' /\ CollectorTypes' /\ HistoryTypes'
        /\ OneList' /\ CursorsOnList' /\ OneCursor'
    BY <2>1, <2>2, DeleteLineKeeps
  <2>4. ControlTypes' /\ Served'
    BY <1>1, <1>2, <2>1, AfterLineKeeps
  <2> QED
    BY <1>2, <2>1, <2>3, <2>4
<1>6. ASSUME NEW c \in Gen, CmdClose(c) PROVE IInv'
  BY <1>6, CmdCloseKeeps
<1>7. ASSUME CmdReload PROVE IInv'
  <2>1. /\ needgc = 0 /\ needbt = 0 /\ lastgen < MaxGen
        /\ lastgen' = lastgen + 1 /\ reload_savedgen' = lastgen
        /\ reloading' = TRUE /\ reload_session' = Head(turn) /\ lines' = 0
        /\ phase' = "file" /\ curgen' = lastgen' /\ remains' = Quantum /\ turn' = turn
        /\ declared' = {}
        /\ UNCHANGED <<lists, sessions, collector, accepted, maker>>
    BY <1>7 DEF CmdReload
  <2>2. lastgen' \in (FirstGen + 1)..MaxGen /\ Quantum \in Nat /\ 0 \in 0..MaxLines
        /\ lastgen' \in 0..MaxGen
    BY <2>1 DEF ReloadTypes, ReloadAssumption
  <2>3. ReloadTypes' /\ ControlTypes'
    BY <1>1, <2>1, <2>2 DEF ReloadTypes, ControlTypes
  <2>4. ListTypes' /\ SessionTypes' /\ CollectorTypes' /\ HistoryTypes' /\ OneList'
    BY <2>1 DEF lists, sessions, collector, ListTypes, SessionTypes, CollectorTypes,
                HistoryTypes, OneList, Open
  <2>5. OneCursor' /\ CursorsOnList'
    BY <2>1 DEF lists, collector, OneCursor, CursorsOnList
  <2>6. Served'
    BY <1>1, <2>1 DEF Served, Open, sessions
  <2> QED
    BY <2>3, <2>4, <2>5, <2>6
<1> QED
  BY <1>3, <1>4, <1>5, <1>6, <1>7 DEF Command

\* The lines of the file, which go to the global list.
LEMMA FileLineKeeps == ASSUME ReloadAssumption, IInv, FileLine PROVE IInv'
<1> USE DEF IInv, Types
<1>1. ReadLine
  BY DEF FileLine, FileNat, FileNonat, FileDelete, FileOther
<1>2. /\ phase = "file" /\ reloading /\ curgen = lastgen /\ curgen >= FirstGen
      /\ UNCHANGED <<phase, turn, curgen, sessions, reloading, reload_session,
                     lastgen, reload_savedgen>>
  BY <1>1 DEF ReadLine, Served, ReloadTypes, ReloadAssumption
<1>3. SessionTypes'
  BY <1>2 DEF sessions, SessionTypes
<1>4. ReloadTypes'
  <2>1. lines' \in 0..MaxLines
    BY <1>1 DEF ReadLine, ReloadTypes, ReloadAssumption
  <2> QED
    BY <1>2, <2>1 DEF ReloadTypes
<1>5. ControlTypes' /\ Served'
  <2>1. remains' \in Nat
    BY <1>1 DEF ReadLine, ControlTypes
  <2> QED
    BY <1>2, <2>1 DEF ControlTypes, Served, Open, sessions
<1>6. ASSUME UNCHANGED collector, confnats \subseteq confnats'
      PROVE  CollectorTypes' /\ OneCursor' /\ CursorsOnList'
  BY <1>2, <1>6 DEF collector, CollectorTypes, OneCursor, CursorsOnList
<1>7. ASSUME NEW e \in Entry, FileNat(e) PROVE IInv'
  <2>1. NatLine(e, reload_session) /\ Declare(e) /\ UNCHANGED sessions
    BY <1>2, <1>7 DEF FileNat
  <2>2. ListTypes' /\ OneList' /\ confnats \subseteq confnats'
    BY <1>2, <2>1, NatLineKeeps
  <2>3. HistoryTypes' /\ UNCHANGED collector
    BY <2>1 DEF Declare, HistoryTypes, SetMaker, Item
  <2> QED
    BY <1>3, <1>4, <1>5, <1>6, <2>2, <2>3
<1>8. ASSUME NEW x \in NoNat, FileNonat(x) PROVE IInv'
  <2>1. NonatLine(x) /\ Declare(x) /\ UNCHANGED sessions
    BY <1>2, <1>8 DEF FileNonat
  <2>2. ListTypes' /\ OneList' /\ confnats' = confnats
    BY <2>1, NonatLineKeeps
  <2>3. HistoryTypes' /\ UNCHANGED collector
    BY <2>1 DEF Declare, HistoryTypes, SetMaker, Item
  <2> QED
    BY <1>3, <1>4, <1>5, <1>6, <2>2, <2>3
<1>9. ASSUME NEW x \in Item, FileDelete(x) PROVE IInv'
  <2>1. DeleteLine(x) /\ UNCHANGED <<sessions, reloading>>
    BY <1>2, <1>9 DEF FileDelete
  <2>2. /\ ListTypes' /\ CollectorTypes' /\ HistoryTypes'
        /\ OneList' /\ CursorsOnList' /\ OneCursor'
    BY <2>1, DeleteLineKeeps
  <2> QED
    BY <1>3, <1>4, <1>5, <2>2
<1>10. ASSUME FileOther PROVE IInv'
  <2>1. UNCHANGED <<lists, collector, history>> /\ Open' = Open /\ orphans' = orphans
    BY <1>2, <1>10 DEF FileOther, Open, sessions
  <2>2. ListTypes' /\ HistoryTypes' /\ OneList'
    BY <2>1 DEF lists, history, ListTypes, HistoryTypes, OneList
  <2>3. UNCHANGED collector /\ confnats \subseteq confnats'
    BY <2>1 DEF lists
  <2> QED
    BY <1>3, <1>4, <1>5, <1>6, <2>2, <2>3
<1> QED
  BY <1>7, <1>8, <1>9, <1>10 DEF FileLine

\* The end of a reload, which none of the two cursors has outlived.
LEMMA FinishKeeps ==
    ASSUME ReloadAssumption, IInv, FileEnd \/ FileFails
    PROVE  IInv'
<1> USE DEF IInv, Types
<1>1. /\ Finish /\ phase = "file" /\ reloading /\ remains > 0
      /\ reloading' = FALSE /\ reload_session' = 0
      /\ curgen' = 0 /\ remains' = 0 /\ LeaveFile
      /\ UNCHANGED <<confnats, snats, sessions, reload_savedgen>>
  BY DEF FileEnd, FileFails, Finish, Served
<1>2. /\ needgc # 2 /\ needbt = 0 /\ gctodo = {} /\ bttodo = {}
  BY <1>1 DEF OneCursor, CursorsOnList
<1>3. SessionTypes' /\ Open' = Open /\ OneList'
  BY <1>1 DEF sessions, SessionTypes, Open, OneList
<1>4. ControlTypes' /\ Served'
  <2>1. sslist \in Seq(Gen) /\ (sslist # <<>> => Head(sslist) \in Open)
    BY DEF SessionTypes, Open, ToSet
  <2>2. CASE Inline
    BY <1>1, <1>3, <2>2 DEF LeaveFile, Inline, ControlTypes, Served, ReloadAssumption
  <2>3. CASE ~Inline
    BY <1>1, <1>3, <2>1, <2>3 DEF LeaveFile, ControlTypes, Served, ReloadAssumption
  <2> QED
    BY <2>2, <2>3
<1>5. CASE FileEnd
  <2>1. /\ nonats' = nonats \ StaleNonats /\ gen' = SetGen(StaleNonats, 0)
        /\ maker' = SetMaker(StaleNonats, 0)
        /\ needgc' = 2 /\ gctodo' = {} /\ accepted' = declared /\ lines' = 0 /\ declared' = {}
        /\ UNCHANGED <<lastgen, needbt, bttodo>>
    BY <1>5 DEF FileEnd
  <2>2. ListTypes' /\ HistoryTypes'
    BY <1>1, <2>1 DEF ListTypes, HistoryTypes, SetGen, SetMaker, ReloadAssumption
  <2>3. CollectorTypes' /\ OneCursor' /\ CursorsOnList'
    BY <1>1, <1>2, <2>1 DEF CollectorTypes, OneCursor, CursorsOnList
  <2>4. ReloadTypes'
    <3>1. 0 \in 0..MaxLines
      BY DEF ReloadAssumption
    <3> QED
      BY <1>1, <2>1, <3>1 DEF ReloadTypes
  <2> QED
    BY <1>3, <1>4, <2>2, <2>3, <2>4
<1>6. CASE FileFails
  <2>1. /\ lastgen' = reload_savedgen
        /\ gen' = SetGen({x \in nonats : gen[x] > reload_savedgen}, reload_savedgen)
        /\ needbt' = 2 /\ bttodo' = {} /\ accepted' = accepted \cup declared
        /\ lines' = 0 /\ declared' = {}
        /\ UNCHANGED <<nonats, maker, needgc, gctodo>>
    BY <1>6 DEF FileFails
  <2>2. ListTypes' /\ HistoryTypes'
    <3>1. reload_savedgen \in 0..MaxGen
      BY DEF ReloadTypes, ReloadAssumption
    <3> QED
      BY <1>1, <2>1, <3>1 DEF ListTypes, HistoryTypes, SetGen
  <2>3. CollectorTypes' /\ OneCursor' /\ CursorsOnList'
    BY <1>1, <1>2, <2>1 DEF CollectorTypes, OneCursor, CursorsOnList
  <2>4. ReloadTypes'
    <3>1. 0 \in 0..MaxLines
      BY DEF ReloadAssumption
    <3> QED
      BY <1>1, <2>1, <3>1 DEF ReloadTypes
  <2> QED
    BY <1>3, <1>4, <2>2, <2>3, <2>4
<1> QED
  BY <1>5, <1>6

\* The collection: gc_ptr moves off a binding before it is deleted, and
\* bt_ptr is on none.
LEMMA GcKeeps ==
    ASSUME ReloadAssumption, IInv, GcOrphanEntry \/ GcOrphan \/ GcStart \/ GcVisit \/ GcDone
    PROVE  IInv'
<1> USE DEF IInv, Types
<1>1. phase = "gc" /\ UNCHANGED <<sslist, sesgen, reload, needbt, turn, curgen, declared, accepted>>
  BY DEF GcOrphanEntry, GcOrphan, GcStart, GcVisit, GcDone, Collecting, sessions, control,
         history, collector
<1>2. ReloadTypes' /\ Open' = Open /\ reloading' = reloading
  BY <1>1 DEF reload, ReloadTypes, Open
<1>3. ASSUME orphans' = orphans PROVE SessionTypes'
  BY <1>1, <1>3 DEF SessionTypes
<1>4. ASSUME Work("bt", BtQuantum) PROVE ControlTypes' /\ Served'
  BY <1>1, <1>4, WorkKeeps DEF ReloadAssumption
<1>5. ASSUME UNCHANGED <<phase, remains>> PROVE ControlTypes' /\ Served'
  BY <1>1, <1>2, <1>5 DEF ControlTypes, Served
<1>6. ASSUME UNCHANGED <<lists, maker, orphans>> PROVE ListTypes' /\ HistoryTypes' /\ OneList'
  BY <1>1, <1>2, <1>6 DEF lists, ListTypes, HistoryTypes, OneList
<1>7. CASE GcOrphanEntry
  <2>1. PICK s \in orphans : \E e \in snats[s] : Collect(e)
    BY <1>7 DEF GcOrphanEntry
  <2>2. PICK e \in snats[s] : Collect(e)
    BY <2>1
  <2>3. s \in Gen /\ e \in Entry /\ e \notin confnats
    BY <2>1, <2>2 DEF SessionTypes, ListTypes, OneList
  <2>4. orphans' = orphans /\ UNCHANGED <<needgc, gctodo, bttodo>> /\ Work("bt", BtQuantum)
    BY <1>7, <2>2 DEF GcOrphanEntry, sessions, Collect
  <2>5. ListTypes' /\ HistoryTypes' /\ OneList'
    BY <1>1, <2>2, <2>3, <2>4, CollectKeeps
  <2>6. CollectorTypes' /\ OneCursor' /\ CursorsOnList'
    BY <1>1, <1>2, <2>2, <2>3, <2>4 DEF Collect, CollectorTypes, OneCursor, CursorsOnList
  <2> QED
    BY <1>2, <1>3, <1>4, <2>4, <2>5, <2>6
<1>8. CASE GcOrphan
  <2>1. PICK s \in orphans : snats[s] = {} /\ orphans' = orphans \ {s}
    BY <1>8 DEF GcOrphan
  <2>2. UNCHANGED <<lists, collector, control, history>>
    BY <1>8 DEF GcOrphan
  <2>3. SessionTypes' /\ OneList'
    BY <1>1, <1>2, <2>1, <2>2 DEF lists, SessionTypes, OneList
  <2>4. ListTypes' /\ HistoryTypes' /\ CollectorTypes' /\ OneCursor' /\ CursorsOnList'
    BY <1>2, <2>2 DEF lists, history, collector, ListTypes, HistoryTypes, CollectorTypes,
                      OneCursor, CursorsOnList
  <2> QED
    BY <1>2, <1>5, <2>2, <2>3, <2>4 DEF control
<1>9. CASE GcStart
  <2>1. /\ needgc = 2 /\ needgc' = 1 /\ gctodo' = IF gctodo = {} THEN confnats ELSE gctodo
        /\ UNCHANGED <<lists, sessions, bttodo, control, history>>
    BY <1>9 DEF GcStart
  <2>2. needbt = 0 /\ ~reloading
    BY <2>1 DEF OneCursor
  <2>3. CollectorTypes' /\ OneCursor' /\ CursorsOnList'
    BY <1>1, <1>2, <2>1, <2>2 DEF lists, ListTypes, CollectorTypes, OneCursor, CursorsOnList
  <2> QED
    BY <1>2, <1>3, <1>5, <1>6, <2>1, <2>3 DEF sessions, control, history
<1>10. CASE GcVisit
  <2>1. PICK e \in gctodo :
            /\ gctodo' = gctodo \ {e}
            /\ \/ Collect(e) /\ Work("bt", BtQuantum)
               \/ UNCHANGED <<lists, bttodo, maker, phase, remains>>
    BY <1>10 DEF GcVisit
  <2>2. needgc = 1 /\ needgc' = needgc /\ orphans' = orphans
    BY <1>10 DEF GcVisit, sessions
  <2>3. /\ e \in Entry /\ e \in confnats /\ needbt = 0 /\ bttodo = {} /\ ~reloading
    BY <2>1 DEF CollectorTypes, OneCursor, CursorsOnList
  <2>4. bttodo' = bttodo /\ gctodo' \subseteq confnats'
    BY <2>1, <2>3 DEF Collect, CursorsOnList, lists
  <2>5. CollectorTypes' /\ OneCursor' /\ CursorsOnList'
    BY <1>1, <1>2, <2>1, <2>2, <2>3, <2>4 DEF CollectorTypes, OneCursor, CursorsOnList
  <2>6. CASE Collect(e) /\ Work("bt", BtQuantum)
    <3>1. ListTypes' /\ HistoryTypes' /\ OneList'
      BY <1>1, <2>2, <2>3, <2>6, CollectKeeps
    <3> QED
      BY <1>2, <1>3, <1>4, <2>2, <2>5, <2>6, <3>1
  <2>7. CASE UNCHANGED <<lists, bttodo, maker, phase, remains>>
    BY <1>2, <1>3, <1>5, <1>6, <2>2, <2>5, <2>7
  <2> QED
    BY <2>1, <2>6, <2>7
<1>11. CASE GcDone
  <2>1. /\ gctodo = {} \/ needgc = 0
        /\ needgc' = 0 /\ phase' = "bt" /\ remains' = BtQuantum
        /\ UNCHANGED <<lists, sessions, gctodo, bttodo, history>>
    BY <1>11 DEF GcDone
  <2>2. CollectorTypes' /\ OneCursor' /\ CursorsOnList'
    BY <1>1, <1>2, <2>1 DEF lists, CollectorTypes, OneCursor, CursorsOnList
  <2>3. ControlTypes' /\ Served'
    BY <1>1, <1>2, <2>1 DEF ControlTypes, Served, ReloadAssumption
  <2> QED
    BY <1>2, <1>3, <1>6, <2>1, <2>2, <2>3 DEF sessions, history
<1> QED
  BY <1>7, <1>8, <1>9, <1>10, <1>11

\* The backtrack, which moves no binding.
LEMMA BtKeeps ==
    ASSUME ReloadAssumption, IInv, BtStart \/ BtVisit \/ BtDone
    PROVE  IInv'
<1> USE DEF IInv, Types
<1>1. /\ phase = "bt"
      /\ UNCHANGED <<confnats, snats, nonats, sessions, reload, needgc, gctodo, turn, curgen,
                     history>>
  BY DEF BtStart, BtVisit, BtDone, lists, control
<1>2. /\ ReloadTypes' /\ SessionTypes' /\ HistoryTypes' /\ Open' = Open
      /\ reloading' = reloading /\ OneList'
  BY <1>1 DEF reload, sessions, history, ReloadTypes, SessionTypes, HistoryTypes, Open, OneList
<1>3. CASE BtStart
  <2>1. /\ needbt = 2 /\ needbt' = 1 /\ bttodo' = IF bttodo = {} THEN confnats ELSE bttodo
        /\ UNCHANGED <<gen, phase, remains>>
    BY <1>3 DEF BtStart, lists, control
  <2>2. ListTypes' /\ ControlTypes' /\ Served'
    BY <1>1, <1>2, <2>1 DEF ListTypes, ControlTypes, Served
  <2>3. CollectorTypes' /\ OneCursor' /\ CursorsOnList'
    BY <1>1, <1>2, <2>1 DEF ListTypes, CollectorTypes, OneCursor, CursorsOnList
  <2> QED
    BY <1>2, <2>2, <2>3
<1>4. CASE BtVisit
  <2>1. PICK e \in bttodo : /\ bttodo' = bttodo \ {e}
                            /\ gen' = IF gen[e] > lastgen THEN SetGen({e}, lastgen) ELSE gen
    BY <1>4 DEF BtVisit
  <2>2. needbt' = needbt /\ Work("top", 0)
    BY <1>4 DEF BtVisit
  <2>3. ListTypes'
    BY <1>1, <2>1 DEF ListTypes, SetGen, ReloadTypes, ReloadAssumption
  <2>4. ControlTypes' /\ Served'
    BY <1>1, <2>2, WorkKeeps DEF sessions
  <2>5. CollectorTypes' /\ OneCursor' /\ CursorsOnList'
    BY <1>1, <1>2, <2>1, <2>2 DEF CollectorTypes, OneCursor, CursorsOnList
  <2> QED
    BY <1>2, <2>3, <2>4, <2>5
<1>5. CASE BtDone
  <2>1. /\ bttodo = {} \/ needbt = 0
        /\ needbt' = 0 /\ bttodo' = bttodo /\ gen' = gen /\ phase' = "top" /\ remains' = 0
    BY <1>5 DEF BtDone, lists
  <2>2. ListTypes' /\ ControlTypes' /\ Served'
    BY <1>1, <1>2, <2>1 DEF ListTypes, ControlTypes, Served
  <2>3. CollectorTypes' /\ OneCursor' /\ CursorsOnList'
    BY <1>1, <1>2, <2>1 DEF CollectorTypes, OneCursor, CursorsOnList
  <2> QED
    BY <1>2, <2>2, <2>3
<1> QED
  BY <1>3, <1>4, <1>5

LEMMA StutterKeeps == ASSUME IInv, UNCHANGED vars PROVE IInv'
BY DEF IInv, Types, ListTypes, SessionTypes, ReloadTypes, CollectorTypes, ControlTypes,
       HistoryTypes, Served, OneCursor, OneList, CursorsOnList, Open,
       vars, lists, sessions, reload, collector, control, history

LEMMA StepKeeps == ASSUME ReloadAssumption, IInv, [Next]_vars PROVE IInv'
<1>1. CASE Next
  <2>1. CASE Incremental
    BY <2>1, GcKeeps, BtKeeps DEF Incremental
  <2> QED
    BY <1>1, <2>1, LoopKeeps, AcceptKeeps, CommandKeeps, FileLineKeeps, FinishKeeps DEF Next
<1> QED
  BY <1>1, StutterKeeps

(***************************************************************************)
(* The theorems.                                                           *)
(***************************************************************************)
THEOREM Invariance == Spec => []IInv
BY ReloadAssumption, InitIInv, StepKeeps, PTL DEF Spec

\* The types of the lists, sessions, generations and cursors, for a file of any
\* length and fewer sessions at a time than session_nextgen() makes tries.
THEOREM ReloadTypeCorrect == Spec => []TypeOK
<1>1. IInv => TypeOK
  BY TypesAre DEF IInv
<1> QED
  BY <1>1, Invariance, PTL

\* What session_nextgen() logs as "unreachable" (aftr.c:9297) is so as long as the
\* sessions open or being collected are fewer than its tries but one: one try is of a
\* generation that none of them has, wherever the last one was found.
THEOREM GenerationFound == Spec => [](Cardinality(InUse) < MaxSess => Free # {})
<1>1. IInv => (Cardinality(InUse) < MaxSess => Free # {})
  BY ReloadAssumption, NextGenType DEF IInv, Types
<1> QED
  BY <1>1, Invariance, PTL

\* A binding is on one list, whatever add_snat0(), reload_snat(),
\* gc_session() and gc_incr() did to it and in whatever order, so that none
\* is freed twice.
THEOREM BindingsOnOneList == Spec => []OneList
<1>1. IInv => OneList
  BY DEF IInv
<1> QED
  BY <1>1, Invariance, PTL

\* gc_ptr and bt_ptr never point to a binding that was deleted, or that a
\* reload may move, between two of their slices.
THEOREM CursorsSafe == Spec => []CursorsOnList
<1>1. IInv => CursorsOnList
  BY DEF IInv
<1> QED
  BY <1>1, Invariance, PTL

(***************************************************************************)
(* The contents of the lists.  They are right as long as a session has no  *)
(* line waiting while another reloads, nor behind its own `reload`: a line *)
(* executed then has the generation of the file, or none.                  *)
(***************************************************************************)
OneAtATime == ~Latecomers /\ ~Batched

\* No session is open twice, nor both open and being collected.
Singly == Singular(sslist) /\ Open \cap orphans = {}

\* What a session made and the file has not claimed has its generation; the
\* rest has the generation of a load.
Owned ==
    /\ \A s \in Gen : \A e \in snats[s] : /\ maker[e] = s /\ gen[e] <= FirstGen
                                          /\ s \in Open => gen[e] = s
    /\ \A x \in nonats : gen[x] <= FirstGen => gen[x] \in Open /\ maker[x] = gen[x]
    /\ \A e \in confnats : gen[e] > FirstGen

\* A closed session, a reload that succeeds and one that fails all leave the
\* collector the work they need.
Owed ==
    /\ orphans # {} => needgc # 0
    /\ needgc = 2 => gctodo = {}
    /\ needbt = 2 => bttodo = {}
    /\ reloading => needgc = 0 /\ lastgen = reload_savedgen + 1
    /\ ~reloading => declared = {}

\* What x, of the global lists, may be while a reload runs ...
Reread(x) == IF x \in declared THEN gen[x] = lastgen
                               ELSE gen[x] = reload_savedgen /\ x \in accepted

\* ... and after it: of the last generation, or still to be visited.
Settled(x) ==
    IF x \in accepted
    THEN gen[x] = lastgen \/ (x \in Entry /\ gen[x] = lastgen + 1 /\ (needbt = 2 \/ x \in bttodo))
    ELSE x \in Entry /\ gen[x] < lastgen /\ (needgc = 2 \/ x \in gctodo)

Loaded ==
    /\ accepted \cup declared \subseteq Global
    /\ \A x \in Global : IF reloading THEN Reread(x) ELSE Settled(x)

Contents == Singly /\ Owned /\ Owed /\ Loaded

\* what the contents of the lists depend on
ContentVars == <<lists, sslist, orphans, reloading, lastgen, reload_savedgen, collector, history>>

LEMMA InitContents == ASSUME ReloadAssumption, Init PROVE Contents
<1> USE DEF Init, ReloadAssumption
<1>1. Singly
  BY DEF Singly, Singular
<1>2. Owned
  BY DEF Owned, Item
<1>3. Owed
  BY DEF Owed
<1>4. Loaded
  <2>1. Global = confnats \cup nonats
    BY DEF Global, Item
  <2> QED
    BY <2>1 DEF Loaded, Settled, Item
<1> QED
  BY <1>1, <1>2, <1>3, <1>4 DEF Contents

\* A step of the loop that touches none of them.
LEMMA ContentsFrame == ASSUME Contents, UNCHANGED ContentVars PROVE Contents'
BY DEF Contents, Singly, Owned, Owed, Loaded, Global, Reread, Settled, Open,
       ContentVars, lists, collector, history

\* No session is opened or closed, nor freed.
SameOpen == UNCHANGED <<sslist, orphans>>

LEMMA SameOpenKeeps ==
    ASSUME Singly, SameOpen PROVE Singly' /\ Open' = Open
BY DEF Singly, SameOpen, Open

\* A new session is not one of those that remain.
LEMMA AcceptContents ==
    ASSUME ReloadAssumption, IInv, Contents, Accept PROVE Contents'
<1> USE DEF IInv, Types, Contents
<1>1. /\ UNCHANGED <<lists, reload, collector, history>>
      /\ sslist' = <<NextGen>> \o sslist /\ orphans' = orphans
  BY DEF Accept
<1>2. NextGen \in Gen /\ NextGen \notin Open /\ NextGen \notin orphans
  BY NextGenType DEF Accept, InUse
<1>3. Singular(sslist') /\ Open' = Open \cup {NextGen}
  BY <1>1, <1>2, PrependKeeps DEF SessionTypes, Open, Singly
<1>4. Singly'
  BY <1>1, <1>2, <1>3 DEF Singly
<1>5. snats[NextGen] = {}
  BY <1>2 DEF OneList
<1>6. Owned'
  BY <1>1, <1>3, <1>5 DEF Owned, lists, history
<1>7. Owed' /\ Loaded'
  BY <1>1 DEF Owed, Loaded, Global, Reread, Settled, lists, reload, collector, history
<1> QED
  BY <1>4, <1>6, <1>7

(***************************************************************************)
(* The lines of a session.                                                 *)
(***************************************************************************)

\* A line is executed with the generation of its session, with no reload on.
LEMMA OwnGeneration ==
    ASSUME ReloadAssumption, OneAtATime, IInv, CanRead
    PROVE  /\ ~reloading /\ curgen = Head(turn)
           /\ Head(turn) \in Open /\ Head(turn) \in Gen
           /\ Head(turn) < FirstGen
BY DEF CanRead, OneAtATime, IInv, Types, Served, ControlTypes, Gen, ReloadAssumption

LEMMA PresentIs ==
    ASSUME NEW x
    PROVE  x \in Present <=> x \in confnats \/ (\E s \in Gen : x \in snats[s]) \/ x \in nonats
<1>1. x \in UNION {snats[s] : s \in Gen} <=> \E s \in Gen : x \in snats[s]
  BY Zenon
<1> QED
  BY <1>1 DEF Present

\* The global lists after a step that changes them only at x.
LEMMA SameGlobal ==
    ASSUME NEW x, confnats' = confnats, x \notin nonats, nonats' \ {x} = nonats,
           \A y \in nonats : gen'[y] = gen[y], x \in nonats' => ~(gen'[x] > FirstGen),
           x \notin confnats
    PROVE  Global' = Global /\ x \notin Global
<1>1. ASSUME NEW y
      PROVE  y \in nonats' /\ gen'[y] > FirstGen <=> y \in nonats /\ gen[y] > FirstGen
  OBVIOUS
<1> QED
  BY <1>1 DEF Global

LEMMA CmdNatContents ==
    ASSUME ReloadAssumption, OneAtATime, IInv, Contents, NEW e \in Entry, CmdNat(e)
    PROVE  Contents'
<1> USE DEF IInv, Types, Contents
<1> DEFINE s == Head(turn)
<1>1. ~reloading /\ curgen = s /\ s \in Open /\ s \in Gen /\ s < FirstGen
  BY OwnGeneration DEF CmdNat
<1>2. /\ AddEntry(e, s)
      /\ UNCHANGED <<sessions, reload, collector, declared, accepted>>
      /\ maker' = IF e \in Present THEN maker ELSE SetMaker({e}, s)
  BY <1>1 DEF CmdNat, NatLine
<1> HIDE DEF s
<1>3. /\ e \notin Present /\ e \notin confnats /\ \A r \in Gen : e \notin snats[r]
      /\ e \notin nonats
  <2>1. e \notin Present
    BY <1>2 DEF AddEntry
  <2> QED
    BY <2>1, PresentIs
<1>4. /\ snats' = [snats EXCEPT ![s] = @ \cup {e}] /\ confnats' = confnats
      /\ nonats' = nonats
      /\ gen' = SetGen({e}, s) /\ maker' = SetMaker({e}, s)
  BY <1>1, <1>2, <1>3 DEF AddEntry, Enlist
<1>5. /\ gen'[e] = s /\ maker'[e] = s
      /\ \A x \in Item : x # e => gen'[x] = gen[x] /\ maker'[x] = maker[x]
  BY <1>4 DEF SetGen, SetMaker, Item
<1>6. /\ Open' = Open /\ Singly'
  BY <1>2, SameOpenKeeps DEF SameOpen, sessions
<1>7. \A r \in Gen : snats'[r] = IF r = s THEN snats[r] \cup {e} ELSE snats[r]
  BY <1>1, <1>4 DEF ListTypes
<1>8. Owned'
  <2>1. ASSUME NEW r \in Gen, NEW f \in snats'[r]
        PROVE  maker'[f] = r /\ gen'[f] <= FirstGen /\ (r \in Open' => gen'[f] = r)
    <3>1. CASE f = e
      <4>1. r = s
        BY <1>3, <1>7, <2>1, <3>1
      <4>2. s <= FirstGen
        BY <1>1 DEF Gen, ReloadAssumption
      <4> QED
        BY <1>5, <3>1, <4>1, <4>2
    <3>2. CASE f # e
      <4>1. f \in snats[r] /\ f \in Item
        BY <1>7, <2>1, <3>2 DEF ListTypes, Item
      <4> QED
        BY <1>5, <1>6, <3>2, <4>1 DEF Owned
    <3> QED
      BY <3>1, <3>2
  <2>2. ASSUME NEW y \in nonats'
        PROVE  gen'[y] <= FirstGen => gen'[y] \in Open' /\ maker'[y] = gen'[y]
    BY <1>3, <1>4, <1>5, <1>6, <2>2 DEF Owned, ListTypes, Item
  <2>3. ASSUME NEW f \in confnats'
        PROVE  gen'[f] > FirstGen
    BY <1>3, <1>4, <1>5, <2>3 DEF Owned, ListTypes, Item
  <2> QED
    BY <2>1, <2>2, <2>3 DEF Owned
<1>9. Global' = Global /\ e \notin Global
  BY <1>3, <1>4, <1>5 DEF Global, ListTypes, Item
<1>10. Loaded'
  BY <1>2, <1>5, <1>9 DEF Loaded, Reread, Settled, Global, ListTypes, Item, reload, collector
<1>11. Owed'
  BY <1>2 DEF Owed, sessions, reload, collector
<1> QED
  BY <1>6, <1>8, <1>10, <1>11

LEMMA CmdNonatContents ==
    ASSUME ReloadAssumption, OneAtATime, IInv, Contents, NEW x \in NoNat, CmdNonat(x)
    PROVE  Contents'
<1> USE DEF IInv, Types, Contents
<1> DEFINE s == Head(turn)
<1>1. ~reloading /\ curgen = s /\ s \in Open /\ s \in Gen /\ s < FirstGen
  BY OwnGeneration DEF CmdNonat
<1>2. /\ NonatLine(x)
      /\ UNCHANGED <<sessions, reload, collector, declared, accepted>>
      /\ maker' = IF x \in Present THEN maker ELSE SetMaker({x}, s)
  BY DEF CmdNonat
<1> HIDE DEF s
<1>3. x \notin nonats /\ x \notin confnats /\ \A r \in Gen : x \notin snats[r]
  BY <1>1, <1>2 DEF NonatLine, ListTypes, ReloadAssumption
<1>4. x \notin Present
  BY <1>3, PresentIs
<1>5. /\ snats' = snats /\ confnats' = confnats /\ nonats' = nonats \cup {x}
      /\ gen' = SetGen({x}, s) /\ maker' = SetMaker({x}, s)
  BY <1>1, <1>2, <1>4 DEF NonatLine
<1>6. /\ gen'[x] = s /\ maker'[x] = s
      /\ \A y \in Item : y # x => gen'[y] = gen[y] /\ maker'[y] = maker[y]
  BY <1>5 DEF SetGen, SetMaker, Item
<1>7. Open' = Open /\ Singly'
  BY <1>2, SameOpenKeeps DEF SameOpen, sessions
<1>8. Owned'
  <2>1. ASSUME NEW r \in Gen, NEW f \in snats'[r]
        PROVE  maker'[f] = r /\ gen'[f] <= FirstGen /\ (r \in Open' => gen'[f] = r)
    <3>1. f \in snats[r] /\ f \in Item /\ f # x
      BY <1>3, <1>5, <2>1 DEF ListTypes, Item
    <3> QED
      BY <1>6, <1>7, <3>1 DEF Owned
  <2>2. ASSUME NEW y \in nonats'
        PROVE  gen'[y] <= FirstGen => gen'[y] \in Open' /\ maker'[y] = gen'[y]
    BY <1>1, <1>5, <1>6, <1>7, <2>2 DEF Owned, ListTypes, Item
  <2>3. ASSUME NEW f \in confnats'
        PROVE  gen'[f] > FirstGen
    BY <1>3, <1>5, <1>6, <2>3 DEF Owned, ListTypes, Item
  <2> QED
    BY <2>1, <2>2, <2>3 DEF Owned
<1>9. Global' = Global /\ x \notin Global
  <2>1. gen'[x] = s /\ ~(s > FirstGen)
    BY <1>1, <1>6 DEF Gen, ReloadAssumption
  <2> QED
    BY <1>3, <1>5, <1>6, <2>1, SameGlobal DEF ListTypes, Item
<1>10. Loaded'
  BY <1>2, <1>6, <1>9 DEF Loaded, Reread, Settled, Global, ListTypes, Item, reload, collector
<1>11. Owed'
  BY <1>2 DEF Owed, sessions, reload, collector
<1> QED
  BY <1>7, <1>8, <1>10, <1>11

\* What is deleted leaves the lists, the cursors and the configuration.
LEMMA DeleteContents ==
    ASSUME ReloadAssumption, IInv, Contents, NEW x \in Item, DeleteLine(x),
           UNCHANGED <<sslist, orphans, reloading, lastgen, reload_savedgen>>
    PROVE  Contents'
<1> USE DEF IInv, Types, Contents
<1>1. /\ gen' = SetGen({x}, 0) /\ maker' = SetMaker({x}, 0)
      /\ declared' = declared \ {x} /\ accepted' = accepted \ {x}
      /\ needgc' = needgc /\ needbt' = needbt
  BY DEF DeleteLine, DelEntry, DelNonat
<1>2. \A y \in Item : y # x => gen'[y] = gen[y] /\ maker'[y] = maker[y]
  BY <1>1 DEF SetGen, SetMaker
<1>3. /\ confnats' = confnats \ {x} /\ nonats' = nonats \ {x}
      /\ gctodo' = gctodo \ {x} /\ bttodo' = bttodo \ {x}
      /\ \A r \in Gen : snats'[r] = snats[r] \ {x}
  <2>1. CASE x \in Entry
    <3>1. x \notin nonats
      BY <2>1 DEF ListTypes, ReloadAssumption
    <3> QED
      BY <2>1, <3>1, OffType DEF DeleteLine, DelEntry, ListTypes
  <2>2. CASE x \notin Entry
    <3>1. x \notin confnats /\ (\A r \in Gen : x \notin snats[r])
          /\ x \notin gctodo /\ x \notin bttodo
      BY <2>2 DEF ListTypes, CollectorTypes
    <3> QED
      BY <2>2, <3>1 DEF DeleteLine, DelNonat, ListTypes
  <2> QED
    BY <2>1, <2>2
<1>4. Singly' /\ Open' = Open
  BY SameOpenKeeps DEF SameOpen
<1>5. Owned'
  BY <1>2, <1>3, <1>4 DEF Owned, ListTypes, Item
<1>6. Owed'
  BY <1>1, <1>3 DEF Owed
<1>7. Global' = Global \ {x}
  BY <1>2, <1>3 DEF Global, ListTypes, Item
<1>8. Loaded'
  BY <1>1, <1>2, <1>3, <1>7 DEF Loaded, Reread, Settled, Global, ListTypes, Item
<1> QED
  BY <1>4, <1>5, <1>6, <1>8

\* What a closed session made is no longer its own, and the collector knows.
LEMMA CmdCloseContents ==
    ASSUME ReloadAssumption, OneAtATime, IInv, Contents, NEW c \in Gen, CmdClose(c)
    PROVE  Contents'
<1> USE DEF IInv, Types, Contents
<1> DEFINE mine == {x \in nonats : gen[x] = c}
           marked == {e \in snats[c] : gen[e] = c}
<1>1. ~reloading
  BY OwnGeneration DEF CmdClose
<1>2. /\ Orphan(c) /\ nonats' = nonats \ mine
      /\ gen' = [x \in Item |-> IF x \in mine THEN 0
                                ELSE IF x \in marked THEN FirstGen ELSE gen[x]]
      /\ maker' = SetMaker(mine, 0)
      /\ UNCHANGED <<confnats, snats, accepted, declared, reload>>
  BY DEF CmdClose, CloseSession
<1>3. PICK i \in DOMAIN sslist : sslist[i] = c /\ sslist' = RemoveAt(sslist, i)
  BY <1>2 DEF Orphan
<1>4. orphans' = orphans \cup {c} /\ UNCHANGED <<needbt, bttodo>>
  BY <1>2 DEF Orphan
<1>5. \/ needgc = 0 /\ needgc' = 1 /\ gctodo' = {}
      \/ needgc # 0 /\ UNCHANGED <<needgc, gctodo>>
  BY <1>2 DEF Orphan
<1>6. /\ Singular(sslist') /\ Open' \subseteq Open \ {c} /\ Open \subseteq Open' \cup {c}
  BY <1>3, RemoveAtKeeps DEF SessionTypes, Singly, Open
<1>7. Singly'
  BY <1>4, <1>6 DEF Singly
<1>8. \A x \in Item : x \notin mine /\ x \notin marked => gen'[x] = gen[x] /\ maker'[x] = maker[x]
  BY <1>2 DEF SetMaker
<1>9. \A x \in nonats : x \notin marked /\ x \in Item
  BY DEF ListTypes, Item, ReloadAssumption
<1>10. \A e \in confnats : e \notin marked /\ e \notin mine /\ e \in Item
  BY DEF ListTypes, OneList, Item, ReloadAssumption
<1>11. \A s \in Gen : s # c => \A e \in snats[s] : e \notin marked /\ e \notin mine /\ e \in Item
  BY DEF ListTypes, OneList, Item, ReloadAssumption
<1>12. \A e \in snats[c] : /\ e \notin mine /\ e \in Item /\ maker'[e] = maker[e]
                           /\ gen'[e] = IF e \in marked THEN FirstGen ELSE gen[e]
  BY <1>2 DEF ListTypes, Item, ReloadAssumption, SetMaker
<1>13. c < FirstGen
  BY DEF Gen, ReloadAssumption
<1>14. \A x \in nonats : x \notin mine => gen[x] # c
  OBVIOUS
<1>15. \A x \in mine : gen[x] = c
  OBVIOUS
<1>16. FirstGen <= FirstGen
  BY DEF ReloadAssumption
<1> HIDE DEF mine, marked
<1>17. Owned'
  <2>1. ASSUME NEW s \in Gen, NEW e \in snats'[s]
        PROVE  maker'[e] = s /\ gen'[e] <= FirstGen /\ (s \in Open' => gen'[e] = s)
    <3>1. CASE s = c
      BY <1>2, <1>6, <1>12, <1>16, <2>1, <3>1 DEF Owned
    <3>2. CASE s # c
      BY <1>2, <1>6, <1>8, <1>11, <2>1, <3>2 DEF Owned
    <3> QED
      BY <3>1, <3>2
  <2>2. ASSUME NEW x \in nonats'
        PROVE  gen'[x] <= FirstGen => gen'[x] \in Open' /\ maker'[x] = gen'[x]
    BY <1>2, <1>6, <1>8, <1>9, <1>14, <2>2 DEF Owned
  <2>3. ASSUME NEW e \in confnats'
        PROVE  gen'[e] > FirstGen
    BY <1>2, <1>8, <1>10, <2>3 DEF Owned
  <2> QED
    BY <2>1, <2>2, <2>3 DEF Owned
<1>18. Owed'
  BY <1>1, <1>2, <1>4, <1>5 DEF Owed, reload
<1>19. Global' = Global
  <2>1. ASSUME NEW x
        PROVE  x \in nonats' /\ gen'[x] > FirstGen <=> x \in nonats /\ gen[x] > FirstGen
    <3>1. CASE x \in mine
      BY <1>2, <1>13, <1>15, <3>1 DEF Gen, ReloadAssumption
    <3>2. CASE x \notin mine
      BY <1>2, <1>8, <1>9, <3>2
    <3> QED
      BY <3>1, <3>2
  <2> QED
    BY <1>2, <2>1 DEF Global
<1>20. \A x \in Global : gen'[x] = gen[x]
  <2>1. \A x \in nonats : gen[x] > FirstGen => x \notin mine
    BY <1>13, <1>15 DEF Gen, ReloadAssumption
  <2> QED
    BY <1>8, <1>9, <1>10, <2>1 DEF Global
<1>21. \A x : x \in gctodo => x \in gctodo'
  BY <1>5 DEF OneCursor
<1>22. needgc = 2 => needgc' = 2
  BY <1>5
<1>23. Loaded'
  <2>1. \A x \in Global : Settled(x)
    BY <1>1 DEF Loaded
  <2>2. \A x \in Global : Settled(x)'
    BY <1>2, <1>4, <1>20, <1>21, <1>22, <2>1 DEF Settled, reload
  <2> QED
    BY <1>1, <1>2, <1>19, <2>2 DEF Loaded, reload
<1> QED
  BY <1>7, <1>17, <1>18, <1>23

\* With the collector at rest, the file is read over a settled configuration.
LEMMA CmdReloadContents ==
    ASSUME ReloadAssumption, OneAtATime, IInv, Contents, CmdReload
    PROVE  Contents'
<1> USE DEF IInv, Types, Contents
<1>1. /\ ~reloading /\ needgc = 0 /\ needbt = 0
      /\ lastgen' = lastgen + 1 /\ reload_savedgen' = lastgen /\ reloading' = TRUE
      /\ declared' = {}
      /\ UNCHANGED <<lists, sessions, collector, accepted, maker>>
  BY DEF CmdReload
<1>2. gctodo = {} /\ bttodo = {}
  BY <1>1 DEF OneCursor
<1>3. Singly' /\ Open' = Open
  BY <1>1, SameOpenKeeps DEF SameOpen, sessions
<1>4. Owned'
  BY <1>1, <1>3 DEF Owned, lists
<1>5. Owed'
  BY <1>1 DEF Owed, sessions, collector
<1>6. \A x \in Global : x \in accepted /\ gen[x] = lastgen
  BY <1>1, <1>2 DEF Loaded, Settled
<1>7. Global' = Global
  BY <1>1 DEF Global, lists
<1>8. Loaded'
  BY <1>1, <1>6, <1>7 DEF Loaded, Reread, lists
<1> QED
  BY <1>3, <1>4, <1>5, <1>8

LEMMA CommandContents ==
    ASSUME ReloadAssumption, OneAtATime, IInv, Contents, Command
    PROVE  Contents'
<1>1. ASSUME NEW x \in Item, CmdDelete(x) PROVE Contents'
  BY <1>1, DeleteContents DEF CmdDelete, sessions, reload
<1> QED
  BY <1>1, CmdNatContents, CmdNonatContents, CmdCloseContents, CmdReloadContents DEF Command

(***************************************************************************)
(* The lines of the file and its end.                                      *)
(***************************************************************************)

\* A line of the file puts x on a global list, with the generation of the
\* reload, and takes it from the session that had it.
LEMMA DeclareContents ==
    ASSUME ReloadAssumption, IInv, Contents, reloading,
           NEW x \in Item,
           gen' = SetGen({x}, lastgen), maker' = SetMaker({x}, 0),
           declared' = declared \cup {x}, accepted' = accepted,
           confnats' = confnats \cup ({x} \cap Entry),
           nonats' = nonats \cup ({x} \cap NoNat),
           \A s \in Gen : snats'[s] \subseteq snats[s] \ {x},
           UNCHANGED <<sslist, orphans, reloading, lastgen, reload_savedgen, collector>>
    PROVE  Contents'
<1> USE DEF IInv, Types, Contents
<1>1. /\ gen'[x] = lastgen /\ lastgen > FirstGen
      /\ \A y \in Item : y # x => gen'[y] = gen[y] /\ maker'[y] = maker[y]
  BY DEF SetGen, SetMaker, ReloadTypes, ReloadAssumption
<1>2. Singly' /\ Open' = Open
  BY SameOpenKeeps DEF SameOpen
<1>3. Owned'
  <2>1. ASSUME NEW s \in Gen, NEW e \in snats'[s]
        PROVE  maker'[e] = s /\ gen'[e] <= FirstGen /\ (s \in Open' => gen'[e] = s)
    <3>1. e \in snats[s] /\ e # x /\ e \in Item
      BY <2>1 DEF ListTypes, Item
    <3> QED
      BY <1>1, <1>2, <3>1 DEF Owned
  <2>2. ASSUME NEW y \in nonats'
        PROVE  gen'[y] <= FirstGen => gen'[y] \in Open' /\ maker'[y] = gen'[y]
    <3>1. CASE y = x
      BY <1>1, <3>1 DEF ReloadTypes, ReloadAssumption
    <3>2. CASE y # x
      BY <1>1, <1>2, <2>2, <3>2 DEF Owned, ListTypes, Item
    <3> QED
      BY <3>1, <3>2
  <2>3. ASSUME NEW e \in confnats'
        PROVE  gen'[e] > FirstGen
    BY <1>1, <2>3 DEF Owned, ListTypes, Item
  <2> QED
    BY <2>1, <2>2, <2>3 DEF Owned
<1>4. Owed'
  BY DEF Owed, collector
<1>5. Global' = Global \cup {x}
  <2>1. ASSUME NEW y
        PROVE  y \in Global' <=> y \in Global \/ y = x
    <3>1. CASE y = x
      BY <1>1, <3>1 DEF Global, Item
    <3>2. CASE y # x
      BY <1>1, <3>2 DEF Global, ListTypes, Item
    <3> QED
      BY <3>1, <3>2
  <2> QED
    BY <2>1
<1>6. Loaded'
  <2>1. ASSUME NEW y \in Global'
        PROVE  Reread(y)'
    <3>1. CASE y = x
      BY <1>1, <3>1 DEF Reread
    <3>2. CASE y # x
      <4>1. y \in Global /\ y \in Item
        BY <1>5, <2>1, <3>2 DEF Global, ListTypes, Item
      <4> QED
        BY <1>1, <3>2, <4>1 DEF Reread, Loaded
    <3> QED
      BY <3>1, <3>2
  <2> QED
    BY <1>5, <2>1 DEF Loaded
<1> QED
  BY <1>2, <1>3, <1>4, <1>6

LEMMA FileLineContents ==
    ASSUME ReloadAssumption, IInv, Contents, FileLine
    PROVE  Contents'
<1> USE DEF IInv, Types
<1>1. ReadLine
  BY DEF FileLine, FileNat, FileNonat, FileDelete, FileOther
<1>2. /\ reloading /\ curgen = lastgen /\ ~(curgen < FirstGen)
      /\ UNCHANGED <<sessions, reloading, lastgen, reload_savedgen>>
  BY <1>1 DEF ReadLine, Served, ReloadTypes, ReloadAssumption
<1>3. UNCHANGED <<sslist, orphans, reloading, lastgen, reload_savedgen>>
  BY <1>2 DEF sessions
<1>4. ASSUME NEW e \in Entry, FileNat(e) PROVE Contents'
  <2>1. /\ AddEntry(e, reload_session) \/ RenewEntry(e)
        /\ Declare(e) /\ e \in Item /\ e \notin NoNat
    BY <1>4 DEF FileNat, NatLine, Item, ReloadAssumption
  <2>2. /\ gen' = SetGen({e}, lastgen) /\ nonats' = nonats
    BY <1>2, <2>1 DEF AddEntry, RenewEntry
  <2>3. /\ confnats' = confnats \cup {e}
        /\ \A s \in Gen : snats'[s] \subseteq snats[s] \ {e}
    <3>1. CASE AddEntry(e, reload_session)
      <4>1. \A s \in Gen : e \notin snats[s]
        BY <3>1, PresentIs DEF AddEntry
      <4> QED
        BY <1>2, <3>1, <4>1 DEF AddEntry, Enlist
    <3>2. CASE RenewEntry(e) /\ gen[e] <= FirstGen
      BY <3>2, OffType DEF RenewEntry, ListTypes
    <3>3. CASE RenewEntry(e) /\ ~(gen[e] <= FirstGen)
      <4>1. /\ snats' = snats /\ confnats' = confnats /\ e \in Present
        BY <3>3 DEF RenewEntry
      <4>2. \A s \in Gen : e \notin snats[s]
        BY <3>3 DEF Contents, Owned
      <4>3. e \in confnats
        BY <2>1, <4>1, <4>2, PresentIs DEF ListTypes
      <4> QED
        BY <4>1, <4>2, <4>3
    <3> QED
      BY <2>1, <3>1, <3>2, <3>3
  <2> QED
    BY <1>2, <1>3, <2>1, <2>2, <2>3, DeclareContents DEF Declare
<1>5. ASSUME NEW x \in NoNat, FileNonat(x) PROVE Contents'
  <2>1. /\ NonatLine(x) /\ Declare(x) /\ x \in Item /\ x \notin Entry
    BY <1>5 DEF FileNonat, Item, ReloadAssumption
  <2>2. /\ gen' = SetGen({x}, lastgen) /\ nonats' = nonats \cup {x}
        /\ UNCHANGED <<confnats, snats>>
    BY <1>2, <2>1 DEF NonatLine
  <2>3. \A s \in Gen : snats'[s] \subseteq snats[s] \ {x}
    BY <2>1, <2>2 DEF ListTypes
  <2> QED
    BY <1>2, <1>3, <2>1, <2>2, <2>3, DeclareContents DEF Declare
<1>6. ASSUME NEW x \in Item, FileDelete(x) PROVE Contents'
  BY <1>3, <1>6, DeleteContents DEF FileDelete
<1>7. ASSUME FileOther PROVE Contents'
  BY <1>3, <1>7, ContentsFrame DEF FileOther, ContentVars
<1> QED
  BY <1>4, <1>5, <1>6, <1>7 DEF FileLine

\* A reload that succeeds leaves what it did not declare to gc_incr(), no-NAT
\* tunnels excepted, which are removed at once.
LEMMA FileEndContents ==
    ASSUME ReloadAssumption, IInv, Contents, FileEnd
    PROVE  Contents'
<1> USE DEF IInv, Types, Contents
<1>1. /\ reloading /\ reloading' = FALSE
      /\ nonats' = nonats \ StaleNonats /\ gen' = SetGen(StaleNonats, 0)
      /\ maker' = SetMaker(StaleNonats, 0)
      /\ needgc' = 2 /\ gctodo' = {} /\ accepted' = declared /\ declared' = {}
      /\ UNCHANGED <<confnats, snats, sessions, reload_savedgen, lastgen, needbt, bttodo>>
  BY DEF FileEnd, Finish, Served
<1>2. needbt = 0 /\ lastgen = reload_savedgen + 1
  BY <1>1 DEF OneCursor, Owed
<1>3. Singly' /\ Open' = Open
  BY <1>1, SameOpenKeeps DEF SameOpen, sessions
<1>4. \A y \in Item : y \notin StaleNonats => gen'[y] = gen[y] /\ maker'[y] = maker[y]
  BY <1>1 DEF SetGen, SetMaker
<1>5. /\ \A e \in Entry : e \notin StaleNonats /\ e \in Item
      /\ \A x \in nonats : x \in Item
  BY DEF StaleNonats, ListTypes, Item, ReloadAssumption
<1>6. Owned'
  <2>1. ASSUME NEW s \in Gen, NEW e \in snats'[s]
        PROVE  maker'[e] = s /\ gen'[e] <= FirstGen /\ (s \in Open' => gen'[e] = s)
    BY <1>1, <1>3, <1>4, <1>5, <2>1 DEF Owned, ListTypes
  <2>2. ASSUME NEW y \in nonats'
        PROVE  gen'[y] <= FirstGen => gen'[y] \in Open' /\ maker'[y] = gen'[y]
    BY <1>1, <1>3, <1>4, <1>5, <2>2 DEF Owned
  <2>3. ASSUME NEW e \in confnats'
        PROVE  gen'[e] > FirstGen
    BY <1>1, <1>4, <1>5, <2>3 DEF Owned, ListTypes
  <2> QED
    BY <2>1, <2>2, <2>3 DEF Owned
<1>7. Owed'
  BY <1>1, <1>2 DEF Owed
<1>8. \A y \in Global' : y \in Global /\ y \in Item /\ gen'[y] = gen[y] /\ y \notin StaleNonats
  BY <1>1, <1>4, <1>5 DEF Global, ListTypes
<1>9. Loaded'
  <2>1. \A y \in declared : y \in Global /\ gen[y] = lastgen
    BY <1>1 DEF Loaded, Reread
  <2>2. \A y \in declared : y \in Global'
    BY <1>1, <1>4, <1>5, <2>1 DEF Global, StaleNonats, ListTypes, ReloadTypes
  <2>3. ASSUME NEW y \in Global', y \notin declared
        PROVE  y \in Entry /\ gen[y] < lastgen
    <3>1. gen[y] = reload_savedgen
      BY <1>1, <1>8, <2>3 DEF Loaded, Reread
    <3>2. gen[y] < lastgen /\ gen[y] >= FirstGen
      BY <1>2, <3>1 DEF ReloadTypes, ReloadAssumption
    <3>3. y \notin nonats
      BY <1>8, <2>3, <3>2 DEF StaleNonats
    <3> QED
      BY <1>1, <2>3, <3>2, <3>3 DEF Global, ListTypes
  <2>4. \A y \in Global' : Settled(y)'
    BY <1>1, <1>8, <2>1, <2>3 DEF Settled
  <2> QED
    BY <1>1, <2>2, <2>4 DEF Loaded
<1> QED
  BY <1>3, <1>6, <1>7, <1>9

\* One that fails leaves what it declared to bt_incr(), no-NAT tunnels
\* excepted, which come back to the former generation at once.
LEMMA FileFailsContents ==
    ASSUME ReloadAssumption, IInv, Contents, FileFails
    PROVE  Contents'
<1> USE DEF IInv, Types, Contents
<1> DEFINE new == {x \in nonats : gen[x] > reload_savedgen}
<1>1. /\ reloading /\ reloading' = FALSE
      /\ lastgen' = reload_savedgen /\ gen' = SetGen(new, reload_savedgen)
      /\ needbt' = 2 /\ bttodo' = {} /\ accepted' = accepted \cup declared /\ declared' = {}
      /\ UNCHANGED <<confnats, snats, sessions, reload_savedgen, nonats, maker, needgc, gctodo>>
  BY DEF FileFails, Finish, Served
<1>2. needgc = 0 /\ gctodo = {} /\ lastgen = reload_savedgen + 1
      /\ reload_savedgen > FirstGen /\ reload_savedgen \in Nat
  BY <1>1 DEF OneCursor, Owed, ReloadTypes, ReloadAssumption
<1>3. Singly' /\ Open' = Open
  BY <1>1, SameOpenKeeps DEF SameOpen, sessions
<1>4. /\ \A y \in Item : y \notin new => gen'[y] = gen[y]
      /\ \A y \in Item : y \in new => gen'[y] = reload_savedgen
  BY <1>1 DEF SetGen
<1>5. /\ \A e \in Entry : e \notin new /\ e \in Item
      /\ \A x \in nonats : x \in Item /\ (gen[x] <= FirstGen => x \notin new)
                           /\ (gen[x] > reload_savedgen => x \in new)
      /\ \A x \in new : x \in nonats /\ gen[x] > FirstGen
  BY <1>2 DEF ListTypes, Item, ReloadAssumption
<1> HIDE DEF new
<1>6. \A x \in nonats : gen'[x] > FirstGen <=> gen[x] > FirstGen
  BY <1>2, <1>4, <1>5
<1>7. Owned'
  <2>1. ASSUME NEW s \in Gen, NEW e \in snats'[s]
        PROVE  maker'[e] = s /\ gen'[e] <= FirstGen /\ (s \in Open' => gen'[e] = s)
    BY <1>1, <1>3, <1>4, <1>5, <2>1 DEF Owned, ListTypes
  <2>2. ASSUME NEW y \in nonats'
        PROVE  gen'[y] <= FirstGen => gen'[y] \in Open' /\ maker'[y] = gen'[y]
    <3>1. CASE y \in new
      BY <1>1, <1>2, <1>4, <1>5, <2>2, <3>1 DEF ReloadAssumption
    <3>2. CASE y \notin new
      BY <1>1, <1>3, <1>4, <1>5, <2>2, <3>2 DEF Owned
    <3> QED
      BY <3>1, <3>2
  <2>3. ASSUME NEW e \in confnats'
        PROVE  gen'[e] > FirstGen
    BY <1>1, <1>4, <1>5, <2>3 DEF Owned, ListTypes
  <2> QED
    BY <2>1, <2>2, <2>3 DEF Owned
<1>8. Owed'
  BY <1>1, <1>2 DEF Owed, sessions
<1>9. Global' = Global
  BY <1>1, <1>6 DEF Global
<1>10. ASSUME NEW y \in Global PROVE Settled(y)'
  <2>1. \/ y \in declared /\ gen[y] = lastgen
        \/ gen[y] = reload_savedgen /\ y \in accepted
    BY <1>1 DEF Loaded, Reread
  <2>2. y \in accepted'
    BY <1>1, <2>1
  <2>3. CASE y \in Entry
    BY <1>1, <1>2, <1>4, <1>5, <2>1, <2>2, <2>3 DEF Settled
  <2>4. CASE y \notin Entry
    <3>1. y \in nonats /\ y \in Item
      BY <1>5, <2>4 DEF Global, ListTypes
    <3>2. gen'[y] = reload_savedgen
      BY <1>2, <1>4, <1>5, <2>1, <3>1
    <3> QED
      BY <1>1, <2>2, <3>2 DEF Settled
  <2> QED
    BY <2>3, <2>4
<1>11. Loaded'
  BY <1>1, <1>9, <1>10 DEF Loaded
<1> QED
  BY <1>3, <1>7, <1>8, <1>11

(***************************************************************************)
(* gc_incr() and bt_incr().                                                *)
(***************************************************************************)

\* What is collected is not of the configuration.
LEMMA CollectContents ==
    ASSUME ReloadAssumption, IInv, Contents, NEW e \in Entry, Collect(e),
           ~reloading, e \notin accepted,
           needgc' = needgc, gctodo \ {e} \subseteq gctodo', gctodo' \subseteq gctodo,
           UNCHANGED <<sessions, reload, needbt, declared, accepted>>
    PROVE  Contents'
<1> USE DEF IInv, Types, Contents
<1>1. /\ confnats' = confnats \ {e} /\ nonats' = nonats /\ bttodo' = bttodo
      /\ gen' = SetGen({e}, 0) /\ maker' = SetMaker({e}, 0)
      /\ \A s \in Gen : snats'[s] = snats[s] \ {e}
  BY OffType DEF Collect, ListTypes
<1>2. /\ \A y \in Item : y # e => gen'[y] = gen[y] /\ maker'[y] = maker[y]
      /\ e \notin nonats
  BY <1>1 DEF SetGen, SetMaker, ListTypes, ReloadAssumption
<1>3. Singly' /\ Open' = Open
  BY SameOpenKeeps DEF SameOpen, sessions
<1>4. Owned'
  BY <1>1, <1>2, <1>3 DEF Owned, ListTypes, Item
<1>5. Owed'
  BY <1>1 DEF Owed, sessions, reload
<1>6. \A y : y \in Global' <=> y \in Global /\ y # e
  BY <1>1, <1>2 DEF Global, ListTypes, Item
<1>7. Loaded'
  <2>1. ASSUME NEW y \in Global'
        PROVE  Settled(y)'
    <3>1. y \in Global /\ y # e /\ y \in Item /\ Settled(y)
      BY <1>6, <2>1 DEF Loaded, Global, ListTypes, Item
    <3> QED
      BY <1>1, <1>2, <3>1 DEF Settled, reload
  <2>2. (accepted \cup declared)' \subseteq Global'
    BY <1>6 DEF Loaded, Owed
  <2> QED
    BY <2>1, <2>2 DEF Loaded, reload
<1> QED
  BY <1>3, <1>4, <1>5, <1>7

LEMMA GcContents ==
    ASSUME ReloadAssumption, IInv, Contents,
           GcOrphanEntry \/ GcOrphan \/ GcStart \/ GcVisit \/ GcDone
    PROVE  Contents'
<1> USE DEF IInv, Types, Contents
<1>1. CASE GcOrphanEntry
  <2>1. PICK s \in orphans : \E e \in snats[s] : Collect(e)
    BY <1>1 DEF GcOrphanEntry
  <2>2. PICK e \in snats[s] : Collect(e)
    BY <2>1
  <2>3. /\ s \in Gen /\ e \in Entry /\ e \notin confnats /\ e \notin nonats
    BY <2>1, <2>2 DEF SessionTypes, ListTypes, OneList, ReloadAssumption
  <2>4. e \notin accepted /\ e \notin gctodo
    BY <2>3 DEF Loaded, Global, CursorsOnList
  <2>5. ~reloading /\ UNCHANGED <<sessions, reload, needgc, gctodo, needbt, declared, accepted>>
    BY <1>1 DEF GcOrphanEntry, Collecting, Owed
  <2> QED
    BY <2>2, <2>3, <2>4, <2>5, CollectContents
<1>2. CASE GcOrphan
  <2>1. PICK s \in orphans : snats[s] = {} /\ orphans' = orphans \ {s}
    BY <1>2 DEF GcOrphan
  <2>2. needgc # 0 /\ UNCHANGED <<sslist, lists, reload, collector, history>>
    BY <1>2 DEF GcOrphan, Collecting
  <2>3. Singly' /\ Open' = Open
    BY <2>1, <2>2 DEF Singly, Open
  <2>4. Owned' /\ Owed' /\ Loaded'
    BY <2>2, <2>3 DEF Owned, Owed, Loaded, Global, Reread, Settled, lists, reload, collector, history
  <2> QED
    BY <2>3, <2>4
<1>3. CASE GcStart
  <2>1. /\ orphans = {} /\ needgc = 2 /\ needgc' = 1
        /\ gctodo' = IF gctodo = {} THEN confnats ELSE gctodo
        /\ UNCHANGED <<lists, sessions, reload, needbt, bttodo, history>>
    BY <1>3 DEF GcStart
  <2>2. gctodo' = confnats /\ ~reloading
    BY <2>1 DEF Owed
  <2>3. Singly' /\ Open' = Open
    BY <2>1, SameOpenKeeps DEF SameOpen, sessions
  <2>4. Owned' /\ Owed'
    BY <2>1, <2>2, <2>3 DEF Owned, Owed, lists, sessions, reload, history
  <2>5. Global' = Global
    BY <2>1 DEF Global, lists
  <2>6. ASSUME NEW y \in Global PROVE Settled(y)'
    <3>1. Settled(y)
      BY <2>2 DEF Loaded
    <3>2. y \in Entry => y \in confnats
      BY DEF Global, ListTypes, ReloadAssumption
    <3> QED
      BY <2>1, <2>2, <3>1, <3>2 DEF Settled, lists, reload, history
  <2>7. Loaded'
    BY <2>1, <2>2, <2>5, <2>6 DEF Loaded, lists, reload, history
  <2> QED
    BY <2>3, <2>4, <2>7
<1>4. CASE GcVisit
  <2>1. PICK e \in gctodo :
            /\ gctodo' = gctodo \ {e}
            /\ IF Stale(e) THEN Collect(e) ELSE UNCHANGED <<lists, bttodo, maker>>
    BY <1>4 DEF GcVisit
  <2>2. /\ needgc = 1 /\ UNCHANGED <<sessions, reload, needgc, needbt, declared, accepted>>
    BY <1>4 DEF GcVisit
  <2>3. /\ ~reloading /\ e \in Entry /\ e \in confnats /\ e \in Global
    BY <2>1, <2>2 DEF Owed, CollectorTypes, CursorsOnList, Global
  <2>4. Settled(e) /\ gen[e] > FirstGen
    BY <2>3 DEF Loaded, Owned
  <2>5. Stale(e) <=> e \notin accepted
    <3>1. gen[e] \in Nat /\ lastgen \in Nat /\ gen[e] >= FirstGen
      BY <2>3, <2>4 DEF ListTypes, ReloadTypes, Item, ReloadAssumption
    <3>2. e \in accepted => gen[e] >= lastgen
      BY <2>4, <3>1 DEF Settled
    <3>3. e \notin accepted => gen[e] < lastgen
      BY <2>4 DEF Settled
    <3> QED
      BY <3>1, <3>2, <3>3 DEF Stale
  <2>6. CASE Stale(e)
    BY <2>1, <2>2, <2>3, <2>5, <2>6, CollectContents
  <2>7. CASE ~Stale(e)
    <3>1. UNCHANGED <<lists, bttodo, maker>> /\ e \in accepted
      BY <2>1, <2>5, <2>7
    <3>2. Singly' /\ Open' = Open
      BY <2>2, SameOpenKeeps DEF SameOpen, sessions
    <3>3. Owned' /\ Owed'
      BY <2>2, <3>1, <3>2 DEF Owned, Owed, lists, sessions, reload
    <3>4. Global' = Global
      BY <3>1 DEF Global, lists
    <3>5. ASSUME NEW y \in Global PROVE Settled(y)'
      <4>1. Settled(y)
        BY <2>3 DEF Loaded
      <4> QED
        BY <2>1, <2>2, <3>1, <4>1 DEF Settled, lists, reload
    <3>6. Loaded'
      BY <2>2, <2>3, <3>1, <3>4, <3>5 DEF Loaded, reload
    <3> QED
      BY <3>2, <3>3, <3>6
  <2> QED
    BY <2>6, <2>7
<1>5. CASE GcDone
  <2>1. /\ orphans = {} \/ needgc = 0
        /\ needgc = 1 \/ needgc = 0
        /\ gctodo = {} /\ needgc' = 0 /\ gctodo' = gctodo
        /\ UNCHANGED <<lists, sessions, reload, needbt, bttodo, history>>
    BY <1>5 DEF GcDone, OneCursor
  <2>2. Singly' /\ Open' = Open
    BY <2>1, SameOpenKeeps DEF SameOpen, sessions
  <2>3. Owned' /\ Owed'
    BY <2>1, <2>2 DEF Owned, Owed, lists, sessions, reload, history
  <2>4. Loaded'
    BY <2>1 DEF Loaded, Global, Reread, Settled, lists, reload, history
  <2> QED
    BY <2>2, <2>3, <2>4
<1> QED
  BY <1>1, <1>2, <1>3, <1>4, <1>5

LEMMA BtContents ==
    ASSUME ReloadAssumption, IInv, Contents, BtStart \/ BtVisit \/ BtDone
    PROVE  Contents'
<1> USE DEF IInv, Types, Contents
<1>1. UNCHANGED <<confnats, snats, nonats, sessions, reload, needgc, gctodo, history>>
  BY DEF BtStart, BtVisit, BtDone, lists
<1>2. Singly' /\ Open' = Open
  BY <1>1, SameOpenKeeps DEF SameOpen, sessions
<1>3. CASE BtStart
  <2>1. /\ needbt = 2 /\ needbt' = 1 /\ gen' = gen
        /\ bttodo' = IF bttodo = {} THEN confnats ELSE bttodo
    BY <1>3 DEF BtStart, lists
  <2>2. bttodo' = confnats /\ ~reloading
    BY <2>1 DEF Owed, OneCursor
  <2>3. Owned' /\ Owed'
    BY <1>1, <1>2, <2>1 DEF Owned, Owed, sessions, reload, history
  <2>4. Global' = Global
    BY <1>1, <2>1 DEF Global
  <2>5. ASSUME NEW y \in Global PROVE Settled(y)'
    <3>1. Settled(y)
      BY <2>2 DEF Loaded
    <3>2. y \in Entry => y \in confnats
      BY DEF Global, ListTypes, ReloadAssumption
    <3> QED
      BY <1>1, <2>1, <2>2, <3>1, <3>2 DEF Settled, reload, history
  <2>6. Loaded'
    BY <1>1, <2>2, <2>4, <2>5 DEF Loaded, reload, history
  <2> QED
    BY <1>2, <2>3, <2>6
<1>4. CASE BtVisit
  <2>1. PICK e \in bttodo :
            /\ bttodo' = bttodo \ {e}
            /\ gen' = IF gen[e] > lastgen THEN SetGen({e}, lastgen) ELSE gen
    BY <1>4 DEF BtVisit
  <2>2. needbt = 1 /\ needbt' = needbt
    BY <1>4 DEF BtVisit
  <2>3. /\ ~reloading /\ e \in Entry /\ e \in confnats /\ e \in Global
        /\ e \notin nonats /\ \A s \in Gen : e \notin snats[s]
    BY <2>1, <2>2 DEF OneCursor, CollectorTypes, CursorsOnList, Global, OneList, ListTypes,
                      ReloadAssumption
  <2>4. /\ \A y \in Item : y # e => gen'[y] = gen[y]
        /\ gen'[e] = IF gen[e] > lastgen THEN lastgen ELSE gen[e]
    BY <2>1, <2>3 DEF SetGen, Item
  <2>5. gen'[e] > FirstGen
    BY <2>3, <2>4 DEF Owned, ReloadTypes, ReloadAssumption
  <2>6. Owned'
    BY <1>1, <1>2, <2>3, <2>4, <2>5 DEF Owned, ListTypes, Item, history
  <2>7. Owed'
    BY <1>1, <2>2 DEF Owed, sessions, reload, history
  <2>8. \A y : y \in Global' <=> y \in Global
    BY <1>1, <2>3, <2>4 DEF Global, ListTypes, Item
  <2>9. ASSUME NEW y \in Global PROVE Settled(y)'
    <3>1. Settled(y) /\ y \in Item
      BY <2>3 DEF Loaded, Global, ListTypes, Item
    <3>2. CASE y = e
      <4>1. /\ lastgen \in Nat /\ gen[e] \in Nat
        BY <2>3 DEF ListTypes, ReloadTypes, Item, ReloadAssumption
      <4> QED
        BY <1>1, <2>4, <3>1, <3>2, <4>1 DEF Settled, reload, history
    <3>3. CASE y # e
      BY <1>1, <2>1, <2>2, <2>4, <3>1, <3>3 DEF Settled, reload, history
    <3> QED
      BY <3>2, <3>3
  <2>10. Loaded'
    BY <1>1, <2>3, <2>8, <2>9 DEF Loaded, reload, history
  <2> QED
    BY <1>2, <2>6, <2>7, <2>10
<1>5. CASE BtDone
  <2>1. /\ needbt = 1 \/ needbt = 0
        /\ bttodo = {} /\ needbt' = 0 /\ bttodo' = bttodo /\ gen' = gen
    BY <1>5 DEF BtDone, OneCursor, lists
  <2>2. Owned' /\ Owed' /\ Loaded'
    BY <1>1, <1>2, <2>1 DEF Owned, Owed, Loaded, Global, Reread, Settled, sessions, reload, history
  <2> QED
    BY <1>2, <2>2
<1> QED
  BY <1>3, <1>4, <1>5

LEMMA ContentsStep ==
    ASSUME ReloadAssumption, OneAtATime, IInv, Contents, [Next]_vars
    PROVE  Contents'
<1>1. CASE Loop
  <2>1. UNCHANGED ContentVars
    BY <1>1 DEF Loop, LoopTop, StartCommands, EndTurn, SliceDone, ContentVars, sessions, reload
  <2> QED
    BY <2>1, ContentsFrame
<1>2. CASE UNCHANGED vars
  <2>1. UNCHANGED ContentVars
    BY <1>2 DEF vars, ContentVars, sessions, reload
  <2> QED
    BY <2>1, ContentsFrame
<1>3. CASE Next
  BY <1>1, <1>3, AcceptContents, CommandContents, FileLineContents, FileEndContents,
     FileFailsContents, GcContents, BtContents DEF Next, Incremental
<1> QED
  BY <1>2, <1>3

(***************************************************************************)
(* The theorems about the contents.                                        *)
(***************************************************************************)
THEOREM ContentsInvariance == ASSUME OneAtATime PROVE Spec => [](IInv /\ Contents)
<1>1. Init => IInv /\ Contents
  BY ReloadAssumption, InitIInv, InitContents
<1>2. IInv /\ Contents /\ [Next]_vars => (IInv /\ Contents)'
  BY OneAtATime, ReloadAssumption, StepKeeps, ContentsStep
<1> QED
  BY <1>1, <1>2, PTL DEF Spec

\* No binding and no no-NAT tunnel of the configuration is ever missing, be
\* it re-read late, promoted from a session that closes, or declared by a
\* file that fails.
THEOREM ConfigAlwaysServed == ASSUME OneAtATime PROVE Spec => []ConfigServed
<1>1. Contents => ConfigServed
  BY DEF Contents, Loaded, Global, ConfigServed
<1> QED
  BY <1>1, ContentsInvariance, PTL

\* With nothing left to collect or to bring back, the global list is that of
\* the last reload that succeeded and of those that failed since, and all of
\* it has the last generation.
THEOREM GlobalsWanted == ASSUME OneAtATime PROVE Spec => []GlobalsAreWanted
<1>1. IInv /\ Contents => GlobalsAreWanted
  BY DEF IInv, Contents, OneCursor, Loaded, Settled, Global, Idle, GlobalsAreWanted
<1> QED
  BY <1>1, ContentsInvariance, PTL

\* Nothing is left that no reload and no `session close` would ever remove.
THEOREM AllIsAccounted == ASSUME OneAtATime PROVE Spec => []AllAccounted
<1>1. ASSUME IInv, Contents PROVE AllAccounted
  <2>1. SUFFICES ASSUME Idle, NEW x \in Present
                 PROVE  \/ x \in accepted /\ gen[x] = lastgen
                        \/ maker[x] \in Open /\ gen[x] = maker[x]
    BY DEF AllAccounted
  <2>2. orphans = {} /\ \A y \in Global : y \in accepted /\ gen[y] = lastgen
    BY <1>1, <2>1 DEF Idle, IInv, OneCursor, Contents, Owed, Loaded, Settled
  <2>3. CASE x \in confnats
    BY <2>2, <2>3 DEF Global
  <2>4. CASE \E s \in Gen : x \in snats[s]
    <3>1. PICK s \in Gen : x \in snats[s]
      BY <2>4
    <3>2. s \in Open
      BY <1>1, <2>2, <3>1 DEF IInv, OneList
    <3> QED
      BY <1>1, <3>1, <3>2 DEF Contents, Owned
  <2>5. CASE x \in nonats
    <3>1. gen[x] \in Nat /\ FirstGen \in Nat
      BY <1>1, <2>5, ReloadAssumption DEF IInv, Types, ListTypes, Item, ReloadAssumption
    <3> QED
      BY <1>1, <2>2, <2>5, <3>1 DEF Global, Contents, Owned
  <2> QED
    BY <2>1, <2>3, <2>4, <2>5, PresentIs
<1> QED
  BY <1>1, ContentsInvariance, PTL
(***************************************************************************)
(* The refinement: what the slices do to the configuration is what         *)
(* ConfigStore does.                                                       *)
(***************************************************************************)

\* The status of x, by the lists it is on.
StatusRead ==
    \A x \in Item :
        /\ x \in Global =>
              /\ StatusOf(x) = IF x \in accepted \cup declared THEN Config!Wanted
                                                               ELSE Config!Doomed
              /\ \A s \in Gen : x \notin snats[s]
        /\ x \in nonats /\ x \notin Global =>
              /\ StatusOf(x) = Config!Owned(gen[x])
              /\ gen[x] \in Open
        /\ x \in nonats => \A s \in Gen : x \notin snats[s]
        /\ \A s \in Gen : x \in snats[s] =>
              StatusOf(x) = IF s \in Open THEN Config!Owned(s) ELSE Config!Orphaned
        /\ x \notin Global /\ x \notin nonats /\ (\A s \in Gen : x \notin snats[s]) =>
              StatusOf(x) = Config!Absent

LEMMA StatusIsRead == ASSUME ReloadAssumption, IInv, Contents PROVE StatusRead
<1> USE DEF IInv, Types, Contents
<1> USE DEF Config!Wanted, Config!Doomed, Config!Owned, Config!Orphaned, Config!Absent
<1> SUFFICES ASSUME NEW x \in Item
             PROVE  /\ x \in Global =>
                          /\ StatusOf(x) = IF x \in accepted \cup declared THEN Config!Wanted
                                                                           ELSE Config!Doomed
                          /\ \A s \in Gen : x \notin snats[s]
                    /\ x \in nonats /\ x \notin Global =>
                          /\ StatusOf(x) = Config!Owned(gen[x])
                          /\ gen[x] \in Open
                    /\ x \in nonats => \A s \in Gen : x \notin snats[s]
                    /\ \A s \in Gen : x \in snats[s] =>
                          StatusOf(x) = IF s \in Open THEN Config!Owned(s) ELSE Config!Orphaned
                    /\ x \notin Global /\ x \notin nonats /\ (\A s \in Gen : x \notin snats[s]) =>
                          StatusOf(x) = Config!Absent
  BY DEF StatusRead
<1>1. /\ gen[x] \in Nat /\ lastgen \in Nat /\ lastgen > FirstGen /\ FirstGen \in Nat
  BY DEF ListTypes, ReloadTypes, ReloadAssumption
<1>2. x \in nonats => x \in NoNat /\ \A s \in Gen : x \notin snats[s]
  BY DEF ListTypes, ReloadAssumption
<1>3. x \in Global => x \in Present /\ \A s \in Gen : x \notin snats[s]
  BY <1>2, PresentIs DEF Global, OneList
<1>4. ASSUME x \in Global
      PROVE  StatusOf(x) = IF x \in accepted \cup declared THEN Config!Wanted ELSE Config!Doomed
  <2>1. StatusOf(x) = [st |-> IF reloading \/ gen[x] >= lastgen THEN "wanted" ELSE "doomed"]
    BY <1>3, <1>4 DEF StatusOf
  <2>2. reloading \/ gen[x] >= lastgen <=> x \in accepted \cup declared
    <3>1. CASE reloading
      BY <1>4, <3>1 DEF Loaded, Reread
    <3>2. CASE ~reloading
      <4>1. Settled(x) /\ x \notin declared
        BY <1>4, <3>2 DEF Loaded, Owed
      <4> QED
        BY <1>1, <3>2, <4>1 DEF Settled
    <3> QED
      BY <3>1, <3>2
  <2> QED
    BY <2>1, <2>2
<1>5. ASSUME x \in nonats, x \notin Global
      PROVE  StatusOf(x) = Config!Owned(gen[x]) /\ gen[x] \in Open
  <2>1. x \in Present /\ gen[x] \in Open /\ Maker(x) = gen[x]
    BY <1>1, <1>2, <1>5, PresentIs DEF Owned, Global, Maker
  <2> QED
    BY <1>5, <2>1 DEF StatusOf
<1>6. ASSUME NEW s \in Gen, x \in snats[s]
      PROVE  StatusOf(x) = IF s \in Open THEN Config!Owned(s) ELSE Config!Orphaned
  <2>1. x \in Present /\ x \notin Global /\ x \notin NoNat
    BY <1>3, <1>6, PresentIs DEF ListTypes, ReloadAssumption
  <2>2. \A r \in Gen : x \in snats[r] => r = s
    BY <1>6 DEF OneList
  <2>3. Maker(x) = s
    BY <1>6, <2>1, <2>2 DEF Maker
  <2> QED
    BY <2>1, <2>3 DEF StatusOf
<1>7. ASSUME x \notin Global, x \notin nonats, \A s \in Gen : x \notin snats[s]
      PROVE  StatusOf(x) = Config!Absent
  <2>1. x \notin Present
    BY <1>7, PresentIs DEF Global
  <2> QED
    BY <1>7, <2>1 DEF StatusOf
<1> HIDE DEF Config!Wanted, Config!Doomed, Config!Owned, Config!Orphaned, Config!Absent,
             IInv, Types, Contents
<1> QED
  BY <1>2, <1>3, <1>4, <1>5, <1>6, <1>7

\* The status of y is the same after a step that leaves it where it was.
LEMMA SameStatus ==
    ASSUME StatusRead, StatusRead', NEW y \in Item,
           y \in Global' <=> y \in Global,
           y \in nonats' <=> y \in nonats,
           \A s \in Gen : y \in snats'[s] <=> y \in snats[s],
           y \in Global => ((y \in accepted \cup declared)' <=> y \in accepted \cup declared),
           y \in nonats /\ y \notin Global => gen'[y] = gen[y],
           \A s \in Gen : y \in snats[s] => (s \in Open' <=> s \in Open)
    PROVE  StatusOf(y)' = StatusOf(y)
<1>1. CASE y \in Global
  BY <1>1 DEF StatusRead
<1>2. CASE y \in nonats /\ y \notin Global
  BY <1>2 DEF StatusRead
<1>3. CASE \E s \in Gen : y \in snats[s]
  BY <1>3 DEF StatusRead
<1>4. CASE y \notin Global /\ y \notin nonats /\ \A s \in Gen : y \notin snats[s]
  BY <1>4 DEF StatusRead
<1> QED
  BY <1>1, <1>2, <1>3, <1>4

\* One item changes.
LEMMA PutIs ==
    ASSUME NEW x \in Item, NEW v, StatusOf(x)' = v,
           \A y \in Item : y # x => StatusOf(y)' = StatusOf(y)
    PROVE  Config!Put(x, v)
BY DEF Config!Put

\* None does.
LEMMA NoneChanges ==
    ASSUME \A y \in Item : StatusOf(y)' = StatusOf(y)
    PROVE  [x \in Item |-> StatusOf(x)]' = [x \in Item |-> StatusOf(x)]
OBVIOUS

\* The loop, and what the cursors do but to remove.
LEMMA ConfigFrame ==
    ASSUME ReloadAssumption, IInv, StatusRead, StatusRead',
           UNCHANGED <<confnats, snats, nonats, sslist, reloading, accepted, declared>>,
           \A y \in nonats : gen'[y] = gen[y]
    PROVE  UNCHANGED Config!cvars
<1>1. Open' = Open
  BY DEF Open
<1>2. Global' = Global
  BY DEF Global
<1>3. \A y \in Item : StatusOf(y)' = StatusOf(y)
  BY <1>1, <1>2, SameStatus
<1> QED
  BY <1>1, <1>3, NoneChanges DEF Config!cvars

\* A binding taken off its list.
LEMMA RemoveStatus ==
    ASSUME ReloadAssumption, IInv, IInv', StatusRead, StatusRead', NEW x \in Item,
           confnats' = confnats \ {x}, nonats' = nonats \ {x},
           \A s \in Gen : snats'[s] = snats[s] \ {x},
           \A y \in Item : y # x => gen'[y] = gen[y],
           sslist' = sslist,
           \A y \in Item : y # x =>
               ((y \in accepted \cup declared)' <=> y \in accepted \cup declared)
    PROVE  Config!Put(x, Config!Absent)
<1>1. Open' = Open
  BY DEF Open
<1>2. \A y \in Item : y # x => (y \in Global' <=> y \in Global)
  BY DEF Global
<1>3. \A y \in Item : y # x => StatusOf(y)' = StatusOf(y)
  BY <1>1, <1>2, SameStatus
<1>4. x \notin Global' /\ x \notin nonats' /\ \A s \in Gen : x \notin snats'[s]
  BY DEF Global
<1>5. StatusOf(x)' = Config!Absent
  BY <1>4 DEF StatusRead
<1> QED
  BY <1>3, <1>5, PutIs

\* Boot, and a session that opens.
LEMMA ConfigInit == ASSUME ReloadAssumption, Init PROVE Config!CInit
<1>1. StatusRead
  BY InitIInv, InitContents, StatusIsRead
<1>2. Open = {Stdio}
  BY DEF Init, Open, ToSet
<1>3. \A x \in Item : StatusOf(x) \in {Config!Absent, Config!Wanted}
  <2> TAKE x \in Item
  <2>1. /\ \A s \in Gen : x \notin snats[s]
        /\ accepted = confnats \cup nonats
        /\ \A y \in nonats : y \in Item /\ gen[y] > FirstGen
    BY DEF Init, Item, ReloadAssumption
  <2>2. Global = confnats \cup nonats
    BY <2>1 DEF Global
  <2> QED
    BY <1>1, <2>1, <2>2 DEF StatusRead
<1> QED
  BY <1>2, <1>3 DEF Config!CInit, Init

LEMMA AcceptConfig ==
    ASSUME ReloadAssumption, IInv, Contents, StatusRead, StatusRead', Accept
    PROVE  Config!CNext
<1> USE DEF IInv, Types
<1>1. /\ UNCHANGED <<lists, reload, collector, history>>
      /\ sslist' = <<NextGen>> \o sslist /\ orphans' = orphans
  BY DEF Accept
<1>2. NextGen \in Gen /\ NextGen \notin Open /\ NextGen \notin orphans
  BY NextGenType DEF Accept, InUse
<1>3. Open' = Open \cup {NextGen}
  BY <1>1, <1>2, PrependKeeps DEF SessionTypes, Open, Contents, Singly
<1>4. snats[NextGen] = {}
  BY <1>2 DEF OneList
<1>5. \A y \in Item : StatusOf(y)' = StatusOf(y)
  <2>1. Global' = Global
    BY <1>1 DEF Global, lists
  <2> QED
    BY <1>1, <1>3, <1>4, <2>1, SameStatus DEF lists, history
<1>6. \A x \in Item : StatusOf(x) # Config!Owned(NextGen)
  <2> TAKE x \in Item
  <2> USE DEF Config!Wanted, Config!Doomed, Config!Owned, Config!Orphaned, Config!Absent
  <2>1. CASE x \in Global
    BY <2>1 DEF StatusRead
  <2>2. CASE x \in nonats /\ x \notin Global
    BY <1>2, <2>2 DEF StatusRead
  <2>3. CASE \E s \in Gen : x \in snats[s]
    <3>1. PICK s \in Gen : x \in snats[s]
      BY <2>3
    <3>2. s # NextGen
      BY <1>4, <3>1
    <3>3. StatusOf(x) = IF s \in Open THEN Config!Owned(s) ELSE Config!Orphaned
      BY <3>1 DEF StatusRead
    <3> QED
      BY <3>2, <3>3
  <2>4. CASE x \notin Global /\ x \notin nonats /\ \A s \in Gen : x \notin snats[s]
    BY <2>4 DEF StatusRead
  <2> QED
    BY <2>1, <2>2, <2>3, <2>4
<1>7. Config!OpenSession(NextGen)
  BY <1>1, <1>2, <1>3, <1>5, <1>6, NoneChanges DEF Config!OpenSession, reload, history
<1> QED
  BY <1>2, <1>7 DEF Config!CNext

\* A line of a session makes what there is not.
LEMMA MakeConfig ==
    ASSUME ReloadAssumption, IInv, StatusRead, StatusRead',
           NEW x \in Item, NEW s \in Open, s \in Gen, x \notin Present, ~reloading,
           UNCHANGED <<confnats, sslist, reload, accepted, declared>>,
           gen'[x] = s, \A y \in Item : y # x => gen'[y] = gen[y],
           nonats' = nonats \cup ({x} \cap NoNat),
           \A r \in Gen : snats'[r] = IF r = s THEN snats[r] \cup ({x} \cap Entry) ELSE snats[r]
    PROVE  Config!CNext
<1> USE DEF IInv, Types
<1>1. x \notin confnats /\ x \notin nonats /\ \A r \in Gen : x \notin snats[r]
  BY PresentIs
<1>2. Open' = Open
  BY DEF Open
<1>3. ~(s > FirstGen)
  BY DEF Gen, ReloadAssumption
<1>4. Global' = Global /\ x \notin Global
  <2>1. \A y : y \in nonats' /\ gen'[y] > FirstGen <=> y \in nonats /\ gen[y] > FirstGen
    <3> TAKE y
    <3>1. CASE y = x
      BY <1>1, <1>3, <3>1
    <3>2. CASE y # x
      BY <3>2 DEF ListTypes, Item
    <3> QED
      BY <3>1, <3>2
  <2> QED
    BY <1>1, <2>1 DEF Global
<1>5. \A y \in Item : y # x => StatusOf(y)' = StatusOf(y)
  BY <1>2, <1>4, SameStatus
<1>6. StatusOf(x) = Config!Absent
  BY <1>1, <1>4 DEF StatusRead
<1>7. StatusOf(x)' = Config!Owned(s)
  <2>1. CASE x \in Entry
    <3>1. x \in snats'[s] /\ s \in Open'
      BY <1>2, <2>1
    <3>2. StatusOf(x)' = IF s \in Open' THEN Config!Owned(s) ELSE Config!Orphaned
      BY <3>1 DEF StatusRead
    <3> QED
      BY <3>1, <3>2
  <2>2. CASE x \in NoNat
    BY <1>4, <2>2 DEF StatusRead
  <2> QED
    BY <2>1, <2>2 DEF Item
<1>8. Config!Put(x, Config!Owned(s))
  BY <1>5, <1>7, PutIs
<1>9. Config!Make(x, s)
  BY <1>2, <1>6, <1>8 DEF Config!Make, reload
<1> QED
  BY <1>9 DEF Config!CNext

LEMMA CmdLineConfig ==
    ASSUME ReloadAssumption, OneAtATime, IInv, StatusRead, StatusRead', NEW x \in Item,
           (x \in Entry /\ CmdNat(x)) \/ (x \in NoNat /\ CmdNonat(x))
    PROVE  Config!CNext
<1> USE DEF IInv, Types
<1> DEFINE s == Head(turn)
<1>1. ~reloading /\ curgen = s /\ s \in Open /\ s \in Gen /\ s < FirstGen
  BY OwnGeneration DEF CmdNat, CmdNonat
<1>2. UNCHANGED <<sessions, reload, declared, accepted>>
  BY DEF CmdNat, CmdNonat
<1> HIDE DEF s
<1>3. CASE x \in Entry /\ CmdNat(x)
  <2>1. /\ x \notin Present
        /\ snats' = [snats EXCEPT ![s] = @ \cup {x}] /\ confnats' = confnats
        /\ nonats' = nonats /\ gen' = SetGen({x}, s)
    BY <1>1, <1>3 DEF CmdNat, NatLine, AddEntry, Enlist, s
  <2>2. /\ \A r \in Gen : snats'[r] = IF r = s THEN snats[r] \cup ({x} \cap Entry) ELSE snats[r]
        /\ nonats' = nonats \cup ({x} \cap NoNat)
    BY <1>1, <1>3, <2>1 DEF ListTypes, ReloadAssumption
  <2>3. gen'[x] = s /\ \A y \in Item : y # x => gen'[y] = gen[y]
    BY <2>1 DEF SetGen
  <2> QED
    BY <1>1, <1>2, <2>1, <2>2, <2>3, MakeConfig DEF sessions
<1>4. CASE x \in NoNat /\ CmdNonat(x)
  <2>1. /\ x \notin nonats /\ snats' = snats /\ confnats' = confnats
        /\ nonats' = nonats \cup {x} /\ gen' = SetGen({x}, s)
    BY <1>1, <1>4 DEF CmdNonat, NonatLine
  <2>2. x \notin confnats /\ x \notin Entry /\ \A r \in Gen : x \notin snats[r]
    BY <1>4 DEF ListTypes, ReloadAssumption
  <2>3. x \notin Present
    BY <2>1, <2>2, PresentIs
  <2>4. gen'[x] = s /\ \A y \in Item : y # x => gen'[y] = gen[y]
    BY <2>1 DEF SetGen
  <2>5. /\ \A r \in Gen : snats'[r] = IF r = s THEN snats[r] \cup ({x} \cap Entry) ELSE snats[r]
        /\ nonats' = nonats \cup ({x} \cap NoNat)
    BY <1>4, <2>1, <2>2
  <2> QED
    BY <1>1, <1>2, <2>1, <2>3, <2>4, <2>5, MakeConfig DEF sessions
<1> QED
  BY <1>3, <1>4

\* A deletion, by a session or by the file.
LEMMA DeleteConfig ==
    ASSUME ReloadAssumption, IInv, IInv', Contents, StatusRead, StatusRead', NEW x \in Item,
           DeleteLine(x), UNCHANGED <<sslist, reloading>>
    PROVE  Config!CNext
<1> USE DEF IInv, Types
<1>1. /\ gen' = SetGen({x}, 0)
      /\ declared' = declared \ {x} /\ accepted' = accepted \ {x}
  BY DEF DeleteLine, DelEntry, DelNonat
<1>2. \A y \in Item : y # x => gen'[y] = gen[y]
  BY <1>1 DEF SetGen
<1>3. /\ confnats' = confnats \ {x} /\ nonats' = nonats \ {x}
      /\ \A r \in Gen : snats'[r] = snats[r] \ {x}
      /\ x \in confnats \/ x \in nonats \/ \E s \in Gen : x \in snats[s]
  <2>1. CASE x \in Entry
    <3>1. x \notin nonats
      BY <2>1 DEF ListTypes, ReloadAssumption
    <3>2. DelEntry(x)
      BY <2>1 DEF DeleteLine
    <3> QED
      BY <3>1, <3>2, OffType, PresentIs DEF DelEntry, ListTypes
  <2>2. CASE x \notin Entry
    <3>1. x \notin confnats /\ (\A r \in Gen : x \notin snats[r])
      BY <2>2 DEF ListTypes
    <3> QED
      BY <2>2, <3>1 DEF DeleteLine, DelNonat, ListTypes
  <2> QED
    BY <2>1, <2>2
<1>4. Config!Put(x, Config!Absent)
  BY <1>1, <1>2, <1>3, RemoveStatus
<1>5. StatusOf(x) # Config!Absent
  <2> USE DEF Config!Wanted, Config!Doomed, Config!Owned, Config!Orphaned, Config!Absent
  <2>1. CASE x \in Global
    BY <2>1 DEF StatusRead
  <2>2. CASE x \in nonats /\ x \notin Global
    BY <2>2 DEF StatusRead
  <2>3. CASE \E s \in Gen : x \in snats[s]
    BY <2>3 DEF StatusRead
  <2> QED
    BY <1>3, <2>1, <2>2, <2>3 DEF Global
<1>6. Open' = Open
  BY DEF Open
<1>7. Config!Delete(x)
  BY <1>1, <1>4, <1>5, <1>6 DEF Config!Delete
<1> QED
  BY <1>7 DEF Config!CNext

\* A session that closes takes what it made, or leaves it to the collector.
LEMMA CloseConfig ==
    ASSUME ReloadAssumption, OneAtATime, IInv, IInv', Contents, StatusRead, StatusRead',
           NEW c \in Gen, CmdClose(c)
    PROVE  Config!CNext
<1> USE DEF IInv, Types
<1> DEFINE mine == {x \in nonats : gen[x] = c}
           marked == {e \in snats[c] : gen[e] = c}
<1>1. ~reloading
  BY OwnGeneration DEF CmdClose
<1>2. /\ Orphan(c) /\ nonats' = nonats \ mine
      /\ gen' = [x \in Item |-> IF x \in mine THEN 0
                                ELSE IF x \in marked THEN FirstGen ELSE gen[x]]
      /\ UNCHANGED <<confnats, snats, accepted, declared, reload>>
  BY DEF CmdClose, CloseSession
<1>3. PICK i \in DOMAIN sslist : sslist[i] = c /\ sslist' = RemoveAt(sslist, i)
  BY <1>2 DEF Orphan
<1>4. /\ Open' \subseteq Open \ {c} /\ Open \subseteq Open' \cup {c}
  BY <1>3, RemoveAtKeeps DEF SessionTypes, Contents, Singly, Open
<1>5. c \in Open /\ c # Stdio /\ Open' = Open \ {c}
  <2>1. c \in Open
    <3>1. i \in 1..Len(sslist)
      BY <1>3 DEF SessionTypes
    <3> QED
      BY <1>3, <3>1 DEF Open, ToSet
  <2>2. c # Stdio
    BY DEF CmdClose, CloseSession, Locked
  <2> QED
    BY <1>4, <2>1, <2>2
<1>6. ~(c > FirstGen) /\ ~(0 > FirstGen)
  BY DEF Gen, ReloadAssumption
<1>7. \A x \in nonats : x \notin marked /\ x \in Item
  BY DEF ListTypes, Item, ReloadAssumption
<1>8. Global' = Global
  <2>1. ASSUME NEW x
        PROVE  x \in nonats' /\ gen'[x] > FirstGen <=> x \in nonats /\ gen[x] > FirstGen
    <3>1. CASE x \in mine
      BY <1>2, <1>6, <3>1
    <3>2. CASE x \notin mine
      BY <1>2, <1>7, <3>2
    <3> QED
      BY <3>1, <3>2
  <2> QED
    BY <1>2, <2>1 DEF Global
<1>9. \A x \in mine : x \in nonats /\ x \notin Global /\ gen[x] = c
  <2>1. \A x \in mine : x \notin confnats
    BY DEF ListTypes, ReloadAssumption
  <2> QED
    BY <1>6, <2>1 DEF Global
<1>10. ASSUME NEW y \in Item, y \notin mine, y \notin snats[c]
       PROVE  StatusOf(y)' = StatusOf(y) /\ StatusOf(y) # Config!Owned(c)
  <2>1. gen'[y] = gen[y]
    BY <1>2, <1>10
  <2>2. \A s \in Gen : y \in snats[s] => s # c /\ (s \in Open' <=> s \in Open)
    BY <1>5, <1>10
  <2>3. y \in nonats' <=> y \in nonats
    BY <1>2, <1>10
  <2>4. StatusOf(y)' = StatusOf(y)
    BY <1>2, <1>8, <2>1, <2>2, <2>3, SameStatus
  <2>5. StatusOf(y) # Config!Owned(c)
    <3> USE DEF Config!Wanted, Config!Doomed, Config!Owned, Config!Orphaned, Config!Absent
    <3>1. CASE y \in Global
      BY <3>1 DEF StatusRead
    <3>2. CASE y \in nonats /\ y \notin Global
      <4>1. gen[y] # c
        BY <1>10, <3>2
      <4>2. StatusOf(y) = Config!Owned(gen[y])
        BY <3>2 DEF StatusRead
      <4> QED
        BY <4>1, <4>2
    <3>3. CASE \E s \in Gen : y \in snats[s]
      <4>1. PICK s \in Gen : y \in snats[s]
        BY <3>3
      <4>2. StatusOf(y) = IF s \in Open THEN Config!Owned(s) ELSE Config!Orphaned
        BY <4>1 DEF StatusRead
      <4> QED
        BY <2>2, <4>1, <4>2
    <3>4. CASE y \notin Global /\ y \notin nonats /\ \A s \in Gen : y \notin snats[s]
      BY <3>4 DEF StatusRead
    <3> QED
      BY <3>1, <3>2, <3>3, <3>4
  <2> QED
    BY <2>4, <2>5
<1>11. ASSUME NEW y \in Item, y \in mine
       PROVE  StatusOf(y) = Config!Owned(c) /\ StatusOf(y)' = Config!Absent
  <2>1. y \in nonats /\ y \notin Global /\ gen[y] = c
    BY <1>9, <1>11
  <2>2. StatusOf(y) = Config!Owned(c)
    BY <2>1 DEF StatusRead
  <2>3. y \notin Global' /\ y \notin nonats' /\ \A s \in Gen : y \notin snats'[s]
    BY <1>2, <1>8, <1>11, <2>1 DEF StatusRead
  <2>4. StatusOf(y)' = Config!Absent
    BY <2>3 DEF StatusRead
  <2> QED
    BY <2>2, <2>4
<1>12. ASSUME NEW y \in Item, y \in snats[c]
       PROVE  StatusOf(y) = Config!Owned(c) /\ StatusOf(y)' = Config!Orphaned
  <2>1. StatusOf(y) = Config!Owned(c)
    BY <1>5, <1>12 DEF StatusRead
  <2>2. y \in snats'[c] /\ c \notin Open'
    BY <1>2, <1>5, <1>12
  <2>3. StatusOf(y)' = IF c \in Open' THEN Config!Owned(c) ELSE Config!Orphaned
    BY <2>2 DEF StatusRead
  <2> QED
    BY <2>1, <2>2, <2>3
<1> HIDE DEF mine, marked
<1>13. \A y \in Item : StatusOf(y)' \in IF StatusOf(y) = Config!Owned(c)
                                        THEN {Config!Orphaned, Config!Absent}
                                        ELSE {StatusOf(y)}
  BY <1>10, <1>11, <1>12
<1>14. Config!CloseSession(c)
  BY <1>1, <1>2, <1>5, <1>13 DEF Config!CloseSession, reload
<1> QED
  BY <1>14 DEF Config!CNext

\* `reload` begins with nothing declared and nothing left to remove.
LEMMA BeginConfig ==
    ASSUME ReloadAssumption, IInv, Contents, StatusRead, StatusRead', CmdReload
    PROVE  Config!CNext
<1> USE DEF IInv, Types
<1>1. /\ ~reloading /\ needgc = 0 /\ needbt = 0 /\ reloading' = TRUE /\ declared' = {}
      /\ UNCHANGED <<lists, sessions, collector, accepted>>
  BY DEF CmdReload
<1>2. gctodo = {} /\ bttodo = {} /\ orphans = {} /\ declared = {}
  BY <1>1 DEF OneCursor, Contents, Owed
<1>3. Open' = Open /\ Global' = Global
  BY <1>1 DEF Open, Global, lists, sessions
<1>4. \A y \in Item : StatusOf(y)' = StatusOf(y)
  BY <1>1, <1>2, <1>3, SameStatus DEF lists
<1>5. \A y \in Item : StatusOf(y) \notin {Config!Doomed, Config!Orphaned}
  <2> TAKE y \in Item
  <2> USE DEF Config!Wanted, Config!Doomed, Config!Owned, Config!Orphaned, Config!Absent
  <2>1. CASE y \in Global
    <3>1. y \in accepted
      BY <1>1, <1>2, <2>1 DEF Contents, Loaded, Settled
    <3> QED
      BY <2>1, <3>1 DEF StatusRead
  <2>2. CASE y \in nonats /\ y \notin Global
    BY <2>2 DEF StatusRead
  <2>3. CASE \E s \in Gen : y \in snats[s]
    <3>1. PICK s \in Gen : y \in snats[s]
      BY <2>3
    <3>2. s \in Open
      BY <1>2, <3>1 DEF OneList
    <3>3. StatusOf(y) = IF s \in Open THEN Config!Owned(s) ELSE Config!Orphaned
      BY <3>1 DEF StatusRead
    <3> QED
      BY <3>2, <3>3
  <2>4. CASE y \notin Global /\ y \notin nonats /\ \A s \in Gen : y \notin snats[s]
    BY <2>4 DEF StatusRead
  <2> QED
    BY <2>1, <2>2, <2>3, <2>4
<1>6. Config!Begin
  BY <1>1, <1>3, <1>4, <1>5, NoneChanges DEF Config!Begin
<1> QED
  BY <1>6 DEF Config!CNext

\* A line of the file.
LEMMA DeclareConfig ==
    ASSUME ReloadAssumption, IInv, StatusRead, StatusRead', reloading,
           NEW x \in Item,
           gen'[x] = lastgen, \A y \in Item : y # x => gen'[y] = gen[y],
           declared' = declared \cup {x}, accepted' = accepted,
           confnats' = confnats \cup ({x} \cap Entry),
           nonats' = nonats \cup ({x} \cap NoNat),
           \A s \in Gen : snats'[s] = snats[s] \ {x},
           UNCHANGED <<sslist, reloading>>
    PROVE  Config!CNext
<1> USE DEF IInv, Types
<1>1. lastgen > FirstGen
  BY DEF ReloadTypes, ReloadAssumption
<1>2. Open' = Open
  BY DEF Open
<1>3. \A y : y \in Global' <=> y \in Global \/ y = x
  <2> TAKE y
  <2>1. CASE y = x
    BY <1>1, <2>1 DEF Global, Item
  <2>2. CASE y # x
    BY <2>2 DEF Global, ListTypes, Item
  <2> QED
    BY <2>1, <2>2
<1>4. \A y \in Item : y # x => StatusOf(y)' = StatusOf(y)
  BY <1>2, <1>3, SameStatus
<1>5. StatusOf(x)' = Config!Wanted
  BY <1>3 DEF StatusRead
<1>6. Config!Put(x, Config!Wanted)
  BY <1>4, <1>5, PutIs
<1>7. Config!Declare(x)
  BY <1>2, <1>6 DEF Config!Declare
<1> QED
  BY <1>7 DEF Config!CNext

LEMMA FileLineConfig ==
    ASSUME ReloadAssumption, IInv, IInv', Contents, StatusRead, StatusRead', FileLine
    PROVE  Config!CNext \/ UNCHANGED Config!cvars
<1> USE DEF IInv, Types
<1>1. ReadLine
  BY DEF FileLine, FileNat, FileNonat, FileDelete, FileOther
<1>2. /\ reloading /\ curgen = lastgen /\ ~(curgen < FirstGen)
      /\ UNCHANGED <<sslist, reloading>>
  BY <1>1 DEF ReadLine, Served, ReloadTypes, ReloadAssumption, sessions
<1>3. ASSUME NEW e \in Entry, FileNat(e) PROVE Config!CNext
  <2>1. /\ AddEntry(e, reload_session) \/ RenewEntry(e)
        /\ Declare(e) /\ e \in Item /\ e \notin NoNat
    BY <1>3 DEF FileNat, NatLine, Item, ReloadAssumption
  <2>2. /\ gen' = SetGen({e}, lastgen) /\ nonats' = nonats
    BY <1>2, <2>1 DEF AddEntry, RenewEntry
  <2>3. gen'[e] = lastgen /\ \A y \in Item : y # e => gen'[y] = gen[y]
    BY <2>1, <2>2 DEF SetGen
  <2>4. /\ confnats' = confnats \cup {e}
        /\ \A s \in Gen : snats'[s] = snats[s] \ {e}
    <3>1. CASE AddEntry(e, reload_session)
      <4>1. \A s \in Gen : e \notin snats[s]
        BY <3>1, PresentIs DEF AddEntry
      <4> QED
        BY <1>2, <3>1, <4>1 DEF AddEntry, Enlist
    <3>2. CASE RenewEntry(e) /\ gen[e] <= FirstGen
      BY <3>2, OffType DEF RenewEntry, ListTypes
    <3>3. CASE RenewEntry(e) /\ ~(gen[e] <= FirstGen)
      <4>1. /\ snats' = snats /\ confnats' = confnats /\ e \in Present
        BY <3>3 DEF RenewEntry
      <4>2. \A s \in Gen : e \notin snats[s]
        BY <3>3 DEF Contents, Owned
      <4>3. e \in confnats
        BY <2>1, <4>1, <4>2, PresentIs DEF ListTypes
      <4> QED
        BY <4>1, <4>2, <4>3
    <3> QED
      BY <2>1, <3>1, <3>2, <3>3
  <2> QED
    BY <1>2, <2>1, <2>2, <2>3, <2>4, DeclareConfig DEF Declare
<1>4. ASSUME NEW x \in NoNat, FileNonat(x) PROVE Config!CNext
  <2>1. /\ NonatLine(x) /\ Declare(x) /\ x \in Item /\ x \notin Entry
    BY <1>4 DEF FileNonat, Item, ReloadAssumption
  <2>2. /\ gen' = SetGen({x}, lastgen) /\ nonats' = nonats \cup {x}
        /\ UNCHANGED <<confnats, snats>>
    BY <1>2, <2>1 DEF NonatLine
  <2>3. gen'[x] = lastgen /\ \A y \in Item : y # x => gen'[y] = gen[y]
    BY <2>1, <2>2 DEF SetGen
  <2>4. \A s \in Gen : snats'[s] = snats[s] \ {x}
    BY <2>1, <2>2 DEF ListTypes
  <2> QED
    BY <1>2, <2>1, <2>2, <2>3, <2>4, DeclareConfig DEF Declare
<1>5. ASSUME NEW x \in Item, FileDelete(x) PROVE Config!CNext
  BY <1>2, <1>5, DeleteConfig DEF FileDelete
<1>6. ASSUME FileOther PROVE UNCHANGED Config!cvars
  BY <1>2, <1>6, ConfigFrame DEF FileOther, lists, history
<1> QED
  BY <1>3, <1>4, <1>5, <1>6 DEF FileLine

\* A load that succeeds dooms all that it did not declare, in one step.
LEMMA CommitConfig ==
    ASSUME ReloadAssumption, IInv, Contents, StatusRead, StatusRead', FileEnd
    PROVE  Config!CNext
<1> USE DEF IInv, Types
<1>1. /\ reloading /\ reloading' = FALSE
      /\ nonats' = nonats \ StaleNonats /\ gen' = SetGen(StaleNonats, 0)
      /\ accepted' = declared /\ declared' = {}
      /\ UNCHANGED <<confnats, snats, sslist>>
  BY DEF FileEnd, Finish, Served, sessions
<1>2. Open' = Open
  BY <1>1 DEF Open
<1>3. \A y \in Item : y \notin StaleNonats => gen'[y] = gen[y]
  BY <1>1 DEF SetGen
<1>4. \A x \in StaleNonats : x \in Global /\ x \notin confnats /\ x \notin declared
                             /\ \A s \in Gen : x \notin snats[s]
  <2> TAKE x \in StaleNonats
  <2>1. x \in nonats /\ gen[x] >= FirstGen /\ gen[x] < lastgen /\ x \in Item
    BY DEF StaleNonats, ListTypes, Item
  <2>2. gen[x] > FirstGen
    <3>1. FirstGen \notin Open
      BY DEF Open, SessionTypes, Gen, ReloadAssumption, ToSet
    <3>2. gen[x] <= FirstGen => gen[x] \in Open
      BY <2>1 DEF Contents, Owned
    <3>3. gen[x] # FirstGen
      BY <3>1, <3>2 DEF ReloadAssumption
    <3>4. gen[x] \in Nat /\ FirstGen \in Nat
      BY <2>1 DEF ListTypes, ReloadAssumption
    <3> QED
      BY <2>1, <3>3, <3>4
  <2>3. x \in Global /\ x \notin confnats /\ \A s \in Gen : x \notin snats[s]
    BY <2>1, <2>2 DEF Global, ListTypes, ReloadAssumption
  <2>4. x \notin declared
    <3>1. gen[x] # lastgen
      BY <2>1 DEF ListTypes, ReloadTypes, ReloadAssumption
    <3> QED
      BY <1>1, <2>3, <3>1 DEF Contents, Loaded, Reread
  <2> QED
    BY <2>3, <2>4
<1>5. ASSUME NEW y \in Item, y \notin StaleNonats
      PROVE  /\ y \in nonats' <=> y \in nonats
             /\ y \in Global' <=> y \in Global
             /\ gen'[y] = gen[y]
  BY <1>1, <1>3, <1>5 DEF Global
<1>6. ASSUME NEW y \in Item
      PROVE  StatusOf(y)' \in IF StatusOf(y) = Config!Wanted /\ y \notin declared
                              THEN {Config!Doomed, Config!Absent}
                              ELSE {StatusOf(y)}
  <2>1. y \in Global => y \in accepted \cup declared
    BY <1>1 DEF Contents, Loaded, Reread
  <2>2. CASE y \in StaleNonats
    <3>1. StatusOf(y) = Config!Wanted /\ y \notin declared
      BY <1>4, <2>1, <2>2 DEF StatusRead
    <3>2. y \notin Global' /\ y \notin nonats' /\ \A s \in Gen : y \notin snats'[s]
      BY <1>1, <1>4, <2>2 DEF Global
    <3>3. StatusOf(y)' = Config!Absent
      BY <3>2 DEF StatusRead
    <3> QED
      BY <3>1, <3>3
  <2>3. CASE y \notin StaleNonats /\ y \in Global /\ y \notin declared
    <3>1. StatusOf(y) = Config!Wanted
      BY <2>1, <2>3 DEF StatusRead
    <3>2. StatusOf(y)' = Config!Doomed
      BY <1>1, <1>5, <2>3 DEF StatusRead
    <3> QED
      BY <2>3, <3>1, <3>2
  <2>4. CASE y \notin StaleNonats /\ (y \in Global => y \in declared)
    <3>1. StatusOf(y)' = StatusOf(y)
      BY <1>1, <1>2, <1>5, <2>4, SameStatus
    <3>2. StatusOf(y) = Config!Wanted => y \in declared
      <4> USE DEF Config!Wanted, Config!Doomed, Config!Owned, Config!Orphaned, Config!Absent
      <4>1. CASE y \in Global
        BY <2>4, <4>1
      <4>2. CASE y \in nonats /\ y \notin Global
        BY <4>2 DEF StatusRead
      <4>3. CASE \E s \in Gen : y \in snats[s]
        BY <4>3 DEF StatusRead
      <4>4. CASE y \notin Global /\ y \notin nonats /\ \A s \in Gen : y \notin snats[s]
        BY <4>4 DEF StatusRead
      <4> QED
        BY <4>1, <4>2, <4>3, <4>4
    <3> QED
      BY <3>1, <3>2
  <2> QED
    BY <2>2, <2>3, <2>4
<1>7. Config!Commit
  BY <1>1, <1>2, <1>6 DEF Config!Commit
<1> QED
  BY <1>7 DEF Config!CNext

\* One that fails leaves everything as wanted as it was.
LEMMA AbortConfig ==
    ASSUME ReloadAssumption, IInv, Contents, StatusRead, StatusRead', FileFails
    PROVE  Config!CNext
<1> USE DEF IInv, Types
<1> DEFINE new == {x \in nonats : gen[x] > reload_savedgen}
<1>1. /\ reloading /\ reloading' = FALSE
      /\ gen' = SetGen(new, reload_savedgen)
      /\ accepted' = accepted \cup declared /\ declared' = {}
      /\ UNCHANGED <<confnats, snats, nonats, sslist>>
  BY DEF FileFails, Finish, Served, sessions
<1>2. Open' = Open
  BY <1>1 DEF Open
<1>3. reload_savedgen > FirstGen /\ reload_savedgen \in Nat /\ FirstGen \in Nat
  BY DEF ReloadTypes, ReloadAssumption
<1>4. \A y \in nonats : gen[y] \in Nat /\ y \in Item
                        /\ gen'[y] = IF y \in new THEN reload_savedgen ELSE gen[y]
  BY <1>1 DEF SetGen, ListTypes, Item, ReloadAssumption
<1>5. \A y \in nonats : gen'[y] > FirstGen <=> gen[y] > FirstGen
  BY <1>3, <1>4
<1>6. Global' = Global
  BY <1>1, <1>5 DEF Global
<1>7. \A y \in nonats : y \notin Global => gen'[y] = gen[y]
  BY <1>3, <1>4 DEF Global
<1>8. \A y \in Item : StatusOf(y)' = StatusOf(y)
  BY <1>1, <1>2, <1>6, <1>7, SameStatus
<1>9. Config!Abort
  BY <1>1, <1>2, <1>8, NoneChanges DEF Config!Abort
<1> QED
  BY <1>9 DEF Config!CNext

\* What gc_incr() removes was doomed or orphaned, and bt_incr() shows nothing.
LEMMA IncrementalConfig ==
    ASSUME ReloadAssumption, IInv, IInv', Contents, StatusRead, StatusRead', Incremental
    PROVE  Config!CNext \/ UNCHANGED Config!cvars
<1> USE DEF IInv, Types
<1>1. ASSUME NEW e \in Entry, Collect(e), ~reloading, UNCHANGED <<sslist, reload>>,
             accepted' = accepted, declared' = declared,
             StatusOf(e) \in {Config!Doomed, Config!Orphaned}
      PROVE  Config!CNext
  <2>1. e \in Item /\ e \notin nonats
    BY DEF Item, ListTypes, ReloadAssumption
  <2>2. /\ confnats' = confnats \ {e} /\ nonats' = nonats \ {e}
        /\ gen' = SetGen({e}, 0)
        /\ \A s \in Gen : snats'[s] = snats[s] \ {e}
    BY <1>1, <2>1, OffType DEF Collect, ListTypes
  <2>3. \A y \in Item : y # e => gen'[y] = gen[y]
    BY <2>2 DEF SetGen
  <2>4. Config!Put(e, Config!Absent)
    BY <1>1, <2>1, <2>2, <2>3, RemoveStatus
  <2>5. Open' = Open /\ reloading' = reloading
    BY <1>1 DEF Open, reload
  <2>6. Config!Collect(e)
    BY <1>1, <2>1, <2>4, <2>5 DEF Config!Collect
  <2> QED
    BY <2>1, <2>6 DEF Config!CNext
<1>2. CASE GcOrphanEntry
  <2>1. PICK s \in orphans : \E e \in snats[s] : Collect(e)
    BY <1>2 DEF GcOrphanEntry
  <2>2. PICK e \in snats[s] : Collect(e)
    BY <2>1
  <2>3. s \in Gen /\ e \in Entry /\ e \in Item /\ s \notin Open
    BY <2>1, <2>2 DEF SessionTypes, ListTypes, Item, Contents, Singly
  <2>4. StatusOf(e) = Config!Orphaned
    <3>1. StatusOf(e) = IF s \in Open THEN Config!Owned(s) ELSE Config!Orphaned
      BY <2>2, <2>3 DEF StatusRead
    <3> QED
      BY <2>3, <3>1
  <2>5. ~reloading /\ UNCHANGED <<sslist, reload, accepted, declared>>
    BY <1>2 DEF GcOrphanEntry, Collecting, Contents, Owed, sessions
  <2> QED
    BY <1>1, <2>2, <2>3, <2>4, <2>5
<1>3. CASE GcVisit
  <2>1. PICK e \in gctodo :
            IF Stale(e) THEN Collect(e) ELSE UNCHANGED <<lists, bttodo, maker>>
    BY <1>3 DEF GcVisit
  <2>2. needgc = 1 /\ UNCHANGED <<sslist, reload, declared, accepted>>
    BY <1>3 DEF GcVisit, sessions
  <2>3. ~reloading /\ e \in Entry /\ e \in Item /\ e \in Global
    BY <2>1, <2>2 DEF Contents, Owed, CollectorTypes, CursorsOnList, Global, Item
  <2>4. CASE Stale(e)
    <3>1. gen[e] < lastgen /\ gen[e] \in Nat /\ lastgen \in Nat
      BY <2>3, <2>4 DEF Stale, ListTypes, ReloadTypes, ReloadAssumption
    <3>2. e \notin accepted \cup declared
      BY <2>3, <3>1 DEF Contents, Loaded, Settled, Owed
    <3>3. StatusOf(e) = Config!Doomed
      BY <2>3, <3>2 DEF StatusRead
    <3> QED
      BY <1>1, <2>1, <2>2, <2>3, <2>4, <3>3
  <2>5. CASE ~Stale(e)
    BY <2>1, <2>2, <2>5, ConfigFrame DEF lists, reload
  <2> QED
    BY <2>4, <2>5
<1>4. CASE GcOrphan \/ GcStart \/ GcDone \/ BtStart \/ BtDone
  <2>1. UNCHANGED <<lists, sslist, reload, history>>
    BY <1>4 DEF GcOrphan, GcStart, GcDone, BtStart, BtDone, sessions
  <2> QED
    BY <2>1, ConfigFrame DEF lists, reload, history
<1>5. CASE BtVisit
  <2>1. PICK e \in bttodo : gen' = IF gen[e] > lastgen THEN SetGen({e}, lastgen) ELSE gen
    BY <1>5 DEF BtVisit
  <2>2. UNCHANGED <<confnats, snats, nonats, sslist, reload, history>>
    BY <1>5 DEF BtVisit, sessions
  <2>3. e \notin nonats
    BY <2>1 DEF CollectorTypes, ListTypes, ReloadAssumption
  <2>4. \A y \in nonats : gen'[y] = gen[y]
    BY <2>1, <2>3 DEF SetGen, ListTypes, Item
  <2>5. Global' = Global /\ Open' = Open
    <3>1. e \in confnats
      BY <2>1 DEF CursorsOnList
    <3> QED
      BY <2>2, <2>4 DEF Global, Open
  <2>6. \A y \in Item : StatusOf(y)' = StatusOf(y)
    BY <2>2, <2>4, <2>5, SameStatus DEF history
  <2> QED
    BY <2>2, <2>5, <2>6, NoneChanges DEF Config!cvars, reload, history
<1> QED
  BY <1>2, <1>3, <1>4, <1>5 DEF Incremental

\* The loop with its slices does to the configuration what ConfigStore does, for
\* any bindings, tunnels, sessions, quanta and files, as long as no line waits
\* in a session while another reloads, nor behind a `reload`.
THEOREM ConfigImplemented == ASSUME OneAtATime PROVE Spec => ImplementsConfig
<1>1. Init => Config!CInit
  BY ReloadAssumption, ConfigInit
<1>2. IInv /\ Contents => StatusRead
  BY ReloadAssumption, StatusIsRead
<1>3. ASSUME IInv, IInv', Contents, Contents', StatusRead, StatusRead', [Next]_vars
      PROVE  Config!CNext \/ UNCHANGED Config!cvars
  <2> USE ReloadAssumption, OneAtATime
  <2>1. CASE Loop \/ UNCHANGED vars
    <3>1. UNCHANGED <<lists, sslist, reload, history>>
      BY <2>1 DEF Loop, LoopTop, StartCommands, EndTurn, SliceDone, vars, sessions
    <3> QED
      BY <1>3, <3>1, ConfigFrame DEF lists, reload, history
  <2>2. CASE Accept
    BY <1>3, <2>2, AcceptConfig
  <2>3. CASE Command
    <3>1. ASSUME NEW x \in Item, CmdDelete(x) PROVE Config!CNext
      BY <1>3, <3>1, DeleteConfig DEF CmdDelete, sessions, reload
    <3>2. ASSUME NEW x \in Entry, CmdNat(x) PROVE Config!CNext
      BY <1>3, <3>2, CmdLineConfig DEF Item
    <3>3. ASSUME NEW x \in NoNat, CmdNonat(x) PROVE Config!CNext
      BY <1>3, <3>3, CmdLineConfig DEF Item
    <3> QED
      BY <1>3, <2>3, <3>1, <3>2, <3>3, CloseConfig, BeginConfig DEF Command
  <2>4. CASE FileLine
    BY <1>3, <2>4, FileLineConfig
  <2>5. CASE FileEnd
    BY <1>3, <2>5, CommitConfig
  <2>6. CASE FileFails
    BY <1>3, <2>6, AbortConfig
  <2>7. CASE Incremental
    BY <1>3, <2>7, IncrementalConfig
  <2> QED
    BY <1>3, <2>1, <2>2, <2>3, <2>4, <2>5, <2>6, <2>7 DEF Next
<1> QED
  BY <1>1, <1>2, <1>3, ContentsInvariance, PTL DEF Spec, ImplementsConfig, Config!CSpec

(***************************************************************************)
(* What the manual page says of a reload and of `session close`.           *)
(***************************************************************************)

\* What is on the global lists is no session's any more.
Nobodys == \A x \in Global : maker[x] = 0

\* A step keeps that when what it adds to the global lists has no maker.
LEMMA NobodysKept ==
    ASSUME Nobodys, \A x \in Global' : maker'[x] = 0 \/ (x \in Global /\ maker'[x] = maker[x])
    PROVE  Nobodys'
BY DEF Nobodys

LEMMA FrameNobodys ==
    ASSUME Nobodys, UNCHANGED <<confnats, maker>>, nonats' = nonats,
           \A y \in nonats : gen'[y] > FirstGen => gen[y] > FirstGen
    PROVE  Nobodys'
<1>1. Global' \subseteq Global
  BY DEF Global
<1> QED
  BY <1>1, NobodysKept

\* Items that are taken away, or go to a session, lose their maker.
LEMMA LoseNobodys ==
    ASSUME Nobodys, IInv, IInv', NEW S, maker' = SetMaker(S, 0), confnats' \subseteq confnats,
           nonats' \subseteq nonats,
           \A y \in nonats' : y \notin S => gen'[y] = gen[y]
    PROVE  Nobodys'
<1> USE DEF IInv, Types
<1>1. ASSUME NEW x \in Global'
      PROVE  maker'[x] = 0 \/ (x \in Global /\ maker'[x] = maker[x])
  <2>1. x \in Item
    BY DEF Global, ListTypes, Item
  <2>2. CASE x \in S
    BY <2>1, <2>2 DEF SetMaker
  <2>3. CASE x \notin S
    BY <2>1, <2>3 DEF SetMaker, Global
  <2> QED
    BY <2>2, <2>3
<1> QED
  BY <1>1, NobodysKept

LEMMA NobodysStep ==
    ASSUME ReloadAssumption, OneAtATime, IInv, IInv', Contents, Nobodys, [Next]_vars
    PROVE  Nobodys'
<1> USE DEF IInv, Types
<1>1. CASE Loop \/ Accept \/ CmdReload \/ FileOther \/ UNCHANGED vars
  <2>1. UNCHANGED <<lists, maker>>
    BY <1>1 DEF Loop, LoopTop, StartCommands, EndTurn, SliceDone, Accept, CmdReload,
                FileOther, history, vars
  <2> QED
    BY <2>1, FrameNobodys DEF lists
<1>2. ASSUME NEW x \in Item, (x \in Entry /\ CmdNat(x)) \/ (x \in NoNat /\ CmdNonat(x))
      PROVE  Nobodys'
  <2> DEFINE s == Head(turn)
  <2>1. ~reloading /\ curgen = s /\ s \in Gen /\ ~(s > FirstGen)
    BY <1>2, OwnGeneration DEF CmdNat, CmdNonat, Gen, ReloadAssumption
  <2> HIDE DEF s
  <2>2. CASE x \in Entry /\ CmdNat(x)
    <3>1. /\ x \notin Present /\ confnats' = confnats
          /\ nonats' = nonats /\ gen' = SetGen({x}, s) /\ maker' = SetMaker({x}, s)
      BY <2>1, <2>2 DEF CmdNat, NatLine, AddEntry, Enlist, s, Gen, ReloadAssumption
    <3>2. x \notin confnats /\ x \notin nonats
      BY <3>1, PresentIs
    <3>3. \A y \in Item : y # x => gen'[y] = gen[y] /\ maker'[y] = maker[y]
      BY <3>1 DEF SetGen, SetMaker
    <3>4. \A y \in Global' : y \in Global /\ maker'[y] = maker[y]
      BY <3>1, <3>2, <3>3 DEF Global, ListTypes, Item
    <3> QED
      BY <3>4, NobodysKept
  <2>3. CASE x \in NoNat /\ CmdNonat(x)
    <3>1. /\ x \notin nonats /\ confnats' = confnats /\ nonats' = nonats \cup {x}
          /\ gen' = SetGen({x}, s) /\ (maker' = maker \/ maker' = SetMaker({x}, s))
      BY <2>1, <2>3 DEF CmdNonat, NonatLine, s
    <3>2. x \notin confnats
      BY <2>3 DEF ListTypes, ReloadAssumption
    <3>3. /\ gen'[x] = s
          /\ \A y \in Item : y # x => gen'[y] = gen[y] /\ maker'[y] = maker[y]
      BY <3>1 DEF SetGen, SetMaker
    <3>4. ASSUME NEW y \in Global' PROVE y \in Global /\ maker'[y] = maker[y]
      <4>1. y # x
        BY <2>1, <3>1, <3>2, <3>3 DEF Global
      <4>2. y \in Item
        BY DEF Global, ListTypes, Item
      <4> QED
        BY <3>1, <3>3, <4>1, <4>2 DEF Global
    <3> QED
      BY <3>4, NobodysKept
  <2> QED
    BY <1>2, <2>2, <2>3
<1>3. ASSUME NEW x \in Item, DeleteLine(x) PROVE Nobodys'
  <2>1. /\ gen' = SetGen({x}, 0) /\ maker' = SetMaker({x}, 0)
        /\ confnats' \subseteq confnats /\ nonats' \subseteq nonats
    BY <1>3 DEF DeleteLine, DelEntry, DelNonat
  <2>2. \A y \in nonats' : y \notin {x} => gen'[y] = gen[y]
    BY <2>1 DEF SetGen, ListTypes, Item
  <2> QED
    BY <2>1, <2>2, LoseNobodys
<1>4. ASSUME NEW c \in Gen, CmdClose(c) PROVE Nobodys'
  <2> DEFINE mine == {x \in nonats : gen[x] = c}
             marked == {e \in snats[c] : gen[e] = c}
  <2>1. /\ nonats' = nonats \ mine /\ confnats' = confnats
        /\ gen' = [x \in Item |-> IF x \in mine THEN 0
                                  ELSE IF x \in marked THEN FirstGen ELSE gen[x]]
        /\ maker' = SetMaker(mine, 0)
    BY <1>4 DEF CmdClose, CloseSession
  <2>2. \A y \in nonats' : y \in Item /\ y \notin marked
    BY <1>4, <2>1 DEF ListTypes, Item, ReloadAssumption
  <2> HIDE DEF marked
  <2>3. \A y \in nonats' : y \notin mine => gen'[y] = gen[y]
    BY <2>1, <2>2
  <2> QED
    BY <2>1, <2>3, LoseNobodys
<1>5. ASSUME NEW x \in Item, (x \in Entry /\ FileNat(x)) \/ (x \in NoNat /\ FileNonat(x))
      PROVE  Nobodys'
  <2>1. maker' = SetMaker({x}, 0)
    BY <1>5 DEF FileNat, FileNonat, Declare
  <2>2. \A y \in Item : y # x => maker'[y] = maker[y]
    BY <2>1 DEF SetMaker
  <2>3. ReadLine /\ reloading /\ curgen = lastgen /\ ~(lastgen < FirstGen)
    BY <1>5 DEF FileNat, FileNonat, ReadLine, Served, ReloadTypes, ReloadAssumption
  <2>4. /\ confnats' \subseteq confnats \cup {x} /\ nonats' \subseteq nonats \cup {x}
        /\ gen' = SetGen({x}, curgen)
    BY <1>5, <2>3 DEF FileNat, FileNonat, NatLine, NonatLine, AddEntry, Enlist, RenewEntry
  <2>5. \A y \in Item : y # x => gen'[y] = gen[y]
    BY <2>4 DEF SetGen
  <2>6. maker'[x] = 0
    BY <2>1 DEF SetMaker
  <2>7. ASSUME NEW y \in Global' PROVE maker'[y] = 0 \/ (y \in Global /\ maker'[y] = maker[y])
    <3>1. y \in Item
      BY DEF Global, ListTypes, Item
    <3> QED
      BY <2>2, <2>4, <2>5, <2>6, <3>1 DEF Global
  <2> QED
    BY <2>7, NobodysKept
<1>6. CASE FileEnd
  <2>1. /\ nonats' = nonats \ StaleNonats /\ confnats' = confnats
        /\ gen' = SetGen(StaleNonats, 0) /\ maker' = SetMaker(StaleNonats, 0)
    BY <1>6 DEF FileEnd, Finish
  <2>2. \A y \in nonats' : y \notin StaleNonats => gen'[y] = gen[y]
    BY <2>1 DEF SetGen, ListTypes, Item
  <2> QED
    BY <2>1, <2>2, LoseNobodys
<1>7. CASE FileFails
  <2> DEFINE new == {x \in nonats : gen[x] > reload_savedgen}
  <2>1. /\ UNCHANGED <<confnats, nonats, maker>> /\ gen' = SetGen(new, reload_savedgen)
    BY <1>7 DEF FileFails, Finish
  <2>2. \A y \in nonats : gen'[y] > FirstGen => gen[y] > FirstGen
    <3> TAKE y \in nonats
    <3>1. /\ gen[y] \in Nat /\ y \in Item /\ reload_savedgen \in Nat /\ FirstGen \in Nat
          /\ reload_savedgen > FirstGen
      BY DEF ListTypes, Item, ReloadTypes, ReloadAssumption
    <3>2. gen'[y] = IF y \in new THEN reload_savedgen ELSE gen[y]
      BY <2>1, <3>1 DEF SetGen
    <3> QED
      BY <3>1, <3>2
  <2> QED
    BY <2>1, <2>2, FrameNobodys
<1>8. ASSUME NEW e \in Entry, Collect(e) PROVE Nobodys'
  <2>1. /\ gen' = SetGen({e}, 0) /\ maker' = SetMaker({e}, 0)
        /\ confnats' \subseteq confnats /\ nonats' = nonats
    BY <1>8 DEF Collect
  <2>2. \A y \in nonats' : y \notin {e} => gen'[y] = gen[y]
    BY <2>1 DEF SetGen, ListTypes, Item
  <2> QED
    BY <2>1, <2>2, LoseNobodys
<1>9. CASE Incremental
  <2>1. CASE GcOrphanEntry
    <3>1. PICK s \in orphans : \E e \in snats[s] : Collect(e)
      BY <2>1 DEF GcOrphanEntry
    <3>2. PICK e \in snats[s] : Collect(e)
      BY <3>1
    <3> QED
      BY <1>8, <3>2 DEF SessionTypes, ListTypes
  <2>2. CASE GcVisit
    <3>1. PICK e \in gctodo : IF Stale(e) THEN Collect(e) ELSE UNCHANGED <<lists, bttodo, maker>>
      BY <2>2 DEF GcVisit
    <3>2. CASE Stale(e)
      BY <1>8, <3>1, <3>2 DEF CollectorTypes
    <3>3. CASE ~Stale(e)
      BY <3>1, <3>3, FrameNobodys DEF lists
    <3> QED
      BY <3>2, <3>3
  <2>3. CASE GcOrphan \/ GcStart \/ GcDone \/ BtStart \/ BtDone
    <3>1. UNCHANGED <<lists, maker>>
      BY <2>3 DEF GcOrphan, GcStart, GcDone, BtStart, BtDone, history
    <3> QED
      BY <3>1, FrameNobodys DEF lists
  <2>4. CASE BtVisit
    <3>1. PICK e \in bttodo : gen' = IF gen[e] > lastgen THEN SetGen({e}, lastgen) ELSE gen
      BY <2>4 DEF BtVisit
    <3>2. UNCHANGED <<confnats, nonats, maker>> /\ e \notin nonats
      BY <2>4, <3>1 DEF BtVisit, history, CollectorTypes, ListTypes, ReloadAssumption
    <3>3. \A y \in nonats : gen'[y] = gen[y]
      BY <3>1, <3>2 DEF SetGen, ListTypes, Item
    <3> QED
      BY <3>2, <3>3, FrameNobodys
  <2> QED
    BY <1>9, <2>1, <2>2, <2>3, <2>4 DEF Incremental
<1>10. CASE Command
  <2>1. ASSUME NEW e \in Entry, CmdNat(e) PROVE Nobodys'
    BY <1>2, <2>1 DEF Item
  <2>2. ASSUME NEW x \in NoNat, CmdNonat(x) PROVE Nobodys'
    BY <1>2, <2>2 DEF Item
  <2>3. ASSUME NEW x \in Item, CmdDelete(x) PROVE Nobodys'
    BY <1>3, <2>3 DEF CmdDelete
  <2> QED
    BY <1>1, <1>4, <1>10, <2>1, <2>2, <2>3 DEF Command
<1>11. CASE FileLine
  <2>1. ASSUME NEW e \in Entry, FileNat(e) PROVE Nobodys'
    BY <1>5, <2>1 DEF Item
  <2>2. ASSUME NEW x \in NoNat, FileNonat(x) PROVE Nobodys'
    BY <1>5, <2>2 DEF Item
  <2>3. ASSUME NEW x \in Item, FileDelete(x) PROVE Nobodys'
    BY <1>3, <2>3 DEF FileDelete
  <2> QED
    BY <1>1, <1>11, <2>1, <2>2, <2>3 DEF FileLine
<1> QED
  BY <1>1, <1>6, <1>7, <1>9, <1>10, <1>11 DEF Next

\* "If the reload succeeds, global entries in older generations are garbaged
\* collected" (man/aftr.commands.5): the runs reload_late and reload_batch refute
\* this and the next for the code at large, and they hold as long as no line waits
\* in a session while another reloads, nor behind a `reload`.
THEOREM OldGlobalsGo == ASSUME OneAtATime PROVE Spec => []OldGlobalsCollected
<1>1. IInv /\ Contents => OldGlobalsCollected
  BY DEF IInv, Contents, OneCursor, Loaded, Settled, Global, Idle, OldGlobalsCollected
<1> QED
  BY <1>1, ContentsInvariance, PTL

\* "session close: Delete all the static NAT, PRR/A+P and no-NAT entries created by
\* the current session and which were not promoted": a binding that the file claims
\* is nobody's, and no other outlives its session.
THEOREM SessionsFlushed == ASSUME OneAtATime PROVE Spec => []FlushedAtClose
<1>1. Init => Nobodys
  BY DEF Init, Nobodys, Global, Item
<1>2. IInv /\ IInv' /\ Contents /\ Nobodys /\ [Next]_vars => Nobodys'
  BY OneAtATime, ReloadAssumption, NobodysStep
<1>3. ASSUME IInv, Contents, Nobodys PROVE FlushedAtClose
  <2>1. SUFFICES ASSUME Idle, NEW x \in Present, maker[x] # 0
                 PROVE  maker[x] \in Open
    BY DEF FlushedAtClose
  <2>2. orphans = {} /\ x \notin Global
    BY <1>3, <2>1 DEF Idle, Contents, Owed, Nobodys
  <2>3. CASE \E s \in Gen : x \in snats[s]
    <3>1. PICK s \in Gen : x \in snats[s]
      BY <2>3
    <3>2. s \in Open
      BY <1>3, <2>2, <3>1 DEF IInv, OneList
    <3> QED
      BY <1>3, <3>1, <3>2 DEF Contents, Owned
  <2>4. CASE x \in nonats
    <3>1. gen[x] \in Nat /\ FirstGen \in Nat
      BY <1>3, <2>4, ReloadAssumption DEF IInv, Types, ListTypes, Item, ReloadAssumption
    <3> QED
      BY <1>3, <2>2, <2>4, <3>1 DEF Global, Contents, Owned
  <2> QED
    BY <2>1, <2>2, <2>3, <2>4, PresentIs DEF Global
<1> QED
  BY <1>1, <1>2, <1>3, ContentsInvariance, PTL DEF Spec
=============================================================================
