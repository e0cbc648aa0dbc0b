---------------------------- MODULE AftrFragProofs ----------------------------
(***************************************************************************)
(* Proofs about AftrFrag, for any packets, limits, lifetimes, sizes of the *)
(* cache and fragments: what is put together is a packet, nothing whole or *)
(* late is left waiting, the cache points to entries there are, and the    *)
(* counters count; the queues implement Reassembly, and the counts of      *)
(* check_tunnels() agree unless a tunnel is deleted with packets under way.*)
(***************************************************************************)
EXTENDS AftrFragReassembly, FiniteSetTheorems, SequenceTheorems, WellFoundedInduction, TLAPS

-----------------------------------------------------------------------------
(* The parts of a packet *)

\* What the scan of f->fraglist keeps true of the parts in an entry.
Apart(parts) ==
    /\ parts \subseteq Part /\ IsFiniteSet(parts)
    /\ \A r, s \in parts :
          /\ r.off = s.off => r = s
          /\ r.off < s.off => r.more /\ End(r) <= s.off

Sound(f) ==
    /\ Apart(f.parts)
    /\ (\E r \in f.parts : r.off = 0) => f.first
    /\ ~Whole(f)

\* A set of numbers that is not empty has a least one.
LEMMA LeastNat ==
    ASSUME NEW S, S \subseteq Nat, S # {}
    PROVE  \E i \in S : \A j \in S : i <= j
<1> DEFINE R == OpToRel(<, Nat)
<1>1. \E i \in S : \A j \in S : ~(<<j, i>> \in R)
  BY WFMin, NatLessThanWellFounded, Zenon
<1>2. \A i, j \in Nat : j < i => <<j, i>> \in R
  BY DEF OpToRel
<1>3. \A i, j \in S : ~(j < i) => i <= j
  OBVIOUS
<1> QED
  BY <1>1, <1>2, <1>3

\* A finite set of numbers that is not empty has a greatest one, Max.
LEMMA MaxIs ==
    ASSUME NEW S, S \subseteq Nat, S # {}, IsFiniteSet(S)
    PROVE  Max(S) \in S /\ \A x \in S : x <= Max(S)
<1> DEFINE below(x) == {y \in S : y <= x}
<1>1. \A x \in S : IsFiniteSet(below(x)) /\ Cardinality(below(x)) \in Nat
                   /\ Cardinality(below(x)) <= Cardinality(S)
  <2>1. \A x \in S : below(x) \in SUBSET S
    OBVIOUS
  <2> HIDE DEF below
  <2> QED
    BY <2>1, FS_Subset, FS_CardinalityType
<1>2. Cardinality(S) \in Nat
  BY FS_CardinalityType
<1> DEFINE above == {Cardinality(S) - Cardinality(below(x)) : x \in S}
<1>3. above \subseteq Nat /\ above # {}
  <2>1. \A c, n \in Nat : n <= c => c - n \in Nat
    OBVIOUS
  <2>2. \A x \in S : Cardinality(S) - Cardinality(below(x)) \in Nat
    <3> HIDE DEF below
    <3> QED
      BY <1>1, <1>2, <2>1
  <2> HIDE DEF below
  <2> QED
    BY <2>2
<1>4. PICK i \in above : \A j \in above : i <= j
  BY <1>3, LeastNat
<1>5. PICK m \in S : i = Cardinality(S) - Cardinality(below(m))
  OBVIOUS
<1>6. ASSUME NEW x \in S
      PROVE  x <= m
  <2>1. SUFFICES ASSUME m < x
                 PROVE  FALSE
    OBVIOUS
  <2>2. below(m) \subseteq below(x) /\ x \in below(x) /\ x \notin below(m)
    <3>1. m \in Nat /\ x \in Nat
      OBVIOUS
    <3>2. \A y \in Nat : y <= m => y <= x
      BY <2>1, <3>1
    <3>3. x <= x /\ ~(x <= m)
      BY <2>1, <3>1
    <3> QED
      BY <3>2, <3>3
  <2>3. Cardinality(below(m)) < Cardinality(below(x))
    <3>1. below(m) # below(x)
      BY <2>2
    <3>2. IsFiniteSet(below(x)) /\ below(m) \in SUBSET below(x)
      BY <1>1, <2>2
    <3>3. /\ Cardinality(below(m)) <= Cardinality(below(x))
          /\ Cardinality(below(x)) # Cardinality(below(m))
      <4> HIDE DEF below
      <4> QED
        BY <3>1, <3>2, FS_Subset
    <3>4. Cardinality(below(m)) \in Nat /\ Cardinality(below(x)) \in Nat
      BY <1>1
    <3> HIDE DEF below
    <3> QED
      BY <3>3, <3>4
  <2>4. Cardinality(S) - Cardinality(below(m)) <= Cardinality(S) - Cardinality(below(x))
    BY <1>4, <1>5
  <2> HIDE DEF below
  <2> QED
    BY <1>1, <1>2, <2>3, <2>4
<1>7. \E m1 \in S : \A x \in S : m1 >= x
  BY <1>6
<1> QED
  BY <1>7 DEF Max

\* The end of some parts.
LEMMA EndIs ==
    ASSUME NEW parts, Apart(parts), parts # {}
    PROVE  LET end == Max({End(r) : r \in parts})
           IN  /\ end \in Nat
               /\ \E r \in parts : End(r) = end
               /\ \A r \in parts : End(r) <= end
<1> DEFINE ends == {End(r) : r \in parts}
<1>1. ends \subseteq Nat /\ ends # {}
  BY DEF Apart, Part, End
<1>2. IsFiniteSet(ends)
  <2> DEFINE fn == [r \in parts |-> End(r)]
  <2>1. fn \in Surjection(parts, ends)
    BY DEF Surjection
  <2> QED
    BY <2>1, FS_Surjection DEF Apart
<1> HIDE DEF ends
<1>3. Max(ends) \in ends /\ \A x \in ends : x <= Max(ends)
  BY <1>1, <1>2, MaxIs
<1> QED
  BY <1>1, <1>3 DEF ends

\* Exactly one of the parts has unit x.
LEMMA OneCovers ==
    ASSUME NEW parts, Apart(parts), NEW x \in Nat, NEW r \in parts,
           r.off <= x, x < End(r)
    PROVE  Cardinality({s \in parts : s.off <= x /\ x < End(s)}) = 1
<1>1. \A s \in parts : /\ s.off \in Nat /\ End(s) \in Nat /\ s.off < End(s)
                       /\ s.off = r.off => s = r
                       /\ s.off < r.off => End(s) <= r.off
                       /\ r.off < s.off => End(r) <= s.off
  BY DEF Apart, Part, End
<1>2. \A s \in parts : s.off <= x /\ x < End(s) => s = r
  <2>1. SUFFICES ASSUME NEW s \in parts, s.off <= x, x < End(s)
                 PROVE  s = r
    OBVIOUS
  <2>2. s.off \in Nat /\ r.off \in Nat /\ End(s) \in Nat /\ End(r) \in Nat
    BY <1>1
  <2>3. ~(s.off < r.off) /\ ~(r.off < s.off)
    BY <1>1, <2>1, <2>2
  <2> QED
    BY <1>1, <2>2, <2>3
<1>3. {s \in parts : s.off <= x /\ x < End(s)} = {r}
  BY <1>2
<1> QED
  BY <1>3, FS_Singleton

\* What the second scan takes for complete is a packet.
LEMMA WholeTiles ==
    ASSUME NEW f, Apart(f.parts), Whole(f)
    PROVE  Tile(f.parts)
<1> DEFINE parts == f.parts
           end == Max({End(r) : r \in parts})
<1>1. /\ parts # {}
      /\ \A r \in parts : r.off = 0 \/ \E s \in parts : End(s) = r.off
      /\ \A r \in parts : r.more => \E s \in parts : s.off > r.off
  BY DEF Whole
<1>2. \A r \in parts : r.off \in Nat /\ End(r) \in Nat /\ r.off < End(r) /\ r.more \in BOOLEAN
  BY DEF Apart, Part, End
<1>3. \A r, s \in parts : r.off < s.off => r.more /\ End(r) <= s.off
  BY DEF Apart
<1>4. end \in Nat /\ (\E r \in parts : End(r) = end) /\ \A r \in parts : End(r) <= end
  BY <1>1, EndIs
<1> HIDE DEF end
<1>5. ASSUME NEW x \in 0..end - 1
      PROVE  \E r \in parts : r.off <= x /\ x < End(r)
  <2> DEFINE later == {r.off : r \in {s \in parts : s.off > x}}
  <2>1. CASE later = {}
    <3>1. PICK r \in parts : End(r) = end
      BY <1>4
    <3>2. ~(r.off > x)
      BY <2>1
    <3>3. r.off \in Nat /\ x \in Int /\ x < end
      BY <1>2, <1>4
    <3> QED
      BY <1>4, <3>1, <3>2, <3>3
  <2>2. CASE later # {}
    <3>1. later \subseteq Nat
      BY <1>2
    <3>2. PICK o \in later : \A j \in later : o <= j
      BY <2>2, <3>1, LeastNat
    <3>3. PICK r \in parts : r.off = o /\ r.off > x
      BY <3>2
    <3>4. PICK s \in parts : End(s) = r.off
      BY <1>1, <1>4, <3>3
    <3>5. s.off <= x
      <4>1. s.off < r.off
        BY <1>2, <3>4
      <4>2. s.off \notin later
        <5>1. s.off \in Nat /\ r.off \in Nat /\ ~(r.off <= s.off)
          BY <1>2, <4>1
        <5> HIDE DEF later
        <5> QED
          BY <3>2, <3>3, <5>1
      <4>3. ~(s.off > x)
        BY <4>2
      <4>4. s.off \in Nat /\ x \in Int
        BY <1>2, <1>4
      <4> QED
        BY <4>3, <4>4
    <3> QED
      BY <3>3, <3>4, <3>5
  <2> QED
    BY <2>1, <2>2
<1>6. ASSUME NEW x \in 0..end - 1
      PROVE  Cardinality({r \in parts : r.off <= x /\ x < End(r)}) = 1
  <2>1. x \in Nat
    BY <1>4
  <2>2. PICK r \in parts : r.off <= x /\ x < End(r)
    BY <1>5
  <2> QED
    BY <2>1, <2>2, OneCovers
<1>7. ASSUME NEW r \in parts
      PROVE  r.more <=> End(r) < end
  <2>1. CASE r.more
    <3>1. PICK s \in parts : s.off > r.off
      BY <1>1, <2>1
    <3>2. End(r) <= s.off /\ s.off < End(s) /\ End(s) <= end
      BY <1>2, <1>3, <1>4, <3>1
    <3> QED
      BY <1>2, <1>4, <2>1, <3>2
  <2>2. CASE ~r.more
    <3>1. PICK s \in parts : End(s) = end
      BY <1>4
    <3>2. ~(r.off < s.off)
      BY <1>3, <2>2
    <3>3. CASE s.off < r.off
      <4>1. End(s) <= r.off
        BY <1>3, <3>3
      <4> QED
        BY <1>2, <1>4, <2>2, <3>1, <4>1
    <3>4. CASE s.off = r.off
      BY <1>4, <2>2, <3>1, <3>4 DEF Apart
    <3> QED
      BY <1>2, <3>2, <3>3, <3>4
  <2> QED
    BY <1>2, <2>1, <2>2
<1> QED
  BY <1>6, <1>7 DEF Tile, end

\* A packet is taken for complete, when its header was seen.
LEMMA TilesWhole ==
    ASSUME NEW f, Apart(f.parts), f.parts # {}, Tile(f.parts),
           (\E r \in f.parts : r.off = 0) => f.first
    PROVE  Whole(f)
<1> DEFINE parts == f.parts
           end == Max({End(r) : r \in parts})
           covers(x) == {r \in parts : r.off <= x /\ x < End(r)}
<1>1. /\ \A x \in 0..end - 1 : Cardinality(covers(x)) = 1
      /\ \A r \in parts : r.more <=> End(r) < end
  BY DEF Tile
<1>2. \A r \in parts : r.off \in Nat /\ End(r) \in Nat /\ r.off < End(r)
  BY DEF Apart, Part, End
<1>3. end \in Nat /\ \A r \in parts : End(r) <= end
  BY EndIs
<1> HIDE DEF end
<1>4. ASSUME NEW x \in 0..end - 1
      PROVE  \E r \in parts : /\ r.off <= x /\ x < End(r)
                              /\ \A s \in parts : s.off <= x /\ x < End(s) => s = r
  <2>1. IsFiniteSet(covers(x))
    <3>1. covers(x) \in SUBSET parts
      OBVIOUS
    <3> QED
      BY <3>1, FS_Subset DEF Apart
  <2>2. Cardinality(covers(x)) = 1
    BY <1>1
  <2>3. \E r : covers(x) = {r}
    <3> HIDE DEF covers
    <3> QED
      BY <2>1, <2>2, FS_Singleton
  <2>4. PICK r : covers(x) = {r}
    BY <2>3
  <2> QED
    BY <2>4
<1>5. PICK r0 \in parts : TRUE
  OBVIOUS
<1>6. end > 0
  BY <1>2, <1>3, <1>5
<1>7. f.first
  <2>1. 0 \in 0..end - 1
    BY <1>3, <1>6
  <2>2. PICK r \in parts : r.off <= 0
    BY <1>4, <2>1
  <2> QED
    BY <1>2, <2>2
<1>8. ASSUME NEW r \in parts, r.off # 0
      PROVE  \E s \in parts : End(s) = r.off
  <2>1. r.off - 1 \in 0..end - 1 /\ r.off \in 0..end - 1
    BY <1>2, <1>3, <1>8
  <2>2. PICK s \in parts : s.off <= r.off - 1 /\ r.off - 1 < End(s)
    BY <1>4, <2>1
  <2>3. PICK u \in parts : \A v \in parts : v.off <= r.off /\ r.off < End(v) => v = u
    BY <1>4, <2>1
  <2>4. u = r
    BY <1>2, <2>3
  <2>5. s # r
    BY <1>2, <2>2
  <2>6. ~(r.off < End(s))
    BY <1>2, <2>2, <2>3, <2>4, <2>5
  <2> QED
    BY <1>2, <2>2, <2>6
<1>9. ASSUME NEW r \in parts, r.more
      PROVE  \E s \in parts : s.off > r.off
  <2>1. End(r) \in 0..end - 1 /\ r.off \in 0..end - 1
    BY <1>1, <1>2, <1>3, <1>9
  <2>2. PICK s \in parts : s.off <= End(r) /\ End(r) < End(s)
    BY <1>4, <2>1
  <2>3. PICK u \in parts : \A v \in parts : v.off <= r.off /\ r.off < End(v) => v = u
    BY <1>4, <2>1
  <2>4. u = r /\ s # r
    BY <1>2, <2>2, <2>3
  <2>5. ~(s.off <= r.off)
    BY <1>2, <2>2, <2>3, <2>4
  <2> QED
    BY <1>2, <2>5
<1> QED
  BY <1>7, <1>8, <1>9 DEF Whole

\* A fragment with room between its neighbours.
LEMMA FitsApart ==
    ASSUME NEW parts, Apart(parts), NEW p \in Part, Fits(parts, p)
    PROVE  Apart(parts \cup {p})
<1>1. IsFiniteSet(parts \cup {p}) /\ parts \cup {p} \subseteq Part
  BY FS_AddElement DEF Apart
<1>2. \A r \in parts : /\ r.off # p.off
                       /\ r.off < p.off => r.more /\ End(r) <= p.off
                       /\ r.off > p.off => p.more /\ End(p) <= r.off
                       /\ r.off \in Nat /\ p.off \in Nat
  BY DEF Fits, Apart, Part
<1>3. ASSUME NEW r \in parts \cup {p}, NEW s \in parts \cup {p}
      PROVE  /\ r.off = s.off => r = s
             /\ r.off < s.off => r.more /\ End(r) <= s.off
  <2>1. CASE r = p /\ s = p
    BY <1>2, <2>1 DEF Part
  <2>2. CASE r = p /\ s # p
    BY <1>2, <2>2
  <2>3. CASE r # p /\ s = p
    BY <1>2, <2>3
  <2>4. CASE r # p /\ s # p
    BY <2>4 DEF Apart
  <2> QED
    BY <2>1, <2>2, <2>3, <2>4
<1> QED
  BY <1>1, <1>3 DEF Apart

-----------------------------------------------------------------------------
(* A queue of entries *)

\* What the entries of queue q are: of different packets, the oldest at the end.
Row(s, q) ==
    /\ s \in Seq(Entries)
    /\ \A i \in 1..Len(s) : /\ s[i].packet.queue = q
                            /\ Sound(s[i])
                            /\ s[i].left <= Lifetime
    /\ \A i, j \in 1..Len(s) :
          i < j => s[j].packet # s[i].packet /\ s[j].left <= s[i].left

\* the packets with an entry, and those of a tunnel
Pk(s) == {s[i].packet : i \in 1..Len(s)}
Class(s, t) == {k \in Pk(s) : k.tunnel = t}

LEMMA TimesAre == Lifetime \in Nat \ {0} /\ MaxSkip \in Nat \ {0}
BY AftrFragAssumption DEF AftrFragAssumption

LEMMA PacketsAre ==
    \A k \in Packet : /\ k.queue \in Queue /\ k # NoPacket
                      /\ k.queue = "fragsout" => k.tunnel = NoTunnel
                      /\ k.queue # "fragsout" => k.tunnel \in Tunnel
                      /\ k.queue # "frags6" => k.id \in Id
BY AftrFragAssumption DEF AftrFragAssumption, Id

LEMMA EntriesAre ==
    \A f \in Entries : /\ f.packet \in Packet /\ f.first \in BOOLEAN
                       /\ f.parts \in SUBSET Part /\ f.left \in Int
BY DEF Entries

\* As many images as there are elements.
LEMMA SameSize ==
    ASSUME NEW I, IsFiniteSet(I), NEW T, NEW f \in [I -> T],
           \A i, j \in I : f[i] = f[j] => i = j,
           \A x \in T : \E i \in I : f[i] = x
    PROVE  IsFiniteSet(T) /\ Cardinality(T) = Cardinality(I)
<1>1. f \in Bijection(I, T)
  BY DEF Bijection, Injection, Surjection, IsInjective
<1>2. ExistsBijection(I, T)
  BY <1>1 DEF ExistsBijection
<1> QED
  BY <1>2, FS_Bijection

\* A packet has one entry at most: the entries, and those of a tunnel, are counted
\* by their packets.
LEMMA RowCounts ==
    ASSUME NEW s, NEW q, Row(s, q)
    PROVE  /\ IsFiniteSet(Pk(s)) /\ Cardinality(Pk(s)) = Len(s)
           /\ \A t : Cardinality(Class(s, t)) =
                     Cardinality({i \in 1..Len(s) : s[i].packet.tunnel = t})
<1>1. Len(s) \in Nat /\ IsFiniteSet(1..Len(s)) /\ Cardinality(1..Len(s)) = Len(s)
  <2>1. Len(s) \in Nat
    BY DEF Row
  <2>2. IsFiniteSet(1..Len(s)) /\ Cardinality(1..Len(s)) =
                                  IF 1 > Len(s) THEN 0 ELSE Len(s) - 1 + 1
    <3>1. 1 \in Int /\ Len(s) \in Int
      BY <2>1
    <3> QED
      BY <3>1, FS_Interval, Zenon
  <2> QED
    BY <2>1, <2>2
<1>2. \A i, j \in 1..Len(s) : s[i].packet = s[j].packet => i = j
  <2>1. \A i, j \in 1..Len(s) : i < j \/ j < i \/ i = j
    OBVIOUS
  <2> QED
    BY <2>1 DEF Row
<1>3. ASSUME NEW I \in SUBSET (1..Len(s)), NEW T, T = {s[i].packet : i \in I}
      PROVE  IsFiniteSet(T) /\ Cardinality(T) = Cardinality(I)
  <2> DEFINE f == [i \in I |-> s[i].packet]
  <2>1. IsFiniteSet(I)
    BY <1>1, FS_Subset
  <2>2. f \in [I -> T] /\ \A x \in T : \E i \in I : f[i] = x
    BY <1>3
  <2>3. \A i, j \in I : f[i] = f[j] => i = j
    BY <1>2
  <2> HIDE DEF f
  <2> QED
    BY <2>1, <2>2, <2>3, SameSize
<1>4. IsFiniteSet(Pk(s)) /\ Cardinality(Pk(s)) = Len(s)
  <2>1. 1..Len(s) \in SUBSET (1..Len(s))
    OBVIOUS
  <2> QED
    BY <1>1, <1>3, <2>1 DEF Pk
<1>5. ASSUME NEW t
      PROVE  Cardinality(Class(s, t)) =
             Cardinality({i \in 1..Len(s) : s[i].packet.tunnel = t})
  <2> DEFINE I == {i \in 1..Len(s) : s[i].packet.tunnel = t}
  <2>1. I \in SUBSET (1..Len(s)) /\ Class(s, t) = {s[i].packet : i \in I}
    BY DEF Class, Pk
  <2> HIDE DEF I
  <2>2. Cardinality(Class(s, t)) = Cardinality(I)
    BY <1>3, <2>1
  <2> QED
    BY <2>2 DEF I
<1> QED
  BY <1>4, <1>5

\* An entry is made, and put at the head.
LEMMA PutRow ==
    ASSUME NEW s, NEW q, Row(s, q), NEW e \in Entries, e.packet.queue = q, Sound(e),
           e.left = Lifetime, e.packet \notin Pk(s)
    PROVE  LET r == <<e>> \o s
           IN  /\ Row(r, q) /\ Pk(r) = Pk(s) \cup {e.packet}
               /\ Len(r) = Len(s) + 1 /\ r[1] = e
               /\ \A i \in 1..Len(s) : r[i + 1] = s[i]
<1> DEFINE r == <<e>> \o s
<1>1. /\ r \in Seq(Entries) /\ Len(s) \in Nat /\ Len(r) = Len(s) + 1 /\ r[1] = e
      /\ \A i \in 1..Len(s) : r[i + 1] = s[i]
      /\ \A i \in 1..Len(r) : i # 1 => i - 1 \in 1..Len(s) /\ r[i] = s[i - 1]
  BY DEF Row
<1> HIDE DEF r
<1>2. \A i \in 1..Len(r) : /\ r[i].packet.queue = q /\ Sound(r[i])
                           /\ r[i].left <= Lifetime
  <2>1. ASSUME NEW i \in 1..Len(r), i = 1
        PROVE  r[i].packet.queue = q /\ Sound(r[i]) /\ r[i].left <= Lifetime
    <3>1. r[i] = e /\ Lifetime <= Lifetime
      BY <1>1, <2>1, TimesAre
    <3> QED
      BY <3>1
  <2>2. ASSUME NEW i \in 1..Len(r), i # 1
        PROVE  r[i].packet.queue = q /\ Sound(r[i]) /\ r[i].left <= Lifetime
    BY <1>1, <2>2 DEF Row
  <2> QED
    BY <2>1, <2>2
<1>3. ASSUME NEW i \in 1..Len(r), NEW j \in 1..Len(r), i < j
      PROVE  r[j].packet # r[i].packet /\ r[j].left <= r[i].left
  <2>1. j # 1 /\ j - 1 \in 1..Len(s) /\ r[j] = s[j - 1]
    BY <1>1, <1>3
  <2>2. CASE i = 1
    BY <1>1, <1>2, <2>1, <2>2, TimesAre DEF Row, Pk
  <2>3. CASE i # 1
    <3>1. i - 1 \in 1..Len(s) /\ r[i] = s[i - 1] /\ i - 1 < j - 1
      BY <1>1, <1>3, <2>3
    <3> QED
      BY <2>1, <3>1 DEF Row
  <2> QED
    BY <2>2, <2>3
<1>4. Pk(r) = Pk(s) \cup {e.packet}
  <2>1. Pk(r) \subseteq Pk(s) \cup {e.packet}
    BY <1>1 DEF Pk
  <2>2. ASSUME NEW i \in 1..Len(s)
        PROVE  s[i].packet \in Pk(r)
    <3>1. i + 1 \in 1..Len(r) /\ r[i + 1] = s[i]
      BY <1>1
    <3> QED
      BY <3>1 DEF Pk
  <2>3. e.packet \in Pk(r)
    <3>1. 1 \in 1..Len(r)
      BY <1>1
    <3> QED
      BY <1>1, <3>1 DEF Pk
  <2> QED
    BY <2>1, <2>2, <2>3 DEF Pk
<1> QED
  BY <1>1, <1>2, <1>3, <1>4 DEF Row, r

\* An entry is changed in its place.
LEMMA SetRow ==
    ASSUME NEW s, NEW q, Row(s, q), NEW i \in 1..Len(s), NEW e \in Entries, Sound(e),
           e.packet = s[i].packet, e.left = s[i].left
    PROVE  LET r == [s EXCEPT ![i] = e]
           IN  /\ Row(r, q) /\ Pk(r) = Pk(s) /\ Len(r) = Len(s)
               /\ \A j \in 1..Len(s) : r[j] = IF j = i THEN e ELSE s[j]
<1> DEFINE r == [s EXCEPT ![i] = e]
<1>1. /\ r \in Seq(Entries) /\ Len(r) = Len(s)
      /\ \A j \in 1..Len(s) : r[j] = IF j = i THEN e ELSE s[j]
  BY DEF Row
<1> HIDE DEF r
<1>2. \A j \in 1..Len(s) : r[j].packet = s[j].packet /\ r[j].left = s[j].left
  BY <1>1
<1>3. Pk(r) = Pk(s)
  BY <1>1, <1>2 DEF Pk
<1>4. Row(r, q)
  BY <1>1, <1>2 DEF Row
<1> QED
  BY <1>1, <1>3, <1>4 DEF r

\* What is left of a sequence without its entry at i.
LEMMA RemovedAt ==
    ASSUME NEW s \in Seq(Entries), NEW i \in 1..Len(s)
    PROVE  LET r == RemoveAt(s, i)
               at(l) == IF l < i THEN l ELSE l + 1
           IN  /\ r \in Seq(Entries) /\ Len(r) = Len(s) - 1
               /\ \A l \in 1..Len(r) : r[l] = s[at(l)]
<1> DEFINE r == RemoveAt(s, i)
           at(l) == IF l < i THEN l ELSE l + 1
<1>1. s \in Seq(Entries) /\ Len(s) \in Nat
  OBVIOUS
<1>2. /\ r \in Seq(Entries) /\ Len(r) = Len(s) - 1
      /\ \A l \in 1..Len(r) : r[l] = s[at(l)]
  <2> DEFINE a == SubSeq(s, 1, i - 1)
             b == SubSeq(s, i + 1, Len(s))
  <2>1. /\ a \in Seq(Entries) /\ Len(a) = i - 1
        /\ \A l \in 1..i - 1 : a[l] = s[l]
    BY <1>1
  <2>2. /\ b \in Seq(Entries) /\ Len(b) = Len(s) - i
        /\ \A l \in 1..Len(s) - i : b[l] = s[l + i]
    BY <1>1
  <2> HIDE DEF a, b
  <2>3. /\ a \o b \in Seq(Entries) /\ Len(a \o b) = Len(s) - 1
        /\ \A l \in 1..Len(s) - 1 :
              (a \o b)[l] = IF l < i THEN a[l] ELSE b[l - (i - 1)]
    <3>1. Len(a) + Len(b) = Len(s) - 1 /\ i \in Int /\ Len(s) \in Nat
      BY <1>1, <2>1, <2>2
    <3>2. /\ a \o b \in Seq(Entries) /\ Len(a \o b) = Len(a) + Len(b)
          /\ \A l \in 1..Len(a) + Len(b) :
                (a \o b)[l] = IF l <= Len(a) THEN a[l] ELSE b[l - Len(a)]
      BY <2>1, <2>2, ConcatProperties, Zenon
    <3> QED
      BY <2>1, <3>1, <3>2
  <2>4. r = a \o b
    BY DEF RemoveAt, a, b
  <2>5. ASSUME NEW l \in 1..Len(s) - 1
        PROVE  r[l] = s[at(l)]
    <3>1. CASE l < i
      BY <2>1, <2>3, <2>4, <3>1
    <3>2. CASE ~(l < i)
      <4>1. l - (i - 1) \in 1..Len(s) - i /\ l - (i - 1) + i = l + 1
        BY <1>1, <3>2
      <4> QED
        BY <2>2, <2>3, <2>4, <3>2, <4>1
    <3> QED
      BY <3>1, <3>2
  <2> HIDE DEF r, at
  <2> QED
    BY <2>3, <2>4, <2>5
<1> HIDE DEF r, at
<1>3. \A l \in 1..Len(r) : r[l] = s[at(l)]
  BY <1>2
<1> QED
  BY <1>2, <1>3 DEF r, at

\* An entry goes.
LEMMA OutRow ==
    ASSUME NEW s, NEW q, Row(s, q), NEW i \in 1..Len(s)
    PROVE  LET r == RemoveAt(s, i)
           IN  /\ Row(r, q) /\ Pk(r) = Pk(s) \ {s[i].packet}
               /\ \A j \in 1..Len(s) : j # i => \E l \in 1..Len(r) : r[l] = s[j]
               /\ \A l \in 1..Len(r) : \E j \in 1..Len(s) : r[l] = s[j]
<1> DEFINE r == RemoveAt(s, i)
           at(l) == IF l < i THEN l ELSE l + 1
<1>1. s \in Seq(Entries) /\ Len(s) \in Nat
  BY DEF Row
<1>2. /\ r \in Seq(Entries) /\ Len(r) = Len(s) - 1
      /\ \A l \in 1..Len(r) : r[l] = s[at(l)]
  BY <1>1, RemovedAt
<1>3. \A l \in 1..Len(r) : at(l) \in 1..Len(s) /\ at(l) # i
  BY <1>1, <1>2
<1>4. \A l, m \in 1..Len(r) : l < m => at(l) < at(m)
  BY <1>1, <1>2
<1> HIDE DEF r
<1>5. ASSUME NEW j \in 1..Len(s), j # i
      PROVE  \E l \in 1..Len(r) : at(l) = j
  <2>1. CASE j < i
    <3>1. j \in 1..Len(r) /\ at(j) = j
      BY <1>1, <1>2, <2>1
    <3> QED
      BY <3>1
  <2>2. CASE j > i
    <3>1. j - 1 \in 1..Len(r) /\ at(j - 1) = j
      BY <1>1, <1>2, <2>2
    <3> QED
      BY <3>1
  <2> QED
    BY <1>5, <2>1, <2>2
<1> HIDE DEF at
<1>6. Row(r, q)
  <2>1. \A l \in 1..Len(r) : /\ r[l].packet.queue = q /\ Sound(r[l])
                             /\ r[l].left <= Lifetime
    BY <1>2, <1>3 DEF Row
  <2>2. ASSUME NEW l \in 1..Len(r), NEW m \in 1..Len(r), l < m
        PROVE  r[m].packet # r[l].packet /\ r[m].left <= r[l].left
    <3>1. /\ r[l] = s[at(l)] /\ r[m] = s[at(m)] /\ at(l) < at(m)
          /\ at(l) \in 1..Len(s) /\ at(m) \in 1..Len(s)
      BY <1>2, <1>3, <1>4, <2>2
    <3> QED
      BY <3>1 DEF Row
  <2> QED
    BY <1>2, <2>1, <2>2 DEF Row
<1>7. \A j \in 1..Len(s) : j # i => s[j].packet # s[i].packet
  <2>1. \A j \in 1..Len(s) : j # i => j < i \/ i < j
    OBVIOUS
  <2> QED
    BY <2>1 DEF Row
<1>8. Pk(r) = Pk(s) \ {s[i].packet}
  <2>1. Pk(r) \subseteq Pk(s) \ {s[i].packet}
    BY <1>2, <1>3, <1>7 DEF Pk
  <2>2. ASSUME NEW j \in 1..Len(s), j # i
        PROVE  s[j].packet \in Pk(r)
    <3>1. PICK l \in 1..Len(r) : at(l) = j
      BY <1>5, <2>2
    <3>2. r[l] = s[j]
      BY <1>2, <3>1
    <3> QED
      BY <3>2 DEF Pk
  <2>3. Pk(s) \ {s[i].packet} \subseteq Pk(r)
    BY <2>2 DEF Pk
  <2> QED
    BY <2>1, <2>3
<1>9. \A j \in 1..Len(s) : j # i => \E l \in 1..Len(r) : r[l] = s[j]
  BY <1>2, <1>5
<1>10. \A l \in 1..Len(r) : \E j \in 1..Len(s) : r[l] = s[j]
  BY <1>2, <1>3
<1> QED
  BY <1>6, <1>8, <1>9, <1>10 DEF r

\* The deletion from the end of a queue in order meets all that is late.
LEMMA OverdueIs ==
    ASSUME NEW s \in Seq(Entries),
           \A i, j \in 1..Len(s) : i < j => s[j].left <= s[i].left
    PROVE  LET n == Len(s) - Cardinality(Overdue(s))
           IN  /\ n \in 0..Len(s) /\ Overdue(s) = n + 1..Len(s)
               /\ \A i \in 1..n : s[i].left >= 0
<1>1. Len(s) \in Nat /\ \A i \in 1..Len(s) : s[i].left \in Int
  BY EntriesAre
<1>2. \A i, j \in 1..Len(s) : i \in Overdue(s) /\ i <= j => j \in Overdue(s)
  <2>1. \A i, j \in 1..Len(s) : i <= j => j..Len(s) \subseteq i..Len(s)
    OBVIOUS
  <2> QED
    BY <2>1 DEF Overdue
<1>3. \A i \in 1..Len(s) : s[i].left < 0 => i \in Overdue(s)
  <2>1. ASSUME NEW i \in 1..Len(s), s[i].left < 0, NEW j \in i..Len(s)
        PROVE  s[j].left < 0
    <3>1. CASE j = i
      BY <2>1, <3>1
    <3>2. CASE i < j
      <4>1. j \in 1..Len(s) /\ s[j].left <= s[i].left
        BY <1>1, <2>1, <3>2
      <4> QED
        BY <1>1, <2>1, <4>1
    <3> QED
      BY <1>1, <2>1, <3>1, <3>2
  <2> QED
    BY <2>1 DEF Overdue
<1>4. Overdue(s) \subseteq 1..Len(s)
  BY DEF Overdue
<1>5. \E n \in 0..Len(s) : Overdue(s) = n + 1..Len(s)
  <2>1. CASE Overdue(s) = {}
    <3>1. Overdue(s) = Len(s) + 1..Len(s) /\ Len(s) \in 0..Len(s)
      BY <1>1, <2>1
    <3> QED
      BY <3>1
  <2>2. CASE Overdue(s) # {}
    <3>1. Overdue(s) \subseteq Nat
      BY <1>1, <1>4
    <3>2. PICK m \in Overdue(s) : \A j \in Overdue(s) : m <= j
      BY <2>2, <3>1, LeastNat
    <3>3. m \in 1..Len(s) /\ m - 1 \in 0..Len(s) /\ (m - 1) + 1 = m
      BY <1>1, <1>4, <3>2
    <3>4. \A j \in m..Len(s) : j \in 1..Len(s) /\ m <= j
      BY <1>1, <3>3
    <3>5. m..Len(s) \subseteq Overdue(s)
      BY <1>2, <3>2, <3>3, <3>4
    <3>6. Overdue(s) \subseteq m..Len(s)
      BY <1>1, <1>4, <3>2, <3>3
    <3>7. Overdue(s) = (m - 1) + 1..Len(s)
      BY <3>3, <3>5, <3>6
    <3> QED
      BY <3>3, <3>7
  <2> QED
    BY <2>1, <2>2
<1>6. PICK n \in 0..Len(s) : Overdue(s) = n + 1..Len(s)
  BY <1>5
<1>7. n = Len(s) - Cardinality(Overdue(s))
  <2>1. n + 1 \in Int /\ Len(s) \in Int /\ n \in Int
    BY <1>1
  <2>2. Cardinality(n + 1..Len(s)) =
        IF n + 1 > Len(s) THEN 0 ELSE Len(s) - (n + 1) + 1
    BY <2>1, FS_Interval, Zenon
  <2> QED
    BY <1>1, <1>6, <2>1, <2>2
<1>8. \A i \in 1..n : i \in 1..Len(s) /\ i \notin Overdue(s)
  BY <1>1, <1>6
<1>9. \A i \in 1..n : s[i].left >= 0
  BY <1>1, <1>3, <1>8
<1> QED
  BY <1>6, <1>7, <1>9

\* Time passes for all the entries of a queue.
LEMMA OldRow ==
    ASSUME NEW s, NEW q, Row(s, q), NEW d \in Nat \ {0}
    PROVE  LET old == Older(s, d)
           IN  /\ Row(old, q) /\ Len(old) = Len(s) /\ Pk(old) = Pk(s)
               /\ \A i \in 1..Len(s) :
                     /\ old[i].packet = s[i].packet /\ old[i].hash = s[i].hash
                     /\ old[i].parts = s[i].parts /\ old[i].left = s[i].left - d
<1> DEFINE old == Older(s, d)
<1>1. s \in Seq(Entries) /\ Len(s) \in Nat
  BY DEF Row
<1>2. ASSUME NEW f \in Entries
      PROVE  LET g == [f EXCEPT !.left = @ - d]
             IN  /\ g \in Entries /\ g.packet = f.packet /\ g.hash = f.hash
                 /\ g.parts = f.parts /\ g.left = f.left - d /\ (Sound(f) => Sound(g))
  BY DEF Entries, Sound, Whole
<1>3. /\ old \in Seq(Entries) /\ Len(old) = Len(s)
      /\ \A i \in 1..Len(s) : old[i] = [s[i] EXCEPT !.left = @ - d]
  <2>1. \A i \in 1..Len(s) : [s[i] EXCEPT !.left = @ - d] \in Entries
    BY <1>1, <1>2
  <2> QED
    BY <1>1, <2>1 DEF Older
<1>4. \A i \in 1..Len(s) :
         /\ old[i].packet = s[i].packet /\ old[i].hash = s[i].hash
         /\ old[i].parts = s[i].parts /\ old[i].left = s[i].left - d /\ Sound(old[i])
  <2>1. \A i \in 1..Len(s) : s[i] \in Entries /\ Sound(s[i])
    BY <1>1 DEF Row
  <2> QED
    BY <1>2, <1>3, <2>1
<1> HIDE DEF old
<1>5. \A i \in 1..Len(s) : s[i].left \in Int
  BY <1>1, EntriesAre
<1>6. \A i \in 1..Len(s) : old[i].packet.queue = q /\ old[i].left <= Lifetime
  BY <1>4, <1>5, TimesAre DEF Row
<1>7. \A i, j \in 1..Len(s) : i < j => old[j].packet # old[i].packet /\ old[j].left <= old[i].left
  BY <1>4, <1>5 DEF Row
<1>8. Row(old, q)
  BY <1>3, <1>4, <1>6, <1>7 DEF Row
<1>9. Pk(old) = Pk(s)
  BY <1>3, <1>4 DEF Pk
<1> QED
  BY <1>3, <1>4, <1>8, <1>9 DEF old

\* What is late goes.
LEMMA CutRow ==
    ASSUME NEW s, NEW q, Row(s, q)
    PROVE  LET n == Len(s) - Cardinality(Overdue(s))
               r == SubSeq(s, 1, n)
           IN  /\ Row(r, q) /\ Len(r) = n
               /\ \A i \in 1..n : i \in 1..Len(s) /\ r[i] = s[i] /\ s[i].left >= 0
               /\ \A i \in 1..Len(s) : i \notin Overdue(s) => i \in 1..n
               /\ Overdue(s) \subseteq 1..Len(s)
               /\ Pk(r) = Pk(s) \ {s[i].packet : i \in Overdue(s)}
               /\ \A i, j \in Overdue(s) : s[i].packet = s[j].packet => i = j
<1> DEFINE n == Len(s) - Cardinality(Overdue(s))
           r == SubSeq(s, 1, n)
<1>1. s \in Seq(Entries) /\ Len(s) \in Nat
  BY DEF Row
<1>2. \A i, j \in 1..Len(s) : i < j => s[j].left <= s[i].left
  BY DEF Row
<1>3. /\ n \in 0..Len(s) /\ Overdue(s) = n + 1..Len(s)
      /\ \A i \in 1..n : s[i].left >= 0
  BY <1>1, <1>2, OverdueIs
<1> HIDE DEF n
<1>4. r \in Seq(Entries) /\ Len(r) = n /\ \A i \in 1..n : r[i] = s[i]
  <2>1. 1 \in 1..Len(s) + 1 /\ n \in 0..Len(s)
    BY <1>1, <1>3
  <2> QED
    BY <1>1, <1>3, <2>1
<1> HIDE DEF r
<1>5. \A i \in 1..n : i \in 1..Len(s)
  BY <1>1, <1>3
<1>6. Row(r, q)
  <2>1. \A i \in 1..n : r[i].packet.queue = q /\ Sound(r[i]) /\ r[i].left <= Lifetime
    BY <1>4, <1>5 DEF Row
  <2>2. \A i, j \in 1..n : i < j => r[j].packet # r[i].packet /\ r[j].left <= r[i].left
    BY <1>4, <1>5 DEF Row
  <2> QED
    BY <1>4, <2>1, <2>2 DEF Row
<1>7. \A i, j \in 1..Len(s) : s[i].packet = s[j].packet => i = j
  <2>1. \A i, j \in 1..Len(s) : i < j \/ j < i \/ i = j
    OBVIOUS
  <2> QED
    BY <2>1 DEF Row
<1>8. Overdue(s) \subseteq 1..Len(s)
  BY DEF Overdue
<1>9. \A i \in 1..Len(s) : i \in Overdue(s) <=> i \notin 1..n
  BY <1>1, <1>3
<1>10. Pk(r) = Pk(s) \ {s[i].packet : i \in Overdue(s)}
  <2>1. Pk(r) = {s[i].packet : i \in 1..n}
    BY <1>4 DEF Pk
  <2>2. {s[i].packet : i \in 1..n} =
        {s[i].packet : i \in 1..Len(s)} \ {s[i].packet : i \in Overdue(s)}
    BY <1>5, <1>7, <1>8, <1>9
  <2> QED
    BY <2>1, <2>2 DEF Pk
<1>11. \A i, j \in Overdue(s) : s[i].packet = s[j].packet => i = j
  BY <1>7, <1>8
<1>12. \A i \in 1..n : i \in 1..Len(s) /\ r[i] = s[i] /\ s[i].left >= 0
  BY <1>3, <1>4, <1>5
<1>13. \A i \in 1..Len(s) : i \notin Overdue(s) => i \in 1..n
  BY <1>9
<1>14. Len(r) = n
  BY <1>4
<1> QED
  BY <1>6, <1>8, <1>10, <1>11, <1>12, <1>13, <1>14 DEF r, n

-----------------------------------------------------------------------------
(* Counts *)

LEMMA LessIs ==
    ASSUME NEW c \in Nat, NEW n \in Nat
    PROVE  /\ Less(c, n) \in Nat /\ Less(c, n) <= c
           /\ n <= c => Less(c, n) = c - n
BY DEF Less

LEMMA CountOne ==
    ASSUME NEW f, NEW q, NEW ts
    PROVE  CountIn({f}, q, ts) =
           IF f.packet.queue = q /\ f.packet.tunnel \in ts THEN 1 ELSE 0
<1> DEFINE c == {g \in {f} : g.packet.queue = q /\ g.packet.tunnel \in ts}
<1>1. c = IF f.packet.queue = q /\ f.packet.tunnel \in ts THEN {f} ELSE {}
  OBVIOUS
<1> HIDE DEF c
<1>2. Cardinality(c) = IF f.packet.queue = q /\ f.packet.tunnel \in ts THEN 1 ELSE 0
  BY <1>1, FS_Singleton, FS_EmptySet
<1> QED
  BY <1>2 DEF CountIn, c

\* What goes with the time is counted by its packets.
LEMMA CountLate ==
    ASSUME NEW s, NEW O, IsFiniteSet(O), NEW q, NEW ts, NEW es,
           \A i \in O : s[i] \in es /\ s[i].packet.queue = q,
           \A f \in es : f.packet.queue = q => \E i \in O : f = s[i],
           \A i, j \in O : s[i].packet = s[j].packet => i = j
    PROVE  CountIn(es, q, ts) =
           Cardinality({k \in {s[i].packet : i \in O} : k.tunnel \in ts})
<1> DEFINE I == {i \in O : s[i].packet.tunnel \in ts}
           c == {f \in es : f.packet.queue = q /\ f.packet.tunnel \in ts}
           d == {k \in {s[i].packet : i \in O} : k.tunnel \in ts}
           fc == [i \in I |-> s[i]]
           fd == [i \in I |-> s[i].packet]
<1>1. I \in SUBSET O
  OBVIOUS
<1>2. IsFiniteSet(I)
  BY <1>1, FS_Subset
<1>3. fc \in [I -> c] /\ \A i, j \in I : fc[i] = fc[j] => i = j
  OBVIOUS
<1>4. \A x \in c : \E i \in I : fc[i] = x
  OBVIOUS
<1>5. fd \in [I -> d] /\ \A i, j \in I : fd[i] = fd[j] => i = j
  OBVIOUS
<1>6. \A x \in d : \E i \in I : fd[i] = x
  OBVIOUS
<1> HIDE DEF I, c, d, fc, fd
<1>7. Cardinality(c) = Cardinality(I)
  BY <1>2, <1>3, <1>4, SameSize
<1>8. Cardinality(d) = Cardinality(I)
  BY <1>2, <1>5, <1>6, SameSize
<1> QED
  BY <1>7, <1>8 DEF CountIn, c, d

-----------------------------------------------------------------------------
(* The invariant *)

Rows == frags \in [Queue -> Seq(Entries)] /\ \A q \in Queue : Row(frags[q], q)

Sized ==
    \E size \in HashSize :
        /\ fraghash \in [0..size - 1 -> Packet \cup {NoPacket}]
        /\ jhash \in [Id -> 0..size - 1]

\* an entry has packet k, and knows its slot h
Knows(F, h, k) ==
    \E i \in 1..Len(F[k.queue]) : F[k.queue][i].packet = k /\ F[k.queue][i].hash = h

\* A slot points to an entry only where its packet is looked for.
Pointing ==
    \A h \in DOMAIN fraghash : fraghash[h] # NoPacket =>
        /\ fraghash[h].queue # "frags6" /\ h = jhash[fraghash[h].id]
        /\ Knows(frags, h, fraghash[h])

Tunnels == live \subseteq Tunnel /\ heirs \subseteq live

Counted ==
    /\ fragscnt \in [Queue -> Nat] /\ frgcnt \in [Tunnel -> [Queue -> Nat]]
    /\ \A q \in Queue :
          /\ fragscnt[q] <= FragMax[q] /\ fragscnt[q] = Cardinality(Pk(frags[q]))
          /\ \A t \in Tunnel :
                /\ frgcnt[t][q] <= FragTnMax[q]
                /\ t \notin live => frgcnt[t][q] = 0
                /\ t \in live \ heirs =>
                      frgcnt[t][q] = Cardinality(Class(frags[q], t))

Made == rebuilt \subseteq Part /\ RebuiltIsPacket

\* an entry is over its time only between the reading of the clock and the deletion
Timed ==
    /\ late \in BOOLEAN
    /\ \A q \in Queue : \A i \in 1..Len(frags[q]) :
          frags[q][i].left >= IF late THEN -MaxSkip ELSE 0

IInv == Rows /\ Timed /\ Sized /\ Pointing /\ Tunnels /\ Counted /\ Made

LEMMA SizesAre ==
    ASSUME NEW size \in HashSize
    PROVE  /\ size \in Nat \ {0} /\ Max(HashSize) \in Nat
           /\ 0..size - 1 \subseteq 0..Max(HashSize) - 1
           /\ Cardinality(0..size - 1) = size
<1>1. HashSize \subseteq Nat /\ HashSize # {} /\ IsFiniteSet(HashSize) /\ size \in Nat \ {0}
  BY AftrFragAssumption DEF AftrFragAssumption
<1>2. Max(HashSize) \in HashSize /\ size <= Max(HashSize)
  BY <1>1, MaxIs
<1>3. 0 \in Int /\ size - 1 \in Int /\ ~(0 > size - 1)
  BY <1>1
<1>4. Cardinality(0..size - 1) = IF 0 > size - 1 THEN 0 ELSE size - 1 - 0 + 1
  BY <1>3, FS_Interval, Zenon
<1>5. Cardinality(0..size - 1) = size
  BY <1>1, <1>3, <1>4
<1>6. Max(HashSize) \in Nat
  BY <1>1, <1>2
<1>7. 0..size - 1 \subseteq 0..Max(HashSize) - 1
  BY <1>1, <1>2, <1>6
<1> QED
  BY <1>1, <1>5, <1>6, <1>7

\* the slots of the hash cache
LEMMA SlotsAre ==
    ASSUME Sized
    PROVE  /\ DOMAIN fraghash = Hash /\ jhash \in [Id -> Hash]
           /\ \A h \in Hash : fraghash[h] \in Packet \cup {NoPacket}
           /\ Hash \subseteq 0..Max(HashSize) - 1
<1>1. PICK size \in HashSize : /\ fraghash \in [0..size - 1 -> Packet \cup {NoPacket}]
                               /\ jhash \in [Id -> 0..size - 1]
  BY DEF Sized
<1>2. Cardinality(0..size - 1) = size /\ 0..size - 1 \subseteq 0..Max(HashSize) - 1
  BY SizesAre
<1>3. DOMAIN fraghash = 0..size - 1
  BY <1>1
<1>4. Hash = 0..size - 1
  BY <1>2, <1>3 DEF Hash
<1> QED
  BY <1>1, <1>2, <1>3, <1>4

LEMMA HashedIs ==
    ASSUME Sized, NEW f \in Entries
    PROVE  /\ Hashed(f) \in Entries
           /\ Hashed(f).packet = f.packet /\ Hashed(f).parts = f.parts
           /\ Hashed(f).first = f.first /\ Hashed(f).left = f.left
           /\ Hashed(f).hash = IF \/ f.packet.queue = "frags6"
                                  \/ fraghash[jhash[f.packet.id]] = f.packet
                               THEN f.hash ELSE jhash[f.packet.id]
           /\ Sound(f) => Sound(Hashed(f))
<1>1. f.packet.queue # "frags6" => jhash[f.packet.id] \in 0..Max(HashSize) - 1
  BY SlotsAre, PacketsAre, EntriesAre
<1> QED
  BY <1>1 DEF Hashed, Entries, Sound, Whole

LEMMA InsertIs ==
    ASSUME NEW f \in Entries, NEW p \in Part, Apart(f.parts), Fits(f.parts, p),
           (\E r \in f.parts : r.off = 0) => f.first
    PROVE  LET g == Insert(f, p)
           IN  /\ g \in Entries /\ g.packet = f.packet /\ g.left = f.left
               /\ g.hash = f.hash
               /\ g.parts = f.parts \cup {p} /\ Apart(g.parts)
               /\ (\E r \in g.parts : r.off = 0) => g.first
               /\ Whole(g) \/ Sound(g)
<1>1. Apart(f.parts \cup {p})
  BY FitsApart
<1>2. f = [packet |-> f.packet, first |-> f.first, parts |-> f.parts,
           left |-> f.left, hash |-> f.hash]
  BY DEF Entries
<1>3. LET g == Insert(f, p)
      IN  /\ g \in Entries /\ g.packet = f.packet /\ g.left = f.left
          /\ g.hash = f.hash
          /\ g.parts = f.parts \cup {p} /\ g.first = (f.first \/ p.off = 0)
  BY DEF Insert, Entries
<1>4. (\E r \in Insert(f, p).parts : r.off = 0) => Insert(f, p).first
  BY <1>3
<1> QED
  BY <1>1, <1>3, <1>4 DEF Sound

LEMMA CacheIs ==
    ASSUME Sized, NEW k \in Packet
    PROVE  /\ \E size \in HashSize :
                 /\ Cache(k) \in [0..size - 1 -> Packet \cup {NoPacket}]
                 /\ jhash \in [Id -> 0..size - 1]
           /\ DOMAIN Cache(k) = DOMAIN fraghash
           /\ k.queue = "frags6" => Cache(k) = fraghash
           /\ k.queue # "frags6" =>
                 /\ jhash[k.id] \in DOMAIN fraghash
                 /\ \A h \in DOMAIN fraghash :
                       Cache(k)[h] = IF h = jhash[k.id] THEN k ELSE fraghash[h]
BY PacketsAre DEF Sized, Cache

-----------------------------------------------------------------------------
(* The steps *)

LEMMA InitHolds == Init => IInv
<1> SUFFICES ASSUME Init
             PROVE  IInv
  OBVIOUS
<1>1. Rows
  BY DEF Init, Rows, Row
<1>2. Sized
  BY DEF Init, Sized
<1>3. Pointing
  BY DEF Init, Pointing
<1>4. Tunnels
  BY DEF Init, Tunnels
<1>5. Counted
  <2>1. \A q \in Queue : Pk(frags[q]) = {} /\ \A t : Class(frags[q], t) = {}
    BY DEF Init, Pk, Class
  <2>2. FragMax \in [Queue -> Nat] /\ FragTnMax \in [Queue -> Nat]
    BY AftrFragAssumption DEF AftrFragAssumption
  <2>3. ASSUME NEW q \in Queue
        PROVE  /\ fragscnt[q] <= FragMax[q] /\ fragscnt[q] = Cardinality(Pk(frags[q]))
               /\ \A t \in Tunnel :
                     /\ frgcnt[t][q] <= FragTnMax[q]
                     /\ t \notin live => frgcnt[t][q] = 0
                     /\ t \in live \ heirs =>
                           frgcnt[t][q] = Cardinality(Class(frags[q], t))
    <3>1. fragscnt[q] = 0 /\ \A t \in Tunnel : frgcnt[t][q] = 0
      BY DEF Init
    <3>2. 0 <= FragMax[q] /\ 0 <= FragTnMax[q]
      BY <2>2
    <3>3. Cardinality(Pk(frags[q])) = 0 /\ \A t : Cardinality(Class(frags[q], t)) = 0
      BY <2>1, FS_EmptySet
    <3> QED
      BY <3>1, <3>2, <3>3
  <2> QED
    BY <2>3 DEF Init, Counted
<1>6. Made
  BY DEF Init, Made, RebuiltIsPacket
<1>7. Timed
  <2>1. late = FALSE /\ \A q \in Queue : frags[q] = << >>
    BY DEF Init
  <2>2. \A q \in Queue : \A i \in 1..Len(frags[q]) : FALSE
    BY <2>1
  <2> QED
    BY <2>1, <2>2 DEF Timed
<1> QED
  BY <1>1, <1>2, <1>3, <1>4, <1>5, <1>6, <1>7 DEF IInv

\* No time passes in a step that makes, changes or deletes entries.
LEMMA TimedKept ==
    ASSUME Timed, late' = late,
           \A q \in Queue : \A i \in 1..Len(frags'[q]) :
              \/ frags'[q][i].left = Lifetime
              \/ \E j \in 1..Len(frags[q]) : frags'[q][i].left = frags[q][j].left
    PROVE  Timed'
<1>1. Lifetime >= IF late THEN -MaxSkip ELSE 0
  BY TimesAre
<1>2. \A q \in Queue : \A i \in 1..Len(frags'[q]) :
         frags'[q][i].left >= IF late THEN -MaxSkip ELSE 0
  BY <1>1 DEF Timed
<1> QED
  BY <1>2 DEF Timed

\* The place of a packet in its queue.
LEMMA PositionIs ==
    ASSUME Rows, NEW k \in Packet, NEW i \in Position(k)
    PROVE  /\ k.queue \in Queue /\ Row(frags[k.queue], k.queue)
           /\ i \in 1..Len(frags[k.queue])
           /\ frags[k.queue][i] \in Entries /\ frags[k.queue][i].packet = k
           /\ \A j \in 1..Len(frags[k.queue]) : frags[k.queue][j].packet = k => j = i
<1>1. /\ k.queue \in Queue /\ Row(frags[k.queue], k.queue)
      /\ i \in 1..Len(frags[k.queue]) /\ frags[k.queue][i].packet = k
  BY PacketsAre DEF Rows, Position
<1>2. frags[k.queue][i] \in Entries
  BY <1>1 DEF Row
<1>3. \A j \in 1..Len(frags[k.queue]) : frags[k.queue][j].packet = k => j = i
  <2>1. \A j \in 1..Len(frags[k.queue]) : i < j \/ j < i \/ i = j
    BY <1>1
  <2> QED
    BY <1>1, <2>1 DEF Row
<1> QED
  BY <1>1, <1>2, <1>3

\* The entry that is found knows the slot that points to it.
LEMMA HashedKnows ==
    ASSUME IInv, NEW k \in Packet, NEW i \in Position(k), k.queue # "frags6"
    PROVE  Hashed(frags[k.queue][i]).hash = jhash[k.id]
<1> DEFINE f == frags[k.queue][i]
<1>1. /\ f \in Entries /\ f.packet = k
      /\ \A j \in 1..Len(frags[k.queue]) : frags[k.queue][j].packet = k => j = i
  BY PositionIs DEF IInv
<1>2. Hashed(f).hash = IF fraghash[jhash[k.id]] = k THEN f.hash ELSE jhash[k.id]
  BY <1>1, HashedIs DEF IInv
<1>3. ASSUME fraghash[jhash[k.id]] = k
      PROVE  f.hash = jhash[k.id]
  <2>1. jhash[k.id] \in DOMAIN fraghash /\ k # NoPacket
    BY CacheIs, PacketsAre DEF IInv
  <2>2. Knows(frags, jhash[k.id], k)
    BY <1>3, <2>1 DEF IInv, Pointing
  <2> QED
    BY <1>1, <2>2 DEF Knows
<1> QED
  BY <1>2, <1>3

\* A queue is changed, and the slot of packet k may be made to point to it.
LEMMA PointingKept ==
    ASSUME Sized, Pointing, NEW k \in Packet,
           fraghash' = Cache(k), jhash' = jhash,
           \A h \in DOMAIN fraghash : \A j \in Packet :
              j # k /\ j.queue # "frags6" /\ Knows(frags, h, j) => Knows(frags', h, j),
           k.queue # "frags6" => Knows(frags', jhash[k.id], k)
    PROVE  Pointing'
<1> SUFFICES ASSUME NEW h \in DOMAIN fraghash, Cache(k)[h] # NoPacket
             PROVE  /\ Cache(k)[h].queue # "frags6" /\ h = jhash[Cache(k)[h].id]
                    /\ Knows(frags', h, Cache(k)[h])
  BY CacheIs DEF Pointing
<1>1. h \in Hash /\ fraghash[h] \in Packet \cup {NoPacket}
  BY SlotsAre
<1>2. CASE Cache(k)[h] = fraghash[h]
  <2>1. /\ fraghash[h] \in Packet /\ fraghash[h].queue # "frags6"
        /\ h = jhash[fraghash[h].id] /\ Knows(frags, h, fraghash[h])
    BY <1>1, <1>2 DEF Pointing
  <2> QED
    BY <1>2, <2>1
<1>3. CASE Cache(k)[h] # fraghash[h]
  BY <1>3, CacheIs
<1> QED
  BY <1>2, <1>3

\* The entry at i is changed in its place: Drop and Keep.
LEMMA InPlaceKeeps ==
    ASSUME IInv, NEW k \in Packet, NEW i \in Position(k), NEW e \in Entries, Sound(e),
           e.packet = k, e.left = frags[k.queue][i].left,
           e.hash = Hashed(frags[k.queue][i]).hash,
           frags' = [frags EXCEPT ![k.queue] = [@ EXCEPT ![i] = e]],
           fraghash' = Cache(k), rebuilt' = {},
           UNCHANGED <<live, fragscnt, frgcnt, jhash, late, heirs>>
    PROVE  IInv'
<1> DEFINE q == k.queue
           s == frags[q]
           r == [s EXCEPT ![i] = e]
<1>1. /\ q \in Queue /\ Row(s, q) /\ i \in 1..Len(s) /\ s[i] \in Entries
      /\ s[i].packet = k /\ \A j \in 1..Len(s) : s[j].packet = k => j = i
  BY PositionIs DEF IInv
<1>2. /\ Row(r, q) /\ Pk(r) = Pk(s) /\ Len(r) = Len(s)
      /\ \A j \in 1..Len(s) : r[j] = IF j = i THEN e ELSE s[j]
  BY <1>1, SetRow
<1>3. /\ frags \in [Queue -> Seq(Entries)] /\ frags' = [frags EXCEPT ![q] = r]
      /\ r \in Seq(Entries)
  BY <1>1, <1>2 DEF IInv, Rows, Row
<1> HIDE DEF r
<1>4. Rows'
  BY <1>2, <1>3 DEF IInv, Rows
<1>5. Sized'
  BY CacheIs DEF IInv, Sized
<1>6. Pointing'
  <2>1. ASSUME NEW h \in DOMAIN fraghash, NEW j \in Packet, j # k, j.queue # "frags6",
               Knows(frags, h, j)
        PROVE  Knows(frags', h, j)
    <3>1. PICK l \in 1..Len(frags[j.queue]) :
               frags[j.queue][l].packet = j /\ frags[j.queue][l].hash = h
      BY <2>1 DEF Knows
    <3>2. CASE j.queue = q
      <4>1. l \in 1..Len(r) /\ r[l] = s[l] /\ frags'[j.queue] = r
        BY <1>1, <1>2, <1>3, <2>1, <3>1, <3>2
      <4> QED
        BY <3>1, <3>2, <4>1 DEF Knows
    <3>3. CASE j.queue # q
      BY <1>3, <2>1, <3>1, <3>3, PacketsAre DEF Knows
    <3> QED
      BY <3>2, <3>3
  <2>2. ASSUME q # "frags6"
        PROVE  Knows(frags', jhash[k.id], k)
    <3>1. e.hash = jhash[k.id]
      BY <2>2, HashedKnows
    <3>2. i \in 1..Len(r) /\ r[i] = e /\ frags'[q] = r
      BY <1>1, <1>2, <1>3
    <3> QED
      BY <3>1, <3>2 DEF Knows
  <2> QED
    BY <2>1, <2>2, PointingKept DEF IInv
<1>7. Tunnels'
  BY DEF IInv, Tunnels
<1>8. Counted'
  <2>1. \A p \in Queue : Pk(frags'[p]) = Pk(frags[p])
    BY <1>2, <1>3
  <2>2. \A p \in Queue : \A t : Class(frags'[p], t) = Class(frags[p], t)
    BY <2>1 DEF Class
  <2>3. Counted
    BY DEF IInv
  <2> QED
    BY <2>1, <2>2, <2>3 DEF Counted
<1>9. Made'
  BY DEF Made, RebuiltIsPacket
<1>10. Timed'
  <2>1. ASSUME NEW p \in Queue, NEW j \in 1..Len(frags'[p])
        PROVE  \E l \in 1..Len(frags[p]) : frags'[p][j].left = frags[p][l].left
    <3>1. CASE p = q
      <4>1. frags'[p] = r /\ j \in 1..Len(s) /\ r[j].left = s[j].left
        BY <1>2, <1>3, <2>1, <3>1
      <4> QED
        BY <3>1, <4>1
    <3>2. CASE p # q
      BY <1>3, <3>2
    <3> QED
      BY <3>1, <3>2
  <2> QED
    BY <2>1, TimedKept DEF IInv
<1> QED
  BY <1>4, <1>5, <1>6, <1>7, <1>8, <1>9, <1>10 DEF IInv

LEMMA DropKeeps ==
    ASSUME IInv, NEW k \in Packet, NEW i \in Position(k), Drop(k, i)
    PROVE  IInv'
<1> DEFINE e == Hashed(frags[k.queue][i])
<1>1. /\ frags[k.queue][i] \in Entries /\ frags[k.queue][i].packet = k
      /\ Sound(frags[k.queue][i])
  BY PositionIs DEF IInv, Row
<1>2. /\ e \in Entries /\ Sound(e) /\ e.packet = k /\ e.left = frags[k.queue][i].left
  BY <1>1, HashedIs DEF IInv
<1>3. frags' = [frags EXCEPT ![k.queue] = [@ EXCEPT ![i] = e]]
  BY DEF Drop
<1> HIDE DEF e
<1>4. e.hash = Hashed(frags[k.queue][i]).hash
  BY DEF e
<1> QED
  BY <1>2, <1>3, <1>4, InPlaceKeeps DEF Drop

LEMMA KeepKeeps ==
    ASSUME IInv, NEW k \in Packet, NEW i \in Position(k), NEW p \in Part, Keep(k, i, p)
    PROVE  IInv'
<1> DEFINE f == Hashed(frags[k.queue][i])
           e == Insert(f, p)
<1>1. /\ frags[k.queue][i] \in Entries /\ frags[k.queue][i].packet = k
      /\ Sound(frags[k.queue][i])
  BY PositionIs DEF IInv, Row
<1>2. /\ f \in Entries /\ Sound(f) /\ f.packet = k /\ f.left = frags[k.queue][i].left
  BY <1>1, HashedIs DEF IInv
<1>3. Fits(f.parts, p) /\ ~Whole(e) /\ frags' = [frags EXCEPT ![k.queue] = [@ EXCEPT ![i] = e]]
  BY DEF Keep
<1> HIDE DEF f
<1>4. /\ e \in Entries /\ Sound(e) /\ e.packet = k /\ e.left = frags[k.queue][i].left
      /\ e.hash = f.hash
  BY <1>2, <1>3, InsertIs DEF Sound
<1> HIDE DEF e
<1>5. e.hash = Hashed(frags[k.queue][i]).hash
  BY <1>4 DEF f
<1> QED
  BY <1>3, <1>4, <1>5, InPlaceKeeps DEF Keep

\* The counts of queue q and of the tunnel of k when k gets an entry.
LEMMA ClassIn ==
    ASSUME NEW s, NEW r, NEW k, IsFiniteSet(Pk(s)), Pk(r) = Pk(s) \cup {k}, k \notin Pk(s)
    PROVE  /\ Cardinality(Pk(r)) = Cardinality(Pk(s)) + 1
           /\ \A t : t # k.tunnel => Class(r, t) = Class(s, t)
           /\ Cardinality(Class(r, k.tunnel)) = Cardinality(Class(s, k.tunnel)) + 1
<1> DEFINE C == Class(s, k.tunnel)
<1>1. C \in SUBSET Pk(s) /\ k \notin C /\ Class(r, k.tunnel) = C \cup {k}
      /\ \A t : t # k.tunnel => Class(r, t) = Class(s, t)
  BY DEF Class
<1> HIDE DEF C
<1>2. IsFiniteSet(C)
  BY <1>1, FS_Subset
<1>3. Cardinality(C \cup {k}) = Cardinality(C) + 1
  BY <1>1, <1>2, FS_AddElement
<1>4. Cardinality(Pk(r)) = Cardinality(Pk(s)) + 1
  BY FS_AddElement
<1> QED
  BY <1>1, <1>3, <1>4 DEF C

LEMMA FragmentsAre ==
    ASSUME NEW k \in Packet, NEW p \in Fragment[k]
    PROVE  p \in Part
BY AftrFragAssumption DEF AftrFragAssumption

\* The entry of a packet that had none, before it takes the fragment.
LEMMA EntryIs ==
    ASSUME NEW k \in Packet, NEW p \in Fragment[k]
    PROVE  /\ Entry(k, p) \in Entries /\ Entry(k, p).packet = k
           /\ Entry(k, p).parts = {} /\ Entry(k, p).left = Lifetime
           /\ Entry(k, p).first = (p.off = 0)
           /\ Apart({}) /\ Fits({}, p) /\ p \in Part
<1>1. 0 \in 0..Max(HashSize) - 1
  <2>1. PICK size \in HashSize : TRUE
    BY AftrFragAssumption DEF AftrFragAssumption
  <2>2. 0 \in 0..size - 1
    BY SizesAre
  <2> QED
    BY <2>2, SizesAre
<1>2. /\ Entry(k, p) \in Entries /\ Entry(k, p).packet = k /\ Entry(k, p).parts = {}
      /\ Entry(k, p).left = Lifetime /\ Entry(k, p).first = (p.off = 0)
  BY <1>1, TimesAre DEF Entry, Entries
<1>3. Apart({}) /\ Fits({}, p) /\ p \in Part
  BY FragmentsAre, FS_EmptySet DEF Apart, Fits
<1> QED
  BY <1>2, <1>3

\* That entry, when it has taken the fragment or found no memory for it.
LEMMA FreshIs ==
    ASSUME Sized, NEW k \in Packet, NEW p \in Fragment[k], NEW room \in BOOLEAN
    PROVE  LET f == Hashed(Entry(k, p))
               e == IF room THEN Insert(f, p) ELSE f
           IN  /\ e \in Entries /\ e.packet = k /\ e.left = Lifetime
               /\ e.parts = IF room THEN {p} ELSE {}
               /\ Whole(e) \/ Sound(e)
               /\ k.queue # "frags6" /\ fraghash[jhash[k.id]] # k =>
                     e.hash = jhash[k.id]
<1> DEFINE f == Hashed(Entry(k, p))
<1>1. /\ f \in Entries /\ f.packet = k /\ f.parts = {} /\ f.left = Lifetime
      /\ k.queue # "frags6" /\ fraghash[jhash[k.id]] # k => f.hash = jhash[k.id]
  BY EntryIs, HashedIs
<1> HIDE DEF f
<1>2. Apart({}) /\ Fits({}, p) /\ p \in Part
  BY EntryIs
<1>3. CASE ~room
  <2>1. Sound(f)
    BY <1>1, <1>2 DEF Sound, Whole
  <2> QED
    BY <1>1, <1>3, <2>1 DEF f
<1>4. CASE room
  <2> DEFINE e == Insert(f, p)
  <2>1. /\ e \in Entries /\ e.packet = f.packet /\ e.left = f.left /\ e.hash = f.hash
        /\ e.parts = {} \cup {p} /\ (Whole(e) \/ Sound(e))
    BY <1>1, <1>2, InsertIs
  <2> HIDE DEF e
  <2>2. e.parts = {p}
    BY <2>1
  <2> QED
    BY <1>1, <1>4, <2>1, <2>2 DEF f, e
<1> QED
  BY <1>3, <1>4

\* The counter of tunnel t for queue q goes up.
LEMMA CountedUp ==
    ASSUME NEW c \in [Tunnel -> [Queue -> Nat]], NEW t \in Tunnel, NEW q \in Queue
    PROVE  LET d == [c EXCEPT ![t][q] = @ + 1]
           IN  /\ d \in [Tunnel -> [Queue -> Nat]]
               /\ \A u \in Tunnel, v \in Queue :
                     d[u][v] = IF u = t /\ v = q THEN c[u][v] + 1 ELSE c[u][v]
<1> DEFINE e == [c[t] EXCEPT ![q] = @ + 1]
           d == [c EXCEPT ![t] = e]
<1>1. c[t] \in [Queue -> Nat]
  OBVIOUS
<1>2. e \in [Queue -> Nat] /\ \A v \in Queue : e[v] = IF v = q THEN c[t][v] + 1 ELSE c[t][v]
  BY <1>1
<1>3. [c EXCEPT ![t][q] = @ + 1] = d
  OBVIOUS
<1> HIDE DEF e
<1>4. d \in [Tunnel -> [Queue -> Nat]] /\ \A u \in Tunnel : d[u] = IF u = t THEN e ELSE c[u]
  BY <1>2
<1> HIDE DEF d
<1> QED
  BY <1>2, <1>3, <1>4

LEMMA NewEntryKeeps ==
    ASSUME IInv, NEW k \in Packet, NEW p \in Fragment[k], NEW room \in BOOLEAN,
           NewEntry(k, p, room)
    PROVE  IInv'
<1> DEFINE q == k.queue
           s == frags[q]
           f == Hashed(Entry(k, p))
           e == IF room THEN Insert(f, p) ELSE f
           r == <<e>> \o s
<1>1. /\ e \in Entries /\ Sound(e) /\ e.packet = k /\ e.left = Lifetime
      /\ k.queue # "frags6" /\ fraghash[jhash[k.id]] # k => e.hash = jhash[k.id]
  <2>1. ~Whole(e)
    BY DEF NewEntry
  <2> QED
    BY <2>1, FreshIs DEF IInv
<1>2. frags' = [frags EXCEPT ![q] = r]
  BY DEF NewEntry
<1> HIDE DEF e
<1>3. q \in Queue /\ Row(s, q)
  BY PacketsAre DEF IInv, Rows
<1>4. k \notin Pk(s)
  BY DEF NewEntry, Position, Pk
<1>5. /\ Row(r, q) /\ Pk(r) = Pk(s) \cup {k}
      /\ Len(r) = Len(s) + 1 /\ r[1] = e
      /\ \A i \in 1..Len(s) : r[i + 1] = s[i]
  BY <1>1, <1>3, <1>4, PutRow
<1>6. frags \in [Queue -> Seq(Entries)] /\ r \in Seq(Entries) /\ Len(s) \in Nat
  BY <1>3, <1>5 DEF IInv, Rows, Row
<1> HIDE DEF r
<1>7. Rows'
  BY <1>2, <1>5, <1>6 DEF IInv, Rows
<1>8. Sized'
  BY CacheIs DEF IInv, Sized, NewEntry
<1>9. Pointing'
  <2>1. ASSUME NEW h \in DOMAIN fraghash, NEW j \in Packet, j # k, j.queue # "frags6",
               Knows(frags, h, j)
        PROVE  Knows(frags', h, j)
    <3>1. PICK l \in 1..Len(frags[j.queue]) :
               frags[j.queue][l].packet = j /\ frags[j.queue][l].hash = h
      BY <2>1 DEF Knows
    <3>2. CASE j.queue = q
      <4>1. l + 1 \in 1..Len(r) /\ r[l + 1] = s[l] /\ frags'[j.queue] = r
        BY <1>2, <1>3, <1>5, <1>6, <3>1, <3>2
      <4> QED
        BY <3>1, <3>2, <4>1 DEF Knows
    <3>3. CASE j.queue # q
      BY <1>2, <1>6, <2>1, <3>1, <3>3, PacketsAre DEF Knows
    <3> QED
      BY <3>2, <3>3
  <2>2. ASSUME q # "frags6"
        PROVE  Knows(frags', jhash[k.id], k)
    <3>1. fraghash[jhash[k.id]] # k
      <4>1. jhash[k.id] \in DOMAIN fraghash /\ k # NoPacket
        BY <2>2, CacheIs, PacketsAre DEF IInv
      <4>2. ~Knows(frags, jhash[k.id], k)
        BY <1>4 DEF Knows, Pk
      <4> QED
        BY <4>1, <4>2 DEF IInv, Pointing
    <3>2. 1 \in 1..Len(r) /\ r[1] = e /\ frags'[q] = r
      BY <1>2, <1>3, <1>5, <1>6
    <3> QED
      BY <1>1, <2>2, <3>1, <3>2 DEF Knows
  <2> QED
    BY <2>1, <2>2, PointingKept DEF IInv, NewEntry
<1>10. Tunnels'
  BY DEF IInv, Tunnels, NewEntry
<1>11. Counted'
  <2>1. IsFiniteSet(Pk(s))
    BY <1>3, RowCounts
  <2>2. /\ Cardinality(Pk(r)) = Cardinality(Pk(s)) + 1
        /\ \A t : t # k.tunnel => Class(r, t) = Class(s, t)
        /\ Cardinality(Class(r, k.tunnel)) = Cardinality(Class(s, k.tunnel)) + 1
    BY <1>4, <1>5, <2>1, ClassIn
  <2>3. /\ Counted /\ live \subseteq Tunnel
        /\ fragscnt \in [Queue -> Nat] /\ frgcnt \in [Tunnel -> [Queue -> Nat]]
    BY DEF IInv, Counted, Tunnels
  <2>4. /\ fragscnt' = [fragscnt EXCEPT ![q] = @ + 1]
        /\ live' = live /\ heirs' = heirs /\ fragscnt[q] < FragMax[q]
        /\ frgcnt' = IF k.tunnel = NoTunnel THEN frgcnt
                     ELSE [frgcnt EXCEPT ![k.tunnel][q] = @ + 1]
    BY DEF NewEntry, Admitted
  <2>5. /\ FragMax \in [Queue -> Nat] /\ FragTnMax \in [Queue -> Nat]
        /\ NoTunnel \notin Tunnel
        /\ k.tunnel # NoTunnel =>
              k.tunnel \in Tunnel /\ k.tunnel \in live /\ frgcnt[k.tunnel][q] < FragTnMax[q]
    <3>1. k.tunnel # NoTunnel =>
             k.tunnel \in live /\ frgcnt[k.tunnel][q] < FragTnMax[q]
      BY DEF NewEntry, Admitted
    <3> QED
      BY <2>3, <3>1, AftrFragAssumption DEF AftrFragAssumption
  <2>6. /\ fragscnt' \in [Queue -> Nat] /\ frgcnt' \in [Tunnel -> [Queue -> Nat]]
        /\ \A t \in Tunnel, u \in Queue : frgcnt'[t][u] =
              IF t = k.tunnel /\ u = q THEN frgcnt[t][u] + 1 ELSE frgcnt[t][u]
    <3>1. fragscnt' \in [Queue -> Nat]
      BY <1>3, <2>3, <2>4
    <3>2. CASE k.tunnel = NoTunnel
      BY <2>3, <2>4, <2>5, <3>1, <3>2
    <3>3. CASE k.tunnel # NoTunnel
      BY <1>3, <2>3, <2>4, <2>5, <3>1, <3>3, CountedUp
    <3> QED
      BY <3>2, <3>3
  <2>7. ASSUME NEW u \in Queue
        PROVE  /\ fragscnt'[u] <= FragMax[u] /\ fragscnt'[u] = Cardinality(Pk(frags'[u]))
    <3>1. CASE u = q
      <4>1. fragscnt'[u] = fragscnt[u] + 1 /\ frags'[u] = r
        BY <1>2, <1>3, <1>6, <2>3, <2>4, <3>1
      <4> QED
        <5>1. fragscnt[u] \in Nat /\ FragMax[u] \in Nat /\ fragscnt[u] < FragMax[u]
          BY <2>3, <2>4, <2>5, <3>1
        <5>2. fragscnt[u] = Cardinality(Pk(s))
          BY <2>3, <3>1 DEF Counted
        <5> QED
          BY <2>2, <4>1, <5>1, <5>2
    <3>2. CASE u # q
      <4>1. fragscnt'[u] = fragscnt[u] /\ frags'[u] = frags[u]
        BY <1>2, <1>3, <1>6, <2>3, <2>4, <3>2
      <4> QED
        BY <2>3, <4>1 DEF Counted
    <3> QED
      BY <3>1, <3>2
  <2>8. ASSUME NEW u \in Queue, NEW t \in Tunnel
        PROVE  /\ frgcnt'[t][u] <= FragTnMax[u]
               /\ t \notin live => frgcnt'[t][u] = 0
               /\ t \in live \ heirs => frgcnt'[t][u] = Cardinality(Class(frags'[u], t))
    <3>1. CASE u = q /\ t = k.tunnel
      <4>1. frgcnt'[t][u] = frgcnt[t][u] + 1 /\ frags'[u] = r /\ t \in live
        BY <1>2, <1>3, <1>6, <2>3, <2>5, <2>6, <3>1
      <4>2. frgcnt[t][u] \in Nat /\ FragTnMax[u] \in Nat /\ frgcnt[t][u] < FragTnMax[u]
        BY <2>3, <2>5, <3>1
      <4>3. t \in live \ heirs => frgcnt[t][u] = Cardinality(Class(s, t))
        BY <2>3, <3>1 DEF Counted
      <4> QED
        BY <2>2, <3>1, <4>1, <4>2, <4>3
    <3>2. CASE ~(u = q /\ t = k.tunnel)
      <4>1. frgcnt'[t][u] = frgcnt[t][u]
        BY <2>6, <3>2
      <4>2. Class(frags'[u], t) = Class(frags[u], t)
        BY <1>2, <1>3, <1>6, <2>2, <3>2
      <4> QED
        BY <2>3, <4>1, <4>2 DEF Counted
    <3> QED
      BY <3>1, <3>2
  <2> QED
    BY <2>4, <2>6, <2>7, <2>8 DEF Counted
<1>12. Made'
  BY DEF Made, RebuiltIsPacket, NewEntry
<1>13. Timed'
  <2>1. ASSUME NEW u \in Queue, NEW j \in 1..Len(frags'[u])
        PROVE  \/ frags'[u][j].left = Lifetime
               \/ \E l \in 1..Len(frags[u]) : frags'[u][j].left = frags[u][l].left
    <3>1. CASE u = q
      <4>1. frags'[u] = r /\ j \in 1..Len(s) + 1
        BY <1>2, <1>3, <1>5, <1>6, <2>1, <3>1
      <4>2. CASE j = 1
        BY <1>1, <1>5, <4>1, <4>2
      <4>3. CASE j # 1
        <5>1. j - 1 \in 1..Len(s) /\ r[(j - 1) + 1] = s[j - 1] /\ (j - 1) + 1 = j
          BY <1>5, <1>6, <4>1, <4>3
        <5> QED
          BY <3>1, <4>1, <5>1
      <4> QED
        BY <4>2, <4>3
    <3>2. CASE u # q
      BY <1>2, <1>6, <3>2
    <3> QED
      BY <3>1, <3>2
  <2>2. late' = late
    BY DEF NewEntry
  <2> QED
    BY <2>1, <2>2, TimedKept DEF IInv
<1> QED
  BY <1>7, <1>8, <1>9, <1>10, <1>11, <1>12, <1>13 DEF IInv

\* A fragment that is all of its packet leaves nothing behind.
LEMMA AloneKeeps ==
    ASSUME IInv, NEW k \in Packet, NEW p \in Fragment[k], Alone(k, p)
    PROVE  IInv'
<1> DEFINE f == Entry(k, p)
           e == Insert(f, p)
<1>1. UNCHANGED <<live, frags, fragscnt, frgcnt, fraghash, jhash, late, heirs>>
  BY DEF Alone
<1>2. Rows' /\ Timed' /\ Sized' /\ Pointing' /\ Tunnels' /\ Counted'
  BY <1>1 DEF IInv, Rows, Timed, Sized, Pointing, Knows, Tunnels, Counted
<1>3. e.parts = {} \cup {p} /\ Apart(e.parts)
  <2>1. f \in Entries /\ f.parts = {} /\ Apart({}) /\ Fits({}, p) /\ p \in Part
    BY EntryIs
  <2> HIDE DEF f
  <2>2. /\ f \in Entries /\ p \in Part /\ Apart(f.parts) /\ Fits(f.parts, p)
        /\ ((\E r \in f.parts : r.off = 0) => f.first)
    BY <2>1
  <2>3. Insert(f, p).parts = f.parts \cup {p} /\ Apart(Insert(f, p).parts)
    BY <2>2, InsertIs
  <2> QED
    BY <2>1, <2>3
<1>4. /\ Whole(e) /\ rebuilt' = IF End(p) <= MaxLen THEN {p} ELSE {}
  BY DEF Alone
<1> HIDE DEF e
<1>5. e.parts = {p} /\ Tile(e.parts) /\ p \in Part
  BY <1>3, <1>4, WholeTiles, FragmentsAre
<1>6. Made'
  BY <1>4, <1>5 DEF Made, RebuiltIsPacket
<1> QED
  BY <1>2, <1>6 DEF IInv

LEMMA SubsetCounts ==
    ASSUME NEW S, IsFiniteSet(S), NEW D \in SUBSET S
    PROVE  /\ Cardinality(S) \in Nat /\ Cardinality(D) \in Nat
           /\ Cardinality(D) <= Cardinality(S)
           /\ Cardinality(S \ D) = Cardinality(S) - Cardinality(D)
<1>1. IsFiniteSet(D) /\ Cardinality(D) <= Cardinality(S)
  BY FS_Subset
<1>2. S \cap D = D
  OBVIOUS
<1> QED
  BY <1>1, <1>2, FS_CardinalityType, FS_Difference

\* Entries go, of packets L(q), and the counters follow.
LEMMA DelFragCounts ==
    ASSUME IInv, NEW es, NEW hash, DelFrag(es, hash),
           live' = live, heirs' = heirs,
           NEW L, \A q \in Queue :
                     /\ L[q] \in SUBSET Pk(frags[q])
                     /\ Pk(frags'[q]) = Pk(frags[q]) \ L[q]
                     /\ \A ts : CountIn(es, q, ts) =
                                Cardinality({k \in L[q] : k.tunnel \in ts})
    PROVE  Counted'
<1>1. /\ Counted /\ fragscnt \in [Queue -> Nat] /\ frgcnt \in [Tunnel -> [Queue -> Nat]]
  BY DEF IInv, Counted
<1>2. \A q \in Queue : IsFiniteSet(Pk(frags[q])) /\ Pk(frags[q]) \subseteq Packet
  <2>1. ASSUME NEW q \in Queue
        PROVE  IsFiniteSet(Pk(frags[q])) /\ Pk(frags[q]) \subseteq Packet
    <3>1. Row(frags[q], q)
      BY DEF IInv, Rows
    <3>2. \A i \in 1..Len(frags[q]) : frags[q][i] \in Entries
      BY <3>1 DEF Row
    <3> QED
      BY <3>1, <3>2, RowCounts, EntriesAre DEF Pk
  <2> QED
    BY <2>1
<1>3. /\ FragMax \in [Queue -> Nat] /\ FragTnMax \in [Queue -> Nat]
  BY AftrFragAssumption DEF AftrFragAssumption
<1>4. /\ \A q \in Queue : fragscnt'[q] =
            Less(fragscnt[q], CountIn(es, q, Tunnel \cup {NoTunnel}))
      /\ \A t \in Tunnel, q \in Queue :
            frgcnt'[t][q] = Less(frgcnt[t][q], CountIn(es, q, {t}))
      /\ DOMAIN fragscnt' = Queue /\ DOMAIN frgcnt' = Tunnel
      /\ \A t \in Tunnel : frgcnt'[t] = [q \in Queue |-> frgcnt'[t][q]]
      /\ fragscnt' = [q \in Queue |-> fragscnt'[q]]
      /\ frgcnt' = [t \in Tunnel |-> frgcnt'[t]]
  BY DEF DelFrag
<1>5. ASSUME NEW q \in Queue
      PROVE  /\ fragscnt'[q] \in Nat /\ fragscnt'[q] <= FragMax[q]
             /\ fragscnt'[q] = Cardinality(Pk(frags'[q]))
  <2> DEFINE D == {k \in L[q] : k.tunnel \in Tunnel \cup {NoTunnel}}
  <2>1. D = L[q]
    BY <1>2, PacketsAre
  <2> HIDE DEF D
  <2>2. fragscnt'[q] = Less(fragscnt[q], Cardinality(L[q]))
    <3>1. CountIn(es, q, Tunnel \cup {NoTunnel}) = Cardinality(D)
      BY DEF D
    <3> QED
      BY <1>4, <2>1, <3>1
  <2>3. /\ Cardinality(Pk(frags[q])) \in Nat /\ Cardinality(L[q]) \in Nat
        /\ Cardinality(L[q]) <= Cardinality(Pk(frags[q]))
        /\ Cardinality(Pk(frags'[q])) = Cardinality(Pk(frags[q])) - Cardinality(L[q])
    BY <1>2, SubsetCounts
  <2>4. fragscnt[q] = Cardinality(Pk(frags[q])) /\ fragscnt[q] <= FragMax[q]
    BY <1>1 DEF Counted
  <2>5. FragMax[q] \in Nat
    BY <1>3
  <2>6. fragscnt'[q] = Cardinality(Pk(frags[q])) - Cardinality(L[q])
    BY <2>2, <2>3, <2>4, LessIs
  <2>7. fragscnt'[q] \in Nat /\ fragscnt'[q] <= fragscnt[q]
    BY <2>3, <2>4, <2>6
  <2> QED
    BY <2>3, <2>4, <2>5, <2>6, <2>7
<1>6. ASSUME NEW t \in Tunnel, NEW q \in Queue
      PROVE  /\ frgcnt'[t][q] \in Nat /\ frgcnt'[t][q] <= FragTnMax[q]
             /\ t \notin live => frgcnt'[t][q] = 0
             /\ t \in live \ heirs => frgcnt'[t][q] = Cardinality(Class(frags'[q], t))
  <2> DEFINE D == {k \in L[q] : k.tunnel \in {t}}
             C == Class(frags[q], t)
  <2>1. C \in SUBSET Pk(frags[q]) /\ D \in SUBSET C /\ Class(frags'[q], t) = C \ D
    BY DEF Class
  <2>2. CountIn(es, q, {t}) = Cardinality(D)
    OBVIOUS
  <2> HIDE DEF C, D
  <2>3. IsFiniteSet(C)
    BY <1>2, <2>1, FS_Subset
  <2>4. /\ Cardinality(C) \in Nat /\ Cardinality(D) \in Nat
        /\ Cardinality(D) <= Cardinality(C)
        /\ Cardinality(C \ D) = Cardinality(C) - Cardinality(D)
    BY <2>1, <2>3, SubsetCounts
  <2>5. frgcnt'[t][q] = Less(frgcnt[t][q], Cardinality(D))
    BY <1>4, <2>2
  <2>6. frgcnt[t][q] \in Nat /\ FragTnMax[q] \in Nat /\ frgcnt[t][q] <= FragTnMax[q]
    BY <1>1, <1>3 DEF Counted
  <2>7. frgcnt'[t][q] \in Nat /\ frgcnt'[t][q] <= frgcnt[t][q]
    BY <2>4, <2>5, <2>6, LessIs
  <2>8. t \notin live => frgcnt[t][q] = 0
    BY <1>1 DEF Counted
  <2>9. t \in live \ heirs => frgcnt[t][q] = Cardinality(C)
    BY <1>1 DEF Counted, C
  <2>10. t \in live \ heirs => frgcnt'[t][q] = Cardinality(Class(frags'[q], t))
    BY <2>1, <2>4, <2>5, <2>9, LessIs
  <2> QED
    BY <2>6, <2>7, <2>8, <2>10
<1>7. fragscnt' \in [Queue -> Nat]
  BY <1>4, <1>5
<1>8. frgcnt' \in [Tunnel -> [Queue -> Nat]]
  <2>1. \A t \in Tunnel : frgcnt'[t] \in [Queue -> Nat]
    BY <1>4, <1>6
  <2> QED
    BY <1>4, <2>1
<1> QED
  BY <1>5, <1>6, <1>7, <1>8 DEF Counted

\* The fragment that completes a packet.
LEMMA RebuildKeeps ==
    ASSUME IInv, NEW k \in Packet, NEW i \in Position(k), NEW p \in Part,
           Rebuild(k, i, p)
    PROVE  IInv'
<1> DEFINE q == k.queue
           s == frags[q]
           f == Hashed(s[i])
           g == Insert(f, p)
           r == RemoveAt(s, i)
<1>1. /\ q \in Queue /\ Row(s, q) /\ i \in 1..Len(s) /\ s[i] \in Entries
      /\ s[i].packet = k /\ \A j \in 1..Len(s) : s[j].packet = k => j = i
  BY PositionIs DEF IInv
<1>2. /\ f \in Entries /\ Sound(f) /\ f.packet = k
      /\ q # "frags6" => f.hash = jhash[k.id]
  <2>1. Sound(s[i])
    BY <1>1 DEF Row
  <2> QED
    BY <1>1, <2>1, HashedIs, HashedKnows DEF IInv
<1>3. /\ Row(r, q) /\ Pk(r) = Pk(s) \ {k}
      /\ \A j \in 1..Len(s) : j # i => \E l \in 1..Len(r) : r[l] = s[j]
      /\ \A l \in 1..Len(r) : \E j \in 1..Len(s) : r[l] = s[j]
  <2> DEFINE u == s
  <2>1. Row(u, q) /\ i \in 1..Len(u) /\ u[i].packet = k /\ r = RemoveAt(u, i)
    BY <1>1
  <2> HIDE DEF f, g, r, u
  <2>2. /\ Row(RemoveAt(u, i), q) /\ Pk(RemoveAt(u, i)) = Pk(u) \ {u[i].packet}
        /\ \A j \in 1..Len(u) :
              j # i => \E l \in 1..Len(RemoveAt(u, i)) : RemoveAt(u, i)[l] = u[j]
        /\ \A l \in 1..Len(RemoveAt(u, i)) :
              \E j \in 1..Len(u) : RemoveAt(u, i)[l] = u[j]
    BY <2>1, OutRow
  <2>3. /\ Row(r, q) /\ Pk(r) = Pk(u) \ {k}
        /\ \A j \in 1..Len(u) : j # i => \E l \in 1..Len(r) : r[l] = u[j]
        /\ \A l \in 1..Len(r) : \E j \in 1..Len(u) : r[l] = u[j]
    BY <2>1, <2>2
  <2> QED
    BY <2>3 DEF u
<1>4. /\ frags' = [frags EXCEPT ![q] = r] /\ Fits(f.parts, p) /\ Whole(g)
      /\ rebuilt' = IF \A x \in g.parts : End(x) <= MaxLen THEN g.parts ELSE {}
      /\ DelFrag({f}, Cache(k))
      /\ live' = live /\ heirs' = heirs /\ jhash' = jhash
  BY DEF Rebuild
<1>5. Apart(g.parts)
  <2> HIDE DEF f
  <2> QED
    BY <1>2, <1>4, InsertIs DEF Sound
<1> HIDE DEF f, g, r
<1>6. frags \in [Queue -> Seq(Entries)] /\ r \in Seq(Entries) /\ Len(s) \in Nat
  BY <1>1, <1>3 DEF IInv, Rows, Row
<1>7. Rows'
  BY <1>3, <1>4, <1>6 DEF IInv, Rows
<1>8. /\ DOMAIN fraghash' = DOMAIN fraghash
      /\ \A h \in DOMAIN fraghash :
            fraghash'[h] = IF k = Cache(k)[h] /\ f.hash = h THEN NoPacket ELSE Cache(k)[h]
      /\ fraghash' = [h \in DOMAIN Cache(k) |->
            IF k = Cache(k)[h] /\ f.hash = h THEN NoPacket ELSE Cache(k)[h]]
  BY <1>2, <1>4, CacheIs DEF DelFrag, IInv
<1>9. Sized'
  <2>1. PICK size \in HashSize : /\ Cache(k) \in [0..size - 1 -> Packet \cup {NoPacket}]
                                 /\ jhash \in [Id -> 0..size - 1]
    BY CacheIs DEF IInv
  <2>2. fraghash' \in [0..size - 1 -> Packet \cup {NoPacket}]
    BY <1>8, <2>1
  <2> QED
    BY <1>4, <2>1, <2>2 DEF Sized
<1>10. Pointing'
  <2> SUFFICES ASSUME NEW h \in DOMAIN fraghash, fraghash'[h] # NoPacket
               PROVE  /\ fraghash'[h].queue # "frags6" /\ h = jhash[fraghash'[h].id]
                      /\ Knows(frags', h, fraghash'[h])
    BY <1>4, <1>8 DEF Pointing
  <2>1. fraghash'[h] = Cache(k)[h] /\ ~(k = Cache(k)[h] /\ f.hash = h)
    BY <1>8
  <2>2. Cache(k)[h] # k
    <3>1. SUFFICES ASSUME Cache(k)[h] = k
                   PROVE  FALSE
      OBVIOUS
    <3>2. q # "frags6" /\ h = jhash[k.id]
      <4>1. CASE q = "frags6"
        <5>1. fraghash[h] = k
          BY <3>1, <4>1, CacheIs DEF IInv
        <5> QED
          BY <4>1, <5>1, PacketsAre DEF IInv, Pointing
      <4>2. CASE q # "frags6" /\ h # jhash[k.id]
        <5>1. fraghash[h] = k
          BY <3>1, <4>2, CacheIs DEF IInv
        <5> QED
          BY <4>2, <5>1, PacketsAre DEF IInv, Pointing
      <4> QED
        BY <4>1, <4>2
    <3> QED
      BY <1>2, <2>1, <3>1, <3>2
  <2>3. fraghash'[h] = fraghash[h] /\ fraghash[h] # k
    BY <2>1, <2>2, CacheIs DEF IInv
  <2> DEFINE j == fraghash[h]
  <2>4. /\ j # NoPacket /\ j # k /\ j.queue # "frags6" /\ h = jhash[j.id]
        /\ Knows(frags, h, j)
    BY <2>3 DEF IInv, Pointing
  <2>5. j \in Packet
    BY <2>4, SlotsAre DEF IInv
  <2> HIDE DEF j
  <2>6. PICK l \in 1..Len(frags[j.queue]) :
             frags[j.queue][l].packet = j /\ frags[j.queue][l].hash = h
    BY <2>4 DEF Knows
  <2>7. Knows(frags', h, j)
    <3>1. CASE j.queue = q
      <4>1. l \in 1..Len(s) /\ l # i
        BY <1>1, <2>4, <2>6, <3>1
      <4>2. PICK m \in 1..Len(r) : r[m] = s[l]
        BY <1>3, <4>1
      <4>3. frags'[j.queue] = r
        BY <1>1, <1>4, <1>6, <3>1
      <4> QED
        BY <2>6, <3>1, <4>2, <4>3 DEF Knows
    <3>2. CASE j.queue # q
      <4>1. frags'[j.queue] = frags[j.queue]
        BY <1>4, <1>6, <2>5, <3>2, PacketsAre
      <4> QED
        BY <2>6, <4>1 DEF Knows
    <3> QED
      BY <3>1, <3>2
  <2> QED
    BY <2>3, <2>4, <2>7 DEF j
<1>11. Tunnels'
  BY <1>4 DEF IInv, Tunnels
<1>12. Counted'
  <2> DEFINE L == [u \in Queue |-> IF u = q THEN {k} ELSE {}]
  <2>1. ASSUME NEW u \in Queue
        PROVE  /\ L[u] \in SUBSET Pk(frags[u]) /\ Pk(frags'[u]) = Pk(frags[u]) \ L[u]
    <3>1. CASE u = q
      <4>1. k \in Pk(s)
        BY <1>1 DEF Pk
      <4> QED
        BY <1>1, <1>3, <1>4, <1>6, <3>1, <4>1
    <3>2. CASE u # q
      BY <1>4, <1>6, <3>2
    <3> QED
      BY <3>1, <3>2
  <2>2. ASSUME NEW u \in Queue, NEW ts
        PROVE  CountIn({f}, u, ts) = Cardinality({x \in L[u] : x.tunnel \in ts})
    <3>1. CountIn({f}, u, ts) = IF q = u /\ k.tunnel \in ts THEN 1 ELSE 0
      BY <1>2, CountOne
    <3>2. {x \in L[u] : x.tunnel \in ts} = IF q = u /\ k.tunnel \in ts THEN {k} ELSE {}
      OBVIOUS
    <3> HIDE DEF L
    <3> QED
      BY <3>1, <3>2, FS_Singleton, FS_EmptySet
  <2> HIDE DEF L
  <2>3. \A u \in Queue :
           /\ L[u] \in SUBSET Pk(frags[u])
           /\ Pk(frags'[u]) = Pk(frags[u]) \ L[u]
           /\ \A ts : CountIn({f}, u, ts) = Cardinality({x \in L[u] : x.tunnel \in ts})
    BY <2>1, <2>2
  <2>4. DelFrag({f}, Cache(k)) /\ live' = live /\ heirs' = heirs
    BY <1>4
  <2> QED
    BY <2>3, <2>4, DelFragCounts
<1>13. Made'
  <2>1. Apart(g.parts) /\ Tile(g.parts)
    BY <1>4, <1>5, WholeTiles
  <2>2. g.parts \subseteq Part
    BY <1>5 DEF Apart
  <2> QED
    BY <1>4, <2>1, <2>2 DEF Made, RebuiltIsPacket
<1>14. Timed'
  <2>1. ASSUME NEW u \in Queue, NEW j \in 1..Len(frags'[u])
        PROVE  \E l \in 1..Len(frags[u]) : frags'[u][j].left = frags[u][l].left
    <3>1. CASE u = q
      <4>1. frags'[u] = r
        BY <1>1, <1>4, <1>6, <3>1
      <4>2. PICK l \in 1..Len(s) : r[j] = s[l]
        BY <1>3, <2>1, <4>1
      <4> QED
        BY <3>1, <4>1, <4>2
    <3>2. CASE u # q
      BY <1>4, <1>6, <3>2
    <3> QED
      BY <3>1, <3>2
  <2>2. late' = late
    BY DEF Rebuild
  <2> QED
    BY <2>1, <2>2, TimedKept DEF IInv
<1> QED
  BY <1>7, <1>9, <1>10, <1>11, <1>12, <1>13, <1>14 DEF IInv

\* A second, or more: the entries are the same, with less time left.
LEMMA TickKeeps ==
    ASSUME IInv, NEW d \in 1..MaxSkip, Tick(d)
    PROVE  IInv'
<1>1. /\ ~late /\ late' = TRUE /\ rebuilt' = {}
      /\ frags' = [q \in Queue |-> Older(frags[q], d)]
      /\ UNCHANGED <<live, fragscnt, frgcnt, fraghash, jhash, heirs>>
  BY DEF Tick
<1>2. ASSUME NEW q \in Queue
      PROVE  /\ Row(frags[q], q) /\ Row(frags'[q], q)
             /\ Len(frags'[q]) = Len(frags[q]) /\ Pk(frags'[q]) = Pk(frags[q])
             /\ \A i \in 1..Len(frags[q]) :
                   /\ frags'[q][i].packet = frags[q][i].packet
                   /\ frags'[q][i].hash = frags[q][i].hash
                   /\ frags'[q][i].left = frags[q][i].left - d
  <2>1. Row(frags[q], q) /\ d \in Nat \ {0} /\ frags'[q] = Older(frags[q], d)
    BY <1>1, TimesAre DEF IInv, Rows
  <2> QED
    BY <2>1, OldRow
<1>3. Rows'
  BY <1>1, <1>2 DEF Rows, Row
<1>4. Timed'
  <2>1. ASSUME NEW q \in Queue, NEW i \in 1..Len(frags'[q])
        PROVE  frags'[q][i].left >= -MaxSkip
    <3>1. i \in 1..Len(frags[q]) /\ frags'[q][i].left = frags[q][i].left - d
      BY <1>2
    <3>2. frags[q][i].left >= 0
      BY <1>1, <3>1 DEF IInv, Timed
    <3>3. frags[q][i].left \in Int
      BY <1>2, <3>1, EntriesAre DEF Row
    <3> QED
      BY <3>1, <3>2, <3>3, TimesAre
  <2> QED
    BY <1>1, <2>1 DEF Timed
<1>5. Sized' /\ Tunnels'
  BY <1>1 DEF IInv, Sized, Tunnels
<1>6. Pointing'
  <2> SUFFICES ASSUME NEW h \in DOMAIN fraghash, fraghash[h] # NoPacket
               PROVE  /\ fraghash[h].queue # "frags6" /\ h = jhash[fraghash[h].id]
                      /\ Knows(frags', h, fraghash[h])
    BY <1>1 DEF Pointing
  <2>1. /\ fraghash[h].queue # "frags6" /\ h = jhash[fraghash[h].id]
        /\ Knows(frags, h, fraghash[h])
    BY DEF IInv, Pointing
  <2>2. fraghash[h].queue \in Queue
    BY SlotsAre, PacketsAre DEF IInv
  <2>3. Knows(frags', h, fraghash[h])
    BY <1>2, <2>1, <2>2 DEF Knows
  <2> QED
    BY <2>1, <2>3
<1>7. Counted'
  <2>1. \A q \in Queue : \A t : Class(frags'[q], t) = Class(frags[q], t)
    BY <1>2 DEF Class
  <2>2. Counted
    BY DEF IInv
  <2> QED
    BY <1>1, <1>2, <2>1, <2>2 DEF Counted
<1>8. Made'
  BY <1>1 DEF Made, RebuiltIsPacket
<1> QED
  BY <1>3, <1>4, <1>5, <1>6, <1>7, <1>8 DEF IInv

\* What is overdue goes.
LEMMA ExpireKeeps ==
    ASSUME IInv, Expire
    PROVE  IInv'
<1> DEFINE O(q) == Overdue(frags[q])
           n(q) == Len(frags[q]) - Cardinality(O(q))
           es == UNION {{frags[q][i] : i \in O(q)} : q \in Queue}
           r(q) == SubSeq(frags[q], 1, n(q))
           L == [q \in Queue |-> {frags[q][i].packet : i \in O(q)}]
<1>1. /\ frags' = [q \in Queue |-> r(q)]
      /\ DelFrag(es, fraghash) /\ rebuilt' = {} /\ late' = FALSE
      /\ live' = live /\ heirs' = heirs /\ jhash' = jhash
  BY DEF Expire
<1>2. ASSUME NEW q \in Queue
      PROVE  /\ Row(frags[q], q) /\ Row(r(q), q) /\ Len(r(q)) = n(q)
             /\ \A i \in 1..n(q) : r(q)[i] = frags[q][i] /\ frags[q][i].left >= 0
             /\ \A i \in 1..Len(frags[q]) : i \notin O(q) => i \in 1..n(q)
             /\ O(q) \subseteq 1..Len(frags[q])
             /\ Pk(r(q)) = Pk(frags[q]) \ L[q]
             /\ \A i, j \in O(q) : frags[q][i].packet = frags[q][j].packet => i = j
  <2>1. Row(frags[q], q)
    BY DEF IInv, Rows
  <2>2. L[q] = {frags[q][i].packet : i \in O(q)}
    OBVIOUS
  <2> DEFINE s == frags[q]
             m == Len(s) - Cardinality(Overdue(s))
             x == SubSeq(s, 1, m)
  <2>3. /\ Row(x, q) /\ Len(x) = m
        /\ \A i \in 1..m : x[i] = s[i] /\ s[i].left >= 0
        /\ \A i \in 1..Len(s) : i \notin Overdue(s) => i \in 1..m
        /\ Overdue(s) \subseteq 1..Len(s)
        /\ Pk(x) = Pk(s) \ {s[i].packet : i \in Overdue(s)}
        /\ \A i, j \in Overdue(s) : s[i].packet = s[j].packet => i = j
    BY <2>1, CutRow
  <2>4. s = frags[q] /\ O(q) = Overdue(s) /\ n(q) = m /\ r(q) = x
    OBVIOUS
  <2> HIDE DEF L, O, n, r, s, m, x
  <2> QED
    BY <2>1, <2>2, <2>3, <2>4
<1>3. /\ \A q \in Queue : \A i \in O(q) : frags[q][i] \in es
      /\ \A f \in es : \E q \in Queue : \E i \in O(q) : f = frags[q][i]
  OBVIOUS
<1>4. \A q \in Queue : L[q] = {frags[q][i].packet : i \in O(q)}
  OBVIOUS
<1> HIDE DEF O, n, es, r, L
<1>5. \A q \in Queue : r(q) \in Seq(Entries) /\ frags'[q] = r(q)
  BY <1>1, <1>2 DEF Row
<1>6. Rows'
  BY <1>1, <1>2, <1>5 DEF Rows
<1>7. fraghash' = [h \in DOMAIN fraghash |->
          IF \E f \in es : f.packet = fraghash[h] /\ f.hash = h
          THEN NoPacket ELSE fraghash[h]]
  BY <1>1 DEF DelFrag
<1>8. Sized'
  <2>1. PICK size \in HashSize : /\ fraghash \in [0..size - 1 -> Packet \cup {NoPacket}]
                                 /\ jhash \in [Id -> 0..size - 1]
    BY DEF IInv, Sized
  <2>2. fraghash' \in [0..size - 1 -> Packet \cup {NoPacket}]
    BY <1>7, <2>1
  <2> QED
    BY <1>1, <2>1, <2>2 DEF Sized
<1>9. Pointing'
  <2> SUFFICES ASSUME NEW h \in DOMAIN fraghash, fraghash'[h] # NoPacket
               PROVE  /\ fraghash'[h].queue # "frags6" /\ h = jhash[fraghash'[h].id]
                      /\ Knows(frags', h, fraghash'[h])
    BY <1>1, <1>7 DEF Pointing
  <2> DEFINE k == fraghash[h]
             q == k.queue
  <2>1. fraghash'[h] = k /\ ~ \E f \in es : f.packet = k /\ f.hash = h
    BY <1>7
  <2>2. k # NoPacket /\ q # "frags6" /\ h = jhash[k.id] /\ Knows(frags, h, k)
    BY <2>1 DEF IInv, Pointing
  <2>3. q \in Queue
    BY <2>2, SlotsAre, PacketsAre DEF IInv
  <2> HIDE DEF k
  <2>4. PICK l \in 1..Len(frags[q]) : frags[q][l].packet = k /\ frags[q][l].hash = h
    BY <2>2 DEF Knows
  <2>6. l \notin O(q)
    BY <1>3, <2>1, <2>3, <2>4
  <2>7. l \in 1..Len(r(q)) /\ r(q)[l] = frags[q][l]
    BY <1>2, <2>3, <2>6
  <2>8. Knows(frags', h, k)
    BY <1>5, <2>3, <2>4, <2>7 DEF Knows
  <2> QED
    BY <2>1, <2>2, <2>8
<1>10. Tunnels'
  BY <1>1 DEF IInv, Tunnels
<1>11. Counted'
  <2>1. ASSUME NEW q \in Queue, NEW ts
        PROVE  CountIn(es, q, ts) = Cardinality({k \in L[q] : k.tunnel \in ts})
    <3>1. IsFiniteSet(O(q))
      <4>1. Len(frags[q]) \in Nat
        BY <1>2 DEF Row
      <4>2. IsFiniteSet(1..Len(frags[q])) /\ O(q) \in SUBSET (1..Len(frags[q]))
        <5>1. 1 \in Int /\ Len(frags[q]) \in Int
          BY <4>1
        <5> QED
          BY <1>2, <5>1, FS_Interval, Zenon
      <4> QED
        BY <4>2, FS_Subset
    <3>2. \A u \in Queue : \A i \in O(u) : frags[u][i].packet.queue = u
      BY <1>2 DEF Row
    <3> DEFINE o == frags[q]
               gone == O(q)
    <3>3. \A i \in gone : o[i] \in es /\ o[i].packet.queue = q
      BY <1>3, <3>2
    <3>4. \A f \in es : f.packet.queue = q => \E i \in gone : f = o[i]
      BY <1>3, <3>2
    <3>5. IsFiniteSet(gone) /\ \A i, j \in gone : o[i].packet = o[j].packet => i = j
      BY <1>2, <3>1
    <3>6. L[q] = {o[i].packet : i \in gone}
      BY <1>4
    <3> HIDE DEF o, gone
    <3>7. CountIn(es, q, ts) =
          Cardinality({k \in {o[i].packet : i \in gone} : k.tunnel \in ts})
      BY <3>3, <3>4, <3>5, CountLate, SMTT(30)
    <3> QED
      BY <3>6, <3>7
  <2>2. ASSUME NEW q \in Queue
        PROVE  L[q] \in SUBSET Pk(frags[q]) /\ Pk(frags'[q]) = Pk(frags[q]) \ L[q]
    <3>1. \A i \in O(q) : i \in 1..Len(frags[q])
      BY <1>2
    <3>2. L[q] \in SUBSET Pk(frags[q])
      BY <1>4, <3>1 DEF Pk
    <3> QED
      BY <1>2, <1>5, <3>2
  <2>3. \A q \in Queue :
           /\ L[q] \in SUBSET Pk(frags[q])
           /\ Pk(frags'[q]) = Pk(frags[q]) \ L[q]
           /\ \A ts : CountIn(es, q, ts) = Cardinality({k \in L[q] : k.tunnel \in ts})
    BY <2>1, <2>2
  <2> QED
    BY <1>1, <2>3, DelFragCounts
<1>12. Made'
  BY <1>1 DEF Made, RebuiltIsPacket
<1>13. Timed'
  <2>1. \A q \in Queue : \A i \in 1..Len(frags'[q]) : frags'[q][i].left >= 0
    BY <1>2, <1>5
  <2> QED
    BY <1>1, <2>1 DEF Timed
<1> QED
  BY <1>6, <1>8, <1>9, <1>10, <1>11, <1>12, <1>13 DEF IInv

LEMMA ResizeKeeps == ASSUME IInv, Resize
                     PROVE  IInv'
<1>1. PICK size \in HashSize : /\ fraghash' = [h \in 0..size - 1 |-> NoPacket]
                               /\ jhash' \in [Id -> 0..size - 1]
                               /\ rebuilt' = {}
                               /\ UNCHANGED <<live, frags, fragscnt, frgcnt, late, heirs>>
  BY DEF Resize
<1>2. Rows' /\ Timed' /\ Tunnels' /\ Counted'
  BY <1>1 DEF IInv, Rows, Timed, Tunnels, Counted
<1>3. Sized' /\ Pointing'
  BY <1>1 DEF Sized, Pointing
<1>4. Made'
  BY <1>1 DEF Made, RebuiltIsPacket
<1> QED
  BY <1>2, <1>3, <1>4 DEF IInv

\* Tunnels come and go, with the memory that entries refer to.
LEMMA TunnelKeeps ==
    ASSUME IInv, NEW t \in Tunnel, DelTunnel(t) \/ AddTunnel(t)
    PROVE  IInv'
<1>1. /\ UNCHANGED <<frags, fragscnt, fraghash, jhash, late>> /\ rebuilt' = {}
  BY DEF DelTunnel, AddTunnel
<1>2. Rows' /\ Timed' /\ Sized' /\ Pointing'
  BY <1>1 DEF IInv, Rows, Timed, Sized, Pointing, Knows
<1>3. Tunnels'
  BY DEF IInv, Tunnels, DelTunnel, AddTunnel
<1>4. Made'
  BY <1>1 DEF Made, RebuiltIsPacket
<1>5. /\ Counted /\ frgcnt \in [Tunnel -> [Queue -> Nat]]
      /\ FragTnMax \in [Queue -> Nat] /\ live \subseteq Tunnel
  BY AftrFragAssumption DEF IInv, Counted, Tunnels, AftrFragAssumption
<1>6. Counted'
  <2>1. CASE DelTunnel(t)
    <3> DEFINE none == [q \in Queue |-> 0]
    <3>1. /\ frgcnt' = [frgcnt EXCEPT ![t] = none] /\ none \in [Queue -> Nat]
          /\ live' = live \ {t} /\ heirs' = heirs \ {t} /\ \A q \in Queue : none[q] = 0
      BY <2>1 DEF DelTunnel
    <3> HIDE DEF none
    <3>2. frgcnt' \in [Tunnel -> [Queue -> Nat]]
      BY <1>5, <3>1
    <3>3. ASSUME NEW u \in Tunnel, NEW q \in Queue
          PROVE  /\ frgcnt'[u][q] <= FragTnMax[q]
                 /\ u \notin live' => frgcnt'[u][q] = 0
                 /\ u \in live' \ heirs' => frgcnt'[u][q] = Cardinality(Class(frags[q], u))
      <4>1. CASE u = t
        BY <1>5, <3>1, <4>1
      <4>2. CASE u # t
        <5>1. frgcnt'[u][q] = frgcnt[u][q]
          BY <1>5, <3>1, <4>2
        <5> QED
          BY <1>5, <3>1, <4>2, <5>1 DEF Counted
      <4> QED
        BY <4>1, <4>2
    <3> QED
      BY <1>1, <1>5, <3>2, <3>3 DEF Counted
  <2>2. CASE AddTunnel(t)
    <3>1. /\ t \notin live /\ live' = live \cup {t} /\ frgcnt' = frgcnt
          /\ heirs' = IF \E q \in Queue : Referring(t, q) # {}
                      THEN heirs \cup {t} ELSE heirs
      BY <2>2 DEF AddTunnel
    <3>2. ASSUME NEW u \in Tunnel, NEW q \in Queue
          PROVE  /\ frgcnt[u][q] <= FragTnMax[q]
                 /\ u \notin live' => frgcnt[u][q] = 0
                 /\ u \in live' \ heirs' => frgcnt[u][q] = Cardinality(Class(frags[q], u))
      <4>1. CASE u = t
        <5>1. frgcnt[u][q] = 0 /\ frgcnt[u][q] <= FragTnMax[q]
          BY <1>5, <3>1, <4>1 DEF Counted
        <5>2. t \notin heirs' => Class(frags[q], t) = {}
          BY <3>1 DEF Referring, Class, Pk
        <5> QED
          BY <3>1, <4>1, <5>1, <5>2, FS_EmptySet
      <4>2. CASE u # t
        BY <1>5, <3>1, <4>2 DEF Counted
      <4> QED
        BY <4>1, <4>2
    <3> QED
      BY <1>1, <1>5, <3>1, <3>2 DEF Counted
  <2> QED
    BY <2>1, <2>2
<1> QED
  BY <1>2, <1>3, <1>4, <1>6 DEF IInv

LEMMA DefragKeeps == ASSUME IInv, Defrag
                     PROVE  IInv'
<1>1. PICK k \in Packet :
        \/ \E i \in Position(k) : Drop(k, i)
        \/ \E p \in Fragment[k] :
              \/ \E room \in BOOLEAN : NewEntry(k, p, room)
              \/ Alone(k, p)
              \/ \E i \in Position(k) : Keep(k, i, p) \/ Rebuild(k, i, p)
  BY DEF Defrag
<1>2. CASE \E i \in Position(k) : Drop(k, i)
  BY <1>2, DropKeeps
<1>3. ASSUME NEW p \in Fragment[k], \E room \in BOOLEAN : NewEntry(k, p, room)
      PROVE  IInv'
  BY <1>3, NewEntryKeeps
<1>4. ASSUME NEW p \in Fragment[k],
             \E i \in Position(k) : Keep(k, i, p) \/ Rebuild(k, i, p)
      PROVE  IInv'
  <2>1. p \in Part
    BY FragmentsAre
  <2> QED
    BY <1>4, <2>1, KeepKeeps, RebuildKeeps
<1>5. ASSUME NEW p \in Fragment[k], Alone(k, p)
      PROVE  IInv'
  BY <1>5, AloneKeeps
<1> QED
  BY <1>1, <1>2, <1>3, <1>4, <1>5

THEOREM InvHolds == Spec => []IInv
<1>1. Init => IInv
  BY InitHolds
<1>2. IInv /\ [Next]_vars => IInv'
  <2> SUFFICES ASSUME IInv, [Next]_vars
               PROVE  IInv'
    OBVIOUS
  <2>1. CASE Defrag
    BY <2>1, DefragKeeps
  <2>2. CASE \E d \in 1..MaxSkip : Tick(d)
    BY <2>2, TickKeeps
  <2>3. CASE Resize
    BY <2>3, ResizeKeeps
  <2>4. CASE \E t \in Tunnel : DelTunnel(t) \/ AddTunnel(t)
    BY <2>4, TunnelKeeps
  <2>5. CASE UNCHANGED vars
    <3>1. Rows' /\ Timed' /\ Sized' /\ Pointing' /\ Tunnels' /\ Counted' /\ Made'
      BY <2>5 DEF vars, IInv, Rows, Timed, Sized, Pointing, Knows, Tunnels, Counted, Made,
                  RebuiltIsPacket
    <3> QED
      BY <3>1 DEF IInv
  <2>6. CASE Expire
    BY <2>6, ExpireKeeps
  <2> QED
    BY <2>1, <2>2, <2>3, <2>4, <2>5, <2>6 DEF Next
<1> QED
  BY <1>1, <1>2, PTL DEF Spec

-----------------------------------------------------------------------------
(* Theorems *)

\* The types, of which the limits of the counters (frag_maxcnt[], fragtn_maxcnt[]) and
\* one entry for each packet, which the searches in defrag() and the cache give.
THEOREM EntriesTyped == Spec => []TypeOK
<1>1. ASSUME IInv
      PROVE  TypeOK
  <2>1. ASSUME NEW q \in Queue
        PROVE  /\ \A i \in 1..Len(frags[q]) :
                     /\ frags[q][i] \in Entries
                     /\ frags[q][i].packet.queue = q
                     /\ \A j \in 1..i - 1 : frags[q][j].packet # frags[q][i].packet
               /\ fragscnt[q] \in 0..FragMax[q]
               /\ \A t \in Tunnel : frgcnt[t][q] \in 0..FragTnMax[q]
    <3>1. Row(frags[q], q)
      BY <1>1 DEF IInv, Rows
    <3>2. Len(frags[q]) \in Nat
      BY <3>1 DEF Row
    <3>3. \A i \in 1..Len(frags[q]) : \A j \in 1..i - 1 : j \in 1..Len(frags[q]) /\ j < i
      BY <3>2
    <3>4. \A i \in 1..Len(frags[q]) :
             /\ frags[q][i] \in Entries /\ frags[q][i].packet.queue = q
             /\ \A j \in 1..i - 1 : frags[q][j].packet # frags[q][i].packet
      BY <3>1, <3>3 DEF Row
    <3>5. /\ FragMax[q] \in Nat /\ FragTnMax[q] \in Nat
      BY AftrFragAssumption DEF AftrFragAssumption
    <3>6. /\ fragscnt[q] \in Nat /\ fragscnt[q] <= FragMax[q]
          /\ \A t \in Tunnel : frgcnt[t][q] \in Nat /\ frgcnt[t][q] <= FragTnMax[q]
      BY <1>1 DEF IInv, Counted
    <3> QED
      BY <3>4, <3>5, <3>6
  <2>2. /\ DOMAIN frags = Queue /\ live \subseteq Tunnel /\ heirs \subseteq live
        /\ rebuilt \subseteq Part /\ late \in BOOLEAN
    BY <1>1 DEF IInv, Rows, Timed, Tunnels, Made
  <2> QED
    BY <1>1, <2>1, <2>2, SlotsAre DEF TypeOK, IInv
<1> QED
  BY <1>1, InvHolds, PTL

\* A slot of fraghash[] never points to an entry that del_frag4() has freed.
THEOREM CacheLive == Spec => []CacheIsLive
<1>1. ASSUME IInv, NEW h \in DOMAIN fraghash, fraghash[h] # NoPacket
      PROVE  \E q \in {"fragsin", "fragsout"} : \E i \in 1..Len(frags[q]) :
                frags[q][i].packet = fraghash[h] /\ frags[q][i].hash = h
  <2>1. fraghash[h].queue # "frags6" /\ Knows(frags, h, fraghash[h])
    BY <1>1 DEF IInv, Pointing
  <2>2. fraghash[h].queue \in {"fragsin", "fragsout"}
    BY <1>1, <2>1, SlotsAre, PacketsAre DEF IInv, Queue
  <2> QED
    BY <2>1, <2>2 DEF Knows
<1>2. IInv => CacheIsLive
  BY <1>1 DEF CacheIsLive
<1> QED
  BY <1>2, InvHolds, PTL

\* The counters of defrag() and of del_frag4() and del_frag6() count, so that a queue
\* or a tunnel does not refuse fragments for entries that are gone.
THEOREM CountersHold == Spec => []CountsHold
<1>1. ASSUME IInv, NEW q \in Queue
      PROVE  /\ fragscnt[q] = Len(frags[q])
             /\ \A t \in live \ heirs : frgcnt[t][q] = Cardinality(Referring(t, q))
  <2>1. Row(frags[q], q) /\ Counted /\ live \subseteq Tunnel
    BY <1>1 DEF IInv, Rows, Tunnels
  <2>2. /\ Cardinality(Pk(frags[q])) = Len(frags[q])
        /\ \A t : Cardinality(Class(frags[q], t)) = Cardinality(Referring(t, q))
    BY <2>1, RowCounts DEF Referring
  <2> QED
    BY <2>1, <2>2 DEF Counted
<1>2. IInv => CountsHold
  BY <1>1 DEF CountsHold
<1> QED
  BY <1>2, InvHolds, PTL

\* What defrag() and defrag6() put together is a packet that fits the buffer.
THEOREM RebuiltRight == Spec => []RebuiltIsPacket
<1>1. IInv => RebuiltIsPacket
  BY DEF IInv, Made
<1> QED
  BY <1>1, InvHolds, PTL

\* No packet that has come whole waits for its time to be over.
THEOREM WholeNotLeft == Spec => []NoneLeftWhole
<1>1. ASSUME IInv, NEW q \in Queue, NEW i \in 1..Len(frags[q]), frags[q][i].parts # {}
      PROVE  ~Tile(frags[q][i].parts)
  <2>1. Sound(frags[q][i])
    BY <1>1 DEF IInv, Rows, Row
  <2> QED
    BY <1>1, <2>1, TilesWhole DEF Sound
<1>2. IInv => NoneLeftWhole
  BY <1>1 DEF NoneLeftWhole
<1> QED
  BY <1>2, InvHolds, PTL

\* What loop() deletes from the end of the queues when there is a new second, up to the
\* first entry that still has time, leaves no entry over its time.
THEOREM TimesKept == Spec => []OnTime
<1>1. ASSUME IInv, NEW q \in Queue, NEW i \in 1..Len(frags[q])
      PROVE  frags[q][i].left \in (IF late THEN -MaxSkip ELSE 0)..Lifetime
  <2>1. Row(frags[q], q) /\ frags[q][i].left >= IF late THEN -MaxSkip ELSE 0
    BY <1>1 DEF IInv, Rows, Timed
  <2>2. frags[q][i].left \in Int /\ frags[q][i].left <= Lifetime
    BY <2>1, EntriesAre DEF Row
  <2> QED
    BY <2>1, <2>2, TimesAre
<1>2. IInv => OnTime
  BY <1>1 DEF OnTime
<1> QED
  BY <1>2, InvHolds, PTL
-----------------------------------------------------------------------------
(* Reassembly is implemented *)

\* What Reassembly sees of some queues.
SeenIn(F) == {Content(f) : f \in UNION {Range(F[q]) : q \in Queue}}

LEMMA SeenIs ==
    ASSUME NEW F, \A q \in Queue : F[q] \in Seq(Entries), NEW w
    PROVE  w \in SeenIn(F) <=>
           \E q \in Queue : \E i \in 1..Len(F[q]) : w = Content(F[q][i])
<1>1. \A q \in Queue : Range(F[q]) = {F[q][i] : i \in 1..Len(F[q])}
  <2>1. \A q \in Queue : DOMAIN F[q] = 1..Len(F[q])
    OBVIOUS
  <2> QED
    BY <2>1 DEF Range
<1>2. w \in SeenIn(F) <=> \E f \in UNION {Range(F[q]) : q \in Queue} : w = Content(f)
  BY DEF SeenIn
<1>3. \A f : f \in UNION {Range(F[q]) : q \in Queue} <=> \E q \in Queue : f \in Range(F[q])
  OBVIOUS
<1>4. \A f : \A q \in Queue : f \in Range(F[q]) <=> \E i \in 1..Len(F[q]) : f = F[q][i]
  BY <1>1
<1>5. ASSUME w \in SeenIn(F)
      PROVE  \E q \in Queue : \E i \in 1..Len(F[q]) : w = Content(F[q][i])
  <2>1. PICK f : f \in UNION {Range(F[q]) : q \in Queue} /\ w = Content(f)
    BY <1>2, <1>5
  <2>2. PICK q \in Queue : f \in Range(F[q])
    BY <1>3, <2>1
  <2>3. PICK i \in 1..Len(F[q]) : f = F[q][i]
    BY <1>4, <2>2
  <2>4. w = Content(F[q][i])
    BY <2>1, <2>3
  <2> QED
    BY <2>2, <2>4
<1>6. ASSUME NEW q \in Queue, NEW i \in 1..Len(F[q]), w = Content(F[q][i])
      PROVE  w \in SeenIn(F)
  <2>1. F[q][i] \in Range(F[q])
    BY <1>4
  <2>2. F[q][i] \in UNION {Range(F[p]) : p \in Queue}
    BY <1>3, <2>1
  <2> QED
    BY <1>2, <1>6, <2>2
<1> QED
  BY <1>5, <1>6

LEMMA SeenNow ==
    ASSUME \A q \in Queue : frags[q] \in Seq(Entries)
    PROVE  /\ \A q \in Queue : \A i \in 1..Len(frags[q]) : Content(frags[q][i]) \in Contents
           /\ \A w \in Contents :
                 \E q \in Queue : \E i \in 1..Len(frags[q]) : w = Content(frags[q][i])
<1>1. Contents = SeenIn(frags)
  BY DEF Contents, SeenIn
<1>2. \A w : w \in SeenIn(frags) <=>
         \E q \in Queue : \E i \in 1..Len(frags[q]) : w = Content(frags[q][i])
  BY SeenIs
<1> QED
  BY <1>1, <1>2

LEMMA SeenNext ==
    ASSUME \A q \in Queue : frags'[q] \in Seq(Entries)
    PROVE  /\ \A q \in Queue : \A i \in 1..Len(frags'[q]) :
                 Content(frags'[q][i]) \in Contents'
           /\ \A w \in Contents' :
                 \E q \in Queue : \E i \in 1..Len(frags'[q]) : w = Content(frags'[q][i])
<1>1. Contents' = SeenIn(frags')
  BY DEF Contents, SeenIn
<1>2. \A w : w \in SeenIn(frags') <=>
         \E q \in Queue : \E i \in 1..Len(frags'[q]) : w = Content(frags'[q][i])
  BY SeenIs
<1> QED
  BY <1>1, <1>2

LEMMA ContentsAre == Contents = SeenIn(frags) /\ Contents' = SeenIn(frags')
BY DEF Contents, SeenIn

\* A packet is seen once.
LEMMA SeenOnce ==
    ASSUME Rows, NEW q \in Queue, NEW i \in 1..Len(frags[q])
    PROVE  /\ Content(frags[q][i]) \in Contents
           /\ \A p \in Queue : \A j \in 1..Len(frags[p]) :
                 frags[p][j].packet = frags[q][i].packet => p = q /\ j = i
<1>1. \A p \in Queue : Row(frags[p], p) /\ frags[p] \in Seq(Entries)
  BY DEF Rows, Row
<1>2. Content(frags[q][i]) \in Contents
  BY <1>1, SeenNow
<1>3. ASSUME NEW p \in Queue, NEW j \in 1..Len(frags[p]),
             frags[p][j].packet = frags[q][i].packet
      PROVE  p = q /\ j = i
  <2>1. p = q
    BY <1>1, <1>3 DEF Row
  <2>2. j < i \/ i < j \/ j = i
    BY <1>1, <2>1
  <2> QED
    BY <1>1, <1>3, <2>1, <2>2 DEF Row
<1> QED
  BY <1>2, <1>3

\* The entry at i of queue q is changed in its place.
LEMMA SeenSet ==
    ASSUME Rows, Rows', NEW q \in Queue, NEW i \in 1..Len(frags[q]), NEW e,
           e.packet = frags[q][i].packet,
           frags' = [frags EXCEPT ![q] = [@ EXCEPT ![i] = e]]
    PROVE  Contents' = (Contents \ {Content(frags[q][i])}) \cup {Content(e)}
<1>1. /\ \A p \in Queue : frags[p] \in Seq(Entries) /\ frags'[p] \in Seq(Entries)
      /\ \A p \in Queue : p # q => frags'[p] = frags[p]
      /\ frags'[q] = [frags[q] EXCEPT ![i] = e]
  BY DEF Rows, Row
<1>2. /\ Len(frags'[q]) = Len(frags[q])
      /\ \A j \in 1..Len(frags[q]) : frags'[q][j] = IF j = i THEN e ELSE frags[q][j]
  BY <1>1
<1>3. ASSUME NEW w \in Contents'
      PROVE  w \in (Contents \ {Content(frags[q][i])}) \cup {Content(e)}
  <2>1. PICK p \in Queue : \E j \in 1..Len(frags'[p]) : w = Content(frags'[p][j])
    BY <1>1, <1>3, SeenNext
  <2>2. PICK j \in 1..Len(frags'[p]) : w = Content(frags'[p][j])
    BY <2>1
  <2>3. CASE p = q /\ j = i
    BY <1>2, <2>2, <2>3
  <2>4. CASE ~(p = q /\ j = i)
    <3>1. j \in 1..Len(frags[p]) /\ frags'[p][j] = frags[p][j]
      BY <1>1, <1>2, <2>2, <2>4
    <3>2. w \in Contents
      BY <2>2, <3>1, SeenOnce
    <3>3. frags[p][j].packet # frags[q][i].packet
      BY <2>4, <3>1, SeenOnce
    <3> QED
      BY <2>2, <3>1, <3>2, <3>3 DEF Content
  <2> QED
    BY <2>3, <2>4
<1>4. ASSUME NEW w \in Contents, w # Content(frags[q][i])
      PROVE  w \in Contents'
  <2>1. PICK p \in Queue : \E j \in 1..Len(frags[p]) : w = Content(frags[p][j])
    BY <1>1, <1>4, SeenNow
  <2>2. PICK j \in 1..Len(frags[p]) : w = Content(frags[p][j])
    BY <2>1
  <2>3. ~(p = q /\ j = i)
    BY <1>4, <2>2
  <2>4. j \in 1..Len(frags'[p]) /\ frags'[p][j] = frags[p][j]
    <3>1. CASE p = q
      BY <1>2, <2>3, <3>1
    <3>2. CASE p # q
      BY <1>1, <3>2
    <3> QED
      BY <3>1, <3>2
  <2>5. Content(frags'[p][j]) \in Contents'
    BY <1>1, <2>4, SeenNext
  <2> QED
    BY <2>2, <2>4, <2>5
<1>5. Content(e) \in Contents'
  <2>1. i \in 1..Len(frags'[q]) /\ frags'[q][i] = e
    BY <1>2
  <2> QED
    <3>1. Content(frags'[q][i]) \in Contents'
      BY <1>1, <2>1, SeenNext
    <3> QED
      BY <2>1, <3>1
<1> QED
  BY <1>3, <1>4, <1>5

\* An entry is put at the head of queue q.
LEMMA SeenPut ==
    ASSUME Rows, Rows', NEW q \in Queue, NEW e \in Entries,
           frags' = [frags EXCEPT ![q] = <<e>> \o @]
    PROVE  Contents' = Contents \cup {Content(e)}
<1>1. /\ \A p \in Queue : frags[p] \in Seq(Entries) /\ frags'[p] \in Seq(Entries)
      /\ \A p \in Queue : p # q => frags'[p] = frags[p]
      /\ frags'[q] = <<e>> \o frags[q]
  BY DEF Rows, Row
<1>2. /\ Len(frags'[q]) = Len(frags[q]) + 1 /\ frags'[q][1] = e
      /\ \A j \in 1..Len(frags[q]) : frags'[q][j + 1] = frags[q][j]
      /\ \A j \in 1..Len(frags'[q]) :
            j # 1 => j - 1 \in 1..Len(frags[q]) /\ frags'[q][j] = frags[q][j - 1]
  BY <1>1
<1>3. ASSUME NEW w \in Contents'
      PROVE  w \in Contents \cup {Content(e)}
  <2>1. PICK p \in Queue : \E j \in 1..Len(frags'[p]) : w = Content(frags'[p][j])
    BY <1>1, <1>3, SeenNext
  <2>2. PICK j \in 1..Len(frags'[p]) : w = Content(frags'[p][j])
    BY <2>1
  <2>3. CASE p # q
    <3>1. j \in 1..Len(frags[p]) /\ frags'[p][j] = frags[p][j]
      BY <1>1, <2>3
    <3>2. Content(frags[p][j]) \in Contents
      BY <1>1, <3>1, SeenNow
    <3> QED
      BY <2>2, <3>1, <3>2
  <2>4. CASE p = q /\ j = 1
    BY <1>2, <2>2, <2>4
  <2>5. CASE p = q /\ j # 1
    <3>1. j - 1 \in 1..Len(frags[q]) /\ frags'[q][j] = frags[q][j - 1]
      BY <1>2, <2>5
    <3>2. Content(frags[q][j - 1]) \in Contents
      BY <1>1, <3>1, SeenNow
    <3> QED
      BY <2>2, <2>5, <3>1, <3>2
  <2> QED
    BY <2>3, <2>4, <2>5
<1>4. ASSUME NEW w \in Contents
      PROVE  w \in Contents'
  <2>1. PICK p \in Queue : \E j \in 1..Len(frags[p]) : w = Content(frags[p][j])
    BY <1>1, <1>4, SeenNow
  <2>2. PICK j \in 1..Len(frags[p]) : w = Content(frags[p][j])
    BY <2>1
  <2>3. CASE p # q
    <3>1. j \in 1..Len(frags'[p]) /\ frags'[p][j] = frags[p][j]
      BY <1>1, <2>3
    <3>2. Content(frags'[p][j]) \in Contents'
      BY <1>1, <3>1, SeenNext
    <3> QED
      BY <2>2, <3>1, <3>2
  <2>4. CASE p = q
    <3>1. j + 1 \in 1..Len(frags'[q]) /\ frags'[q][j + 1] = frags[q][j]
      BY <1>1, <1>2, <2>4
    <3>2. Content(frags'[q][j + 1]) \in Contents'
      BY <1>1, <3>1, SeenNext
    <3> QED
      BY <2>2, <2>4, <3>1, <3>2
  <2> QED
    BY <2>3, <2>4
<1>5. Content(e) \in Contents'
  <2>1. 1 \in 1..Len(frags'[q])
    BY <1>1, <1>2
  <2> QED
    <3>1. Content(frags'[q][1]) \in Contents'
      BY <1>1, <2>1, SeenNext
    <3> QED
      BY <1>2, <3>1
<1> QED
  BY <1>3, <1>4, <1>5

\* The entry at i of queue q goes.
LEMMA SeenOut ==
    ASSUME Rows, Rows', NEW q \in Queue, NEW i \in 1..Len(frags[q]),
           frags' = [frags EXCEPT ![q] = RemoveAt(@, i)]
    PROVE  Contents' = Contents \ {Content(frags[q][i])}
<1>1. /\ \A p \in Queue : frags[p] \in Seq(Entries) /\ frags'[p] \in Seq(Entries)
      /\ \A p \in Queue : p # q => frags'[p] = frags[p]
      /\ frags'[q] = RemoveAt(frags[q], i) /\ Row(frags[q], q)
  BY DEF Rows, Row
<1>2. /\ \A j \in 1..Len(frags[q]) :
            j # i => \E l \in 1..Len(frags'[q]) : frags'[q][l] = frags[q][j]
      /\ \A l \in 1..Len(frags'[q]) :
            \E j \in 1..Len(frags[q]) : j # i /\ frags'[q][l] = frags[q][j]
  <2>1. /\ Len(frags'[q]) = Len(frags[q]) - 1
        /\ \A l \in 1..Len(frags'[q]) :
              frags'[q][l] = frags[q][IF l < i THEN l ELSE l + 1]
    BY <1>1, RemovedAt
  <2>2. Len(frags[q]) \in Nat
    BY <1>1
  <2>3. ASSUME NEW j \in 1..Len(frags[q]), j # i
        PROVE  \E l \in 1..Len(frags'[q]) : frags'[q][l] = frags[q][j]
    <3>1. CASE j < i
      <4>1. j \in 1..Len(frags'[q])
        BY <2>1, <2>2, <3>1
      <4> QED
        BY <2>1, <3>1, <4>1
    <3>2. CASE i < j
      <4>1. j - 1 \in 1..Len(frags'[q]) /\ ~(j - 1 < i) /\ (j - 1) + 1 = j
        BY <2>1, <2>2, <3>2
      <4> QED
        BY <2>1, <4>1
    <3> QED
      BY <2>2, <2>3, <3>1, <3>2
  <2>4. ASSUME NEW l \in 1..Len(frags'[q])
        PROVE  \E j \in 1..Len(frags[q]) : j # i /\ frags'[q][l] = frags[q][j]
    <3>1. CASE l < i
      <4>1. l \in 1..Len(frags[q]) /\ l # i
        BY <2>1, <2>2, <3>1
      <4> QED
        BY <2>1, <3>1, <4>1
    <3>2. CASE ~(l < i)
      <4>1. l + 1 \in 1..Len(frags[q]) /\ l + 1 # i
        BY <2>1, <2>2, <3>2
      <4> QED
        BY <2>1, <3>2, <4>1
    <3> QED
      BY <3>1, <3>2
  <2> QED
    BY <2>3, <2>4
<1>3. ASSUME NEW w \in Contents'
      PROVE  w \in Contents \ {Content(frags[q][i])}
  <2>1. PICK p \in Queue : \E l \in 1..Len(frags'[p]) : w = Content(frags'[p][l])
    BY <1>1, <1>3, SeenNext
  <2>2. \E j \in 1..Len(frags[p]) : ~(p = q /\ j = i) /\ w = Content(frags[p][j])
    <3>1. CASE p = q
      BY <1>2, <2>1, <3>1
    <3>2. CASE p # q
      BY <1>1, <2>1, <3>2
    <3> QED
      BY <3>1, <3>2
  <2>3. PICK j \in 1..Len(frags[p]) : ~(p = q /\ j = i) /\ w = Content(frags[p][j])
    BY <2>2
  <2>4. frags[p][j].packet # frags[q][i].packet /\ w \in Contents
    BY <2>3, SeenOnce
  <2> QED
    BY <2>3, <2>4 DEF Content
<1>4. ASSUME NEW w \in Contents, w # Content(frags[q][i])
      PROVE  w \in Contents'
  <2>1. PICK p \in Queue : \E j \in 1..Len(frags[p]) : w = Content(frags[p][j])
    BY <1>1, <1>4, SeenNow
  <2>2. PICK j \in 1..Len(frags[p]) : w = Content(frags[p][j])
    BY <2>1
  <2>3. \E l \in 1..Len(frags'[p]) : frags'[p][l] = frags[p][j]
    <3>1. ~(p = q /\ j = i)
      BY <1>4, <2>2
    <3>2. CASE p = q
      BY <1>2, <3>1, <3>2
    <3>3. CASE p # q
      BY <1>1, <3>3
    <3> QED
      BY <3>2, <3>3
  <2>4. PICK l \in 1..Len(frags'[p]) : frags'[p][l] = frags[p][j]
    BY <2>3
  <2>5. Content(frags'[p][l]) \in Contents'
    BY <1>1, SeenNext
  <2> QED
    BY <2>2, <2>4, <2>5
<1> QED
  BY <1>3, <1>4

\* What the second scan takes for complete is what makes a packet.
LEMMA TileMakes ==
    ASSUME NEW parts, Apart(parts), parts # {}, Tile(parts)
    PROVE  Host!Makes(parts)
<1> DEFINE end == Max({End(r) : r \in parts})
           covers(x) == {r \in parts : r.off <= x /\ x < End(r)}
<1>1. /\ \A x \in 0..end - 1 : Cardinality(covers(x)) = 1
      /\ \A r \in parts : r.more <=> End(r) < end
  BY DEF Tile
<1>2. /\ \A r \in parts : /\ r.off \in Nat /\ End(r) \in Nat /\ r.off < End(r)
                          /\ r.more \in BOOLEAN /\ Host!Last(r) = End(r) - 1
      /\ \A r, s \in parts : /\ r.off = s.off => r = s
                             /\ r.off < s.off => End(r) <= s.off
  BY DEF Apart, Part, End, Host!Last
<1>3. end \in Nat /\ (\E r \in parts : End(r) = end) /\ \A r \in parts : End(r) <= end
  BY EndIs
<1> HIDE DEF end
<1>4. PICK last \in parts : End(last) = end
  BY <1>3
<1>5. ASSUME NEW r \in parts
      PROVE  (r.more <=> r # last) /\ Host!Last(r) <= Host!Last(last)
  <2>1. End(r) = end => r = last
    <3>1. End(r) # end \/ (~(r.off < last.off) /\ ~(last.off < r.off))
      BY <1>2, <1>3, <1>4
    <3> QED
      BY <1>2, <3>1
  <2>2. End(r) <= end /\ End(r) \in Nat
    BY <1>2, <1>3
  <2>3. r.more <=> r # last
    BY <1>1, <1>3, <1>4, <2>1, <2>2
  <2> QED
    BY <1>2, <1>3, <1>4, <2>2, <2>3
<1>6. ASSUME NEW x \in 0..Host!Last(last)
      PROVE  \E r \in parts : \A s \in parts : Host!Has(s, x) <=> s = r
  <2>1. x \in 0..end - 1
    BY <1>2, <1>4
  <2>2. IsFiniteSet(covers(x))
    <3>1. covers(x) \in SUBSET parts
      OBVIOUS
    <3> QED
      BY <3>1, FS_Subset DEF Apart
  <2>3. Cardinality(covers(x)) = 1
    BY <1>1, <2>1
  <2>4. \E r : covers(x) = {r}
    <3> HIDE DEF covers
    <3> QED
      BY <2>2, <2>3, FS_Singleton
  <2>5. PICK r : covers(x) = {r}
    BY <2>4
  <2>6. \A s \in parts : Host!Has(s, x) <=> s.off <= x /\ x < End(s)
    BY <1>2, <2>1, <1>3 DEF Host!Has
  <2> QED
    BY <2>5, <2>6
<1> QED
  BY <1>5, <1>6 DEF Host!Makes

LEMMA MakesTile ==
    ASSUME NEW parts, Apart(parts), Host!Makes(parts)
    PROVE  parts # {} /\ Tile(parts)
<1> DEFINE end == Max({End(r) : r \in parts})
<1>1. PICK last \in parts :
         /\ \A r \in parts : (r.more <=> r # last) /\ Host!Last(r) <= Host!Last(last)
         /\ \A x \in 0..Host!Last(last) :
               \E r \in parts : \A s \in parts : Host!Has(s, x) <=> s = r
  BY DEF Host!Makes
<1>2. /\ \A r \in parts : /\ r.off \in Nat /\ End(r) \in Nat /\ r.off < End(r)
                          /\ Host!Last(r) = End(r) - 1
      /\ \A r, s \in parts : /\ r.off = s.off => r = s
                             /\ r.off < s.off => End(r) <= s.off
  BY DEF Apart, Part, End, Host!Last
<1>3. end \in Nat /\ (\E r \in parts : End(r) = end) /\ \A r \in parts : End(r) <= end
  BY EndIs
<1> HIDE DEF end
<1>4. End(last) = end
  BY <1>1, <1>2, <1>3
<1>5. ASSUME NEW r \in parts
      PROVE  r.more <=> End(r) < end
  <2>1. r # last => End(r) # end
    <3>1. End(r) # end \/ (~(r.off < last.off) /\ ~(last.off < r.off))
      BY <1>2, <1>3, <1>4
    <3> QED
      BY <1>2, <3>1
  <2>2. End(r) <= end /\ End(r) \in Nat
    BY <1>2, <1>3
  <2> QED
    BY <1>1, <1>3, <1>4, <2>1, <2>2
<1>6. ASSUME NEW x \in 0..end - 1
      PROVE  Cardinality({r \in parts : r.off <= x /\ x < End(r)}) = 1
  <2>1. x \in 0..Host!Last(last)
    BY <1>2, <1>4
  <2>2. PICK r \in parts : \A s \in parts : Host!Has(s, x) <=> s = r
    BY <1>1, <2>1
  <2>3. r.off <= x /\ x < End(r)
    BY <1>2, <1>3, <2>2 DEF Host!Has
  <2> QED
    BY <1>3, <2>3, OneCovers
<1> QED
  BY <1>5, <1>6 DEF Tile, end

\* As many packets wait in a queue as its counter says.
LEMMA RoomIs ==
    ASSUME IInv, NEW q \in Queue
    PROVE  Cardinality({w \in Contents : w.packet.queue = q}) = fragscnt[q]
<1> DEFINE s == frags[q]
           I == 1..Len(s)
           T == {w \in Contents : w.packet.queue = q}
           fn == [i \in I |-> Content(s[i])]
<1>1. Row(s, q) /\ \A p \in Queue : frags[p] \in Seq(Entries) /\ Row(frags[p], p)
  BY DEF IInv, Rows, Row
<1>2. IsFiniteSet(I) /\ Cardinality(I) = Len(s)
  <2>1. Len(s) \in Nat
    BY <1>1
  <2>2. IsFiniteSet(1..Len(s)) /\ Cardinality(1..Len(s)) =
                                  IF 1 > Len(s) THEN 0 ELSE Len(s) - 1 + 1
    <3>1. 1 \in Int /\ Len(s) \in Int
      BY <2>1
    <3> QED
      BY <3>1, FS_Interval, Zenon
  <2> QED
    BY <2>1, <2>2
<1>3. ASSUME NEW i \in I
      PROVE  Content(s[i]) \in T
  BY <1>1, SeenOnce DEF IInv, Row, Content
<1>4. \A i, j \in I : Content(s[i]) = Content(s[j]) => i = j
  <2>1. ASSUME NEW i \in I, NEW j \in I, Content(s[i]) = Content(s[j])
        PROVE  i = j
    <3>1. s[i].packet = s[j].packet
      BY <2>1 DEF Content
    <3>2. Rows
      BY DEF IInv
    <3> QED
      BY <3>1, <3>2, SeenOnce
  <2> QED
    BY <2>1
<1>5. ASSUME NEW w \in T
      PROVE  \E i \in I : Content(s[i]) = w
  <2>1. PICK p \in Queue : \E i \in 1..Len(frags[p]) : w = Content(frags[p][i])
    BY <1>1, SeenIs, ContentsAre
  <2>2. PICK i \in 1..Len(frags[p]) : w = Content(frags[p][i])
    BY <2>1
  <2>3. w.packet.queue = p
    BY <1>1, <2>2 DEF Row, Content
  <2> QED
    BY <2>2, <2>3
<1>6. /\ fn \in [I -> T] /\ \A i, j \in I : fn[i] = fn[j] => i = j
      /\ \A x \in T : \E i \in I : fn[i] = x
  BY <1>3, <1>4, <1>5
<1> HIDE DEF fn, T, I
<1>7. Cardinality(T) = Len(s)
  BY <1>2, <1>6, SameSize
<1>8. fragscnt[q] = Len(s)
  BY <1>1, RowCounts DEF IInv, Counted
<1> QED
  BY <1>7, <1>8 DEF T

\* What a fragment does to the packet whose entry takes it.
LEMMA HostParts ==
    ASSUME NEW f \in Entries, Sound(f), NEW p \in Part, Fits(f.parts, p)
    PROVE  /\ Host!Apart(Content(f), p)
           /\ Whole(Insert(f, p)) <=> Host!Makes(f.parts \cup {p})
           /\ Content(Insert(f, p)) = Host!Kept(f.packet, f.parts \cup {p}, f.left)
<1> DEFINE g == Insert(f, p)
<1>1. /\ g.packet = f.packet /\ g.left = f.left /\ g.parts = f.parts \cup {p}
      /\ Apart(g.parts) /\ ((\E r \in g.parts : r.off = 0) => g.first)
  BY InsertIs DEF Sound
<1>2. Host!Apart(Content(f), p)
  <2>1. ASSUME NEW r \in f.parts
        PROVE  Host!Last(r) < p.off \/ Host!Last(p) < r.off
    <3>1. /\ r.off \in Nat /\ r.len \in Nat /\ p.off \in Nat /\ p.len \in Nat
          /\ r.off < p.off => r.off + r.len <= p.off
          /\ r.off > p.off => p.off + p.len <= r.off
          /\ r.off # p.off
      BY DEF Sound, Apart, Part, Fits, End
    <3> QED
      BY <3>1 DEF Host!Last
  <2>2. Content(f).parts = f.parts
    BY DEF Content
  <2> QED
    BY <2>1, <2>2 DEF Host!Apart
<1>3. ASSUME Whole(g)
      PROVE  Host!Makes(g.parts)
  <2>1. g.parts # {} /\ Tile(g.parts)
    BY <1>1, <1>3, WholeTiles
  <2> QED
    BY <1>1, <2>1, TileMakes
<1>4. ASSUME Host!Makes(g.parts)
      PROVE  Whole(g)
  <2>1. g.parts # {} /\ Tile(g.parts)
    BY <1>1, <1>4, MakesTile
  <2> QED
    BY <1>1, <2>1, TilesWhole
<1>5. Content(g) = Host!Kept(f.packet, f.parts \cup {p}, f.left)
  BY <1>1 DEF Content, Host!Kept
<1> QED
  BY <1>1, <1>2, <1>3, <1>4, <1>5

LEMMA HostInit == Init => Host!RInit
<1> SUFFICES ASSUME Init
             PROVE  Host!RInit
  OBVIOUS
<1>1. \A q \in Queue : frags[q] \in Seq(Entries) /\ Len(frags[q]) = 0
  BY DEF Init
<1>2. \A w : w \notin Contents
  BY <1>1, SeenIs, ContentsAre
<1> QED
  BY <1>2 DEF Init, Host!RInit

\* A packet without entry does not wait.
LEMMA NoneSeen ==
    ASSUME IInv, NEW k \in Packet, Position(k) = {}
    PROVE  \A w \in Contents : w.packet # k
<1> SUFFICES ASSUME NEW w \in Contents
             PROVE  w.packet # k
  OBVIOUS
<1>1. \A q \in Queue : frags[q] \in Seq(Entries) /\ Row(frags[q], q)
  BY DEF IInv, Rows, Row
<1>2. PICK q \in Queue : \E i \in 1..Len(frags[q]) : w = Content(frags[q][i])
  BY <1>1, SeenIs, ContentsAre
<1>3. PICK i \in 1..Len(frags[q]) : w = Content(frags[q][i])
  BY <1>2
<1>4. w.packet = frags[q][i].packet /\ frags[q][i].packet.queue = q
  BY <1>1, <1>3 DEF Content, Row
<1> QED
  BY <1>3, <1>4 DEF Position

LEMMA NewEntryHost ==
    ASSUME IInv, IInv', NEW k \in Packet, NEW p \in Fragment[k], NEW room \in BOOLEAN,
           NewEntry(k, p, room)
    PROVE  Host!Open(k)
<1> DEFINE f == Hashed(Entry(k, p))
           e == IF room THEN Insert(f, p) ELSE f
<1>1. /\ e \in Entries /\ e.packet = k /\ e.left = Lifetime /\ ~Whole(e)
      /\ (Whole(e) \/ Sound(e)) /\ e.parts = IF room THEN {p} ELSE {}
  BY FreshIs DEF IInv, NewEntry
<1>2. ~Host!Makes(e.parts)
  <2>1. CASE room
    <3>1. f \in Entries /\ f.parts = {} /\ Apart({}) /\ Fits({}, p) /\ p \in Part
      BY EntryIs, HashedIs DEF IInv
    <3> HIDE DEF f
    <3>2. Sound(f)
      BY <3>1 DEF Sound, Whole
    <3>3. Whole(Insert(f, p)) <=> Host!Makes({} \cup {p})
      BY <3>1, <3>2, HostParts
    <3>4. e = Insert(f, p) /\ e.parts = {p}
      BY <1>1, <2>1 DEF f
    <3> QED
      BY <1>1, <3>3, <3>4
  <2>2. CASE ~room
    BY <1>1, <2>2 DEF Host!Makes
  <2> QED
    BY <2>1, <2>2
<1>3. /\ frags' = [frags EXCEPT ![k.queue] = <<e>> \o @]
      /\ rebuilt' = {} /\ Admitted(k) /\ Position(k) = {}
  BY DEF NewEntry
<1> HIDE DEF e
<1>4. k.queue \in Queue
  BY PacketsAre
<1>5. Contents' = Contents \cup {Content(e)}
  BY <1>1, <1>3, <1>4, SeenPut DEF IInv
<1>6. Content(e) = Host!Kept(k, e.parts, Lifetime)
  BY <1>1 DEF Content, Host!Kept
<1>7. \A w \in Contents : w.packet # k
  BY <1>3, NoneSeen
<1>8. Cardinality({w \in Contents : w.packet.queue = k.queue}) < FragMax[k.queue]
  <2>1. fragscnt[k.queue] < FragMax[k.queue]
    BY <1>3 DEF Admitted
  <2> QED
    BY <1>4, <2>1, RoomIs
<1>9. e.parts \in {{}} \cup {{x} : x \in Fragment[k]}
  BY <1>1
<1>10. \E parts \in {{}} \cup {{x} : x \in Fragment[k]} :
          ~Host!Makes(parts) /\ Contents' = Contents \cup {Host!Kept(k, parts, Lifetime)}
  BY <1>2, <1>5, <1>6, <1>9
<1>11. \A S : Host!Cardinality(S) = Cardinality(S)
  BY Zenon DEF Cardinality, Host!Cardinality
<1>12. Host!New(k)
  BY <1>7, <1>8, <1>11 DEF Host!New
<1> QED
  BY <1>3, <1>10, <1>12 DEF Host!Open

\* A fragment that is all of its packet.
LEMMA AloneHost ==
    ASSUME IInv, NEW k \in Packet, NEW p \in Fragment[k], Alone(k, p)
    PROVE  Host!Single(k, p)
<1> DEFINE f == Entry(k, p)
<1>1. f \in Entries /\ f.parts = {} /\ Apart({}) /\ Fits({}, p) /\ p \in Part
  BY EntryIs
<1>2. /\ Admitted(k) /\ Position(k) = {} /\ Whole(Insert(f, p)) /\ frags' = frags
      /\ rebuilt' = IF End(p) <= MaxLen THEN {p} ELSE {}
  BY DEF Alone
<1> HIDE DEF f
<1>3. Sound(f)
  BY <1>1 DEF Sound, Whole
<1>4. Host!Makes({} \cup {p})
  BY <1>1, <1>2, <1>3, HostParts
<1>5. Host!Last(p) < MaxLen <=> End(p) <= MaxLen
  <2>1. MaxLen \in Nat /\ p.off \in Nat /\ p.len \in Nat
    BY <1>1, AftrFragAssumption DEF AftrFragAssumption, Part
  <2> QED
    BY <2>1 DEF Host!Last, End
<1>6. Cardinality({w \in Contents : w.packet.queue = k.queue}) < FragMax[k.queue]
  <2>1. fragscnt[k.queue] < FragMax[k.queue]
    BY <1>2 DEF Admitted
  <2>2. k.queue \in Queue
    BY PacketsAre
  <2> QED
    BY <2>1, <2>2, RoomIs
<1>7. \A S : Host!Cardinality(S) = Cardinality(S)
  BY Zenon DEF Cardinality, Host!Cardinality
<1>8. \A w \in Contents : w.packet # k
  BY <1>2, NoneSeen
<1>9. Host!New(k)
  BY <1>6, <1>7, <1>8 DEF Host!New
<1>10. Contents' = Contents /\ {} \cup {p} = {p}
  BY <1>2 DEF Contents
<1> QED
  BY <1>2, <1>4, <1>5, <1>9, <1>10 DEF Host!Single

\* A fragment that is refused changes nothing but the cache.
LEMMA DropHost ==
    ASSUME IInv, IInv', NEW k \in Packet, NEW i \in Position(k), Drop(k, i)
    PROVE  Host!Send
<1> DEFINE e == Hashed(frags[k.queue][i])
<1>1. /\ k.queue \in Queue /\ i \in 1..Len(frags[k.queue])
      /\ frags[k.queue][i] \in Entries
  BY PositionIs DEF IInv
<1>2. /\ e.packet = frags[k.queue][i].packet /\ e.parts = frags[k.queue][i].parts
      /\ e.left = frags[k.queue][i].left
  BY <1>1, HashedIs DEF IInv
<1>3. frags' = [frags EXCEPT ![k.queue] = [@ EXCEPT ![i] = e]] /\ rebuilt' = {}
  BY DEF Drop
<1> HIDE DEF e
<1>4. Contents' = (Contents \ {Content(frags[k.queue][i])}) \cup {Content(e)}
  BY <1>1, <1>2, <1>3, SeenSet DEF IInv
<1>5. Content(e) = Content(frags[k.queue][i]) /\ Content(frags[k.queue][i]) \in Contents
  BY <1>1, <1>2, SeenOnce DEF IInv, Content
<1> QED
  BY <1>3, <1>4, <1>5 DEF Host!Send

LEMMA KeepHost ==
    ASSUME IInv, IInv', NEW k \in Packet, NEW i \in Position(k), NEW p \in Fragment[k],
           Keep(k, i, p)
    PROVE  \E w \in Contents : w.packet = k /\ Host!Keep(w, p)
<1> DEFINE o == frags[k.queue][i]
           f == Hashed(o)
           e == Insert(f, p)
<1>1. /\ k.queue \in Queue /\ i \in 1..Len(frags[k.queue])
      /\ o \in Entries /\ o.packet = k /\ Sound(o)
  BY PositionIs DEF IInv, Row
<1>2. /\ f \in Entries /\ f.packet = k /\ f.parts = o.parts /\ f.left = o.left /\ Sound(f)
  BY <1>1, HashedIs DEF IInv
<1>3. /\ Fits(f.parts, p) /\ ~Whole(e) /\ rebuilt' = {}
      /\ frags' = [frags EXCEPT ![k.queue] = [@ EXCEPT ![i] = e]]
  BY DEF Keep
<1> HIDE DEF f
<1>4. /\ Host!Apart(Content(f), p) /\ (Whole(e) <=> Host!Makes(f.parts \cup {p}))
      /\ Content(e) = Host!Kept(f.packet, f.parts \cup {p}, f.left)
      /\ e.packet = f.packet
  <2>1. p \in Part
    BY FragmentsAre
  <2>2. e.packet = f.packet
    BY <1>2 DEF Insert, Entries
  <2> QED
    BY <1>2, <1>3, <2>1, <2>2, HostParts
<1> HIDE DEF e
<1>5. Contents' = (Contents \ {Content(o)}) \cup {Content(e)} /\ Content(o) \in Contents
  <2>1. Rows /\ Rows' /\ e.packet = frags[k.queue][i].packet
    BY <1>1, <1>2, <1>4 DEF IInv
  <2>2. Contents' = (Contents \ {Content(frags[k.queue][i])}) \cup {Content(e)}
    BY <1>1, <1>3, <2>1, SeenSet
  <2>3. Content(frags[k.queue][i]) \in Contents
    BY <1>1, <2>1, SeenOnce
  <2> QED
    BY <2>2, <2>3
<1>6. /\ Content(f) = Content(o) /\ Content(o).packet = k /\ Content(o).parts = f.parts
      /\ Content(o).left = f.left
  BY <1>1, <1>2 DEF Content
<1>7. Host!Keep(Content(o), p)
  BY <1>2, <1>3, <1>4, <1>5, <1>6 DEF Host!Keep
<1> QED
  BY <1>5, <1>6, <1>7

LEMMA RebuildHost ==
    ASSUME IInv, IInv', NEW k \in Packet, NEW i \in Position(k), NEW p \in Fragment[k],
           Rebuild(k, i, p)
    PROVE  \E w \in Contents : w.packet = k /\ Host!Finish(w, p)
<1> DEFINE o == frags[k.queue][i]
           f == Hashed(o)
           e == Insert(f, p)
<1>1. /\ k.queue \in Queue /\ i \in 1..Len(frags[k.queue])
      /\ o \in Entries /\ o.packet = k /\ Sound(o)
  BY PositionIs DEF IInv, Row
<1>2. /\ f \in Entries /\ f.packet = k /\ f.parts = o.parts /\ f.left = o.left /\ Sound(f)
  BY <1>1, HashedIs DEF IInv
<1>3. /\ Fits(f.parts, p) /\ Whole(e)
      /\ rebuilt' = IF \A r \in e.parts : End(r) <= MaxLen THEN e.parts ELSE {}
      /\ frags' = [frags EXCEPT ![k.queue] = RemoveAt(@, i)]
  BY DEF Rebuild
<1> HIDE DEF f
<1>4. /\ Host!Apart(Content(f), p) /\ Host!Makes(f.parts \cup {p})
      /\ e.parts = f.parts \cup {p} /\ e.parts \subseteq Part
  <2>1. p \in Part
    BY FragmentsAre
  <2>2. e.parts = f.parts \cup {p}
    BY <1>2 DEF Insert, Entries
  <2>3. Host!Apart(Content(f), p) /\ Host!Makes(f.parts \cup {p})
    BY <1>2, <1>3, <2>1, HostParts
  <2> QED
    BY <1>2, <2>1, <2>2, <2>3 DEF Sound, Apart
<1> HIDE DEF e
<1>5. Contents' = Contents \ {Content(o)} /\ Content(o) \in Contents
  BY <1>1, <1>3, SeenOut, SeenOnce DEF IInv
<1>6. /\ Content(f) = Content(o) /\ Content(o).packet = k /\ Content(o).parts = f.parts
  BY <1>1, <1>2 DEF Content
<1>7. \A r \in e.parts : Host!Last(r) < MaxLen <=> End(r) <= MaxLen
  <2>1. MaxLen \in Nat /\ \A r \in e.parts : r.off \in Nat /\ r.len \in Nat
    BY <1>4, AftrFragAssumption DEF AftrFragAssumption, Part
  <2> QED
    BY <2>1 DEF Host!Last, End
<1>8. rebuilt' = IF \A r \in e.parts : Host!Last(r) < MaxLen THEN e.parts ELSE {}
  BY <1>3, <1>7
<1>9. Host!Finish(Content(o), p)
  BY <1>4, <1>5, <1>6, <1>8 DEF Host!Finish
<1> QED
  BY <1>5, <1>6, <1>9

\* The clock is read when nothing is over its time.
LEMMA TickHost ==
    ASSUME IInv, IInv', NEW d \in 1..MaxSkip, Tick(d)
    PROVE  Host!Pass(d)
<1> DEFINE Now == {Host!Kept(w.packet, w.parts, w.left - d) : w \in Contents}
<1>1. /\ \A q \in Queue : frags[q] \in Seq(Entries) /\ frags'[q] \in Seq(Entries)
      /\ d \in Nat \ {0} /\ ~late /\ rebuilt' = {}
  BY TimesAre DEF IInv, Rows, Tick
<1>2. ASSUME NEW q \in Queue
      PROVE  /\ Len(frags'[q]) = Len(frags[q])
             /\ \A i \in 1..Len(frags[q]) :
                   /\ frags'[q][i].packet = frags[q][i].packet
                   /\ frags'[q][i].parts = frags[q][i].parts
                   /\ frags'[q][i].left = frags[q][i].left - d
  <2>1. Row(frags[q], q) /\ frags'[q] = Older(frags[q], d)
    BY DEF IInv, Rows, Tick
  <2> QED
    BY <1>1, <2>1, OldRow
<1>3. ASSUME NEW q \in Queue, NEW i \in 1..Len(frags[q])
      PROVE  Content(frags'[q][i]) = Host!Kept(Content(frags[q][i]).packet,
                 Content(frags[q][i]).parts, Content(frags[q][i]).left - d)
  BY <1>2 DEF Content, Host!Kept
<1>4. ASSUME NEW w \in Contents'
      PROVE  w \in Now
  <2>1. PICK q \in Queue : \E i \in 1..Len(frags'[q]) : w = Content(frags'[q][i])
    BY <1>1, SeenNext
  <2>2. PICK i \in 1..Len(frags[q]) : w = Content(frags'[q][i])
    BY <1>2, <2>1
  <2>3. Content(frags[q][i]) \in Contents
    BY <1>1, SeenNow
  <2> QED
    BY <1>3, <2>2, <2>3
<1>5. ASSUME NEW v \in Contents
      PROVE  v.left >= 0 /\ Host!Kept(v.packet, v.parts, v.left - d) \in Contents'
  <2>1. PICK q \in Queue : \E i \in 1..Len(frags[q]) : v = Content(frags[q][i])
    BY <1>1, SeenNow
  <2>2. PICK i \in 1..Len(frags[q]) : v = Content(frags[q][i])
    BY <2>1
  <2>3. frags[q][i].left >= 0 /\ v.left = frags[q][i].left
    BY <1>1, <2>2 DEF IInv, Timed, Content
  <2>4. Content(frags'[q][i]) \in Contents'
    BY <1>1, <1>2, SeenNext
  <2> QED
    BY <1>3, <2>2, <2>3, <2>4
<1>6. Contents' = Now
  BY <1>4, <1>5
<1> QED
  BY <1>1, <1>5, <1>6 DEF Host!Pass

\* The deletion from the end of the queues takes what is over its time, all of it.
LEMMA ExpireHost ==
    ASSUME IInv, IInv', Expire
    PROVE  Host!Expire
<1> DEFINE n(q) == Len(frags[q]) - Cardinality(Overdue(frags[q]))
<1>1. /\ \A q \in Queue : frags[q] \in Seq(Entries) /\ frags'[q] \in Seq(Entries)
      /\ rebuilt' = {}
  BY DEF IInv, Rows, Expire
<1>2. ASSUME NEW q \in Queue
      PROVE  /\ Len(frags'[q]) = n(q)
             /\ \A i \in 1..n(q) : /\ i \in 1..Len(frags[q]) /\ frags[q][i].left >= 0
                                     /\ frags'[q][i] = frags[q][i]
             /\ \A i \in 1..Len(frags[q]) : i \notin Overdue(frags[q]) => i \in 1..n(q)
  <2>1. Row(frags[q], q) /\ frags'[q] = SubSeq(frags[q], 1, n(q))
    BY DEF IInv, Rows, Expire
  <2> QED
    BY <2>1, CutRow
<1> HIDE DEF n
<1>3. ASSUME NEW w \in Contents'
      PROVE  w \in Contents /\ w.left >= 0
  <2>1. PICK q \in Queue : \E i \in 1..Len(frags'[q]) : w = Content(frags'[q][i])
    BY <1>1, SeenNext
  <2>2. PICK i \in 1..n(q) : w = Content(frags'[q][i])
    BY <1>2, <2>1
  <2>3. i \in 1..Len(frags[q]) /\ frags[q][i].left >= 0 /\ w = Content(frags[q][i])
    BY <1>2, <2>2
  <2>4. Content(frags[q][i]) \in Contents
    BY <1>1, <2>3, SeenNow
  <2> QED
    BY <2>3, <2>4 DEF Content
<1>4. ASSUME NEW v \in Contents, v.left >= 0
      PROVE  v \in Contents'
  <2>1. PICK q \in Queue : \E i \in 1..Len(frags[q]) : v = Content(frags[q][i])
    BY <1>1, <1>4, SeenNow
  <2>2. PICK i \in 1..Len(frags[q]) : v = Content(frags[q][i])
    BY <2>1
  <2>3. frags[q][i].left >= 0 /\ frags[q][i].left \in Int /\ Len(frags[q]) \in Nat
    BY <1>1, <1>4, <2>2, EntriesAre DEF Content
  <2>4. i \in i..Len(frags[q]) /\ ~(frags[q][i].left < 0)
    BY <2>2, <2>3
  <2>5. i \notin Overdue(frags[q])
    BY <2>4 DEF Overdue
  <2>6. i \in 1..Len(frags'[q]) /\ frags'[q][i] = frags[q][i]
    BY <1>2, <2>5
  <2>7. Content(frags'[q][i]) \in Contents'
    BY <1>1, <2>6, SeenNext
  <2> QED
    BY <2>2, <2>6, <2>7
<1>5. Contents' = {w \in Contents : w.left >= 0}
  BY <1>3, <1>4
<1> QED
  BY <1>1, <1>5 DEF Host!Expire

LEMMA DefragHost ==
    ASSUME IInv, IInv', Defrag
    PROVE  Host!RNext
<1>1. PICK k \in Packet :
        \/ \E i \in Position(k) : Drop(k, i)
        \/ \E p \in Fragment[k] :
              \/ \E room \in BOOLEAN : NewEntry(k, p, room)
              \/ Alone(k, p)
              \/ \E i \in Position(k) : Keep(k, i, p) \/ Rebuild(k, i, p)
  BY DEF Defrag
<1>2. CASE \E i \in Position(k) : Drop(k, i)
  BY <1>2, DropHost DEF Host!RNext
<1>3. ASSUME NEW p \in Fragment[k], \E room \in BOOLEAN : NewEntry(k, p, room)
      PROVE  Host!RNext
  BY <1>3, NewEntryHost DEF Host!RNext
<1>4. ASSUME NEW p \in Fragment[k], NEW i \in Position(k), Keep(k, i, p)
      PROVE  Host!RNext
  BY <1>4, KeepHost DEF Host!RNext
<1>5. ASSUME NEW p \in Fragment[k], NEW i \in Position(k), Rebuild(k, i, p)
      PROVE  Host!RNext
  BY <1>5, RebuildHost DEF Host!RNext
<1>6. ASSUME NEW p \in Fragment[k], Alone(k, p)
      PROVE  Host!RNext
  BY <1>6, AloneHost DEF Host!RNext
<1> QED
  BY <1>1, <1>2, <1>3, <1>4, <1>5, <1>6

\* The queues, cache and counters of aftr.c reassemble as Reassembly allows, for any
\* packets, limits, lifetimes and sizes of the cache, and whatever tunnels go.
THEOREM ReassemblyImplemented == Spec => ImplementsReassembly
<1>1. IInv /\ IInv' /\ [Next]_vars => [Host!RNext]_(Host!wvars)
  <2> SUFFICES ASSUME IInv, IInv', [Next]_vars
               PROVE  Host!RNext \/ UNCHANGED Host!wvars
    BY DEF Host!wvars
  <2>1. CASE Defrag
    BY <2>1, DefragHost
  <2>2. ASSUME NEW d \in 1..MaxSkip, Tick(d)
        PROVE  Host!RNext
    BY <2>2, TickHost DEF Host!RNext
  <2>3. CASE Resize \/ \E t \in Tunnel : DelTunnel(t) \/ AddTunnel(t)
    <3>1. frags' = frags /\ rebuilt' = {}
      BY <2>3 DEF Resize, DelTunnel, AddTunnel
    <3>2. Host!Send
      BY <3>1 DEF Host!Send, Contents
    <3> QED
      BY <3>2 DEF Host!RNext
  <2>4. CASE UNCHANGED vars
    BY <2>4 DEF vars, Host!wvars, Contents
  <2>5. CASE Expire
    BY <2>5, ExpireHost DEF Host!RNext
  <2> QED
    BY <2>1, <2>2, <2>3, <2>4, <2>5 DEF Next
<1> QED
  BY <1>1, HostInit, InvHolds, PTL DEF Spec, ImplementsReassembly, Host!RSpec

-----------------------------------------------------------------------------
(* What check_tunnels() asserts *)

\* A tunnel is deleted only when it has no packet under way.
DeletesIdle == \A t \in live \ live' : \A q \in Queue : Referring(t, q) = {}

\* The entries refer to tunnels there are.
Resident == \A w \in Contents : w.packet.queue # "fragsout" => w.packet.tunnel \in live

\* As long as none is deleted, an entry needs a tunnel only when it is made.
LEMMA SamePackets ==
    ASSUME Resident, live \subseteq live',
           \A w \in Contents' :
              \/ \E v \in Contents : v.packet = w.packet
              \/ w.packet.queue = "fragsout" \/ w.packet.tunnel \in live
    PROVE  Resident'
BY DEF Resident

LEMMA DefragResident ==
    ASSUME IInv, IInv', Resident, Defrag
    PROVE  Resident'
<1>1. live' = live
  <2>1. \A k, i : Drop(k, i) => live' = live
    BY Zenon DEF Drop
  <2>2. \A k, p, room : NewEntry(k, p, room) => live' = live
    BY Zenon DEF NewEntry
  <2>3. \A k, p : Alone(k, p) => live' = live
    BY Zenon DEF Alone
  <2>4. \A k, i, p : Keep(k, i, p) \/ Rebuild(k, i, p) => live' = live
    BY Zenon DEF Keep, Rebuild
  <2> QED
    BY <2>1, <2>2, <2>3, <2>4, Zenon DEF Defrag
<1>2. PICK k \in Packet :
        \/ \E i \in Position(k) : Drop(k, i)
        \/ \E p \in Fragment[k] :
              \/ \E room \in BOOLEAN : NewEntry(k, p, room)
              \/ Alone(k, p)
              \/ \E i \in Position(k) : Keep(k, i, p) \/ Rebuild(k, i, p)
  BY DEF Defrag
<1>3. CASE \E i \in Position(k) : Drop(k, i)
  <2>1. Host!Send
    BY <1>3, DropHost
  <2> QED
    BY <1>1, <2>1, SamePackets DEF Host!Send
<1>4. ASSUME NEW p \in Fragment[k], NEW room \in BOOLEAN, NewEntry(k, p, room)
      PROVE  Resident'
  <2>1. Host!Open(k)
    BY <1>4, NewEntryHost
  <2>2. PICK parts : Contents' = Contents \cup {Host!Kept(k, parts, Lifetime)}
    BY <2>1 DEF Host!Open
  <2>3. k.queue # "fragsout" => k.tunnel \in live
    <3>1. Admitted(k)
      BY <1>4 DEF NewEntry
    <3>2. k.queue # "fragsout" => k.tunnel # NoTunnel
      BY PacketsAre, AftrFragAssumption DEF AftrFragAssumption
    <3> QED
      BY <3>1, <3>2 DEF Admitted
  <2>4. Host!Kept(k, parts, Lifetime).packet = k
    BY DEF Host!Kept
  <2> QED
    BY <1>1, <2>2, <2>3, <2>4, SamePackets
<1>5. ASSUME NEW p \in Fragment[k], NEW i \in Position(k), Keep(k, i, p)
      PROVE  Resident'
  <2>1. PICK w \in Contents : Host!Keep(w, p)
    BY <1>5, KeepHost
  <2>2. Contents' = (Contents \ {w}) \cup {Host!Kept(w.packet, w.parts \cup {p}, w.left)}
    BY <2>1 DEF Host!Keep
  <2>3. Host!Kept(w.packet, w.parts \cup {p}, w.left).packet = w.packet
    BY DEF Host!Kept
  <2> QED
    BY <1>1, <2>2, <2>3, SamePackets
<1>6. ASSUME NEW p \in Fragment[k], NEW i \in Position(k), Rebuild(k, i, p)
      PROVE  Resident'
  <2>1. PICK w \in Contents : Host!Finish(w, p)
    BY <1>6, RebuildHost
  <2>2. Contents' \subseteq Contents
    BY <2>1 DEF Host!Finish
  <2> QED
    BY <1>1, <2>2, SamePackets
<1>7. ASSUME NEW p \in Fragment[k], Alone(k, p)
      PROVE  Resident'
  <2>1. Contents' = Contents
    BY <1>7 DEF Alone, Contents
  <2> QED
    BY <1>1, <2>1, SamePackets
<1> QED
  BY <1>2, <1>3, <1>4, <1>5, <1>6, <1>7

LEMMA ResidentStep ==
    ASSUME IInv, IInv', Resident, [Next]_vars, [DeletesIdle]_vars
    PROVE  Resident'
<1>1. CASE Defrag
  BY <1>1, DefragResident
<1>2. ASSUME NEW d \in 1..MaxSkip, Tick(d)
      PROVE  Resident'
  <2>1. Host!Pass(d)
    BY <1>2, TickHost
  <2>2. live' = live
    BY <1>2 DEF Tick
  <2>3. \A w \in Contents' : \E v \in Contents : v.packet = w.packet
    BY <2>1 DEF Host!Pass, Host!Kept
  <2> QED
    BY <2>2, <2>3, SamePackets
<1>3. CASE UNCHANGED frags /\ live \subseteq live'
  <2>1. Contents' = Contents
    BY <1>3 DEF Contents
  <2> QED
    BY <1>3, <2>1, SamePackets
<1>4. ASSUME NEW t \in Tunnel, DelTunnel(t)
      PROVE  Resident'
  <2>1. t \in live /\ live' = live \ {t} /\ frags' = frags
    BY <1>4 DEF DelTunnel
  <2>2. DeletesIdle
    BY <2>1 DEF vars
  <2>3. ASSUME NEW w \in Contents
        PROVE  w.packet.tunnel # t
    <3>1. \A q \in Queue : frags[q] \in Seq(Entries)
      BY DEF IInv, Rows
    <3>2. PICK q \in Queue : \E i \in 1..Len(frags[q]) : w = Content(frags[q][i])
      BY <3>1, SeenIs, ContentsAre
    <3>3. PICK i \in 1..Len(frags[q]) : w = Content(frags[q][i])
      BY <3>2
    <3>4. Referring(t, q) = {}
      BY <2>1, <2>2 DEF DeletesIdle
    <3> QED
      BY <3>3, <3>4 DEF Content, Referring
  <2>4. Contents' = Contents
    BY <2>1 DEF Contents
  <2> QED
    BY <2>1, <2>3, <2>4 DEF Resident
<1>5. CASE Resize \/ \E t \in Tunnel : AddTunnel(t)
  BY <1>3, <1>5 DEF Resize, AddTunnel
<1>6. CASE UNCHANGED vars
  BY <1>3, <1>6 DEF vars
<1>7. CASE Expire
  <2>1. Host!Expire
    BY <1>7, ExpireHost
  <2>2. live' = live
    BY <1>7 DEF Expire
  <2>3. Contents' \subseteq Contents
    BY <2>1 DEF Host!Expire
  <2> QED
    BY <2>2, <2>3, SamePackets
<1> QED
  BY <1>1, <1>2, <1>4, <1>5, <1>6, <1>7 DEF Next

\* check_tunnels() never reports a mismatch of the counts of frags6 and fragsin when no
\* tunnel is deleted with packets under way: del_tunnel() is all that can make it.
THEOREM TunnelsAccounted == Spec /\ [][DeletesIdle]_vars => []TunnelsAccountForFrags
<1>1. Init => Resident
  <2> SUFFICES ASSUME Init
               PROVE  Resident
    OBVIOUS
  <2>1. Contents = {}
    BY HostInit DEF Host!RInit
  <2> QED
    BY <2>1 DEF Resident
<1>2. ASSUME IInv, Resident
      PROVE  TunnelsAccountForFrags
  <2>1. ASSUME NEW q \in {"frags6", "fragsin"}
        PROVE  fragscnt[q] = Cardinality(UNION {Referring(t, q) : t \in live})
    <3>1. q \in Queue /\ q # "fragsout"
      BY DEF Queue
    <3>2. Row(frags[q], q) /\ Len(frags[q]) \in Nat
      BY <1>2, <3>1 DEF IInv, Rows, Row
    <3>3. ASSUME NEW i \in 1..Len(frags[q])
          PROVE  frags[q][i].packet.tunnel \in live
      <4>1. Content(frags[q][i]) \in Contents
        BY <1>2, <3>1, SeenOnce DEF IInv
      <4>2. frags[q][i].packet.queue = q
        BY <3>2 DEF Row
      <4> QED
        BY <1>2, <3>1, <4>1, <4>2 DEF Resident, Content
    <3>4. UNION {Referring(t, q) : t \in live} = 1..Len(frags[q])
      BY <3>3 DEF Referring
    <3>5. Cardinality(1..Len(frags[q])) = Len(frags[q])
      <4>1. 1 \in Int /\ Len(frags[q]) \in Int
        BY <3>2
      <4>2. Cardinality(1..Len(frags[q])) = IF 1 > Len(frags[q]) THEN 0
                                            ELSE Len(frags[q]) - 1 + 1
        BY <4>1, FS_Interval, Zenon
      <4> QED
        BY <3>2, <4>2
    <3>6. fragscnt[q] = Len(frags[q])
      BY <1>2, <3>1, <3>2, RowCounts DEF IInv, Counted
    <3> QED
      BY <3>4, <3>5, <3>6
  <2> QED
    BY <2>1 DEF TunnelsAccountForFrags
<1> QED
  BY <1>1, <1>2, ResidentStep, InvHolds, PTL DEF Spec
=============================================================================
