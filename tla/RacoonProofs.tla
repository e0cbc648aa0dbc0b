----------------------------- MODULE RacoonProofs -----------------------------
(***************************************************************************)
(* Proofs about Racoon, for any number of handlers and whatever the peer,  *)
(* the kernel, the administrator and the timers do: the back pointers      *)
(* lead to live SAs, nothing waits without a timer, and the IPsec SAs      *)
(* survive their ISAKMP SA unless a reload ends it.                        *)
(*                                                                         *)
(* The invariant says of each handler by itself what must hold of it, and  *)
(* of phase 2 handlers only which phase 1 handlers they may be bound to,   *)
(* the set Sa.  A step changes the phase 1 handlers in one of three ways,  *)
(* each with a lemma: one is inserted, one is changed in its place, some   *)
(* are removed; and the phase 2 handlers likewise.                         *)
(***************************************************************************)
EXTENDS Racoon, FiniteSetTheorems, WellFoundedInduction, TLAPS

USE RacoonAssumption DEF RacoonAssumption

Tree(F, D) == {x \in D : F[x].status # 0}

\* A phase 1 handler by itself.
Good1(v) ==
    /\ v \in Ph1Handle
    /\ v.status = 0 => v = Newph1
    /\ v.scr => v.status \in {1, 3, 5, 7, 11}
    /\ v.status \in {3, 5, 7} => v.scr
    /\ v.status \in {9, 10} => v.sce # "none"
    /\ v.sce = "dying" => v.status \in {9, 11}
    /\ v.fails <= v.out

\* A phase 2 handler by itself, S being the ISAKMP SAs there are: half of it
\* holds while it is being made.
Half2(v, S) ==
    /\ v \in Ph2Handle
    /\ v.status = 0 => v = Newph2
    /\ v.ph1 # NoPh1 => v.ph1 \in S
    /\ (v.scr \/ v.pk # "none" \/ v.status = 9) => v.ph1 # NoPh1

Good2(v, S) == Half2(v, S) /\ (v.status # 0 => v.sce # "none" \/ v.ph1 # NoPh1)

\* The phase 1 handlers of ISAKMP SAs: racoonctl may mark as expired one whose
\* negotiation is being resent, which has no phase 2 handlers.
Sa(F) == {p \in Ph1 : F[p].status >= 9 /\ ~F[p].scr}

Well1(F) ==
    /\ F \in [Ph1 -> Ph1Handle]
    /\ \A p \in Ph1 : Good1(F[p])
    /\ Linear(F, Tree(F, Ph1))

Well2(H, S) ==
    /\ H \in [Ph2 -> Ph2Handle]
    /\ \A h \in Ph2 : Good2(H[h], S)
    /\ Linear(H, Tree(H, Ph2))

\* The inductive invariant.
IInv == Well1(ph1) /\ Well2(ph2, Sa(ph1))

-----------------------------------------------------------------------------
(* The lists *)

\* insph1(), insph2()
LEMMA GrowLinear ==
    ASSUME NEW D, NEW F, NEW G, NEW x \in D,
           F[x].status = 0, G[x].status # 0, G[x].older = Tree(F, D),
           \A y \in D \ {x} : (G[y].status # 0 <=> F[y].status # 0) /\ G[y].older = F[y].older,
           Linear(F, Tree(F, D))
    PROVE  Linear(G, Tree(G, D))
<1>1. Tree(G, D) = Tree(F, D) \cup {x} /\ x \notin Tree(F, D)
  BY DEF Tree
<1>2. \A y \in Tree(F, D) : G[y].older = F[y].older
  BY DEF Tree
<1> DEFINE T == Tree(F, D)
<1> HIDE DEF T
<1>3. \A y \in T : /\ F[y].older \subseteq T \ {y}
                   /\ \A z \in T \ {y} : y \in F[z].older <=> z \notin F[y].older
                   /\ \A z \in F[y].older : F[z].older \subseteq F[y].older
  BY DEF Linear, T
<1>4. ASSUME NEW y \in T \cup {x}
      PROVE  /\ G[y].older \subseteq (T \cup {x}) \ {y}
             /\ \A z \in (T \cup {x}) \ {y} : y \in G[z].older <=> z \notin G[y].older
             /\ \A z \in G[y].older : G[z].older \subseteq G[y].older
  <2>1. CASE y = x
    BY <1>1, <1>2, <1>3, <2>1 DEF T
  <2>2. CASE y # x
    <3>1. y \in T /\ G[y].older = F[y].older
      BY <1>2, <2>2 DEF T
    <3>2. G[x].older = T /\ x \notin T
      BY <1>1 DEF T
    <3>3. \A z \in T : G[z].older = F[z].older
      BY <1>2 DEF T
    <3> QED
      BY <1>3, <3>1, <3>2, <3>3
  <2> QED
    BY <2>1, <2>2
<1> QED
  BY <1>1, <1>4 DEF Linear, T

\* remph1(), remph2()
LEMMA ShrinkLinear ==
    ASSUME NEW D, NEW F, NEW G, NEW gone,
           \A y \in D : G[y].status # 0 <=> (y \notin gone /\ F[y].status # 0),
           \A y \in D \ gone : G[y].older = F[y].older \ gone,
           Linear(F, Tree(F, D))
    PROVE  Linear(G, Tree(G, D))
<1>1. Tree(G, D) = Tree(F, D) \ gone
  BY DEF Tree
<1>2. \A y \in Tree(F, D) \ gone : G[y].older = F[y].older \ gone
  BY DEF Tree
<1> DEFINE T == Tree(F, D)
<1> HIDE DEF T
<1>3. \A y \in T : /\ F[y].older \subseteq T \ {y}
                   /\ \A z \in T \ {y} : y \in F[z].older <=> z \notin F[y].older
                   /\ \A z \in F[y].older : F[z].older \subseteq F[y].older
  BY DEF Linear, T
<1>4. ASSUME NEW y \in T \ gone
      PROVE  /\ G[y].older \subseteq (T \ gone) \ {y}
             /\ \A z \in (T \ gone) \ {y} : y \in G[z].older <=> z \notin G[y].older
             /\ \A z \in G[y].older : G[z].older \subseteq G[y].older
  <2>1. \A z \in T \ gone : G[z].older = F[z].older \ gone
    BY <1>2 DEF T
  <2> QED
    BY <1>3, <2>1
<1> QED
  BY <1>1, <1>4 DEF Linear, T

\* A change of handlers in their places.
LEMMA SameLinear ==
    ASSUME NEW D, NEW F, NEW G,
           \A y \in D : (G[y].status # 0 <=> F[y].status # 0) /\ G[y].older = F[y].older,
           Linear(F, Tree(F, D))
    PROVE  Linear(G, Tree(G, D))
<1>1. Tree(G, D) = Tree(F, D) /\ \A y \in Tree(F, D) : y \in D
  BY DEF Tree
<1>2. \A y \in Tree(F, D) : G[y].older = F[y].older
  BY <1>1
<1>3. \A x \in Tree(F, D) : F[x].older \subseteq Tree(F, D)
  BY DEF Linear
<1> QED
  BY <1>1, <1>2, <1>3 DEF Linear

\* A set of numbers that is not empty has a least one.
LEMMA LeastNat ==
    ASSUME NEW S, S \subseteq Nat, S # {}
    PROVE  \E i \in S : \A j \in S : i <= j
<1> DEFINE R == OpToRel(<, Nat)
<1>1. \E i \in S : \A j \in S : ~(<<j, i>> \in R)
  BY WFMin, NatLessThanWellFounded, Zenon
<1>2. \A i, j \in Nat : j < i => <<j, i>> \in R
  BY DEF OpToRel
<1>3. \A i, j \in S : ~(j < i) => i <= j
  OBVIOUS
<1> QED
  BY <1>1, <1>2, <1>3

\* A search finds the newest handler of a set that is not empty (getph1()).
LEMMA Newest ==
    ASSUME NEW F \in [Ph1 -> Ph1Handle], Linear(F, Tree(F, Ph1)),
           NEW S \in SUBSET Tree(F, Ph1), S # {}
    PROVE  First(F, S) # {}
<1> DEFINE size(x) == Cardinality(F[x].older)
<1>1. \A x \in S : x \in Ph1 /\ F[x].older \in SUBSET Ph1
  BY DEF Tree, Ph1Handle
<1>2. \A x \in S : IsFiniteSet(F[x].older) /\ size(x) \in 0..Cardinality(Ph1)
  <2>1. Cardinality(Ph1) \in Nat
    BY FS_CardinalityType
  <2>2. \A x \in S : IsFiniteSet(F[x].older) /\ size(x) <= Cardinality(Ph1) /\ size(x) \in Nat
    BY <1>1, FS_Subset, FS_CardinalityType
  <2> QED
    BY <2>1, <2>2
<1> DEFINE left == {Cardinality(Ph1) - size(x) : x \in S}
<1>3. left \subseteq Nat /\ left # {}
  <2>1. Cardinality(Ph1) \in Nat
    BY FS_CardinalityType
  <2> HIDE DEF size
  <2> QED
    BY <1>2, <2>1
<1>4. PICK i \in left : \A j \in left : i <= j
  BY <1>3, LeastNat
<1>5. PICK x \in S : \A y \in S : size(y) <= size(x)
  <2>1. PICK x \in S : i = Cardinality(Ph1) - size(x)
    OBVIOUS
  <2>2. \A y \in S : Cardinality(Ph1) - size(x) <= Cardinality(Ph1) - size(y)
    BY <1>4, <2>1
  <2>3. Cardinality(Ph1) \in Nat
    BY FS_CardinalityType
  <2> HIDE DEF size
  <2> QED
    BY <1>2, <2>2, <2>3
<1>6. ASSUME NEW y \in S, y # x, x \in F[y].older
      PROVE  FALSE
  <2>1. F[x].older \subseteq F[y].older /\ x \notin F[x].older
    BY <1>6 DEF Linear
  <2>2. F[x].older # F[y].older
    BY <1>6, <2>1
  <2>3. size(x) < size(y)
    BY <1>2, <2>1, <2>2, FS_Subset
  <2> HIDE DEF size
  <2> QED
    BY <1>2, <1>5, <2>3
<1>7. \A y \in S \ {x} : y \in F[x].older
  BY <1>6 DEF Linear
<1> QED
  BY <1>7 DEF First

-----------------------------------------------------------------------------
(* What a step does to the phase 1 handlers *)

\* One is changed in its place.
LEMMA Ph1Changed ==
    ASSUME NEW F, Well1(F), NEW p \in Ph1, F[p].status # 0,
           NEW v, Good1(v), v.status # 0, v.older = F[p].older,
           p \in Sa(F) => v.status >= 9 /\ ~v.scr
    PROVE  /\ Well1([F EXCEPT ![p] = v])
           /\ Sa(F) \subseteq Sa([F EXCEPT ![p] = v])
<1> DEFINE G == [F EXCEPT ![p] = v]
<1>1. /\ G \in [Ph1 -> Ph1Handle]
      /\ G[p] = v
      /\ \A q \in Ph1 \ {p} : G[q] = F[q]
  BY DEF Well1, Good1
<1> HIDE DEF G
<1>2. \A q \in Ph1 : Good1(G[q])
  BY <1>1 DEF Well1
<1>3. \A y \in Ph1 : (G[y].status # 0 <=> F[y].status # 0) /\ G[y].older = F[y].older
  BY <1>1
<1>4. Linear(G, Tree(G, Ph1))
  BY <1>3, SameLinear DEF Well1
<1>5. Sa(F) \subseteq Sa(G)
  BY <1>1 DEF Sa
<1> QED
  BY <1>1, <1>2, <1>4, <1>5 DEF Well1, G

\* One is inserted.
LEMMA Ph1Inserted ==
    ASSUME NEW F, Well1(F), NEW p \in Ph1, F[p].status = 0,
           NEW v \in Ph1Handle, Good1(v), v.status # 0
    PROVE  /\ Well1(Insert(F, p, Tree(F, Ph1), v))
           /\ Sa(F) \subseteq Sa(Insert(F, p, Tree(F, Ph1), v))
           /\ Insert(F, p, Tree(F, Ph1), v)[p].status = v.status
           /\ \A q \in Ph1 \ {p} : Insert(F, p, Tree(F, Ph1), v)[q] = F[q]
<1> DEFINE G == Insert(F, p, Tree(F, Ph1), v)
           w == [v EXCEPT !.older = Tree(F, Ph1)]
<1>1. /\ w \in Ph1Handle /\ w.older = Tree(F, Ph1)
      /\ Good1(w) /\ w.status = v.status
  BY DEF Good1, Ph1Handle, Tree
<1>2. G = [F EXCEPT ![p] = w] /\ F \in [Ph1 -> Ph1Handle]
  BY DEF Insert, Well1
<1> HIDE DEF w, G
<1>3. /\ G \in [Ph1 -> Ph1Handle]
      /\ G[p] = w
      /\ \A q \in Ph1 \ {p} : G[q] = F[q]
  BY <1>1, <1>2
<1>4. \A q \in Ph1 : Good1(G[q])
  BY <1>1, <1>3 DEF Well1
<1>5. \A y \in Ph1 \ {p} : (G[y].status # 0 <=> F[y].status # 0) /\ G[y].older = F[y].older
  BY <1>3
<1>6. Linear(F, Tree(F, Ph1)) /\ G[p].status # 0 /\ G[p].older = Tree(F, Ph1)
  BY <1>1, <1>3 DEF Well1
<1>7. Linear(G, Tree(G, Ph1))
  BY <1>5, <1>6, GrowLinear
<1>8. Sa(F) \subseteq Sa(G)
  BY <1>3 DEF Sa
<1> QED
  BY <1>1, <1>3, <1>4, <1>7, <1>8 DEF Well1, G

\* Some are removed.
LEMMA Ph1Removed ==
    ASSUME NEW F, Well1(F), NEW gone
    PROVE  /\ Well1(Remove(F, gone, Newph1))
           /\ Sa(Remove(F, gone, Newph1)) = Sa(F) \ gone
           /\ \A q \in Ph1 \ gone : Remove(F, gone, Newph1)[q].status = F[q].status
           /\ \A q \in Ph1 \cap gone : Remove(F, gone, Newph1)[q].status = 0
<1> DEFINE G == Remove(F, gone, Newph1)
<1>1. /\ \A q \in Ph1 \cap gone : G[q] = Newph1
      /\ \A q \in Ph1 \ gone : G[q] = [F[q] EXCEPT !.older = @ \ gone]
      /\ G = [q \in Ph1 |-> G[q]]
  BY DEF Remove, Well1
<1> HIDE DEF G
<1>2. Newph1 \in Ph1Handle /\ Newph1.status = 0 /\ Good1(Newph1) /\ ~Newph1.scr
  BY DEF Newph1, Ph1Handle, Good1, Side, PHASE1ST_SPAWN
<1>3. ASSUME NEW q \in Ph1 \ gone
      PROVE  /\ G[q] \in Ph1Handle /\ G[q].status = F[q].status
             /\ G[q].older = F[q].older \ gone /\ Good1(G[q])
             /\ G[q].scr = F[q].scr
  <2>1. F[q] \in Ph1Handle /\ Good1(F[q])
    BY DEF Well1
  <2>2. G[q] = [F[q] EXCEPT !.older = @ \ gone]
    BY <1>1
  <2>3. /\ G[q] \in Ph1Handle /\ G[q].status = F[q].status
        /\ G[q].older = F[q].older \ gone
        /\ G[q].scr = F[q].scr /\ G[q].sce = F[q].sce
        /\ G[q].fails = F[q].fails /\ G[q].out = F[q].out
    BY <2>1, <2>2 DEF Ph1Handle
  <2>4. F[q].status = 0 => G[q] = Newph1
    BY <2>1, <2>2 DEF Good1, Newph1
  <2> QED
    BY <2>1, <2>3, <2>4 DEF Good1
<1>4. G \in [Ph1 -> Ph1Handle] /\ \A q \in Ph1 : Good1(G[q])
  BY <1>1, <1>2, <1>3
<1>5. /\ \A y \in Ph1 : G[y].status # 0 <=> (y \notin gone /\ F[y].status # 0)
      /\ \A y \in Ph1 \ gone : G[y].older = F[y].older \ gone
  BY <1>1, <1>2, <1>3
<1>6. Linear(G, Tree(G, Ph1))
  BY <1>5, ShrinkLinear DEF Well1
<1>7. Sa(G) = Sa(F) \ gone
  BY <1>1, <1>2, <1>3 DEF Sa
<1> QED
  BY <1>1, <1>2, <1>3, <1>4, <1>6, <1>7 DEF Well1, G

-----------------------------------------------------------------------------
(* What a step does to the phase 2 handlers *)

\* Some are changed in their places.
LEMMA Ph2Changed ==
    ASSUME NEW H, NEW S, Well2(H, S), NEW T,
           NEW G, G = [h \in Ph2 |-> G[h]],
           \A h \in Ph2 : /\ Good2(G[h], T)
                          /\ G[h].older = H[h].older
                          /\ G[h].status # 0 <=> H[h].status # 0
    PROVE  Well2(G, T)
<1>1. G \in [Ph2 -> Ph2Handle]
  BY DEF Good2, Half2
<1>2. Linear(G, Tree(G, Ph2))
  BY SameLinear DEF Well2
<1> QED
  BY <1>1, <1>2 DEF Well2

\* All are well but h, which is being made.
Almost(H, h, S) ==
    /\ H \in [Ph2 -> Ph2Handle]
    /\ \A g \in Ph2 \ {h} : Good2(H[g], S)
    /\ Half2(H[h], S) /\ H[h].status # 0
    /\ Linear(H, Tree(H, Ph2))

\* One is changed in its place, to a handler that is well.
LEMMA Ph2OneChanged ==
    ASSUME NEW H, NEW S, Well2(H, S), NEW h \in Ph2, H[h].status # 0,
           NEW v, Good2(v, S), v.status # 0, v.older = H[h].older
    PROVE  Well2([H EXCEPT ![h] = v], S)
<1> DEFINE G == [H EXCEPT ![h] = v]
<1>1. H \in [Ph2 -> Ph2Handle]
  BY DEF Well2
<1>2. /\ G = [g \in Ph2 |-> G[g]]
      /\ G[h] = v
      /\ \A g \in Ph2 \ {h} : G[g] = H[g]
  BY <1>1
<1> HIDE DEF G
<1>3. \A g \in Ph2 : /\ Good2(G[g], S)
                     /\ G[g].older = H[g].older
                     /\ G[g].status # 0 <=> H[g].status # 0
  BY <1>2 DEF Well2
<1>4. Well2(G, S)
  BY <1>2, <1>3, Ph2Changed
<1> QED
  BY <1>4 DEF G

\* There are more ISAKMP SAs.
LEMMA Ph2More ==
    ASSUME NEW H, NEW S, Well2(H, S), NEW T, S \subseteq T
    PROVE  Well2(H, T)
BY DEF Well2, Good2, Half2

\* One is inserted.
LEMMA Ph2Inserted ==
    ASSUME NEW H, NEW S, Well2(H, S), NEW h \in Ph2, H[h].status = 0,
           NEW v \in Ph2Handle, Half2(v, S), v.status # 0
    PROVE  Almost(Insert(H, h, Tree(H, Ph2), v), h, S)
<1> DEFINE G == Insert(H, h, Tree(H, Ph2), v)
           w == [v EXCEPT !.older = Tree(H, Ph2)]
<1>1. /\ w \in Ph2Handle /\ w.older = Tree(H, Ph2)
      /\ Half2(w, S) /\ w.status = v.status
  BY DEF Half2, Ph2Handle, Tree
<1>2. G = [H EXCEPT ![h] = w] /\ H \in [Ph2 -> Ph2Handle]
  BY DEF Insert, Well2
<1> HIDE DEF w, G
<1>3. /\ G \in [Ph2 -> Ph2Handle]
      /\ G[h] = w
      /\ \A g \in Ph2 \ {h} : G[g] = H[g]
  BY <1>1, <1>2
<1>4. \A g \in Ph2 \ {h} : Good2(G[g], S)
  BY <1>3 DEF Well2
<1>5. \A y \in Ph2 \ {h} : (G[y].status # 0 <=> H[y].status # 0) /\ G[y].older = H[y].older
  BY <1>3
<1>6. Linear(H, Tree(H, Ph2)) /\ G[h].status # 0 /\ G[h].older = Tree(H, Ph2)
  BY <1>1, <1>3 DEF Well2
<1>7. Linear(G, Tree(G, Ph2))
  BY <1>5, <1>6, GrowLinear
<1> QED
  BY <1>1, <1>3, <1>4, <1>6, <1>7 DEF Almost, G

\* The one being made is finished, or left as it is if it needs nothing more.
LEMMA Ph2Finished ==
    ASSUME NEW H, NEW S, NEW h \in Ph2, Almost(H, h, S),
           NEW v, Good2(v, S), v.status # 0, v.older = H[h].older
    PROVE  Well2([H EXCEPT ![h] = v], S)
<1> DEFINE G == [H EXCEPT ![h] = v]
<1>1. H \in [Ph2 -> Ph2Handle] /\ v \in Ph2Handle
  BY DEF Almost, Good2, Half2
<1>2. /\ G \in [Ph2 -> Ph2Handle]
      /\ G[h] = v
      /\ \A g \in Ph2 \ {h} : G[g] = H[g]
  BY <1>1
<1> HIDE DEF G
<1>3. \A g \in Ph2 : /\ Good2(G[g], S)
                     /\ G[g].older = H[g].older
                     /\ G[g].status # 0 <=> H[g].status # 0
  BY <1>2 DEF Almost
<1>4. Linear(G, Tree(G, Ph2))
  BY <1>3, SameLinear DEF Almost
<1> QED
  BY <1>2, <1>3, <1>4 DEF Well2, G

\* Some are removed, and with them all that are bound to an ISAKMP SA that goes.
LEMMA Ph2Removed ==
    ASSUME NEW H \in [Ph2 -> Ph2Handle], NEW S, NEW gone, NEW T,
           Linear(H, Tree(H, Ph2)),
           \A h \in Ph2 \ gone : Good2(H[h], S) /\ (H[h].ph1 # NoPh1 => H[h].ph1 \in T)
    PROVE  Well2(RemovePh2(H, gone), T)
<1> DEFINE G == RemovePh2(H, gone)
<1>1. /\ \A h \in Ph2 \cap gone : G[h] = Newph2
      /\ \A h \in Ph2 \ gone : G[h] = [H[h] EXCEPT !.older = @ \ gone]
      /\ G = [h \in Ph2 |-> G[h]]
  BY DEF RemovePh2, Remove
<1> HIDE DEF G
<1>2. Newph2 \in Ph2Handle /\ Newph2.status = 0 /\ Good2(Newph2, T)
  BY DEF Newph2, Ph2Handle, Good2, Half2, Side, PHASE2ST_SPAWN
<1>3. ASSUME NEW h \in Ph2 \ gone
      PROVE  /\ G[h] \in Ph2Handle /\ G[h].status = H[h].status
             /\ G[h].older = H[h].older \ gone /\ Good2(G[h], T)
  <2>1. H[h] \in Ph2Handle /\ Good2(H[h], S)
    OBVIOUS
  <2>2. G[h] = [H[h] EXCEPT !.older = @ \ gone]
    BY <1>1
  <2>3. /\ G[h] \in Ph2Handle /\ G[h].status = H[h].status
        /\ G[h].older = H[h].older \ gone
        /\ G[h].scr = H[h].scr /\ G[h].sce = H[h].sce
        /\ G[h].pk = H[h].pk /\ G[h].ph1 = H[h].ph1
    BY <2>1, <2>2 DEF Ph2Handle
  <2>4. H[h].status = 0 => G[h] = Newph2
    <3>1. Newph2.older = {}
      BY DEF Newph2
    <3>2. \A v \in Ph2Handle : v.older = {} => [v EXCEPT !.older = {}] = v
      BY DEF Ph2Handle
    <3> QED
      BY <1>2, <2>1, <2>2, <3>1, <3>2 DEF Good2, Half2
  <2> QED
    BY <2>1, <2>3, <2>4 DEF Good2, Half2
<1>4. G \in [Ph2 -> Ph2Handle] /\ \A h \in Ph2 : Good2(G[h], T)
  BY <1>1, <1>2, <1>3
<1>5. /\ \A y \in Ph2 : G[y].status # 0 <=> (y \notin gone /\ H[y].status # 0)
      /\ \A y \in Ph2 \ gone : G[y].older = H[y].older \ gone
  BY <1>1, <1>2, <1>3
<1>6. Linear(G, Tree(G, Ph2))
  BY <1>5, ShrinkLinear DEF Well2
<1> QED
  BY <1>4, <1>6 DEF Well2, G

\* migrate_ph12(): the established ones go to another ISAKMP SA.
LEMMA Migrated ==
    ASSUME NEW H, NEW S, Well2(H, S), NEW from, NEW to \in S, to \in Ph1
    PROVE  Well2(MigratePh12(H, from, to), S)
<1> DEFINE G == MigratePh12(H, from, to)
<1>1. G = [h \in Ph2 |-> G[h]]
  BY DEF MigratePh12
<1>2. ASSUME NEW h \in Ph2
      PROVE  /\ Good2(G[h], S)
             /\ G[h].older = H[h].older
             /\ G[h].status # 0 <=> H[h].status # 0
  <2>1. H[h] \in Ph2Handle /\ Good2(H[h], S)
    BY DEF Well2
  <2>2. G[h] = H[h] \/ (H[h].status = 9 /\ G[h] = [H[h] EXCEPT !.ph1 = to])
    BY DEF MigratePh12, PHASE2ST_ESTABLISHED
  <2> HIDE DEF G
  <2>3. CASE G[h] = H[h]
    BY <2>1, <2>3
  <2>4. CASE H[h].status = 9 /\ G[h] = [H[h] EXCEPT !.ph1 = to]
    BY <2>1, <2>4 DEF Good2, Half2, Ph2Handle
  <2> QED
    BY <2>2, <2>3, <2>4
<1> HIDE DEF G
<1>3. Well2(G, S)
  BY <1>1, <1>2, Ph2Changed
<1> QED
  BY <1>3 DEF G

-----------------------------------------------------------------------------
(* Steps in general *)

\* What a step must show: the invariant and, if it is not a reload, that IPsec SAs
\* are kept.
Holds == Well1(ph1') /\ Well2(ph2', Sa(ph1'))
Keeps == Holds /\ IPsecSasKept

\* No ISAKMP SA ends.
LEMMA NoneEnds ==
    ASSUME IInv, Sa(ph1) \subseteq Sa(ph1')
    PROVE  IPsecSasKept
<1>1. \A p \in Ph1, h \in Ph2 :
          ph2[h].ph1 = p /\ ph2[h].status = 9 => p \in Sa(ph1')
  BY DEF IInv, Well2, Good2, Half2
<1>2. \A p \in Sa(ph1') : p \in Ph1tree'
  BY DEF Sa, Ph1tree, PHASE1ST_SPAWN
<1> QED
  BY <1>1, <1>2 DEF IPsecSasKept, PHASE2ST_ESTABLISHED

\* Only phase 2 handlers change.
LEMMA Ph2Step ==
    ASSUME IInv, UNCHANGED ph1, Well2(ph2', Sa(ph1))
    PROVE  Keeps
<1>1. Well1(ph1') /\ Sa(ph1') = Sa(ph1)
  BY DEF IInv
<1> QED
  BY <1>1, NoneEnds DEF Keeps, Holds

\* A phase 1 handler is changed in its place, and phase 2 handlers may go to it.
LEMMA Ph1Step ==
    ASSUME IInv, NEW p \in Ph1, ph1[p].status # 0,
           NEW v, Good1(v), v.status # 0, v.older = ph1[p].older,
           p \in Sa(ph1) => v.status >= 9 /\ ~v.scr,
           ph1' = [ph1 EXCEPT ![p] = v],
           Well2(ph2, Sa(ph1')) => Well2(ph2', Sa(ph1'))
    PROVE  Keeps
<1>1. Well1(ph1') /\ Sa(ph1) \subseteq Sa(ph1')
  BY Ph1Changed DEF IInv
<1>2. Well2(ph2, Sa(ph1'))
  BY <1>1, Ph2More DEF IInv
<1> QED
  BY <1>1, <1>2, NoneEnds DEF Keeps, Holds

\* A phase 1 handler is made.
LEMMA Ph1Begins ==
    ASSUME IInv, NEW p \in Ph1, ph1[p].status = 0,
           NEW v \in Ph1Handle, Good1(v), v.status # 0,
           ph1' = Insert(ph1, p, Ph1tree, v),
           Well2(ph2', Sa(ph1))
    PROVE  Keeps
<1>1. Ph1tree = Tree(ph1, Ph1)
  BY DEF Ph1tree, Tree, PHASE1ST_SPAWN
<1>2. Well1(ph1') /\ Sa(ph1) \subseteq Sa(ph1')
  BY <1>1, Ph1Inserted DEF IInv
<1>3. Well2(ph2', Sa(ph1'))
  BY <1>2, Ph2More
<1> QED
  BY <1>2, <1>3, NoneEnds DEF Keeps, Holds

\* A negotiation of phase 1 is given up.
LEMMA Ph1GivenUp ==
    ASSUME IInv, NEW p \in Ph1, p \notin Sa(ph1), ph1' = RemovePh1({p}), UNCHANGED ph2
    PROVE  Keeps
<1> DEFINE G == Remove(ph1, {p}, Newph1)
<1>0. Well1(G) /\ Sa(G) = Sa(ph1) \ {p} /\ ph1' = G
  BY Ph1Removed DEF IInv, RemovePh1
<1> HIDE DEF G
<1>1. Well1(ph1') /\ Sa(ph1') = Sa(ph1)
  BY <1>0
<1>2. Well2(ph2', Sa(ph1'))
  BY <1>1 DEF IInv
<1> QED
  BY <1>1, <1>2, NoneEnds DEF Keeps, Holds

\* A phase 2 handler is removed.
LEMMA Remove2Keeps ==
    ASSUME IInv, NEW h \in Ph2, Remove2(h)
    PROVE  Keeps
<1>1. /\ ph2 \in [Ph2 -> Ph2Handle] /\ Linear(ph2, Tree(ph2, Ph2))
      /\ \A g \in Ph2 : Good2(ph2[g], Sa(ph1)) /\ (ph2[g].ph1 # NoPh1 => ph2[g].ph1 \in Sa(ph1))
  BY DEF IInv, Well2, Good2, Half2
<1>2. Well2(RemovePh2(ph2, {h}), Sa(ph1))
  BY <1>1, Ph2Removed
<1> QED
  BY <1>2, Ph2Step DEF Remove2

\* Those of a set are removed.
LEMMA SomeRemoved ==
    ASSUME NEW H, NEW S, Well2(H, S), NEW gone
    PROVE  Well2(RemovePh2(H, gone), S)
<1>1. /\ H \in [Ph2 -> Ph2Handle] /\ Linear(H, Tree(H, Ph2))
      /\ \A g \in Ph2 : Good2(H[g], S) /\ (H[g].ph1 # NoPh1 => H[g].ph1 \in S)
  BY DEF Well2, Good2, Half2
<1> QED
  BY <1>1, Ph2Removed

-----------------------------------------------------------------------------
(* Phase 1 *)

\* A handler whose message has been sent is being resent.
LEMMA SentGood ==
    ASSUME NEW v \in Ph1Handle, v.sce # "dying", v.fails <= v.out,
           NEW status \in {3, 5, 7}
    PROVE  /\ Good1(Ph1Sent(v, status)) /\ Ph1Sent(v, status) \in Ph1Handle
           /\ Ph1Sent(v, status).status = status /\ Ph1Sent(v, status).older = v.older
<1> DEFINE w == Ph1Sent(v, status)
<1>1. /\ w \in Ph1Handle /\ w.status = status /\ w.older = v.older
      /\ w.scr /\ w.sce = v.sce /\ w.fails = v.fails /\ w.out = v.out
  <2>1. status \in {0, 1, 3, 5, 7, 9, 10, 11} /\ RetryCounter - 1 \in 0..RetryCounter
    OBVIOUS
  <2> QED
    BY <2>1 DEF Ph1Sent, Ph1Handle
<1> HIDE DEF w
<1>2. Good1(w)
  BY <1>1 DEF Good1
<1> QED
  BY <1>1, <1>2 DEF w

LEMMA BlankGood ==
    /\ Newph1 \in Ph1Handle /\ Good1(Newph1) /\ Newph1.sce = "none"
    /\ Newph1.fails = 0 /\ Newph1.out = 0 /\ ~Newph1.scr /\ ~Newph1.ru
    /\ Newph2 \in Ph2Handle /\ \A S : Good2(Newph2, S)
    /\ ~Newph2.scr /\ Newph2.pk = "none" /\ Newph2.ph1 = NoPh1
BY DEF Newph1, Newph2, Ph1Handle, Ph2Handle, Good1, Good2, Half2, Side,
       PHASE1ST_SPAWN, PHASE2ST_SPAWN

LEMMA FirstMessage ==
    /\ Ph1Sent(Newph1, PHASE1ST_MSG1SENT) \in Ph1Handle
    /\ Good1(Ph1Sent(Newph1, PHASE1ST_MSG1SENT))
    /\ Ph1Sent(Newph1, PHASE1ST_MSG1SENT).status = 3
BY BlankGood, SentGood DEF PHASE1ST_MSG1SENT

LEMMA Ph1begin_rKeeps ==
    ASSUME IInv, NEW p \in Ph1, Ph1begin_r(p)
    PROVE  Keeps
<1> DEFINE w == [Newph1 EXCEPT !.side = "RESPONDER"]
           u == [w EXCEPT !.status = 1]
<1>1. w \in Ph1Handle /\ w.sce = "none" /\ w.fails <= w.out
  BY BlankGood DEF Ph1Handle, Side
<1>2. /\ u \in Ph1Handle /\ u.status = 1 /\ u.sce = "none" /\ u.fails <= u.out
      /\ ~u.scr
  BY <1>1, BlankGood DEF Ph1Handle
<1> HIDE DEF w, u
<1>a. Good1(u)
  BY <1>2 DEF Good1
<1>3. Ph1Sent(w, 3) \in Ph1Handle /\ Good1(Ph1Sent(w, 3)) /\ Ph1Sent(w, 3).status = 3
  BY <1>1, SentGood
<1>4. /\ ph1[p].status = 0 /\ UNCHANGED ph2
      /\ \/ ph1' = Insert(ph1, p, Ph1tree, Ph1Sent(w, 3))
         \/ ph1' = Insert(ph1, p, Ph1tree, u)
  BY DEF Ph1begin_r, w, u, PHASE1ST_SPAWN, PHASE1ST_START, PHASE1ST_MSG1SENT
<1>5. Well2(ph2', Sa(ph1))
  BY <1>4 DEF IInv
<1> QED
  BY <1>2, <1>a, <1>3, <1>4, <1>5, Ph1Begins

LEMMA Ph1MessageKeeps ==
    ASSUME IInv, NEW p \in Ph1, NEW side, NEW from \in {1, 3, 5}, NEW to \in {3, 5, 7},
           Ph1Message(p, side, from, to)
    PROVE  Keeps
<1>1. /\ ph1[p].status = from /\ UNCHANGED ph2
      /\ \/ ph1' = [ph1 EXCEPT ![p] = Ph1Sent(ph1[p], to)]
         \/ ph1' = RemovePh1({p})
  BY DEF Ph1Message
<1>2. p \notin Sa(ph1)
  BY <1>1 DEF Sa
<1>3. ph1[p] \in Ph1Handle /\ ph1[p].sce # "dying" /\ ph1[p].fails <= ph1[p].out
  BY <1>1 DEF IInv, Well1, Good1
<1> DEFINE v == Ph1Sent(ph1[p], to)
<1>4. Good1(v) /\ v.status # 0 /\ v.older = ph1[p].older
  BY <1>3, SentGood
<1> HIDE DEF v
<1>5. CASE ph1' = [ph1 EXCEPT ![p] = v]
  <2>1. ph1[p].status # 0 /\ (Well2(ph2, Sa(ph1')) => Well2(ph2', Sa(ph1')))
    BY <1>1
  <2> QED
    BY <1>2, <1>4, <1>5, <2>1, Ph1Step
<1>6. CASE ph1' = RemovePh1({p})
  BY <1>1, <1>2, <1>6, Ph1GivenUp
<1> QED
  BY <1>1, <1>5, <1>6 DEF v

\* The ISAKMP SA is established.
LEMMA EstablishedKeeps ==
    ASSUME IInv, NEW p \in Ph1, ph1[p].status \in {5, 7},
           NEW dpd \in BOOLEAN, NEW contact, Established(p, dpd, contact)
    PROVE  Keeps
<1> DEFINE going == {q \in Ph1tree \ {p} : ph1[q].status >= PHASE1ST_DYING}
           w == [ph1[p] EXCEPT !.status = 9, !.scr = FALSE,
                               !.retry = 0, !.dpd = dpd, !.ru = dpd]
           v == [w EXCEPT !.sce = IF Ph1RekeyEnabled(w) THEN "dying" ELSE "expire"]
<1>1. ph1[p] \in Ph1Handle /\ Good1(ph1[p])
  BY DEF IInv, Well1
<1>2. /\ w \in Ph1Handle /\ w.status = 9 /\ ~w.scr /\ w.older = ph1[p].older
      /\ w.fails = ph1[p].fails /\ w.out = ph1[p].out
  <2>1. 0 \in 0..RetryCounter
    OBVIOUS
  <2> QED
    BY <1>1, <2>1 DEF Ph1Handle
<1>3. /\ ph1' = [ph1 EXCEPT ![p] = v]
      /\ ph2' = RemovePh2(MigratePh12(ph2, going, p), contact)
  BY DEF Established, PHASE1ST_ESTABLISHED
<1> HIDE DEF w, going
<1>4. /\ v \in Ph1Handle /\ v.status = 9 /\ ~v.scr /\ v.older = ph1[p].older
      /\ v.fails = ph1[p].fails /\ v.out = ph1[p].out /\ v.sce \in {"dying", "expire"}
  BY <1>2 DEF Ph1Handle
<1> HIDE DEF v
<1>5. Good1(v)
  BY <1>1, <1>4 DEF Good1
<1>6. p \in Sa(ph1')
  BY <1>3, <1>4 DEF Sa, IInv, Well1
<1>7. Well2(ph2, Sa(ph1')) => Well2(ph2', Sa(ph1'))
  BY <1>3, <1>6, Migrated, SomeRemoved
<1>8. /\ p \in Sa(ph1) => v.status >= 9 /\ ~v.scr
      /\ ph1[p].status # 0 /\ v.status # 0
  BY <1>4
<1> QED
  BY <1>3, <1>4, <1>5, <1>7, <1>8, Ph1Step

LEMMA Ident_lastKeeps ==
    ASSUME IInv, NEW p \in Ph1, Ident_last(p)
    PROVE  Keeps
<1>1. ph1[p].status \in {5, 7} /\ p \notin Sa(ph1)
  BY DEF Ident_last, PHASE1ST_MSG3SENT, PHASE1ST_MSG2SENT, Sa
<1>2. CASE \E dpd \in BOOLEAN, contact \in SUBSET Mature : Established(p, dpd, contact)
  BY <1>1, <1>2, EstablishedKeeps
<1>3. CASE ph1' = RemovePh1({p}) /\ UNCHANGED ph2
  BY <1>1, <1>3, Ph1GivenUp
<1> QED
  BY <1>2, <1>3 DEF Ident_last

LEMMA Ph1resendKeeps ==
    ASSUME IInv, NEW p \in Ph1, Ph1resend(p)
    PROVE  Keeps
<1> DEFINE v == [ph1[p] EXCEPT !.retry = @ - 1]
<1>1. ph1[p] \in Ph1Handle /\ Good1(ph1[p]) /\ ph1[p].scr
  BY DEF IInv, Well1, Ph1resend
<1>2. p \notin Sa(ph1) /\ ph1[p].status # 0
  BY <1>1 DEF Sa, Good1
<1>3. CASE ph1[p].retry > 0 /\ ph1' = [ph1 EXCEPT ![p].retry = @ - 1]
  <2>1. /\ v \in Ph1Handle /\ v.status = ph1[p].status /\ v.scr /\ v.sce = ph1[p].sce
        /\ v.fails = ph1[p].fails /\ v.out = ph1[p].out /\ v.older = ph1[p].older
    BY <1>1, <1>3 DEF Ph1Handle
  <2>2. ph1' = [ph1 EXCEPT ![p] = v]
    BY <1>3
  <2> HIDE DEF v
  <2>3. Good1(v)
    BY <1>1, <1>2, <2>1 DEF Good1
  <2> QED
    BY <1>2, <2>1, <2>2, <2>3, Ph1Step DEF Ph1resend
<1>4. CASE ph1' = RemovePh1({p})
  BY <1>2, <1>4, Ph1GivenUp DEF Ph1resend
<1> QED
  BY <1>3, <1>4 DEF Ph1resend

\* A handler whose timers, counters or status change is typed.
LEMMA Ph1Typed ==
    ASSUME NEW v \in Ph1Handle
    PROVE  /\ [v EXCEPT !.sce = "none"] \in Ph1Handle
           /\ [v EXCEPT !.status = 10, !.sce = "expire"] \in Ph1Handle
           /\ [v EXCEPT !.ru = FALSE] \in Ph1Handle
           /\ [v EXCEPT !.scr = FALSE] \in Ph1Handle
BY DEF Ph1Handle

LEMMA EndedTyped ==
    ASSUME NEW v \in Ph1Handle, NEW ended,
           ended = [v EXCEPT !.status = 11, !.dpd = FALSE, !.out = 0, !.fails = 0]
    PROVE  /\ ended \in Ph1Handle /\ ended.status = 11 /\ ended.older = v.older
           /\ ended.scr = v.scr /\ ended.fails = 0 /\ ended.out = 0
<1>1. 0 \in 0..DpdMaxfails /\ 0 \in 0..MaxOut
  OBVIOUS
<1> QED
  BY <1>1 DEF Ph1Handle

\* The fresh ISAKMP SA that others go to is one.
LEMMA FreshIsSa ==
    ASSUME IInv, NEW but, NEW q \in EstablishedPh1(but)
    PROVE  /\ q \in Ph1 /\ q \notin but /\ ph1[q].status = 9 /\ ~ph1[q].scr
           /\ q \in Sa(ph1)
<1>1. q \in Ph1 /\ q \notin but /\ ph1[q].status = 9
  BY DEF EstablishedPh1, First, Ph1tree, PHASE1ST_ESTABLISHED
<1>2. ~ph1[q].scr
  BY <1>1 DEF IInv, Well1, Good1
<1> QED
  BY <1>1, <1>2 DEF Sa

LEMMA Ph1dyingKeeps ==
    ASSUME IInv, NEW p \in Ph1, Ph1dying(p)
    PROVE  Keeps
<1>1. /\ ph1[p] \in Ph1Handle /\ Good1(ph1[p]) /\ ph1[p].sce = "dying"
      /\ ph1[p].status \in {9, 11} /\ ph1 \in [Ph1 -> Ph1Handle]
  BY DEF IInv, Well1, Good1, Ph1dying
<1>2. CASE ph1[p].status = 11
  <2> DEFINE v == [ph1[p] EXCEPT !.sce = "none"]
  <2>1. ph1' = [ph1 EXCEPT ![p] = v] /\ UNCHANGED ph2
    BY <1>2 DEF Ph1dying, PHASE1ST_DYING
  <2>2. /\ v \in Ph1Handle /\ v.status = 11 /\ v.sce = "none" /\ v.older = ph1[p].older
        /\ v.scr = ph1[p].scr /\ v.fails = ph1[p].fails /\ v.out = ph1[p].out
    BY <1>1, <1>2, Ph1Typed DEF Ph1Handle
  <2> HIDE DEF v
  <2>3. Good1(v)
    BY <1>1, <2>2 DEF Good1
  <2>4. p \in Sa(ph1) => v.status >= 9 /\ ~v.scr
    BY <2>2 DEF Sa
  <2> QED
    <3>1. /\ ph1[p].status # 0 /\ v.status # 0
          /\ Well2(ph2, Sa(ph1')) => Well2(ph2', Sa(ph1'))
      BY <1>2, <2>1, <2>2
    <3> QED
      BY <2>1, <2>2, <2>3, <2>4, <3>1, Ph1Step
<1>3. CASE ph1[p].status = 9
  <2> DEFINE v == [ph1[p] EXCEPT !.status = 10, !.sce = "expire"]
             aged(P) == [P EXCEPT ![p].status = PHASE1ST_DYING, ![p].sce = "expire"]
             fresh(new) == Insert(ph1, new, Ph1tree, Ph1Sent(Newph1, PHASE1ST_MSG1SENT))
  <2>1. /\ v \in Ph1Handle /\ v.status = 10 /\ v.sce = "expire" /\ v.older = ph1[p].older
        /\ v.scr = ph1[p].scr /\ v.fails = ph1[p].fails /\ v.out = ph1[p].out
    BY <1>1, Ph1Typed DEF Ph1Handle
  <2>2. aged(ph1) = [ph1 EXCEPT ![p] = v]
    BY <1>1 DEF PHASE1ST_DYING
  <2>3. Good1(v) /\ ~v.scr
    <3> HIDE DEF v
    <3> QED
      BY <1>1, <1>3, <2>1 DEF Good1
  <2>4. \/ ph1' = aged(ph1) /\ UNCHANGED ph2
        \/ \E new \in EstablishedPh1({p}) :
              ph1' = aged(ph1) /\ ph2' = MigratePh12(ph2, {p}, new)
        \/ \E new \in Ph1 :
              /\ ph1[new].status = PHASE1ST_SPAWN
              /\ ph1' = aged(fresh(new))
              /\ UNCHANGED ph2
    <3>1. ~(ph1[p].status >= PHASE1ST_DYING)
      BY <1>3 DEF PHASE1ST_DYING
    <3> QED
      BY <3>1, Zenon DEF Ph1dying
  <2> HIDE DEF v
  <2>a. /\ ph1[p].status # 0 /\ v.status # 0
        /\ p \in Sa(ph1) => v.status >= 9 /\ ~v.scr
    BY <1>3, <2>1, <2>3
  <2>5. CASE ph1' = aged(ph1) /\ UNCHANGED ph2
    <3>1. Well2(ph2, Sa(ph1')) => Well2(ph2', Sa(ph1'))
      BY <2>5
    <3> QED
      BY <2>1, <2>2, <2>3, <2>5, <2>a, <3>1, Ph1Step
  <2>6. ASSUME NEW new \in EstablishedPh1({p}),
               ph1' = aged(ph1), ph2' = MigratePh12(ph2, {p}, new)
        PROVE  Keeps
    <3>1. new \in Ph1 /\ new # p /\ new \in Sa(ph1)
      BY FreshIsSa
    <3>2. new \in Sa(ph1')
      BY <1>1, <2>2, <2>6, <3>1 DEF Sa
    <3>3. Well2(ph2, Sa(ph1')) => Well2(ph2', Sa(ph1'))
      BY <2>6, <3>1, <3>2, Migrated
    <3> QED
      BY <2>1, <2>2, <2>3, <2>6, <2>a, <3>3, Ph1Step
  <2>7. ASSUME NEW new \in Ph1, ph1[new].status = PHASE1ST_SPAWN,
               ph1' = aged(fresh(new)), UNCHANGED ph2
        PROVE  Keeps
    <3> DEFINE F == fresh(new)
    <3>1. Ph1tree = Tree(ph1, Ph1) /\ ph1[new].status = 0 /\ new # p
      BY <1>3, <2>7 DEF Ph1tree, Tree, PHASE1ST_SPAWN
    <3>2. Well1(F) /\ Sa(ph1) \subseteq Sa(F) /\ F[p] = ph1[p]
      BY <3>1, FirstMessage, Ph1Inserted DEF IInv
    <3> HIDE DEF F
    <3> DEFINE G == [F EXCEPT ![p] = v]
    <3>3. ph1' = G
      <4>1. F \in [Ph1 -> Ph1Handle]
        BY <3>2 DEF Well1
      <4>2. aged(F) = G
        BY <3>2, <4>1 DEF v, PHASE1ST_DYING
      <4> QED
        BY <2>7, <4>2 DEF F
    <3>4. Well1(G) /\ Sa(F) \subseteq Sa(G)
      <4>1. /\ F[p].status # 0 /\ v.older = F[p].older
            /\ p \in Sa(F) => v.status >= 9 /\ ~v.scr
        BY <1>3, <2>1, <2>3, <3>2
      <4> QED
        BY <2>3, <2>a, <3>2, <4>1, Ph1Changed
    <3> HIDE DEF G
    <3>5. Sa(ph1) \subseteq Sa(ph1') /\ Well1(ph1')
      BY <3>2, <3>3, <3>4
    <3>6. Well2(ph2', Sa(ph1'))
      BY <2>7, <3>5, Ph2More DEF IInv
    <3> QED
      BY <3>5, <3>6, NoneEnds DEF Keeps, Holds
  <2> QED
    BY <2>4, <2>5, <2>6, <2>7
<1> QED
  BY <1>1, <1>2, <1>3

\* isakmp_ph1delete() of one or several, H being the phase 2 handlers once the
\* caller has removed some.
LEMMA Ph1deleteHolds ==
    ASSUME IInv, NEW gone, NEW H, Well2(H, Sa(ph1)), Ph1delete(gone, H)
    PROVE  Holds
<1> DEFINE F == Remove(ph1, gone, Newph1)
<1>1. Well1(F) /\ Sa(F) = Sa(ph1) \ gone /\ ph1' = F
  BY Ph1Removed DEF IInv, RemovePh1, Ph1delete
<1> HIDE DEF F
<1>2. ASSUME NEW K, Well2(K, Sa(ph1))
      PROVE  Well2(RemovePh2(K, {h \in Ph2 : K[h].ph1 \in gone}), Sa(F))
  <2> DEFINE bound == {h \in Ph2 : K[h].ph1 \in gone}
  <2>1. /\ K \in [Ph2 -> Ph2Handle] /\ Linear(K, Tree(K, Ph2))
        /\ \A h \in Ph2 : Good2(K[h], Sa(ph1)) /\ (K[h].ph1 # NoPh1 => K[h].ph1 \in Sa(ph1))
    BY <1>2 DEF Well2, Good2, Half2
  <2>2. \A h \in Ph2 \ bound : K[h].ph1 # NoPh1 => K[h].ph1 \in Sa(F)
    BY <1>1, <2>1
  <2> HIDE DEF bound
  <2>3. Well2(RemovePh2(K, bound), Sa(F))
    BY <2>1, <2>2, Ph2Removed
  <2> QED
    BY <2>3 DEF bound
<1>3. CASE ph2' = RemovePh2(H, {h \in Ph2 : H[h].ph1 \in gone})
  BY <1>1, <1>2, <1>3 DEF Holds
<1>4. ASSUME NEW new \in EstablishedPh1(gone),
             ph2' = RemovePh2(MigratePh12(H, gone, new),
                              {h \in Ph2 : MigratePh12(H, gone, new)[h].ph1 \in gone})
      PROVE  Holds
  <2>1. new \in Ph1 /\ new \in Sa(ph1)
    BY FreshIsSa
  <2>2. Well2(MigratePh12(H, gone, new), Sa(ph1))
    BY <2>1, Migrated
  <2> QED
    BY <1>1, <1>2, <1>4, <2>2 DEF Holds
<1> QED
  BY <1>3, <1>4 DEF Ph1delete

\* The same of one handler, when the caller has removed no IPsec SA of it if there
\* is a fresh ISAKMP SA.
LEMMA Ph1deleteKeeps ==
    ASSUME IInv, NEW p \in Ph1, NEW H, Well2(H, Sa(ph1)), Ph1delete({p}, H),
           EstablishedPh1({p}) # {} =>
               \A h \in Ph2 : ph2[h].ph1 = p /\ ph2[h].status = 9
                                  => H[h].ph1 = p /\ H[h].status = 9
    PROVE  Keeps
<1> DEFINE F == Remove(ph1, {p}, Newph1)
<1>1. ph1' = F /\ \A q \in Ph1 \ {p} : F[q].status = ph1[q].status
  BY Ph1Removed DEF IInv, RemovePh1, Ph1delete
<1> HIDE DEF F
<1>2. Holds
  BY Ph1deleteHolds
<1>3. \A q \in Ph1 \ {p} : q \notin Ph1tree' => ph1[q].status = 0
  BY <1>1 DEF Ph1tree, PHASE1ST_SPAWN
<1>4. CASE EstablishedPh1({p}) = {}
  <2>1. ASSUME NEW q \in Ph1, ph1[q].status = 9, q # p
        PROVE  FALSE
    <3> DEFINE S == {r \in Ph1tree \ {p} : ph1[r].status = PHASE1ST_ESTABLISHED}
    <3>1. Ph1tree = Tree(ph1, Ph1)
      BY DEF Ph1tree, Tree, PHASE1ST_SPAWN
    <3>2. S \in SUBSET Tree(ph1, Ph1) /\ S # {}
      BY <2>1, <3>1 DEF PHASE1ST_ESTABLISHED, Tree
    <3> HIDE DEF S
    <3>3. First(ph1, S) # {}
      BY <3>2, Newest DEF IInv, Well1
    <3> QED
      BY <1>4, <3>3 DEF EstablishedPh1, S
  <2>2. IPsecSasKept
    BY <1>3, <2>1 DEF IPsecSasKept, PHASE1ST_ESTABLISHED
  <2> QED
    BY <1>2, <2>2 DEF Keeps
<1>5. ASSUME NEW new \in EstablishedPh1({p}),
             ph2' = RemovePh2(MigratePh12(H, {p}, new),
                              {h \in Ph2 : MigratePh12(H, {p}, new)[h].ph1 \in {p}})
      PROVE  Keeps
  <2> DEFINE K == MigratePh12(H, {p}, new)
             bound == {g \in Ph2 : K[g].ph1 \in {p}}
  <2>1. /\ new \in Ph1 /\ new # p /\ ph1[new].status = 9 /\ new \in Sa(ph1)
        /\ EstablishedPh1({p}) # {}
    BY FreshIsSa
  <2>2. K \in [Ph2 -> Ph2Handle]
    BY <2>1, Migrated DEF Well2
  <2>3. ASSUME NEW h \in Ph2, ph2[h].ph1 = p, ph2[h].status = 9
        PROVE  ph2'[h].status = 9 /\ ph2'[h].ph1 = new
    <3>1. H[h].ph1 = p /\ H[h].status = 9 /\ H[h] \in Ph2Handle
      BY <2>1, <2>3 DEF Well2
    <3>2. K[h] = [H[h] EXCEPT !.ph1 = new]
      BY <3>1 DEF MigratePh12, PHASE2ST_ESTABLISHED
    <3>3. K[h].status = 9 /\ K[h].ph1 = new /\ K[h] \in Ph2Handle
      BY <2>1, <3>1, <3>2 DEF Ph2Handle
    <3> HIDE DEF K
    <3>4. ph2' = Remove(K, bound, Newph2) /\ h \notin bound
      BY <1>5, <2>1, <3>3 DEF K, RemovePh2
    <3> HIDE DEF bound
    <3>5. ph2'[h] = [K[h] EXCEPT !.older = @ \ bound]
      BY <2>2, <3>4 DEF Remove
    <3> QED
      BY <3>3, <3>5 DEF Ph2Handle
  <2>4. ph1'[new].status = 9
    BY <1>1, <2>1
  <2>5. IPsecSasKept
    BY <1>3, <2>3, <2>4 DEF IPsecSasKept, PHASE1ST_ESTABLISHED, PHASE2ST_ESTABLISHED
  <2> QED
    BY <1>2, <2>5 DEF Keeps
<1> QED
  BY <1>4, <1>5 DEF Ph1delete

LEMMA Ph1expireKeeps ==
    ASSUME IInv, NEW p \in Ph1, Ph1expire(p)
    PROVE  Keeps
BY Ph1deleteKeeps DEF Ph1expire, IInv

\* purge_remote(), F being the phase 1 handlers with a timer of p stopped.
LEMMA PurgeRemoteKeeps ==
    ASSUME IInv, NEW p \in Ph1, ph1[p].status # 0, NEW F,
           NEW w \in Ph1Handle, F = [ph1 EXCEPT ![p] = w],
           w.scr => ph1[p].scr, w.older = ph1[p].older,
           PurgeRemote(p, F)
    PROVE  Keeps
<1> DEFINE keep == {h \in Ph2 : /\ EstablishedPh1({p}) # {}
                                /\ \/ ph2[h].ph1 \notin {p, NoPh1}
                                   \/ ph2[h].status >= PHASE2ST_ESTABLISHED}
<1>1. ASSUME NEW listed \in SUBSET Listed, Ph1delete({p}, RemovePh2(ph2, listed \ keep))
      PROVE  Keeps
  <2> DEFINE H == RemovePh2(ph2, listed \ keep)
  <2>1. Well2(H, Sa(ph1))
    BY SomeRemoved DEF IInv
  <2>2. ASSUME EstablishedPh1({p}) # {}, NEW h \in Ph2, ph2[h].ph1 = p, ph2[h].status = 9
        PROVE  H[h].ph1 = p /\ H[h].status = 9
    <3>0. ph2[h].status >= PHASE2ST_ESTABLISHED
      BY <2>2 DEF PHASE2ST_ESTABLISHED
    <3>1. h \in keep
      BY <2>2, <3>0, Zenon
    <3>2. ph2 \in [Ph2 -> Ph2Handle]
      BY DEF IInv, Well2
    <3> HIDE DEF keep
    <3>3. H[h] = [ph2[h] EXCEPT !.older = @ \ (listed \ keep)]
      BY <3>1, <3>2 DEF RemovePh2, Remove
    <3> QED
      BY <2>2, <3>2, <3>3 DEF Ph2Handle
  <2> HIDE DEF H, keep
  <2>3. Ph1delete({p}, H)
    BY <1>1 DEF H
  <2> QED
    BY <2>1, <2>2, <2>3, Ph1deleteKeeps
<1>2. CASE /\ ph1' = [F EXCEPT ![p].status = PHASE1ST_EXPIRED, ![p].dpd = FALSE,
                               ![p].out = 0, ![p].fails = 0]
           /\ UNCHANGED ph2
  <2> DEFINE v == [w EXCEPT !.status = 11, !.dpd = FALSE, !.out = 0, !.fails = 0]
  <2>1. ph1 \in [Ph1 -> Ph1Handle] /\ Good1(ph1[p])
    BY DEF IInv, Well1
  <2>2. ph1' = [ph1 EXCEPT ![p] = v]
    BY <1>2, <2>1 DEF PHASE1ST_EXPIRED
  <2>3. /\ v \in Ph1Handle /\ v.status = 11 /\ v.older = ph1[p].older
        /\ v.scr = w.scr /\ v.fails = 0 /\ v.out = 0
    BY EndedTyped
  <2> HIDE DEF v
  <2>4. Good1(v)
    BY <2>1, <2>3 DEF Good1
  <2>5. p \in Sa(ph1) => v.status >= 9 /\ ~v.scr
    BY <2>3 DEF Sa
  <2> QED
    <3>1. v.status # 0 /\ (Well2(ph2, Sa(ph1')) => Well2(ph2', Sa(ph1')))
      BY <1>2, <2>3
    <3> QED
      BY <2>2, <2>3, <2>4, <2>5, <3>1, Ph1Step
<1> QED
  BY <1>1, <1>2 DEF PurgeRemote

-----------------------------------------------------------------------------
(* Dead-peer detection, and what the peer deletes *)

\* A change of what the invariant of a handler does not depend on, and of what
\* DPD counts.
LEMMA Ph1Counted ==
    ASSUME IInv, NEW p \in Ph1, ph1[p].status # 0,
           NEW v \in Ph1Handle, v.status = ph1[p].status, v.scr = ph1[p].scr,
           v.sce = ph1[p].sce, v.older = ph1[p].older, v.fails <= v.out,
           ph1' = [ph1 EXCEPT ![p] = v], UNCHANGED ph2
    PROVE  Keeps
<1>1. Good1(ph1[p])
  BY DEF IInv, Well1
<1>2. Good1(v)
  BY <1>1 DEF Good1
<1>3. /\ p \in Sa(ph1) => v.status >= 9 /\ ~v.scr
      /\ v.status # 0
      /\ Well2(ph2, Sa(ph1')) => Well2(ph2', Sa(ph1'))
  BY DEF Sa
<1> QED
  BY <1>2, <1>3, Ph1Step

\* A handler with a timer of DPD is not free memory.
LEMMA RuHeld ==
    ASSUME IInv, NEW p \in Ph1, ph1[p].ru
    PROVE  ph1[p].status # 0
BY BlankGood DEF IInv, Well1, Good1

\* DPD stops for a handler.
LEMMA RuStopped ==
    ASSUME IInv, NEW p \in Ph1, ph1[p].ru,
           ph1' = [ph1 EXCEPT ![p].ru = FALSE], UNCHANGED ph2
    PROVE  Keeps
<1> DEFINE v == [ph1[p] EXCEPT !.ru = FALSE]
<1>1. ph1[p] \in Ph1Handle /\ ph1[p].fails <= ph1[p].out /\ ph1[p].status # 0
  BY RuHeld DEF IInv, Well1, Good1
<1>2. /\ v \in Ph1Handle /\ v.status = ph1[p].status /\ v.scr = ph1[p].scr
      /\ v.sce = ph1[p].sce /\ v.older = ph1[p].older /\ v.fails <= v.out
  BY <1>1 DEF Ph1Handle
<1>3. ph1' = [ph1 EXCEPT ![p] = v]
  OBVIOUS
<1> HIDE DEF v
<1> QED
  BY <1>1, <1>2, <1>3, Ph1Counted

LEMMA SendRuKeeps ==
    ASSUME IInv, NEW p \in Ph1, SendRu(p)
    PROVE  Keeps
<1>1. CASE /\ \A q \in Ph1 : ph1[p].out + (IF q = p THEN 0 ELSE ph1[q].out) < MaxOut
           /\ ph1' = [ph1 EXCEPT ![p].out = @ + 1, ![p].fails = @ + 1]
  <2> DEFINE v == [ph1[p] EXCEPT !.out = @ + 1, !.fails = @ + 1]
  <2>1. ph1[p] \in Ph1Handle /\ ph1[p].fails <= ph1[p].out /\ ph1[p].status # 0
    BY RuHeld DEF IInv, Well1, Good1, SendRu
  <2>2. ph1[p].out + 0 < MaxOut /\ ph1[p].out \in Nat
    BY <1>1, <2>1 DEF Ph1Handle
  <2>3. ph1[p].out + 1 \in 0..MaxOut /\ ph1[p].fails + 1 \in 0..DpdMaxfails
        /\ ph1[p].fails + 1 <= ph1[p].out + 1
    BY <2>1, <2>2 DEF SendRu, Ph1Handle
  <2>4. /\ v \in Ph1Handle /\ v.status = ph1[p].status /\ v.scr = ph1[p].scr
        /\ v.sce = ph1[p].sce /\ v.older = ph1[p].older /\ v.fails <= v.out
    BY <2>1, <2>3 DEF Ph1Handle
  <2>5. ph1' = [ph1 EXCEPT ![p] = v] /\ UNCHANGED ph2
    BY <1>1 DEF SendRu
  <2> HIDE DEF v
  <2> QED
    BY <2>1, <2>4, <2>5, Ph1Counted
<1>2. CASE ph1' = [ph1 EXCEPT ![p].ru = FALSE]
  BY <1>2, RuStopped DEF SendRu
<1> QED
  BY <1>1, <1>2 DEF SendRu

LEMMA RuOfExpiredKeeps ==
    ASSUME IInv, NEW p \in Ph1, RuOfExpired(p)
    PROVE  Keeps
BY RuStopped DEF RuOfExpired

LEMMA RecvRuAckKeeps ==
    ASSUME IInv, NEW p \in Ph1, RecvRuAck(p)
    PROVE  Keeps
<1>1. ph1[p] \in Ph1Handle /\ ph1[p].status # 0
  BY DEF IInv, Well1, RecvRuAck, PHASE1ST_ESTABLISHED, PHASE1ST_DYING
<1>2. PICK k \in 0..ph1[p].out - 1 :
          ph1' = [ph1 EXCEPT ![p].out = k, ![p].fails = 0, ![p].ru = TRUE]
  BY DEF RecvRuAck
<1> DEFINE v == [ph1[p] EXCEPT !.out = k, !.fails = 0, !.ru = TRUE]
<1>3. k \in 0..MaxOut /\ 0 \in 0..DpdMaxfails /\ 0 <= k
  BY <1>1, <1>2 DEF Ph1Handle
<1>4. /\ v \in Ph1Handle /\ v.status = ph1[p].status /\ v.scr = ph1[p].scr
      /\ v.sce = ph1[p].sce /\ v.older = ph1[p].older /\ v.fails <= v.out
  BY <1>1, <1>3 DEF Ph1Handle
<1>5. ph1' = [ph1 EXCEPT ![p] = v] /\ UNCHANGED ph2
  BY <1>2 DEF RecvRuAck
<1> HIDE DEF v
<1> QED
  BY <1>1, <1>4, <1>5, Ph1Counted

LEMMA PeerDeadKeeps ==
    ASSUME IInv, NEW p \in Ph1, PeerDead(p)
    PROVE  Keeps
<1> DEFINE w == [ph1[p] EXCEPT !.ru = FALSE]
<1>1. ph1[p] \in Ph1Handle /\ ph1[p].status # 0 /\ ph1 \in [Ph1 -> Ph1Handle]
  BY RuHeld DEF IInv, Well1, PeerDead
<1>2. w \in Ph1Handle /\ w.scr = ph1[p].scr /\ w.older = ph1[p].older
  BY <1>1 DEF Ph1Handle
<1>3. PurgeRemote(p, [ph1 EXCEPT ![p].ru = FALSE])
      /\ [ph1 EXCEPT ![p].ru = FALSE] = [ph1 EXCEPT ![p] = w]
  BY DEF PeerDead
<1> HIDE DEF w
<1> QED
  BY <1>1, <1>2, <1>3, PurgeRemoteKeeps

LEMMA RecvDelete1Keeps ==
    ASSUME IInv, NEW p \in Ph1, RecvDelete1(p)
    PROVE  Keeps
<1> DEFINE w == [ph1[p] EXCEPT !.scr = FALSE]
<1>1. ph1[p] \in Ph1Handle /\ ph1[p].status # 0 /\ ph1 \in [Ph1 -> Ph1Handle]
  BY DEF IInv, Well1, RecvDelete1, PHASE1ST_START, PHASE1ST_DYING
<1>2. w \in Ph1Handle /\ ~w.scr /\ w.older = ph1[p].older
  BY <1>1 DEF Ph1Handle
<1>3. [ph1 EXCEPT ![p].scr = FALSE] = [ph1 EXCEPT ![p] = w]
  OBVIOUS
<1> HIDE DEF w
<1>4. CASE PurgeRemote(p, [ph1 EXCEPT ![p].scr = FALSE])
  BY <1>1, <1>2, <1>3, <1>4, PurgeRemoteKeeps
<1>5. CASE Ph1delete({p}, ph2)
  BY <1>5, Ph1deleteKeeps DEF IInv
<1> QED
  BY <1>4, <1>5 DEF RecvDelete1

LEMMA AdminDeleteKeeps ==
    ASSUME IInv, NEW p \in Ph1, AdminDelete(p)
    PROVE  Keeps
<1>1. ph1[p] \in Ph1Handle /\ ph1[p].status # 0 /\ ph1 = [ph1 EXCEPT ![p] = ph1[p]]
  BY DEF IInv, Well1, AdminDelete, Ph1tree, PHASE1ST_SPAWN
<1>2. PurgeRemote(p, ph1)
  BY DEF AdminDelete
<1> QED
  BY <1>1, <1>2, PurgeRemoteKeeps

\* Several phase 2 handlers are removed.
LEMMA SomeRemovedKeeps ==
    ASSUME IInv, NEW gone, ph2' = RemovePh2(ph2, gone), UNCHANGED ph1
    PROVE  Keeps
BY SomeRemoved, Ph2Step DEF IInv

\* reload_conf(): the invariant holds whichever handlers go and stay.
LEMMA ReloadHolds ==
    ASSUME IInv, Reload
    PROVE  Holds
<1>1. PICK gone, removed : Ph1delete(gone, RemovePh2(ph2, removed))
  BY DEF Reload
<1>2. Well2(RemovePh2(ph2, removed), Sa(ph1))
  BY SomeRemoved DEF IInv
<1> QED
  BY <1>1, <1>2, Ph1deleteHolds

-----------------------------------------------------------------------------
(* Phase 2: beginning *)

\* The one being made is released.
LEMMA Ph2Released ==
    ASSUME NEW H, NEW S, NEW h \in Ph2, Almost(H, h, S)
    PROVE  Well2(RemovePh2(H, {h}), S)
<1>1. /\ H \in [Ph2 -> Ph2Handle] /\ Linear(H, Tree(H, Ph2))
      /\ \A g \in Ph2 \ {h} : Good2(H[g], S) /\ (H[g].ph1 # NoPh1 => H[g].ph1 \in S)
  BY DEF Almost, Good2, Half2
<1> QED
  BY <1>1, Ph2Removed

\* A handler that is well is so when it is made anew.
LEMMA WellIsAlmost ==
    ASSUME NEW H, NEW S, Well2(H, S), NEW h \in Ph2, H[h].status # 0
    PROVE  Almost(H, h, S)
BY DEF Well2, Almost, Good2

\* One is changed, and is to be finished.
LEMMA AlmostChanged ==
    ASSUME NEW H, NEW S, Well2(H, S), NEW h \in Ph2, H[h].status # 0,
           NEW v, Half2(v, S), v.status # 0, v.older = H[h].older
    PROVE  Almost([H EXCEPT ![h] = v], h, S)
<1> DEFINE G == [H EXCEPT ![h] = v]
<1>1. /\ G \in [Ph2 -> Ph2Handle]
      /\ G[h] = v
      /\ \A g \in Ph2 \ {h} : G[g] = H[g]
  BY DEF Well2, Half2
<1> HIDE DEF G
<1>2. \A g \in Ph2 \ {h} : Good2(G[g], S)
  BY <1>1 DEF Well2
<1>3. \A g \in Ph2 : G[g].older = H[g].older /\ (G[g].status # 0 <=> H[g].status # 0)
  BY <1>1
<1>4. Linear(G, Tree(G, Ph2))
  BY <1>3, SameLinear DEF Well2
<1> QED
  BY <1>1, <1>2, <1>4 DEF Almost, G

LEMMA Ph2begin_iKeeps ==
    ASSUME IInv, NEW p \in Sa(ph1), NEW h \in Ph2, NEW H, Almost(H, h, Sa(ph1)),
           Ph2begin_i(p, h, H), UNCHANGED ph1
    PROVE  Keeps
<1> DEFINE v == [H[h] EXCEPT !.ph1 = p]
           u == [v EXCEPT !.status = PHASE2ST_GETSPISENT, !.sce = "timeover", !.pk = "getspi"]
<1>1. H[h] \in Ph2Handle /\ Half2(H[h], Sa(ph1)) /\ H[h].status # 0
      /\ p \in Ph1 /\ p # NoPh1
  BY DEF Almost, Half2, Sa
<1>2. /\ v \in Ph2Handle /\ v.status = H[h].status /\ v.ph1 = p /\ v.older = H[h].older
  BY <1>1 DEF Ph2Handle
<1>3. /\ \/ ph2' = [H EXCEPT ![h] = u]
         \/ ph2' = [H EXCEPT ![h] = v]
         \/ ph2' = RemovePh2(H, {h})
  BY DEF Ph2begin_i
<1> HIDE DEF v
<1>4. u \in Ph2Handle /\ u.status = 3 /\ u.ph1 = p /\ u.older = H[h].older
  BY <1>2 DEF Ph2Handle, PHASE2ST_GETSPISENT
<1> HIDE DEF u
<1>5. Good2(v, Sa(ph1)) /\ Good2(u, Sa(ph1)) /\ v.status # 0 /\ u.status # 0
  BY <1>1, <1>2, <1>4 DEF Good2, Half2
<1>6. Well2([H EXCEPT ![h] = u], Sa(ph1)) /\ Well2([H EXCEPT ![h] = v], Sa(ph1))
  BY <1>2, <1>4, <1>5, Ph2Finished
<1>7. Well2(RemovePh2(H, {h}), Sa(ph1))
  BY Ph2Released
<1> QED
  BY <1>3, <1>6, <1>7, Ph2Step

\* The newest phase 1 handler, when it is established, is that of an ISAKMP SA.
LEMMA EstablishedIsSa ==
    ASSUME IInv, NEW p \in Getph1
    PROVE  /\ p \in Ph1
           /\ ph1[p].status = PHASE1ST_ESTABLISHED => p \in Sa(ph1)
<1>1. p \in Ph1
  BY DEF Getph1, First, Ph1tree
<1>2. ASSUME ph1[p].status = PHASE1ST_ESTABLISHED
      PROVE  p \in Sa(ph1)
  BY <1>1, <1>2 DEF IInv, Well1, Good1, Sa, PHASE1ST_ESTABLISHED
<1> QED
  BY <1>1, <1>2

\* isakmp_post_acquire() for a handler that has just begun.
LEMMA PostAcquireKeeps ==
    ASSUME IInv, NEW h \in Ph2, NEW H, Almost(H, h, Sa(ph1)),
           H[h].status = 2, ~H[h].scr, H[h].pk = "none",
           NEW hint, PostAcquire(h, H, hint)
    PROVE  Keeps
<1> DEFINE v == [H[h] EXCEPT !.sce = "checkph1", !.checks = RetryCheckph1]
           waiting == [H EXCEPT ![h].sce = "checkph1", ![h].checks = RetryCheckph1]
<1>1. H[h] \in Ph2Handle /\ Half2(H[h], Sa(ph1)) /\ H \in [Ph2 -> Ph2Handle]
  BY DEF Almost, Half2
<1>2. /\ v \in Ph2Handle /\ v.status = 2 /\ v.sce = "checkph1" /\ ~v.scr /\ v.pk = "none"
      /\ v.ph1 = H[h].ph1 /\ v.older = H[h].older
  <2>1. RetryCheckph1 \in 0..RetryCheckph1
    OBVIOUS
  <2> QED
    BY <1>1, <2>1 DEF Ph2Handle
<1>3. waiting = [H EXCEPT ![h] = v]
  BY <1>1
<1> HIDE DEF v
<1>4. Good2(v, Sa(ph1)) /\ v.status # 0
  BY <1>1, <1>2 DEF Good2, Half2
<1>5. Well2(waiting, Sa(ph1))
  BY <1>2, <1>3, <1>4, Ph2Finished
<1> HIDE DEF waiting
<1>6. ASSUME ph2' = waiting, NEW p \in Ph1, Ph1begin_i(p)
      PROVE  Keeps
  <2>1. ph1[p].status = 0
    BY <1>6 DEF Ph1begin_i, PHASE1ST_SPAWN
  <2>2. ph1' = Insert(ph1, p, Ph1tree, Ph1Sent(Newph1, PHASE1ST_MSG1SENT))
    BY <1>6 DEF Ph1begin_i
  <2>3. Ph1Sent(Newph1, PHASE1ST_MSG1SENT).status # 0
    BY FirstMessage
  <2> QED
    BY <1>5, <1>6, <2>1, <2>2, <2>3, FirstMessage, Ph1Begins
<1>7. CASE ph2' = waiting /\ UNCHANGED ph1
  BY <1>5, <1>7, Ph2Step
<1>8. ASSUME NEW p \in Getph1, ph1[p].status = PHASE1ST_ESTABLISHED, Ph2begin_i(p, h, H),
             UNCHANGED ph1
      PROVE  Keeps
  BY <1>8, EstablishedIsSa, Ph2begin_iKeeps
<1>9. CASE ph2' = RemovePh2(H, {h}) /\ UNCHANGED ph1
  BY <1>9, Ph2Released, Ph2Step
<1> QED
  BY <1>6, <1>7, <1>8, <1>9 DEF PostAcquire, waiting

\* getph2byid() expires handlers that nothing times.
LEMMA SweptWell ==
    ASSUME IInv, NEW spid
    PROVE  /\ Well2(Swept(spid), Sa(ph1))
           /\ \A h \in Ph2 : Swept(spid)[h].status = 0 <=> ph2[h].status = 0
<1> DEFINE G == Swept(spid)
<1>1. G = [h \in Ph2 |-> G[h]]
  BY DEF Swept
<1>2. ASSUME NEW h \in Ph2
      PROVE  /\ Good2(G[h], Sa(ph1))
             /\ G[h].older = ph2[h].older
             /\ G[h].status # 0 <=> ph2[h].status # 0
  <2>1. ph2[h] \in Ph2Handle /\ Good2(ph2[h], Sa(ph1))
    BY DEF IInv, Well2
  <2> DEFINE v == [ph2[h] EXCEPT !.status = PHASE2ST_EXPIRED, !.sce = "delete"]
  <2>2. G[h] = ph2[h] \/ (ph2[h].status # 0 /\ G[h] = v)
    BY DEF Swept, Ph2tree, PHASE2ST_SPAWN
  <2> HIDE DEF G
  <2>3. CASE G[h] = ph2[h]
    BY <2>1, <2>3
  <2>4. CASE ph2[h].status # 0 /\ G[h] = v
    <3>1. /\ v \in Ph2Handle /\ v.status = 10 /\ v.sce = "delete" /\ v.older = ph2[h].older
          /\ v.ph1 = ph2[h].ph1 /\ v.scr = ph2[h].scr /\ v.pk = ph2[h].pk
      BY <2>1 DEF Ph2Handle, PHASE2ST_EXPIRED
    <3> HIDE DEF v
    <3> QED
      BY <2>1, <2>4, <3>1 DEF Good2, Half2
  <2> QED
    BY <2>2, <2>3, <2>4
<1> HIDE DEF G
<1>3. Well2(G, Sa(ph1))
  BY <1>1, <1>2, Ph2Changed DEF IInv
<1> QED
  BY <1>2, <1>3 DEF G

LEMMA AcquireKeeps ==
    ASSUME IInv, NEW spid \in Spid, NEW admin, Acquire(spid, admin)
    PROVE  Keeps
<1>1. CASE ph2' = Swept(spid) /\ UNCHANGED ph1
  BY <1>1, SweptWell, Ph2Step
<1>2. ASSUME NEW h \in Ph2, ph2[h].status = PHASE2ST_SPAWN,
             PostAcquire(h, Insert(Swept(spid), h, Ph2tree,
                 [Newph2 EXCEPT !.status = PHASE2ST_STATUS2, !.spid = spid]), NoPh1)
      PROVE  Keeps
  <2> DEFINE v == [Newph2 EXCEPT !.status = PHASE2ST_STATUS2, !.spid = spid]
             G == Swept(spid)
             H == Insert(G, h, Ph2tree, v)
  <2>1. /\ v \in Ph2Handle /\ v.status = 2 /\ ~v.scr /\ v.pk = "none" /\ v.ph1 = NoPh1
        /\ [v EXCEPT !.older = Ph2tree].status = 2
        /\ ~[v EXCEPT !.older = Ph2tree].scr
        /\ [v EXCEPT !.older = Ph2tree].pk = "none"
    BY BlankGood DEF Ph2Handle, PHASE2ST_STATUS2
  <2>2. Well2(G, Sa(ph1)) /\ G[h].status = 0 /\ Ph2tree = Tree(G, Ph2)
    BY <1>2, SweptWell DEF Tree, Ph2tree, PHASE2ST_SPAWN
  <2> HIDE DEF v, G
  <2>3. Half2(v, Sa(ph1)) /\ v.status # 0
    BY <2>1 DEF Half2
  <2>4. Almost(H, h, Sa(ph1))
    BY <2>1, <2>2, <2>3, Ph2Inserted
  <2>5. H[h] = [v EXCEPT !.older = Ph2tree]
    BY <2>2 DEF Insert, Well2
  <2> HIDE DEF H
  <2>6. H[h].status = 2 /\ ~H[h].scr /\ H[h].pk = "none"
    BY <2>1, <2>5
  <2>7. PostAcquire(h, H, NoPh1)
    BY <1>2 DEF H, G, v
  <2> QED
    BY <2>4, <2>6, <2>7, PostAcquireKeeps
<1> QED
  BY <1>1, <1>2 DEF Acquire

LEMMA EstablishIsakmpKeeps ==
    ASSUME IInv, EstablishIsakmp
    PROVE  Keeps
<1>1. PICK p \in Ph1 : Ph1begin_i(p)
  BY DEF EstablishIsakmp
<1>2. /\ ph1[p].status = 0
      /\ ph1' = Insert(ph1, p, Ph1tree, Ph1Sent(Newph1, PHASE1ST_MSG1SENT))
  BY <1>1 DEF Ph1begin_i, PHASE1ST_SPAWN
<1>3. Well2(ph2', Sa(ph1)) /\ Ph1Sent(Newph1, PHASE1ST_MSG1SENT).status # 0
  BY FirstMessage DEF EstablishIsakmp, IInv
<1> QED
  BY <1>2, <1>3, FirstMessage, Ph1Begins

LEMMA Ph2begin_rKeeps ==
    ASSUME IInv, NEW p \in Ph1, Ph2begin_r(p)
    PROVE  Keeps
<1> DEFINE w == [Newph2 EXCEPT !.status = 3, !.side = "RESPONDER", !.ph1 = p]
           u == [w EXCEPT !.sce = "timeover", !.pk = "getspi"]
<1>1. p \in Sa(ph1) /\ p # NoPh1
  BY DEF Ph2begin_r, IInv, Well1, Good1, Sa, PHASE1ST_ESTABLISHED, PHASE1ST_DYING
<1>2. w \in Ph2Handle /\ w.status = 3 /\ w.ph1 = p
  BY BlankGood DEF Ph2Handle, Side
<1>3. PICK h \in Ph2 : /\ ph2[h].status = 0
                       /\ \/ ph2' = Insert(ph2, h, Ph2tree, u)
                          \/ ph2' = Insert(ph2, h, Ph2tree, w)
  BY DEF Ph2begin_r, PHASE2ST_SPAWN, PHASE2ST_GETSPISENT
<1> HIDE DEF w
<1>4. u \in Ph2Handle /\ u.status = 3 /\ u.ph1 = p
  BY <1>2 DEF Ph2Handle
<1> HIDE DEF u
<1>5. ASSUME NEW v \in Ph2Handle, v.status = 3, v.ph1 = p,
             ph2' = Insert(ph2, h, Ph2tree, v)
      PROVE  Keeps
  <2> DEFINE G == Insert(ph2, h, Ph2tree, v)
             x == [v EXCEPT !.older = Ph2tree]
  <2>1. Half2(v, Sa(ph1)) /\ v.status # 0 /\ Ph2tree = Tree(ph2, Ph2)
    BY <1>1, <1>5 DEF Half2, Tree, Ph2tree, PHASE2ST_SPAWN
  <2>2. Almost(G, h, Sa(ph1))
    BY <1>3, <2>1, Ph2Inserted DEF IInv
  <2>3. G[h] = x /\ x.ph1 = p
    BY <1>5, <2>1 DEF Insert, IInv, Well2, Ph2Handle
  <2> HIDE DEF G
  <2>4. Well2(G, Sa(ph1))
    BY <1>1, <2>2, <2>3 DEF Almost, Well2, Good2
  <2> QED
    BY <1>5, <2>4, Ph2Step DEF G, Ph2begin_r
<1> QED
  BY <1>2, <1>3, <1>4, <1>5

-----------------------------------------------------------------------------
(* Phase 2: messages and timers *)

\* A handler is changed in its place.
LEMMA Ph2ChangedKeeps ==
    ASSUME IInv, NEW h \in Ph2, ph2[h].status # 0,
           NEW v \in Ph2Handle, Half2(v, Sa(ph1)), v.sce # "none" \/ v.ph1 # NoPh1,
           v.status # 0, v.older = ph2[h].older,
           ph2' = [ph2 EXCEPT ![h] = v], UNCHANGED ph1
    PROVE  Keeps
<1>1. Good2(v, Sa(ph1))
  BY DEF Good2
<1>2. Well2([ph2 EXCEPT ![h] = v], Sa(ph1))
  BY <1>1, Ph2OneChanged DEF IInv
<1> QED
  BY <1>2, Ph2Step

LEMMA RecvGetspiKeeps ==
    ASSUME IInv, NEW h \in Ph2, RecvGetspi(h)
    PROVE  Keeps
<1> DEFINE v == [ph2[h] EXCEPT !.status = 5, !.pk = "none",
                               !.retry = RetryCounter - 1, !.scr = TRUE]
<1>1. /\ ph2[h] \in Ph2Handle /\ Half2(ph2[h], Sa(ph1)) /\ ph2[h].pk # "none"
      /\ ph2[h].status = 3
  BY DEF IInv, Well2, Good2, RecvGetspi, PHASE2ST_GETSPISENT
<1>2. ph2[h].ph1 # NoPh1
  BY <1>1 DEF Half2
<1>3. /\ v \in Ph2Handle /\ v.status = 5 /\ v.older = ph2[h].older /\ v.ph1 = ph2[h].ph1
  <2>1. RetryCounter - 1 \in 0..RetryCounter
    OBVIOUS
  <2> QED
    BY <1>1, <2>1 DEF Ph2Handle
<1>4. CASE ph2' = [ph2 EXCEPT ![h].status = PHASE2ST_MSG1SENT, ![h].pk = "none",
                              ![h].retry = RetryCounter - 1, ![h].scr = TRUE]
           /\ UNCHANGED ph1
  <2>1. ph2' = [ph2 EXCEPT ![h] = v]
    BY <1>4 DEF PHASE2ST_MSG1SENT
  <2> HIDE DEF v
  <2>2. Half2(v, Sa(ph1)) /\ v.status # 0 /\ (v.sce # "none" \/ v.ph1 # NoPh1)
        /\ ph2[h].status # 0
    BY <1>1, <1>2, <1>3 DEF Half2
  <2> QED
    BY <1>3, <1>4, <2>1, <2>2, Ph2ChangedKeeps
<1> QED
  BY <1>4, Remove2Keeps DEF RecvGetspi

LEMMA Quick_mainKeeps ==
    ASSUME IInv, NEW h \in Ph2, Quick_main(h)
    PROVE  Keeps
<1> DEFINE v == [ph2[h] EXCEPT !.status = 8, !.scr = FALSE, !.pk = "update"]
<1>1. CASE ph2[h].status = 5 /\ UNCHANGED ph1
           /\ ph2' = [ph2 EXCEPT ![h].status = PHASE2ST_ADDSA, ![h].scr = FALSE,
                                 ![h].pk = "update"]
  <2>1. /\ ph2[h] \in Ph2Handle /\ Half2(ph2[h], Sa(ph1)) /\ ph2[h].ph1 # NoPh1
    BY DEF IInv, Well2, Good2, Quick_main
  <2>2. v \in Ph2Handle /\ v.status = 8 /\ v.older = ph2[h].older /\ v.ph1 = ph2[h].ph1
    BY <2>1 DEF Ph2Handle
  <2>3. ph2' = [ph2 EXCEPT ![h] = v]
    BY <1>1 DEF PHASE2ST_ADDSA
  <2> HIDE DEF v
  <2>4. Half2(v, Sa(ph1)) /\ v.status # 0 /\ (v.sce # "none" \/ v.ph1 # NoPh1)
        /\ ph2[h].status # 0
    BY <1>1, <2>1, <2>2 DEF Half2
  <2> QED
    BY <1>1, <2>2, <2>3, <2>4, Ph2ChangedKeeps
<1> QED
  BY <1>1, Remove2Keeps DEF Quick_main, PHASE2ST_MSG1SENT

LEMMA RecvUpdateKeeps ==
    ASSUME IInv, NEW h \in Ph2, RecvUpdate(h)
    PROVE  Keeps
<1> DEFINE v == [ph2[h] EXCEPT !.status = 9, !.pk = "none", !.sce = "expire", !.scr = FALSE]
<1>1. /\ ph2[h] \in Ph2Handle /\ Half2(ph2[h], Sa(ph1)) /\ ph2[h].pk # "none"
      /\ ph2[h].status = 8
  BY DEF IInv, Well2, Good2, RecvUpdate, PHASE2ST_ADDSA
<1>2. /\ v \in Ph2Handle /\ v.status = 9 /\ v.older = ph2[h].older /\ v.ph1 = ph2[h].ph1
      /\ v.sce # "none"
  BY <1>1 DEF Ph2Handle
<1>3. ph2' = [ph2 EXCEPT ![h] = v] /\ UNCHANGED ph1
  BY DEF RecvUpdate, PHASE2ST_ESTABLISHED
<1> HIDE DEF v
<1>4. Half2(v, Sa(ph1)) /\ v.status # 0 /\ ph2[h].status # 0
  BY <1>1, <1>2 DEF Half2
<1> QED
  BY <1>2, <1>3, <1>4, Ph2ChangedKeeps

\* The initiator begins again with the same handler.
LEMMA RecvExpireKeeps ==
    ASSUME IInv, NEW h \in Ph2, RecvExpire(h)
    PROVE  Keeps
<1>1. CASE /\ ph2[h].status = PHASE2ST_ESTABLISHED
           /\ PostAcquire(h, [ph2 EXCEPT ![h] = [InitPh2(h) EXCEPT !.status = PHASE2ST_STATUS2]],
                          ph2[h].ph1)
  <2> DEFINE w == InitPh2(h)
             v == [w EXCEPT !.status = PHASE2ST_STATUS2]
             H == [ph2 EXCEPT ![h] = v]
  <2>1. ph2[h] \in Ph2Handle /\ ph2[h].status # 0 /\ ph2 \in [Ph2 -> Ph2Handle]
    BY <1>1 DEF IInv, Well2, PHASE2ST_ESTABLISHED
  <2>2. /\ w \in Ph2Handle /\ w.ph1 = NoPh1 /\ ~w.scr /\ w.pk = "none"
        /\ w.older = ph2[h].older
    BY <2>1 DEF InitPh2, Ph2Handle
  <2> HIDE DEF w
  <2>3. /\ v \in Ph2Handle /\ v.status = 2 /\ v.ph1 = NoPh1 /\ ~v.scr /\ v.pk = "none"
        /\ v.older = ph2[h].older
    BY <2>2 DEF Ph2Handle, PHASE2ST_STATUS2
  <2> HIDE DEF v
  <2>4. Half2(v, Sa(ph1)) /\ v.status # 0
    BY <2>3 DEF Half2
  <2>5. Almost(H, h, Sa(ph1)) /\ H[h] = v
    BY <2>1, <2>3, <2>4, AlmostChanged DEF IInv
  <2>6. PostAcquire(h, H, ph2[h].ph1)
    BY <1>1 DEF v, w
  <2> HIDE DEF H
  <2> QED
    BY <2>3, <2>5, <2>6, PostAcquireKeeps
<1> QED
  BY <1>1, Remove2Keeps DEF RecvExpire

LEMMA Ph2resendKeeps ==
    ASSUME IInv, NEW h \in Ph2, Ph2resend(h)
    PROVE  Keeps
<1> DEFINE v == [ph2[h] EXCEPT !.retry = @ - 1]
<1>1. /\ ph2[h] \in Ph2Handle /\ Half2(ph2[h], Sa(ph1)) /\ ph2[h].scr
  BY DEF IInv, Well2, Good2, Ph2resend
<1>2. ph2[h].ph1 # NoPh1 /\ ph2[h].status # 0
  BY <1>1, BlankGood DEF Half2
<1>3. CASE ph2[h].retry > 0 /\ ph2' = [ph2 EXCEPT ![h].retry = @ - 1] /\ UNCHANGED ph1
  <2>1. /\ v \in Ph2Handle /\ v.status = ph2[h].status /\ v.older = ph2[h].older
        /\ v.ph1 = ph2[h].ph1
    BY <1>1, <1>3 DEF Ph2Handle
  <2>2. ph2' = [ph2 EXCEPT ![h] = v]
    BY <1>3
  <2> HIDE DEF v
  <2>3. Half2(v, Sa(ph1)) /\ (v.sce # "none" \/ v.ph1 # NoPh1) /\ v.status # 0
    BY <1>1, <1>2, <2>1 DEF Half2
  <2> QED
    BY <1>2, <1>3, <2>1, <2>2, <2>3, Ph2ChangedKeeps
<1> QED
  BY <1>3, Remove2Keeps DEF Ph2resend

\* A search finds one handler.
LEMMA OneNewest ==
    ASSUME IInv, NEW p \in Getph1, NEW q \in Getph1
    PROVE  p = q
<1>1. p \in Ph1tree /\ q \in Ph1tree /\ Ph1tree = Tree(ph1, Ph1)
  BY DEF Getph1, First, Ph1tree, Tree, PHASE1ST_SPAWN
<1>2. p # q => p \in ph1[q].older /\ q \in ph1[p].older
  BY DEF Getph1, First
<1> QED
  BY <1>1, <1>2 DEF IInv, Well1, Linear

LEMMA Chkph1thereKeeps ==
    ASSUME IInv, NEW h \in Ph2, Chkph1there(h)
    PROVE  Keeps
<1>1. /\ ph2[h] \in Ph2Handle /\ Half2(ph2[h], Sa(ph1)) /\ ph2[h].sce = "checkph1"
      /\ ph2 \in [Ph2 -> Ph2Handle]
  BY DEF IInv, Well2, Good2, Chkph1there
<1>2. ph2[h].status # 0
  BY <1>1 DEF Half2, Newph2
<1> DEFINE v == [ph2[h] EXCEPT !.checks = 0, !.sce = "none"]
           u == [ph2[h] EXCEPT !.checks = @ - 1]
           H == [ph2 EXCEPT ![h].checks = 0, ![h].sce = "none"]
<1>3. ASSUME NEW p \in Getph1, \E q \in Getph1 : ph1[q].status = PHASE1ST_ESTABLISHED,
             Ph2begin_i(p, h, H), UNCHANGED ph1
      PROVE  Keeps
  <2>1. p \in Sa(ph1)
    <3>1. PICK q \in Getph1 : ph1[q].status = PHASE1ST_ESTABLISHED
      BY <1>3
    <3>2. p = q
      BY <3>1, OneNewest
    <3> QED
      BY <3>1, <3>2, EstablishedIsSa
  <2>2. /\ v \in Ph2Handle /\ v.status = ph2[h].status /\ v.older = ph2[h].older
        /\ v.ph1 = ph2[h].ph1 /\ v.scr = ph2[h].scr /\ v.pk = ph2[h].pk
    <3>1. 0 \in 0..RetryCheckph1
      OBVIOUS
    <3> QED
      BY <1>1, <3>1 DEF Ph2Handle
  <2>3. H = [ph2 EXCEPT ![h] = v]
    BY <1>1
  <2> HIDE DEF v
  <2>4. Half2(v, Sa(ph1)) /\ v.status # 0
    BY <1>1, <1>2, <2>2 DEF Half2
  <2>5. Almost(H, h, Sa(ph1))
    BY <1>2, <2>2, <2>3, <2>4, AlmostChanged DEF IInv
  <2> HIDE DEF H
  <2> QED
    BY <1>3, <2>1, <2>5, Ph2begin_iKeeps
<1>4. CASE ph2[h].checks > 0 /\ ph2' = [ph2 EXCEPT ![h].checks = @ - 1] /\ UNCHANGED ph1
  <2>1. /\ u \in Ph2Handle /\ u.status = ph2[h].status /\ u.older = ph2[h].older
        /\ u.ph1 = ph2[h].ph1 /\ u.scr = ph2[h].scr /\ u.pk = ph2[h].pk
        /\ u.sce = "checkph1"
    BY <1>1, <1>4 DEF Ph2Handle
  <2>2. ph2' = [ph2 EXCEPT ![h] = u]
    BY <1>4
  <2> HIDE DEF u
  <2>3. Half2(u, Sa(ph1)) /\ u.status # 0
    BY <1>1, <1>2, <2>1 DEF Half2
  <2> QED
    BY <1>2, <1>4, <2>1, <2>2, <2>3, Ph2ChangedKeeps
<1>5. CASE Remove2(h)
  BY <1>5, Remove2Keeps
<1> QED
  BY <1>3, <1>4, <1>5 DEF Chkph1there

LEMMA Ph2expireKeeps ==
    ASSUME IInv, NEW h \in Ph2, Ph2expire(h)
    PROVE  Keeps
<1> DEFINE v == [ph2[h] EXCEPT !.status = 10, !.sce = "delete"]
<1>1. /\ ph2[h] \in Ph2Handle /\ Half2(ph2[h], Sa(ph1)) /\ ph2[h].sce = "expire"
  BY DEF IInv, Well2, Good2, Ph2expire
<1>2. ph2[h].status # 0
  BY <1>1 DEF Half2, Newph2
<1>3. /\ v \in Ph2Handle /\ v.status = 10 /\ v.older = ph2[h].older
      /\ v.ph1 = ph2[h].ph1 /\ v.scr = ph2[h].scr /\ v.pk = ph2[h].pk /\ v.sce # "none"
  BY <1>1 DEF Ph2Handle
<1>4. ph2' = [ph2 EXCEPT ![h] = v] /\ UNCHANGED ph1
  BY DEF Ph2expire, PHASE2ST_EXPIRED
<1> HIDE DEF v
<1>5. Half2(v, Sa(ph1)) /\ v.status # 0
  BY <1>1, <1>2, <1>3 DEF Half2
<1> QED
  BY <1>2, <1>3, <1>4, <1>5, Ph2ChangedKeeps

-----------------------------------------------------------------------------
(* The theorems *)

LEMMA InitWell == Init => IInv
<1> SUFFICES ASSUME Init PROVE IInv
  OBVIOUS
<1>1. Well1(ph1)
  BY BlankGood DEF Init, Well1, Tree, Linear, Newph1, PHASE1ST_SPAWN
<1>2. Well2(ph2, Sa(ph1))
  BY BlankGood DEF Init, Well2, Tree, Linear, Newph2, PHASE2ST_SPAWN
<1> QED
  BY <1>1, <1>2 DEF IInv

\* A step that is not a reload keeps the invariant and the IPsec SAs.
LEMMA EventKeeps ==
    ASSUME IInv, Event
    PROVE  Keeps
<1>1. ASSUME NEW p \in Ph1, Ph1Timer(p)
      PROVE  Keeps
  BY <1>1, Ph1resendKeeps, Ph1dyingKeeps, Ph1expireKeeps DEF Ph1Timer
<1>2. ASSUME NEW p \in Ph1, DpdTimer(p)
      PROVE  Keeps
  BY <1>2, SendRuKeeps, PeerDeadKeeps, RuOfExpiredKeeps DEF DpdTimer
<1>3. ASSUME NEW p \in Ph1, Ph1Packet(p)
      PROVE  Keeps
  <2>1. CASE Ident_i2(p) \/ Ident_i3(p) \/ Ident_r1(p) \/ Ident_r2(p)
    <3>1. PHASE1ST_MSG1SENT = 3 /\ PHASE1ST_MSG2SENT = 5 /\ PHASE1ST_MSG3SENT = 7
          /\ PHASE1ST_START = 1
      BY DEF PHASE1ST_MSG1SENT, PHASE1ST_MSG2SENT, PHASE1ST_MSG3SENT, PHASE1ST_START
    <3>2. \/ Ph1Message(p, "INITIATOR", 3, 5)
          \/ Ph1Message(p, "INITIATOR", 5, 7)
          \/ Ph1Message(p, "RESPONDER", 1, 3)
          \/ Ph1Message(p, "RESPONDER", 3, 5)
      BY <2>1, <3>1 DEF Ident_i2, Ident_i3, Ident_r1, Ident_r2
    <3> QED
      BY <3>2, Ph1MessageKeeps
  <2> QED
    BY <1>3, <2>1, Ph1begin_rKeeps, Ident_lastKeeps, RecvRuAckKeeps, RecvDelete1Keeps,
       Ph2begin_rKeeps DEF Ph1Packet
<1>4. ASSUME NEW h \in Ph2, Ph2Timer(h)
      PROVE  Keeps
  BY <1>4, Ph2resendKeeps, Chkph1thereKeeps, Ph2expireKeeps, Remove2Keeps
     DEF Ph2Timer, Quick_timeover, Ph2delete
<1>5. ASSUME NEW h \in Ph2, Kernel(h)
      PROVE  Keeps
  BY <1>5, RecvGetspiKeeps, RecvUpdateKeeps, RecvExpireKeeps, Remove2Keeps
     DEF Kernel, RecvDelete
<1>6. ASSUME NEW h \in Ph2, Quick_main(h)
      PROVE  Keeps
  BY <1>6, Quick_mainKeeps
<1>7. ASSUME NEW spid \in Spid, NEW admin \in BOOLEAN, Acquire(spid, admin)
      PROVE  Keeps
  BY <1>7, AcquireKeeps
<1>8. CASE RecvFlush
  BY <1>8, SomeRemovedKeeps DEF RecvFlush
<1>9. CASE RecvDelete2
  BY <1>9, SomeRemovedKeeps DEF RecvDelete2
<1>10. CASE Admin
  BY <1>10, EstablishIsakmpKeeps, AdminDeleteKeeps DEF Admin
<1> QED
  BY <1>1, <1>2, <1>3, <1>4, <1>5, <1>6, <1>7, <1>8, <1>9, <1>10 DEF Event

LEMMA StepKeeps ==
    ASSUME IInv, [Next]_vars
    PROVE  IInv' /\ [IPsecSasKept \/ ~Event]_vars
<1>1. CASE Event
  BY <1>1, EventKeeps DEF Keeps, Holds, IInv
<1>2. CASE Reload /\ ~Event
  BY <1>2, ReloadHolds DEF Holds, IInv
<1>3. CASE UNCHANGED vars
  BY <1>3 DEF IInv, vars
<1> QED
  BY <1>1, <1>2, <1>3 DEF Next

THEOREM InvHolds == Spec => []IInv
BY InitWell, StepKeeps, PTL DEF Spec

\* Handlers keep their types, a free one is blank, and the lists are linear orders,
\* whatever insph1(), remph1(), insph2() and remph2() do to them.
THEOREM HandlersTyped == Spec => []TypeOK
<1>1. IInv => TypeOK
  BY DEF IInv, TypeOK, Well1, Well2, Good1, Good2, Half2, Tree, Ph1tree, Ph2tree,
         PHASE1ST_SPAWN, PHASE2ST_SPAWN
<1> QED
  BY <1>1, InvHolds, PTL

\* No back pointer of a phase 2 handler leads to a phase 1 handler that is gone, and
\* none that a callback follows is null, for any number of handlers.
THEOREM BackPointersLive == Spec => []BackPointers
<1>1. IInv => BackPointers
  BY DEF IInv, BackPointers, Well2, Good2, Half2, Sa, Ph2tree, PHASE1ST_ESTABLISHED,
         PHASE2ST_ESTABLISHED
<1> QED
  BY <1>1, InvHolds, PTL

\* Every handler has a timer or shares that of its ISAKMP SA, whatever messages are
\* lost, but for the exceptions that EveryHandleTimed names.
THEOREM HandlesTimed == Spec => []EveryHandleTimed
<1>1. ASSUME IInv
      PROVE  EveryHandleTimed
  <2> DEFINE ends(p) == ph1[p].scr \/ ph1[p].sce # "none"
  <2>1. ASSUME NEW p \in Ph1tree
        PROVE  ends(p) \/ ph1[p].status \in {1, 11}
    <3>1. ph1[p].status \in {1, 3, 5, 7, 9, 10, 11} /\ Good1(ph1[p])
      BY <1>1, <2>1 DEF IInv, Well1, Ph1tree, Ph1Handle, PHASE1ST_SPAWN
    <3> QED
      BY <3>1 DEF Good1
  <2>2. ASSUME NEW h \in Ph2tree
        PROVE  \/ ph2[h].sce # "none"
               \/ ph2[h].ph1 # NoPh1 /\ (ends(ph2[h].ph1) \/ ph1[ph2[h].ph1].status = 11)
    <3>1. ph2[h].sce # "none" \/ (ph2[h].ph1 # NoPh1 /\ ph2[h].ph1 \in Sa(ph1))
      BY <1>1, <2>2 DEF IInv, Well2, Good2, Half2, Ph2tree, PHASE2ST_SPAWN
    <3>2. \A p \in Sa(ph1) : p \in Ph1tree /\ ph1[p].status # 1
      BY DEF Sa, Ph1tree, PHASE1ST_SPAWN
    <3> QED
      BY <2>1, <3>1, <3>2
  <2> QED
    BY <2>1, <2>2 DEF EveryHandleTimed, PHASE1ST_START, PHASE1ST_EXPIRED
<1> QED
  BY <1>1, InvHolds, PTL

\* DPD counts no failure that an acknowledgement has answered.
THEOREM DpdIsHonest == Spec => []DpdHonest
<1>1. IInv => DpdHonest
  BY DEF IInv, DpdHonest, Well1, Good1
<1> QED
  BY <1>1, InvHolds, PTL

\* The IPsec SAs of an ISAKMP SA that ends by its timer, its peer, DPD or delete-sa
\* go to an established one if there is one, for any number of ISAKMP SAs that are
\* negotiated, established or going; only a reload may take them along.
THEOREM RekeySurvived == Spec => SurvivesRekey
BY InvHolds, StepKeeps, PTL DEF Spec, SurvivesRekey
=============================================================================
