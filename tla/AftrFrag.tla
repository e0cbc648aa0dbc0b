------------------------------- MODULE AftrFrag -------------------------------
(***************************************************************************)
(* Reassembly in the AFTR (defrag() and defrag6() of aftr.c): the entries  *)
(* of the packets under way, in three queues with a lifetime and limits,   *)
(* the hash cache that points into two of them, and the tunnels they refer *)
(* to, which may be deleted and whose memory may be used again.            *)
(*                                                                         *)
(* The three queues are frags6, of IPv6 fragments from the tunnels, fragsin*)
(* and fragsout, of IPv4 fragments from the tunnels and from the Internet. *)
(* A packet is what the code compares: its queue, its tunnel and its       *)
(* identification with the addresses and the protocol, taken together as   *)
(* an id.  A tunnel is its memory, as f->tunnel is an address.  Lengths    *)
(* are in units, times in seconds; an entry has the time it has left, which*)
(* is expire - seconds.                                                    *)
(*                                                                         *)
(* A fragment that is refused, malformed, or for which no entry can be     *)
(* allocated, changes nothing here.                                        *)
(*                                                                         *)
(* A definition named ...Bug is a faulty variant of the one that follows   *)
(* it, and is used only to see a property fail.                            *)
(***************************************************************************)
EXTENDS Integers, Sequences, SequencesExt, FiniteSetsExt

CONSTANTS
    Tunnel,       \* the memory of tunnels
    NoTunnel,     \* f->tunnel of an entry of fragsout
    Packet,       \* the packets that may come: [queue, tunnel, id]
    NoPacket,     \* an empty slot of fraghash[]
    FragMax,      \* frag_maxcnt[], by queue
    FragTnMax,    \* fragtn_maxcnt[], by queue
    Lifetime,     \* frag_lifetime
    MaxLen,       \* IPMAXLEN
    Fragment,     \* bound of the model: the fragments that may come of a packet
    HashSize,     \* the sizes that fraghash[] takes
    MaxSkip       \* bound of the model: seconds between two iterations

Queue == {"frags6", "fragsin", "fragsout"}

\* what jhash_frag() is of
Id == {k.id : k \in {j \in Packet : j.queue # "frags6"}}

\* struct frag, of the fragments in an entry
Part == [off : Nat, len : Nat \ {0}, more : BOOLEAN]

End(p) == p.off + p.len

AftrFragAssumption ==
    /\ NoTunnel \notin Tunnel
    /\ NoPacket \notin Packet
    /\ \A k \in Packet : k.queue \in Queue
                         /\ IF k.queue = "fragsout" THEN k.tunnel = NoTunnel
                                                    ELSE k.tunnel \in Tunnel
    \* of IPv4, what the callers take for a fragment; decap() passes any IPv6 packet
    \* with a fragment header, also when it is all of its packet
    /\ Fragment \in [Packet -> SUBSET Part]
    /\ \A k \in Packet : k.queue # "frags6" => \A p \in Fragment[k] : p.off # 0 \/ p.more
    /\ FragMax \in [Queue -> Nat] /\ FragTnMax \in [Queue -> Nat]
    /\ Lifetime \in Nat \ {0} /\ MaxSkip \in Nat \ {0}
    /\ MaxLen \in Nat
    /\ HashSize \subseteq Nat \ {0} /\ HashSize # {} /\ IsFiniteSet(HashSize)

ASSUME AftrFragAssumption

VARIABLES
    live,         \* the tunnels there are
    frags,        \* the queues of entries, by queue, head first
    fragscnt,     \* frags6cnt, fragsincnt and fragsoutcnt
    frgcnt,       \* frg6cnt and frg4cnt of the tunnels
    fraghash,     \* the hash cache
    jhash,        \* jhash_frag() & (fraghashsz - 1) with the present fraghashrnd
    late,         \* seconds # lastsecs: the clock was read, entries not yet expired
    rebuilt,      \* the parts of the packet put together in this step
    heirs         \* history: the tunnels whose memory an entry referred to
                  \* when they were made

vars == <<live, frags, fragscnt, frgcnt, fraghash, jhash, late, rebuilt, heirs>>

\* struct frag, of an entry: `first' for off = 0, when buf has the header of the
\* first fragment

Entry(k, p) ==
    [packet |-> k, first |-> p.off = 0, parts |-> {}, left |-> Lifetime, hash |-> 0]

Init ==
    /\ live = Tunnel
    /\ frags = [q \in Queue |-> << >>]
    /\ fragscnt = [q \in Queue |-> 0]
    /\ frgcnt = [t \in Tunnel |-> [q \in Queue |-> 0]]
    /\ \E size \in HashSize :
          /\ fraghash = [h \in 0..size - 1 |-> NoPacket]
          /\ jhash \in [Id -> 0..size - 1]
    /\ late = FALSE
    /\ rebuilt = {}
    /\ heirs = {}

-----------------------------------------------------------------------------
(* Entries *)

\* the entries that refer to tunnel t, which check_frags6() and check_frags4() count
Referring(t, q) == {i \in 1..Len(frags[q]) : frags[q][i].packet.tunnel = t}

\* ISC_DECR(), n times
Less(cnt, n) == IF cnt > n THEN cnt - n ELSE 0

CountIn(es, q, ts) ==
    Cardinality({f \in es : f.packet.queue = q /\ f.packet.tunnel \in ts})

DelFragLeaveBug(es, hash) ==
    /\ fragscnt' = [q \in Queue |->
                       Less(fragscnt[q], CountIn(es, q, Tunnel \cup {NoTunnel}))]
    /\ frgcnt' = [t \in Tunnel |-> [q \in Queue |->
                     Less(frgcnt[t][q], CountIn(es, q, {t}))]]
    /\ fraghash' = hash

DelFragTunnelBug(es, hash) ==
    /\ fragscnt' = [q \in Queue |->
                       Less(fragscnt[q], CountIn(es, q, Tunnel \cup {NoTunnel}))]
    /\ frgcnt' = [t \in Tunnel |-> [q \in Queue |->
                     IF q = "frags6" THEN Less(frgcnt[t][q], CountIn(es, q, {t}))
                                     ELSE frgcnt[t][q]]]
    /\ fraghash' = [h \in DOMAIN hash |->
          IF \E f \in es : f.packet = hash[h] /\ f.hash = h THEN NoPacket ELSE hash[h]]

\* del_frag6(), del_frag4() of the entries es
DelFrag(es, hash) ==
    /\ fragscnt' = [q \in Queue |->
                       Less(fragscnt[q], CountIn(es, q, Tunnel \cup {NoTunnel}))]
    /\ frgcnt' = [t \in Tunnel |-> [q \in Queue |->
                     Less(frgcnt[t][q], CountIn(es, q, {t}))]]
    /\ fraghash' = [h \in DOMAIN hash |->
          IF \E f \in es : f.packet = hash[h] /\ f.hash = h THEN NoPacket ELSE hash[h]]

\* where the scan of f->fraglist, which is in the order of the offsets, inserts p
Fits(parts, p) ==
    \A r \in parts :
        /\ r.off # p.off
        /\ r.off < p.off => r.more /\ End(r) <= p.off
        /\ r.off > p.off => p.more /\ End(p) <= r.off

InsertHeaderBug(f, p) == [f EXCEPT !.parts = @ \cup {p}]

\* the first fragment of the packet brings its header
Insert(f, p) ==
    [f EXCEPT !.parts = @ \cup {p}, !.first = @ \/ p.off = 0]

WholeLastBug(f) ==
    /\ f.first /\ f.parts # {}
    /\ \A r \in f.parts : r.off = 0 \/ \E s \in f.parts : End(s) = r.off

\* the second scan, once the entry has its header
Whole(f) ==
    /\ f.first /\ f.parts # {}
    /\ \A r \in f.parts : r.off = 0 \/ \E s \in f.parts : End(s) = r.off
    /\ \A r \in f.parts : r.more => \E s \in f.parts : s.off > r.off

-----------------------------------------------------------------------------
(* defrag(), defrag6() *)

PositionCacheBug(k) ==
    {i \in 1..Len(frags[k.queue]) :
        /\ frags[k.queue][i].packet = k
        /\ k.queue = "frags6" \/ fraghash[jhash[k.id]] = k}

\* the entry of packet k, if there is one
Position(k) == {i \in 1..Len(frags[k.queue]) : frags[k.queue][i].packet = k}

\* below the limits, which refuse any fragment, also one that would complete a
\* packet
Admitted(k) ==
    /\ fragscnt[k.queue] < FragMax[k.queue]
    /\ k.tunnel # NoTunnel => /\ k.tunnel \in live
                              /\ frgcnt[k.tunnel][k.queue] < FragTnMax[k.queue]

\* IPv4 entries are found through fraghash[], or put there
Hashed(f) ==
    IF f.packet.queue = "frags6" \/ fraghash[jhash[f.packet.id]] = f.packet
    THEN f ELSE [f EXCEPT !.hash = jhash[f.packet.id]]

Cache(k) ==
    IF k.queue = "frags6" THEN fraghash ELSE [fraghash EXCEPT ![jhash[k.id]] = k]

\* a fragment of a packet without entry: its entry is made, and takes it as far as
\* there is memory for it
NewEntryTailBug(k, p, room) ==
    LET f == Hashed(Entry(k, p))
        g == IF room THEN Insert(f, p) ELSE f
    IN  /\ Admitted(k) /\ Position(k) = {} /\ ~Whole(g)
        /\ frags' = [frags EXCEPT ![k.queue] = Append(@, g)]
        /\ fragscnt' = [fragscnt EXCEPT ![k.queue] = @ + 1]
        /\ frgcnt' = IF k.tunnel = NoTunnel THEN frgcnt
                     ELSE [frgcnt EXCEPT ![k.tunnel][k.queue] = @ + 1]
        /\ fraghash' = Cache(k)
        /\ rebuilt' = {}
        /\ UNCHANGED <<live, jhash, late, heirs>>

NewEntry(k, p, room) ==
    LET f == Hashed(Entry(k, p))
        g == IF room THEN Insert(f, p) ELSE f
    IN  /\ Admitted(k) /\ Position(k) = {} /\ ~Whole(g)
        /\ frags' = [frags EXCEPT ![k.queue] = <<g>> \o @]
        /\ fragscnt' = [fragscnt EXCEPT ![k.queue] = @ + 1]
        /\ frgcnt' = IF k.tunnel = NoTunnel THEN frgcnt
                     ELSE [frgcnt EXCEPT ![k.tunnel][k.queue] = @ + 1]
        /\ fraghash' = Cache(k)
        /\ rebuilt' = {}
        /\ UNCHANGED <<live, jhash, late, heirs>>

\* a fragment that is all of its packet, which only IPv6 has: its entry is made,
\* complete and deleted again, and its counters are as they were
Alone(k, p) ==
    /\ Admitted(k) /\ Position(k) = {} /\ Whole(Insert(Entry(k, p), p))
    /\ rebuilt' = IF End(p) <= MaxLen THEN {p} ELSE {}
    /\ UNCHANGED <<live, frags, fragscnt, frgcnt, fraghash, jhash, late, heirs>>

\* a fragment that has no room between its neighbours, or for which there is no
\* memory: it is looked for all the same
Drop(k, i) ==
    /\ Admitted(k)
    /\ frags' = [frags EXCEPT ![k.queue][i] = Hashed(@)]
    /\ fraghash' = Cache(k)
    /\ rebuilt' = {}
    /\ UNCHANGED <<live, fragscnt, frgcnt, jhash, late, heirs>>

\* a fragment that the entry at i keeps, still waiting for others
Keep(k, i, p) ==
    LET f == Hashed(frags[k.queue][i])
    IN  /\ Admitted(k)
        /\ Fits(f.parts, p) /\ ~Whole(Insert(f, p))
        /\ frags' = [frags EXCEPT ![k.queue][i] = Insert(f, p)]
        /\ fraghash' = Cache(k)
        /\ rebuilt' = {}
        /\ UNCHANGED <<live, fragscnt, frgcnt, jhash, late, heirs>>

\* the fragment that completes the packet, which is put together unless it is too
\* long; the entry goes in both cases
Rebuild(k, i, p) ==
    LET f == Hashed(frags[k.queue][i])
        g == Insert(f, p)
    IN  /\ Admitted(k)
        /\ Fits(f.parts, p) /\ Whole(g)
        /\ rebuilt' = IF \A r \in g.parts : End(r) <= MaxLen THEN g.parts ELSE {}
        /\ frags' = [frags EXCEPT ![k.queue] = RemoveAt(@, i)]
        /\ DelFrag({f}, Cache(k))
        /\ UNCHANGED <<live, jhash, late, heirs>>

Defrag ==
    \E k \in Packet :
        \/ \E i \in Position(k) : Drop(k, i)
        \/ \E p \in Fragment[k] :
              \/ \E room \in BOOLEAN : NewEntry(k, p, room)
              \/ Alone(k, p)
              \/ \E i \in Position(k) : Keep(k, i, p) \/ Rebuild(k, i, p)

-----------------------------------------------------------------------------
(* The loop, and the tunnels *)

Older(s, d) == [i \in 1..Len(s) |-> [s[i] EXCEPT !.left = @ - d]]

\* the entries of s that the deletion from its end meets before one that still has
\* time
Overdue(s) == {i \in 1..Len(s) : \A j \in i..Len(s) : s[j].left < 0}

\* the clock is read, and says a new second, or more than one; commands and packets
\* are served with it before the entries it makes overdue are deleted
Tick(d) ==
    /\ ~late /\ late' = TRUE
    /\ frags' = [q \in Queue |-> Older(frags[q], d)]
    /\ rebuilt' = {}
    /\ UNCHANGED <<live, fragscnt, frgcnt, fraghash, jhash, heirs>>

\* the deletion of the entries that are overdue, at the end of the iteration
Expire ==
    /\ late /\ late' = FALSE
    /\ frags' = [q \in Queue |->
                    SubSeq(frags[q], 1, Len(frags[q]) - Cardinality(Overdue(frags[q])))]
    /\ DelFrag(UNION {{frags[q][i] : i \in Overdue(frags[q])} : q \in Queue}, fraghash)
    /\ rebuilt' = {}
    /\ UNCHANGED <<live, jhash, heirs>>

\* the hash table is made twice as large, or half, and empty, with a new fraghashrnd
Resize ==
    \E size \in HashSize :
        /\ ~late
        /\ size # Cardinality(DOMAIN fraghash)
        /\ fraghash' = [h \in 0..size - 1 |-> NoPacket]
        /\ jhash' \in [Id -> 0..size - 1]
        /\ rebuilt' = {}
        /\ UNCHANGED <<live, frags, fragscnt, frgcnt, late, heirs>>

\* del_tunnel(), delete_nonat(): the entries that refer to the tunnel stay; what the
\* memory holds, and is written to it, is seen by nobody until it is used again
DelTunnel(t) ==
    /\ t \in live
    /\ live' = live \ {t}
    /\ frgcnt' = [frgcnt EXCEPT ![t] = [q \in Queue |-> 0]]
    /\ heirs' = heirs \ {t}
    /\ rebuilt' = {}
    /\ UNCHANGED <<frags, fragscnt, fraghash, jhash, late>>

\* add_tunnel() gets the memory of a tunnel that was deleted
AddTunnel(t) ==
    /\ t \notin live
    /\ live' = live \cup {t}
    /\ heirs' = IF \E q \in Queue : Referring(t, q) # {} THEN heirs \cup {t} ELSE heirs
    /\ rebuilt' = {}
    /\ UNCHANGED <<frags, fragscnt, frgcnt, fraghash, jhash, late>>

Next ==
    \/ Defrag
    \/ \E d \in 1..MaxSkip : Tick(d)
    \/ Expire
    \/ Resize
    \/ \E t \in Tunnel : DelTunnel(t) \/ AddTunnel(t)

Spec == Init /\ [][Next]_vars

-----------------------------------------------------------------------------
(* Properties *)

Hash == 0..Cardinality(DOMAIN fraghash) - 1

Entries ==
    [packet : Packet, first : BOOLEAN, parts : SUBSET Part, left : Int,
     hash : 0..Max(HashSize) - 1]

\* The entries of a queue are of different packets of that queue, and the limits of
\* frag_maxcnt[] and fragtn_maxcnt[] hold.
TypeOK ==
    /\ live \subseteq Tunnel /\ heirs \subseteq live
    /\ DOMAIN frags = Queue
    /\ \A q \in Queue :
          /\ \A i \in 1..Len(frags[q]) :
                /\ frags[q][i] \in Entries
                /\ frags[q][i].packet.queue = q
                /\ \A j \in 1..i - 1 : frags[q][j].packet # frags[q][i].packet
          /\ fragscnt[q] \in 0..FragMax[q]
          /\ \A t \in Tunnel : frgcnt[t][q] \in 0..FragTnMax[q]
    /\ DOMAIN fraghash = Hash /\ \A h \in Hash : fraghash[h] \in Packet \cup {NoPacket}
    /\ jhash \in [Id -> Hash]
    /\ late \in BOOLEAN
    /\ rebuilt \subseteq Part

\* A slot of fraghash[] points to an entry that is queued and that knows the slot,
\* so that del_frag4() empties it: defrag() never follows it into freed memory.
CacheIsLive ==
    \A h \in DOMAIN fraghash :
        fraghash[h] # NoPacket =>
            \E q \in {"fragsin", "fragsout"} : \E i \in 1..Len(frags[q]) :
                frags[q][i].packet = fraghash[h] /\ frags[q][i].hash = h

\* The counters, which refuse fragments when they reach their limits, count: those
\* of the queues always, those of a tunnel unless its memory was that of a tunnel
\* deleted with entries under way.
CountsHold ==
    \A q \in Queue :
        /\ fragscnt[q] = Len(frags[q])
        /\ \A t \in live \ heirs : frgcnt[t][q] = Cardinality(Referring(t, q))

\* parts make a packet: each unit up to its end comes from one of them, and only the
\* last one of them says that no more follows
Tile(parts) ==
    LET end == Max({End(r) : r \in parts})
    IN  /\ \A x \in 0..end - 1 :
              Cardinality({r \in parts : r.off <= x /\ x < End(r)}) = 1
        /\ \A r \in parts : r.more <=> End(r) < end

\* What defrag() and defrag6() put together is a packet, and one that fits buf4 or
\* buf6, whatever fragments overlap, come twice or in disorder, or wanted memory.
RebuiltIsPacket ==
    rebuilt # {} => Tile(rebuilt) /\ \A r \in rebuilt : End(r) <= MaxLen

\* No entry waits with all of its packet, to be thrown away when its time is over:
\* the header of the first fragment was seen, before or after the others.
NoneLeftWhole ==
    \A q \in Queue : \A i \in 1..Len(frags[q]) :
        frags[q][i].parts # {} => ~Tile(frags[q][i].parts)

\* No entry stays over its time, but for the iteration that finds it so, and so a
\* queue that refuses fragments at its limit takes some again, though the deletion
\* looks at the end of the queue only.
OnTime ==
    \A q \in Queue : \A i \in 1..Len(frags[q]) :
        frags[q][i].left \in (IF late THEN -MaxSkip ELSE 0)..Lifetime

\* check_tunnels() (aftr.c:5781) reports an error when fragsincnt is not the number of
\* entries of fragsin that the tunnels there are have, or frags6cnt that of frags6.
TunnelsAccountForFrags ==
    \A q \in {"frags6", "fragsin"} :
        fragscnt[q] = Cardinality(UNION {Referring(t, q) : t \in live})
=============================================================================
