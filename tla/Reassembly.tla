------------------------------ MODULE Reassembly ------------------------------
(***************************************************************************)
(* What the reassembly of the AFTR daemon promises for each packet,        *)
(* whatever queues, cache, counters and tunnels it keeps it with.  A       *)
(* packet waits from its first fragment on, with the parts of it that were *)
(* kept, and ends with its last one, or once Lifetime is over: a packet    *)
(* over its time may still be completed, but no more time passes before it *)
(* has ended.                                                              *)
(*                                                                         *)
(* That a fragment is refused, for want of memory, of room between others  *)
(* or below a limit, is not an event: any of them may be.                  *)
(***************************************************************************)
EXTENDS Integers, FiniteSets

CONSTANTS
    Packet,       \* with the queue of each
    Fragment,     \* the fragments that may come of a packet
    Room,         \* how many packets of a queue may wait
    Lifetime,
    MaxLen,       \* of a packet that is put together
    MaxSkip

VARIABLES
    waiting,      \* what is kept of each packet that waits
    whole         \* the parts of the packet put together in this step

wvars == <<waiting, whole>>

Kept(k, parts, left) == [packet |-> k, parts |-> parts, left |-> left]

Last(r) == r.off + r.len - 1
Has(r, x) == r.off <= x /\ x <= Last(r)

\* nothing is missing, nothing comes twice, and nothing comes after the last
Makes(parts) ==
    \E last \in parts :
        /\ \A r \in parts : (r.more <=> r # last) /\ Last(r) <= Last(last)
        /\ \A x \in 0..Last(last) :
              \E r \in parts : \A s \in parts : Has(s, x) <=> s = r

RInit == waiting = {} /\ whole = {}

New(k) ==
    /\ \A w \in waiting : w.packet # k
    /\ Cardinality({w \in waiting : w.packet.queue = k.queue}) < Room[k.queue]

\* the first fragment of k, for which there may be no more memory
Open(k) ==
    /\ New(k)
    /\ whole' = {}
    /\ \E parts \in {{}} \cup {{p} : p \in Fragment[k]} :
          ~Makes(parts) /\ waiting' = waiting \cup {Kept(k, parts, Lifetime)}

\* a fragment of k that is all of it
Single(k, p) ==
    /\ New(k) /\ Makes({p})
    /\ whole' = IF Last(p) < MaxLen THEN {p} ELSE {}
    /\ UNCHANGED waiting

\* p shares no unit with what is kept
Apart(w, p) == \A r \in w.parts : Last(r) < p.off \/ Last(p) < r.off

Keep(w, p) ==
    LET parts == w.parts \cup {p}
    IN  /\ Apart(w, p) /\ ~Makes(parts)
        /\ whole' = {}
        /\ waiting' = (waiting \ {w}) \cup {Kept(w.packet, parts, w.left)}

\* its last fragment: it is put together unless it is too long
Finish(w, p) ==
    LET parts == w.parts \cup {p}
    IN  /\ Apart(w, p) /\ Makes(parts)
        /\ waiting' = waiting \ {w}
        /\ whole' = IF \A r \in parts : Last(r) < MaxLen THEN parts ELSE {}

\* time passes for all that waits, unless something is over its time already
Pass(d) ==
    /\ \A w \in waiting : w.left >= 0
    /\ waiting' = {Kept(w.packet, w.parts, w.left - d) : w \in waiting}
    /\ whole' = {}

\* what is over its time goes, and nothing else does
Expire ==
    /\ waiting' = {w \in waiting : w.left >= 0}
    /\ whole' = {}

\* the packet put together is on its way
Send == whole' = {} /\ UNCHANGED waiting

RNext ==
    \/ Send
    \/ \E d \in 1..MaxSkip : Pass(d)
    \/ Expire
    \/ \E k \in Packet : Open(k) \/ \E p \in Fragment[k] : Single(k, p)
    \/ \E w \in waiting : \E p \in Fragment[w.packet] : Keep(w, p) \/ Finish(w, p)

RSpec == RInit /\ [][RNext]_wvars
=============================================================================
