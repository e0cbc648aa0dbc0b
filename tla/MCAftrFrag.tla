------------------------------ MODULE MCAftrFrag -----------------------------
(* Small instances of AftrFrag for TLC: the packets, the limits and the sizes *)
(* of the hash table.                                                         *)
EXTENDS AftrFragReassembly

CONSTANT t1

Of(queue, id) ==
    [queue |-> queue, tunnel |-> IF queue = "fragsout" THEN NoTunnel ELSE t1, id |-> id]

MCPacket ==
    {Of("fragsin", 1), Of("fragsout", 1), Of("frags6", 1), Of("frags6", 2)}

Frag(off, len, more) == [off |-> off, len |-> len, more |-> more]

\* of one packet: fragments that overlap; of two: fragments that are all of it, one
\* of them too long
MCFragment ==
    [k \in MCPacket |->
        CASE k = Of("fragsin", 1) ->
                {Frag(0, 1, TRUE), Frag(0, 2, TRUE), Frag(1, 1, FALSE)}
          [] k = Of("fragsout", 1) -> {Frag(0, 1, TRUE)}
          [] k = Of("frags6", 1) -> {Frag(0, 1, FALSE), Frag(0, 1, TRUE)}
          [] k = Of("frags6", 2) -> {Frag(0, 3, FALSE)}]

MCFragMax == [q \in Queue |-> 2]
MCFragTnMax == [q \in Queue |-> 2]

MCHashSize == {1, 2}
=============================================================================
