-------------------------- MODULE AftrFragReassembly --------------------------
(***************************************************************************)
(* The three queues implement Reassembly: what is kept of a packet is what *)
(* its entry has, and a packet waits when it has one.                      *)
(***************************************************************************)
EXTENDS AftrFrag

\* what Reassembly sees of an entry
Content(f) == [packet |-> f.packet, parts |-> f.parts, left |-> f.left]

Contents == {Content(f) : f \in UNION {Range(frags[q]) : q \in Queue}}

Host ==
    INSTANCE Reassembly WITH
        Room <- FragMax, waiting <- Contents, whole <- rebuilt

\* defrag(), defrag6() and the expiry in loop() do to each packet what Reassembly
\* allows: its entry is made below the limit of its queue and never renewed, no
\* other packet, new hash table or tunnel takes anything of it, it ends when all of
\* it has come, at the latest in the iteration that finds it over its time, and
\* unless all of it has come not before.
ImplementsReassembly == Host!RSpec
=============================================================================
