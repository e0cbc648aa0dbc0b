------------------------------- MODULE IkeFrag -------------------------------
(***************************************************************************)
(* The fragments of IKE messages in racoon (isakmp_frag.c, frag_handler()  *)
(* of isakmp.c): a message that is longer than a datagram is sent as       *)
(* fragments numbered from 1, the last one marked, and the receiver keeps  *)
(* what arrives in the chain of the phase 1 handler until it takes it for  *)
(* complete.                                                               *)
(*                                                                         *)
(* A fragment is its message and its number.  The datagrams are UDP: any   *)
(* fragment of a message already sent may arrive at any time, again and    *)
(* again as the peer resends the message, or never; every fragment says    *)
(* the same identifier, 1, so that the receiver cannot tell two messages   *)
(* apart.                                                                  *)
(*                                                                         *)
(* A definition named ...Bug is a faulty variant of the one that follows   *)
(* it, and is used only to see a property fail.                            *)
(***************************************************************************)
EXTENDS Integers, Sequences, FiniteSets

CONSTANTS
    NumMsg,      \* the peer sends messages 1..NumMsg on one phase 1 handler
    Size,        \* their numbers of fragments
    MaxChain     \* bound of the model: fragments in the chain

IkeFragAssumption ==
    /\ NumMsg \in Nat \ {0}
    /\ Size \in [1..NumMsg -> Nat \ {0}]
    /\ MaxChain \in Nat

ASSUME IkeFragAssumption

VARIABLES
    msg,      \* the peer has sent messages 1..msg, and may resend each
    chain,    \* iph1->frag_chain, by time of arrival
    result    \* what isakmp_frag_reassembly() returned last, << >> for NULL

vars == <<msg, chain, result>>

Frag == UNION {{[msg |-> m, num |-> n] : n \in 1..Size[m]} : m \in 1..NumMsg}

IsLast(f) == f.num = Size[f.msg]

\* isakmp_sendfrags()
Message(m) == [i \in 1..Size[m] |-> [msg |-> m, num |-> i]]

Init == msg = 1 /\ chain = << >> /\ result = << >>

-----------------------------------------------------------------------------

Nums(c) == {c[i].num : i \in 1..Len(c)}

\* isakmp_frag_extract() returns 1, f being the fragment that it appends to c:
\* the number of the last fragment is taken from f whenever f, or one that the
\* walk to the end of the chain leaves behind it, is marked as the last
Complete(c, f) ==
    /\ IsLast(f) \/ \E i \in 1..Len(c) - 1 : IsLast(c[i])
    /\ 1..f.num \subseteq Nums(Append(c, f))

First(c, n) ==
    CHOOSE i \in 1..Len(c) : c[i].num = n /\ \A j \in 1..i - 1 : c[j].num # n

ReassemblyOrderBug(c) == IF 1..Len(c) \subseteq Nums(c) THEN c ELSE << >>

ReassemblyShortBug(c) ==
    IF 1..c[Len(c)].num \subseteq Nums(c)
    THEN [n \in 1..c[Len(c)].num |-> c[First(c, n)]]
    ELSE << >>

\* isakmp_frag_reassembly() returns as many fragments as there are in the chain,
\* or fails
Reassembly(c) ==
    IF 1..Len(c) \subseteq Nums(c)
    THEN [n \in 1..Len(c) |-> c[First(c, n)]]
    ELSE << >>

AfterBug(c, f) ==
    IF Complete(c, f) /\ Reassembly(Append(c, f)) # << >> THEN << >> ELSE Append(c, f)

\* the chain when f has been received: reassembly frees it, also when it fails
After(c, f) == IF Complete(c, f) THEN << >> ELSE Append(c, f)

\* frag_handler(), which gives a message it reassembles to isakmp_main()
Receive(f) ==
    /\ f.msg <= msg
    /\ Len(chain) < MaxChain \/ Complete(chain, f)
    /\ chain' = After(chain, f)
    /\ result' = IF Complete(chain, f) THEN Reassembly(Append(chain, f)) ELSE result
    /\ UNCHANGED msg

\* memory is wanting in isakmp_frag_reassembly(), which loses the chain
NoMemory(f) ==
    /\ f.msg <= msg
    /\ Complete(chain, f)
    /\ chain' = << >>
    /\ result' = << >>
    /\ UNCHANGED msg

\* the peer sends a further message, of the same exchange or of another one
NextMessage ==
    /\ msg < NumMsg
    /\ msg' = msg + 1
    /\ UNCHANGED <<chain, result>>

Next ==
    \/ \E f \in Frag : Receive(f) \/ NoMemory(f)
    \/ NextMessage

Spec == Init /\ [][Next]_vars

-----------------------------------------------------------------------------
(* Properties *)

\* The chain holds fragments of messages that were sent, and what
\* isakmp_frag_reassembly() returns is in the order of the numbers.
TypeOK ==
    /\ msg \in 1..NumMsg
    /\ chain \in Seq({f \in Frag : f.msg <= msg})
    /\ result \in Seq({f \in Frag : f.msg <= msg})
    /\ \A i \in 1..Len(result) : result[i].num = i

\* A message put together from fragments of one message is that message, whole,
\* in whatever order they came and however often, though isakmp_frag_extract()
\* may take an incomplete chain for complete.
Faithful ==
    \A m \in 1..NumMsg :
        (result # << >> /\ \A i \in 1..Len(result) : result[i].msg = m)
            => result = Message(m)

\* one more fragment f: the chain, and whether message f.msg has been delivered
Feed(state, f) ==
    LET c == state.chain
    IN  [chain |-> After(c, f),
         got |-> \/ state.got
                 \/ Complete(c, f) /\ Reassembly(Append(c, f)) = Message(f.msg)]

\* the fragments of message m, in order
Round(state, m) ==
    LET fed[n \in 0..Size[m]] ==
            IF n = 0 THEN state ELSE Feed(fed[n - 1], Message(m)[n])
    IN  fed[Size[m]]

\* Whatever loss, duplication and reordering have left in the chain, a message
\* gets through once the network is quiet: sending it three times more
\* (ph1resend(), ph2resend()), its fragments in order, is enough.
Recovers ==
    \A m \in 1..msg :
        Round(Round(Round([chain |-> chain, got |-> FALSE], m), m), m).got
=============================================================================
