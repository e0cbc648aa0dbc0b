-------------------------------- MODULE Racoon --------------------------------
(***************************************************************************)
(* The phase 1 and phase 2 handlers of racoon, the IKE daemon              *)
(* (src/ipsec/racoon/src/ipsec-tools-0.8.2/src/racoon): how they are made, *)
(* bound to each other, timed, moved and removed by the messages of a      *)
(* peer, the messages of the kernel on the PF_KEY socket, racoonctl and    *)
(* the scheduler.                                                          *)
(*                                                                         *)
(* One local and one remote address, main mode and quick mode without the  *)
(* commit bit.  racoon is one thread: an action is one callback of         *)
(* session() or schedular(), with every call it makes.  The peer and the   *)
(* network may send any message at any time, again, late or never; the     *)
(* kernel may answer late or never; a timer that is set may go off at any  *)
(* time.  Cryptography and payloads are the choice between a message that  *)
(* is accepted, one that is ignored and one that ends the negotiation.     *)
(*                                                                         *)
(* A slot whose status is PHASE1ST_SPAWN is free memory; the others are on *)
(* ph1tree or ph2tree.  New handlers go to the head of these lists: `older`*)
(* is what comes after a handler, and a search returns the newest match.   *)
(*                                                                         *)
(* A definition named ...Bug is a faulty variant of the one that follows   *)
(* it, and is used only to see a property fail.                            *)
(***************************************************************************)
EXTENDS Integers, FiniteSets

CONSTANTS
    Ph1, Ph2,        \* bounds of the model: the slots for handlers
    NoPh1,           \* a null pointer to a phase 1 handler
    Spid,            \* identifiers of the outbound policies
    InSpid,          \* that of inbound policies, given to responders
    RetryCounter,    \* lcconf->retry_counter, 5 by default
    RetryCheckph1,   \* lcconf->retry_checkph1, 30 by default
    DpdMaxfails,     \* rmconf->dpd_maxfails, 5 by default
    Rekey,           \* rmconf->rekey: "off", "on" or "force"
    MaxOut,          \* bound of the model: R-U-THERE messages unanswered, of any
                     \* two handlers together
    DumpFails,       \* the kernel may fail to dump its SAs
    Fragments,       \* the peer may fragment its messages
    WeakPhase1Check  \* rmconf->weak_phase1_check, off by default

RacoonAssumption ==
    /\ NoPh1 \notin Ph1
    /\ InSpid \notin Spid
    /\ RetryCounter \in Nat \ {0}
    /\ RetryCheckph1 \in Nat
    /\ DpdMaxfails \in Nat \ {0}
    /\ MaxOut \in Nat
    /\ Rekey \in {"off", "on", "force"}
    /\ {DumpFails, Fragments, WeakPhase1Check} \subseteq BOOLEAN
    /\ IsFiniteSet(Ph1)

ASSUME RacoonAssumption

VARIABLES
    ph1,    \* phase 1 handlers
    ph2     \* phase 2 handlers

vars == <<ph1, ph2>>

PHASE1ST_SPAWN == 0
PHASE1ST_START == 1
PHASE1ST_MSG1SENT == 3
PHASE1ST_MSG2SENT == 5
PHASE1ST_MSG3SENT == 7
PHASE1ST_ESTABLISHED == 9
PHASE1ST_DYING == 10
PHASE1ST_EXPIRED == 11

PHASE2ST_SPAWN == 0
PHASE2ST_STATUS2 == 2
PHASE2ST_GETSPISENT == 3
PHASE2ST_MSG1SENT == 5
PHASE2ST_ADDSA == 8
PHASE2ST_ESTABLISHED == 9
PHASE2ST_EXPIRED == 10

Side == {"INITIATOR", "RESPONDER"}

\* struct ph1handle: scr and sce are the timers for resending and for the end,
\* ru that of DPD, out = dpd_seq - dpd_last_ack
Ph1Handle == [status : {0, 1, 3, 5, 7, 9, 10, 11}, side : Side, retry : 0..RetryCounter,
              scr : BOOLEAN, sce : {"none", "dying", "expire"}, dpd : BOOLEAN,
              ru : BOOLEAN, fails : 0..DpdMaxfails, out : 0..MaxOut, older : SUBSET Ph1]

\* struct ph2handle: pk is the request to the kernel whose answer is awaited
Ph2Handle == [status : {0, 2, 3, 5, 8, 9, 10}, side : Side, spid : Spid \cup {InSpid},
              ph1 : Ph1 \cup {NoPh1}, retry : 0..RetryCounter, scr : BOOLEAN,
              sce : {"none", "checkph1", "timeover", "expire", "delete"},
              checks : 0..RetryCheckph1, pk : {"none", "getspi", "update"}, older : SUBSET Ph2]

Newph1 == [status |-> PHASE1ST_SPAWN, side |-> "INITIATOR", retry |-> 0, scr |-> FALSE,
           sce |-> "none", dpd |-> FALSE, ru |-> FALSE, fails |-> 0, out |-> 0, older |-> {}]

Newph2 == [status |-> PHASE2ST_SPAWN, side |-> "INITIATOR", spid |-> InSpid, ph1 |-> NoPh1,
           retry |-> 0, scr |-> FALSE, sce |-> "none", checks |-> 0, pk |-> "none", older |-> {}]

Ph1tree == {p \in Ph1 : ph1[p].status # PHASE1ST_SPAWN}
Ph2tree == {h \in Ph2 : ph2[h].status # PHASE2ST_SPAWN}

-----------------------------------------------------------------------------
(* The lists *)

\* insph1(), insph2(): at the head of a list, whose members are `tree`
Insert(F, x, tree, handle) == [F EXCEPT ![x] = [handle EXCEPT !.older = tree]]

RemoveBug(F, gone, free) == [x \in DOMAIN F |-> IF x \in gone THEN free ELSE F[x]]

\* remph1() and delph1(), remph2() and delph2()
Remove(F, gone, free) ==
    [x \in DOMAIN F |-> IF x \in gone THEN free ELSE [F[x] EXCEPT !.older = @ \ gone]]

RemovePh1(gone) == Remove(ph1, gone, Newph1)
RemovePh2(H, gone) == Remove(H, gone, Newph2)

\* the first of S on its list, if S is not empty
First(F, S) == {x \in S : S \ {x} \subseteq F[x].older}

\* getph1() without and with GETPH1_F_ESTABLISHED, some handlers passed over
Getph1 == First(ph1, {p \in Ph1tree : ph1[p].status < PHASE1ST_DYING})
EstablishedPh1(but) ==
    First(ph1, {p \in Ph1tree \ but : ph1[p].status = PHASE1ST_ESTABLISHED})

\* migrate_ph12()
MigratePh12(H, from, to) ==
    [h \in Ph2 |-> IF H[h].ph1 \in from /\ H[h].status = PHASE2ST_ESTABLISHED
                   THEN [H[h] EXCEPT !.ph1 = to] ELSE H[h]]

Negotiating1(p) == ph1[p].status \in PHASE1ST_START..PHASE1ST_MSG3SENT
Negotiating2(h) == ph2[h].status \in PHASE2ST_STATUS2..PHASE2ST_ADDSA

Ph1RekeyEnabled(handle) == Rekey = "force" \/ (Rekey = "on" /\ handle.dpd)

\* what the kernel may list as mature, if its dump succeeds: an SA of ours may
\* have ended there before its expiry has been read
Mature == {h \in Ph2 : ph2[h].status \in {PHASE2ST_ADDSA, PHASE2ST_ESTABLISHED, PHASE2ST_EXPIRED}}
Listed == Mature \cup {h \in Ph2 : ph2[h].status = PHASE2ST_MSG1SENT}

\* a message protected by an ISAKMP SA can be received
Protected == \E p \in Ph1 : ph1[p].status \in {PHASE1ST_ESTABLISHED, PHASE1ST_DYING}

\* a delete payload is taken: from such a message or, under weak_phase1_check,
\* in the clear while a negotiation is not encrypted yet
DeleteTaken ==
    \/ Protected
    \/ /\ WeakPhase1Check
       /\ \E p \in Ph1tree : ph1[p].status < IF ph1[p].side = "INITIATOR"
                                            THEN PHASE1ST_MSG3SENT ELSE PHASE1ST_MSG2SENT

Init ==
    /\ ph1 = [p \in Ph1 |-> Newph1]
    /\ ph2 = [h \in Ph2 |-> Newph2]

-----------------------------------------------------------------------------
(* Phase 1: beginning and messages *)

\* isakmp_ph1send(): the message is sent and its retransmission scheduled
Ph1Sent(handle, status) ==
    [handle EXCEPT !.status = status, !.retry = RetryCounter - 1, !.scr = TRUE]

\* isakmp_ph1begin_i(), when its first message is sent
Ph1begin_i(p) ==
    /\ ph1[p].status = PHASE1ST_SPAWN
    /\ ph1' = Insert(ph1, p, Ph1tree, Ph1Sent(Newph1, PHASE1ST_MSG1SENT))

\* isakmp_ph1begin_r(): the first message may be the fragment of one, and the
\* handler then waits for the others without any timer
Ph1begin_r(p) ==
    /\ ph1[p].status = PHASE1ST_SPAWN
    /\ LET handle == [Newph1 EXCEPT !.side = "RESPONDER"]
       IN  \/ ph1' = Insert(ph1, p, Ph1tree, Ph1Sent(handle, PHASE1ST_MSG1SENT))
           \/ /\ Fragments
              /\ ph1' = Insert(ph1, p, Ph1tree, [handle EXCEPT !.status = PHASE1ST_START])
    /\ UNCHANGED ph2

\* ph1_main() for a message that is accepted and the next one to send; one that
\* is not accepted is ignored, and a failure to answer ends the negotiation
Ph1Message(p, side, from, to) ==
    /\ ph1[p].side = side
    /\ ph1[p].status = from
    /\ \/ ph1' = [ph1 EXCEPT ![p] = Ph1Sent(@, to)]
       \/ ph1' = RemovePh1({p})
    /\ UNCHANGED ph2

Ident_i2(p) == Ph1Message(p, "INITIATOR", PHASE1ST_MSG1SENT, PHASE1ST_MSG2SENT)
Ident_i3(p) == Ph1Message(p, "INITIATOR", PHASE1ST_MSG2SENT, PHASE1ST_MSG3SENT)
Ident_r1(p) == Ph1Message(p, "RESPONDER", PHASE1ST_START, PHASE1ST_MSG1SENT)
Ident_r2(p) == Ph1Message(p, "RESPONDER", PHASE1ST_MSG1SENT, PHASE1ST_MSG2SENT)

EstablishedBug(p, dpd, contact) ==
    LET handle == [ph1[p] EXCEPT !.status = PHASE1ST_ESTABLISHED, !.scr = FALSE,
                                 !.retry = 0, !.dpd = dpd, !.ru = dpd]
    IN  /\ ph1' = [ph1 EXCEPT ![p] =
               [handle EXCEPT !.sce = IF Ph1RekeyEnabled(handle) THEN "dying" ELSE "none"]]
        /\ ph2' = RemovePh2(ph2, contact)

\* the end of ph1_main() when the ISAKMP SA is established: the phase 2 handlers
\* of those that go come to it, it is given its end, its count of retries is not
\* read any more, and an INITIAL-CONTACT of the peer deletes what the kernel lists
Established(p, dpd, contact) ==
    LET going == {q \in Ph1tree \ {p} : ph1[q].status >= PHASE1ST_DYING}
        handle == [ph1[p] EXCEPT !.status = PHASE1ST_ESTABLISHED, !.scr = FALSE,
                                 !.retry = 0, !.dpd = dpd, !.ru = dpd]
    IN  /\ ph1' = [ph1 EXCEPT ![p] =
               [handle EXCEPT !.sce = IF Ph1RekeyEnabled(handle) THEN "dying" ELSE "expire"]]
        /\ ph2' = RemovePh2(MigratePh12(ph2, going, p), contact)

\* ident_i4recv() and ident_i4send(), ident_r3recv() and ident_r3send()
Ident_last(p) ==
    /\ \/ ph1[p].side = "INITIATOR" /\ ph1[p].status = PHASE1ST_MSG3SENT
       \/ ph1[p].side = "RESPONDER" /\ ph1[p].status = PHASE1ST_MSG2SENT
    /\ \/ \E dpd \in BOOLEAN, contact \in SUBSET Mature : Established(p, dpd, contact)
       \/ ph1' = RemovePh1({p}) /\ UNCHANGED ph2

Ph1resendBug(p) ==
    /\ ph1[p].scr
    /\ \/ ph1' = [ph1 EXCEPT ![p].retry = IF @ > 0 THEN @ - 1 ELSE RetryCounter - 1]
       \/ ph1' = RemovePh1({p})
    /\ UNCHANGED ph2

\* isakmp_ph1resend_stub()
Ph1resend(p) ==
    /\ ph1[p].scr
    /\ \/ ph1[p].retry > 0 /\ ph1' = [ph1 EXCEPT ![p].retry = @ - 1]
       \/ ph1' = RemovePh1({p})
    /\ UNCHANGED ph2

-----------------------------------------------------------------------------
(* Phase 1: the end *)

Ph1deleteBug(gone, H) ==
    /\ ph1' = RemovePh1(gone)
    /\ ph2' = RemovePh2(H, {h \in Ph2 : H[h].ph1 \in gone})

Ph1deleteLeaveBug(gone, H) ==
    /\ ph1' = RemovePh1(gone)
    /\ \/ EstablishedPh1(gone) = {} /\ ph2' = H
       \/ \E new \in EstablishedPh1(gone) : ph2' = MigratePh12(H, gone, new)

\* isakmp_ph1delete() of a handler, or of several one after the other, the phase 2
\* handlers being H: the established ones go to a fresh ISAKMP SA, in the end to
\* one that stays if there is any, and all that are still bound are removed
Ph1delete(gone, H) ==
    /\ ph1' = RemovePh1(gone)
    /\ \/ /\ EstablishedPh1(gone) = {}
          /\ ph2' = RemovePh2(H, {h \in Ph2 : H[h].ph1 \in gone})
       \/ \E new \in EstablishedPh1(gone) :
             LET moved == MigratePh12(H, gone, new)
             IN  ph2' = RemovePh2(moved, {h \in Ph2 : moved[h].ph1 \in gone})

\* isakmp_ph1dying(), called by its timer
Ph1dying(p) ==
    /\ ph1[p].sce = "dying"
    /\ IF ph1[p].status >= PHASE1ST_DYING
       THEN ph1' = [ph1 EXCEPT ![p].sce = "none"] /\ UNCHANGED ph2
       ELSE LET aged(P) == [P EXCEPT ![p].status = PHASE1ST_DYING, ![p].sce = "expire"]
            IN  \/ /\ EstablishedPh1({p}) = {}
                   /\ \/ /\ ph1[p].side = "INITIATOR"
                         /\ \E h \in Ph2 : ph2[h].ph1 = p /\ ph2[h].status = PHASE2ST_ESTABLISHED
                         /\ \E new \in Ph1 :
                               /\ ph1[new].status = PHASE1ST_SPAWN
                               /\ ph1' = aged(Insert(ph1, new, Ph1tree,
                                                     Ph1Sent(Newph1, PHASE1ST_MSG1SENT)))
                      \/ ph1' = aged(ph1)
                   /\ UNCHANGED ph2
                \/ \E new \in EstablishedPh1({p}) :
                      /\ ph1' = aged(ph1)
                      /\ ph2' = MigratePh12(ph2, {p}, new)

\* isakmp_ph1expire(), called by its timer
Ph1expire(p) == ph1[p].sce = "expire" /\ Ph1delete({p}, ph2)

\* purge_remote(), the phase 1 handlers being F: deletes what the kernel lists
\* for the two addresses, but what another established ISAKMP SA can keep; it
\* gives up when the dump fails, and what DPD keeps is read no more
PurgeRemote(p, F) ==
    \/ \E listed \in SUBSET Listed :
          LET keep == {h \in Ph2 : /\ EstablishedPh1({p}) # {}
                                   /\ \/ ph2[h].ph1 \notin {p, NoPh1}
                                      \/ ph2[h].status >= PHASE2ST_ESTABLISHED}
          IN  Ph1delete({p}, RemovePh2(ph2, listed \ keep))
    \/ /\ DumpFails
       /\ ph1' = [F EXCEPT ![p].status = PHASE1ST_EXPIRED, ![p].dpd = FALSE,
                           ![p].out = 0, ![p].fails = 0]
       /\ UNCHANGED ph2

\* isakmp_info_send_r_u(), called by its timer, when it sends R-U-THERE, or has
\* no memory for it and is not scheduled again
SendRu(p) ==
    /\ ph1[p].ru
    /\ ph1[p].status # PHASE1ST_EXPIRED
    /\ ph1[p].fails < DpdMaxfails
    /\ \/ /\ \A q \in Ph1 : ph1[p].out + (IF q = p THEN 0 ELSE ph1[q].out) < MaxOut
          /\ ph1' = [ph1 EXCEPT ![p].out = @ + 1, ![p].fails = @ + 1]
       \/ ph1' = [ph1 EXCEPT ![p].ru = FALSE]
    /\ UNCHANGED ph2

\* the same function when the peer is taken for dead, and when the SA has ended
PeerDead(p) ==
    /\ ph1[p].ru
    /\ ph1[p].status # PHASE1ST_EXPIRED
    /\ ph1[p].fails >= DpdMaxfails
    /\ PurgeRemote(p, [ph1 EXCEPT ![p].ru = FALSE])

RuOfExpired(p) ==
    /\ ph1[p].ru
    /\ ph1[p].status = PHASE1ST_EXPIRED
    /\ ph1' = [ph1 EXCEPT ![p].ru = FALSE]
    /\ UNCHANGED ph2

RecvRuAckBug(p) ==
    /\ ph1[p].status \in {PHASE1ST_ESTABLISHED, PHASE1ST_DYING}
    /\ \E k \in 0..ph1[p].out - 1 :
          ph1' = [ph1 EXCEPT ![p].out = k, ![p].fails = IF @ > 0 THEN @ - 1 ELSE 0, ![p].ru = TRUE]
    /\ UNCHANGED ph2

\* isakmp_info_recv_r_u_ack() for the sequence number of a message that is
\* still unanswered, after which k are
RecvRuAck(p) ==
    /\ ph1[p].status \in {PHASE1ST_ESTABLISHED, PHASE1ST_DYING}
    /\ \E k \in 0..ph1[p].out - 1 :
          ph1' = [ph1 EXCEPT ![p].out = k, ![p].fails = 0, ![p].ru = TRUE]
    /\ UNCHANGED ph2

\* isakmp_info_recv_d() for an ISAKMP SA, which may still be negotiated
RecvDelete1(p) ==
    /\ DeleteTaken
    /\ ph1[p].status \in PHASE1ST_START..PHASE1ST_DYING
    /\ \/ /\ Ph1RekeyEnabled(ph1[p]) \/ (Rekey = "on" /\ Negotiating1(p))
          /\ PurgeRemote(p, [ph1 EXCEPT ![p].scr = FALSE])
       \/ ~Ph1RekeyEnabled(ph1[p]) /\ Ph1delete({p}, ph2)

\* purge_ipsec_spi() for a delete payload; isakmp_info_recv_initialcontact(), which
\* only a protected message reaches, removes no more
RecvDelete2 ==
    /\ DeleteTaken
    /\ \E gone \in SUBSET Mature : ph2' = RemovePh2(ph2, gone)
    /\ UNCHANGED ph1

-----------------------------------------------------------------------------
(* Phase 2: beginning *)

\* isakmp_ph2begin_i() and quick_i1prep(), the phase 2 handlers being H: the
\* kernel is asked for an SPI; without memory for the IV, the handler is left as
\* it is, and it is released when the request cannot be sent
Ph2begin_i(p, h, H) ==
    LET bound == [H[h] EXCEPT !.ph1 = p]
    IN  \/ ph2' = [H EXCEPT ![h] = [bound EXCEPT !.status = PHASE2ST_GETSPISENT,
                                                 !.sce = "timeover", !.pk = "getspi"]]
        \/ ph2' = [H EXCEPT ![h] = bound]
        \/ ph2' = RemovePh2(H, {h})

\* isakmp_post_acquire(), and the caller that removes the handler if it fails
PostAcquire(h, H, hint) ==
    LET waiting == [H EXCEPT ![h].sce = "checkph1", ![h].checks = RetryCheckph1]
    IN  \/ /\ Getph1 = {}
           /\ ph2' = waiting
           /\ \E p \in Ph1 : Ph1begin_i(p)
        \/ /\ \E p \in Getph1 : ph1[p].status < PHASE1ST_ESTABLISHED
           /\ ph2' = waiting
           /\ UNCHANGED ph1
        \/ /\ \E p \in Getph1 : ph1[p].status = PHASE1ST_ESTABLISHED /\ Ph2begin_i(p, h, H)
           /\ UNCHANGED ph1
        \/ /\ hint = NoPh1 \/ Getph1 = {}
           /\ ph2' = RemovePh2(H, {h})
           /\ UNCHANGED ph1

Zombie(h) ==
    /\ ph2[h].status \in PHASE2ST_STATUS2..PHASE2ST_ADDSA
    /\ ph2[h].retry = 0
    /\ ph2[h].sce = "none"
    /\ ~ph2[h].scr

\* what getph2byid() returns, and the handlers once it has expired the zombies
\* that it met on its way
Getph2byid(spid) == First(ph2, {h \in Ph2tree : ph2[h].spid = spid /\ ~Zombie(h)})
Swept(spid) ==
    [h \in Ph2 |-> IF /\ h \in Ph2tree
                      /\ ph2[h].spid = spid
                      /\ Zombie(h)
                      /\ Getph2byid(spid) \subseteq ph2[h].older
                   THEN [ph2[h] EXCEPT !.status = PHASE2ST_EXPIRED, !.sce = "delete"]
                   ELSE ph2[h]]

\* pk_recvacquire(), and the same request by racoonctl establish-sa esp, which is
\* not for a policy that has any handler
Acquire(spid, admin) ==
    \/ ph2' = Swept(spid) /\ UNCHANGED ph1
    \/ /\ \A h \in Getph2byid(spid) : ~admin /\ ph2[h].status >= PHASE2ST_ESTABLISHED
       /\ \E h \in Ph2 :
             /\ ph2[h].status = PHASE2ST_SPAWN
             /\ PostAcquire(h, Insert(Swept(spid), h, Ph2tree,
                    [Newph2 EXCEPT !.status = PHASE2ST_STATUS2, !.spid = spid]), NoPh1)

\* racoonctl establish-sa isakmp
EstablishIsakmp == Getph1 = {} /\ (\E p \in Ph1 : Ph1begin_i(p)) /\ UNCHANGED ph2

\* isakmp_ph2begin_r(), quick_r1recv() and quick_r1prep(): when the kernel cannot
\* be asked for an SPI, the handler is kept, without a timer
Ph2begin_r(p) ==
    /\ ph1[p].status \in {PHASE1ST_ESTABLISHED, PHASE1ST_DYING}
    /\ \E h \in Ph2 :
          LET handle == [Newph2 EXCEPT !.status = PHASE2ST_GETSPISENT,
                                       !.side = "RESPONDER", !.ph1 = p]
          IN  /\ ph2[h].status = PHASE2ST_SPAWN
              /\ \/ ph2' = Insert(ph2, h, Ph2tree,
                                  [handle EXCEPT !.sce = "timeover", !.pk = "getspi"])
                 \/ ph2' = Insert(ph2, h, Ph2tree, handle)
    /\ UNCHANGED ph1

-----------------------------------------------------------------------------
(* Phase 2: messages of the kernel and of the peer *)

Remove2(h) == ph2' = RemovePh2(ph2, {h}) /\ UNCHANGED ph1

\* pk_recvgetspi(), isakmp_post_getspi(), quick_i1send() and quick_r2send()
RecvGetspi(h) ==
    /\ ph2[h].pk = "getspi"
    /\ ph2[h].status = PHASE2ST_GETSPISENT
    /\ \/ /\ ph1[ph2[h].ph1].status < PHASE1ST_EXPIRED
          /\ ph2' = [ph2 EXCEPT ![h].status = PHASE2ST_MSG1SENT, ![h].pk = "none",
                                ![h].retry = RetryCounter - 1, ![h].scr = TRUE]
          /\ UNCHANGED ph1
       \/ Remove2(h)

\* quick_main() for a message of this negotiation: the SAs are sent to the kernel,
\* or the message is wrong; an answer to an SA that has expired removes it
Quick_main(h) ==
    /\ ph2[h].ph1 # NoPh1
    /\ ph1[ph2[h].ph1].status \in {PHASE1ST_ESTABLISHED, PHASE1ST_DYING}
    /\ \/ /\ ph2[h].status = PHASE2ST_MSG1SENT
          /\ ph2' = [ph2 EXCEPT ![h].status = PHASE2ST_ADDSA, ![h].scr = FALSE,
                                ![h].pk = "update"]
          /\ UNCHANGED ph1
       \/ ph2[h].status \in {PHASE2ST_MSG1SENT, PHASE2ST_EXPIRED} /\ Remove2(h)

\* pk_recvupdate()
RecvUpdate(h) ==
    /\ ph2[h].pk = "update"
    /\ ph2[h].status = PHASE2ST_ADDSA
    /\ ph2' = [ph2 EXCEPT ![h].status = PHASE2ST_ESTABLISHED, ![h].pk = "none",
                          ![h].sce = "expire", ![h].scr = FALSE]
    /\ UNCHANGED ph1

\* initph2()
InitPh2(h) == [ph2[h] EXCEPT !.ph1 = NoPh1, !.scr = FALSE, !.sce = "none", !.pk = "none"]

\* pk_recvexpire(): the initiator begins again with the same handler
RecvExpire(h) ==
    \/ /\ ph2[h].status \in {PHASE2ST_MSG1SENT, PHASE2ST_ADDSA}
       /\ Remove2(h)
    \/ /\ ph2[h].status = PHASE2ST_ESTABLISHED
       /\ ph2[h].side = "RESPONDER"
       /\ Remove2(h)
    \/ /\ ph2[h].status = PHASE2ST_ESTABLISHED
       /\ ph2[h].side = "INITIATOR"
       /\ PostAcquire(h, [ph2 EXCEPT ![h] = [InitPh2(h) EXCEPT !.status = PHASE2ST_STATUS2]],
                      ph2[h].ph1)

\* pk_recvdelete() of another process, pk_recvflush()
RecvDelete(h) == h \in Listed /\ Remove2(h)
RecvFlush == ph2' = RemovePh2(ph2, Ph2) /\ UNCHANGED ph1

-----------------------------------------------------------------------------
(* Phase 2: timers *)

\* isakmp_ph2resend_stub()
Ph2resend(h) ==
    /\ ph2[h].scr
    /\ \/ /\ ph1[ph2[h].ph1].status < PHASE1ST_EXPIRED
          /\ ph2[h].retry > 0
          /\ ph2' = [ph2 EXCEPT ![h].retry = @ - 1]
          /\ UNCHANGED ph1
       \/ Remove2(h)

Chkph1thereBug(h) ==
    /\ ph2[h].sce = "checkph1"
    /\ \/ ph2[h].checks = 0 /\ Remove2(h)
       \/ /\ ph2[h].checks > 0
          /\ IF \E p \in Getph1 : ph1[p].status = PHASE1ST_ESTABLISHED
             THEN \E p \in Getph1 : Ph2begin_i(p, h, [ph2 EXCEPT ![h].sce = "none"])
             ELSE ph2' = [ph2 EXCEPT ![h].checks = @ - 1, ![h].sce = "none"]
          /\ UNCHANGED ph1

\* isakmp_chkph1there(): what it leaves in its counter is read no more once quick
\* mode begins
Chkph1there(h) ==
    /\ ph2[h].sce = "checkph1"
    /\ \/ ph2[h].checks = 0 /\ Remove2(h)
       \/ /\ ph2[h].checks > 0
          /\ IF \E p \in Getph1 : ph1[p].status = PHASE1ST_ESTABLISHED
             THEN \E p \in Getph1 :
                     Ph2begin_i(p, h, [ph2 EXCEPT ![h].checks = 0, ![h].sce = "none"])
             ELSE ph2' = [ph2 EXCEPT ![h].checks = @ - 1]
          /\ UNCHANGED ph1

\* quick_timeover() and isakmp_ph2delete(), isakmp_ph2expire()
Quick_timeover(h) == ph2[h].sce = "timeover" /\ Remove2(h)
Ph2delete(h) == ph2[h].sce = "delete" /\ Remove2(h)
Ph2expire(h) ==
    /\ ph2[h].sce = "expire"
    /\ ph2' = [ph2 EXCEPT ![h].status = PHASE2ST_EXPIRED, ![h].sce = "delete"]
    /\ UNCHANGED ph1

-----------------------------------------------------------------------------
(* The administrator *)

\* racoonctl delete-sa: admin_ph1_delete_sa() for a handler; when the addresses and
\* ports it names fit several, enumph1() is these steps with nothing between them
AdminDelete(p) == p \in Ph1tree /\ PurgeRemote(p, ph1)

\* reload_conf() and revalidate_ph12(): each phase 1 handler fits a remote section
\* of the new configuration or is removed, by itself, and so is each phase 2
\* handler with its sainfo section; of those of a phase 1 handler that goes, the
\* ones that the kernel lists are removed first
Reload ==
    \E gone \in SUBSET {p \in Ph1tree : ph1[p].status \in PHASE1ST_MSG1SENT..PHASE1ST_DYING} :
       \E removed \in SUBSET {h \in Ph2tree : ph2[h].status # PHASE2ST_EXPIRED} :
          Ph1delete(gone, RemovePh2(ph2, removed))

-----------------------------------------------------------------------------

Ph1Timer(p) == Ph1resend(p) \/ Ph1dying(p) \/ Ph1expire(p)
DpdTimer(p) == SendRu(p) \/ PeerDead(p) \/ RuOfExpired(p)
Ph2Timer(h) ==
    Ph2resend(h) \/ Chkph1there(h) \/ Quick_timeover(h) \/ Ph2expire(h) \/ Ph2delete(h)

Ph1Packet(p) ==
    \/ Ph1begin_r(p)
    \/ Ident_i2(p) \/ Ident_i3(p)
    \/ Ident_r1(p) \/ Ident_r2(p)
    \/ Ident_last(p)
    \/ RecvRuAck(p)
    \/ RecvDelete1(p)
    \/ Ph2begin_r(p)

\* pfkey_handler()
Kernel(h) == RecvGetspi(h) \/ RecvUpdate(h) \/ RecvExpire(h) \/ RecvDelete(h)

Admin == EstablishIsakmp \/ \E p \in Ph1 : AdminDelete(p)

\* all that happens under one configuration
Event ==
    \/ \E p \in Ph1 : Ph1Timer(p) \/ DpdTimer(p) \/ Ph1Packet(p)
    \/ \E h \in Ph2 : Ph2Timer(h) \/ Kernel(h) \/ Quick_main(h)
    \/ \E spid \in Spid, admin \in BOOLEAN : Acquire(spid, admin)
    \/ RecvFlush
    \/ RecvDelete2
    \/ Admin

\* session() and schedular()
Next == Event \/ Reload

Spec == Init /\ [][Next]_vars

\* schedular() runs before every wait for a message and calls every timer that is
\* due; nothing is assumed of the peer, the kernel and the administrator
Fairness ==
    /\ \A p \in Ph1 : WF_vars(Ph1Timer(p))
    /\ \A h \in Ph2 : WF_vars(Ph2Timer(h))

FairSpec == Spec /\ Fairness

-----------------------------------------------------------------------------
(* Properties *)

\* the members of a list, in a linear order
Linear(F, tree) ==
    \A x \in tree :
        /\ F[x].older \subseteq tree \ {x}
        /\ \A y \in tree \ {x} : x \in F[y].older <=> y \notin F[x].older
        /\ \A y \in F[x].older : F[y].older \subseteq F[x].older

\* Handlers keep their types, a free one is blank, and the lists are linear
\* orders (insph1(), remph1(), insph2(), remph2()).
TypeOK ==
    /\ ph1 \in [Ph1 -> Ph1Handle]
    /\ ph2 \in [Ph2 -> Ph2Handle]
    /\ \A p \in Ph1 \ Ph1tree : ph1[p] = Newph1
    /\ \A h \in Ph2 \ Ph2tree : ph2[h] = Newph2
    /\ Linear(ph1, Ph1tree)
    /\ Linear(ph2, Ph2tree)

\* The back pointer of a phase 2 handler is null or leads to a phase 1 handler on
\* ph1tree whose SA was established, and it is set whenever a callback follows it:
\* every end of an ISAKMP SA, flush-sa aside, moves or removes all its phase 2
\* handlers (isakmp_ph1delete()).
BackPointers ==
    \A h \in Ph2tree :
        /\ ph2[h].ph1 # NoPh1 => ph1[ph2[h].ph1].status >= PHASE1ST_ESTABLISHED
        /\ (ph2[h].scr \/ ph2[h].pk # "none" \/ ph2[h].status = PHASE2ST_ESTABLISHED)
               => ph2[h].ph1 # NoPh1

\* Nothing waits for a message that may never come without a timer: a negotiation
\* of phase 1 is being resent (but for a responder that collects fragments), an
\* SA has an end, and a phase 2 handler has one or shares that of its ISAKMP SA
\* (a failed dump of the kernel aside, which leaves an expired one).
EveryHandleTimed ==
    LET ends(p) == ph1[p].scr \/ ph1[p].sce # "none"
    IN  /\ \A p \in Ph1tree : ends(p) \/ ph1[p].status \in {PHASE1ST_START, PHASE1ST_EXPIRED}
        /\ \A h \in Ph2tree :
              \/ ph2[h].sce # "none"
              \/ /\ ph2[h].ph1 # NoPh1
                 /\ ends(ph2[h].ph1) \/ ph1[ph2[h].ph1].status = PHASE1ST_EXPIRED

\* DPD declares a peer dead for messages that are unanswered, and counts none
\* that has been acknowledged (dpd_fails against dpd_seq and dpd_last_ack).
DpdHonest == \A p \in Ph1 : ph1[p].fails <= ph1[p].out

\* the IPsec SAs of each ISAKMP SA p that ends, an established one q being there
IPsecSasKept ==
    \A p, q \in Ph1, h \in Ph2 :
        (/\ ph1[p].status >= PHASE1ST_ESTABLISHED
         /\ p \notin Ph1tree'
         /\ p # q
         /\ ph1[q].status = PHASE1ST_ESTABLISHED
         /\ q \in Ph1tree'
         /\ ph2[h].ph1 = p
         /\ ph2[h].status = PHASE2ST_ESTABLISHED)
        => /\ ph2'[h].status = PHASE2ST_ESTABLISHED
           /\ ph1'[ph2'[h].ph1].status = PHASE1ST_ESTABLISHED

\* When an ISAKMP SA ends and another is established, the IPsec SAs of the first
\* are kept and belong to an established one, whatever ended it: its timer, its
\* peer, DPD or delete-sa (isakmp_ph1delete() and purge_remote()). Only a reload
\* may take them along, when the first fits the configuration no more (remove_ph1()).
SurvivesRekey == [][IPsecSasKept \/ ~Event]_vars

\* Every phase 1 negotiation and every ISAKMP SA comes to its end though neither
\* peer nor administrator says anything: it leaves the list, or is left on it as
\* expired by a dump of the kernel that failed.
Ph1HandlesEnd ==
    \A p \in Ph1 : (ph1[p].status \in PHASE1ST_MSG1SENT..PHASE1ST_DYING)
                       ~> (ph1[p].status \in {PHASE1ST_SPAWN, PHASE1ST_EXPIRED})

\* Every quick mode negotiation ends, with an SA or without, or is bound to an
\* ISAKMP SA that such a failed dump has left.
Ph2NegotiationsEnd ==
    \A h \in Ph2 : Negotiating2(h)
                       ~> (\/ ~Negotiating2(h)
                           \/ \E p \in Ph1 : ph2[h].ph1 = p /\ ph1[p].status = PHASE1ST_EXPIRED)

=============================================================================
