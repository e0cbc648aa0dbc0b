------------------------------- MODULE AftrNat -------------------------------
(***************************************************************************)
(* The NAT core of the AFTR daemon (wan-mode/src/aftr-1.1/aftr.c): port    *)
(* pools, per-tunnel port buckets, NAT bindings with their timeouts and    *)
(* TCP state, the on-hold queues of released ports, and the part of the    *)
(* main loop that expires them.                                            *)
(*                                                                         *)
(* One iteration of loop() is Select (the clock may advance), then the     *)
(* interactive commands, then packets, then Housekeep.  The daemon has one *)
(* thread, so every handler is one atomic action; pc says which of them    *)
(* the loop can be running.                                                *)
(*                                                                         *)
(* Data abstraction: an address with its port (or ICMP id) is one model    *)
(* value; a bucket is the set of the ports still available in it, for its  *)
(* content is random; the NAT tree and the splay trees are the set `nats`, *)
(* a wildcard search being any entry that matches.  The FTP ALG, nonat     *)
(* tunnels and the fragments are not in this module.                       *)
(*                                                                         *)
(* A definition named ...Bug is a faulty variant of the one that follows   *)
(* it, and is used only to see a property fail.                            *)
(***************************************************************************)
EXTENDS Integers, FiniteSets, Sequences, SequencesExt

CONSTANTS
    Pool,        \* NATted IPv4 source addresses (pools[])
    Proto,       \* protocols in use, a subset of {"tcp", "udp", "icmp"}
    Tunnel,      \* IPv6 addresses of the possible tunnels
    DynPort,     \* ports in minport..maxport of every pool
    StatPort,    \* ports outside that range
    Src,         \* inside (private) source addresses with their ports
    Dst,         \* remote addresses with their ports
    BuckSize,    \* bucksize[], the ports drawn by one fill_bucket()
    MaxNatCnt,   \* maxtnatcnt[], the bindings of a tunnel
    MaxNatRt,    \* maxtnatrt[], the creations of a tunnel in one second
    RateMod,     \* 2^(width of tnatrt[]): 256 in the code
    Lifetime,    \* nat_lifetime[0], [2] and [3], by protocol
    Closed,      \* nat_lifetime[1], of a closed TCP connection
    Echo,        \* nat_lifetime[3], also used for ICMP errors and RST
    Retrans,     \* nat_lifetime[4], of a binding no answer confirmed
    Hold,        \* hold_lifetime
    MaxSkip,     \* bound of the model: seconds one iteration may take
    MaxTime      \* bound of the model: the clock stops there

Key == Pool \X Proto
Slot == Tunnel \X Proto
AllDst == "any"                                    \* the ALL_DST flag
Port == DynPort \cup StatPort
TcpSt == SUBSET {"acked", "in", "out"}          \* {} is TCP_DEFAULT
Closing == {"in", "out"}                        \* TCP_CLOSED_BOTH

NatAssumption ==
    /\ Proto \subseteq {"tcp", "udp", "icmp"}
    /\ DynPort \cap StatPort = {}
    /\ IsFiniteSet(DynPort)
    /\ RateMod \in Nat \ {0, 1}
    /\ BuckSize \in [Proto -> Nat \ {0}]
    /\ MaxNatCnt \in [Proto -> Nat]
    /\ MaxNatRt \in [Proto -> 1..(RateMod - 1)]
    /\ Lifetime \in [Proto -> Nat \ {0}]
    /\ Closed \in Nat \ {0}
    /\ Echo \in Nat \ {0}
    /\ Retrans \in Nat \ {0}
    /\ Hold \in Nat
    /\ MaxSkip \in Nat
    /\ MaxTime \in Nat
ASSUME NatAssumption

VARIABLES
    tunnels,     \* tunnels in the tunnel tree
    srcidx,      \* the pool of each tunnel
    freebm,      \* free dynamic ports of each pool and protocol
    bucket,      \* ports reserved by each tunnel and not yet used
    nats,        \* NAT bindings
    helds,       \* on-hold queues: [port, timeout], oldest first
    natcnt,      \* pool->natcnt[]: dynamic ports bound or on hold
    tnatcnt,     \* tunnel->tnatcnt[]: bindings of the tunnel
    dyncnt,      \* natcntt, natcntu, natcnto
    snatcnt,     \* static bindings
    prrcnt,      \* A+P bindings
    lastnat,     \* tunnel->lastnat: second of the last creation attempt
    tnatrt,      \* tunnel->tnatrt[]: attempts in that second
    seconds,     \* the clock
    lastsecs,    \* the clock at the last expiry
    pc           \* what loop() is doing

portVars == <<freebm, bucket, nats, helds>>
cntVars  == <<natcnt, tnatcnt, dyncnt, snatcnt, prrcnt>>
rateVars == <<lastnat, tnatrt>>
tunVars  == <<tunnels, srcidx>>
loopVars == <<seconds, lastsecs, pc>>
vars == <<portVars, cntVars, rateVars, tunVars, loopVars>>

(***************************************************************************)
(* A binding.  kind is "dyn" for one made by traffic, "snat" for a static  *)
(* one, "prr" for an A+P one; the last two match any remote address and    *)
(* have no timeout (0).                                                    *)
(***************************************************************************)
Binding == [tun : Tunnel, pr : Proto, src : Src \cup (Pool \X Port),
            dst : Dst \cup {AllDst}, pool : Pool, port : Port,
            kind : {"dyn", "snat", "prr"},
            timeout : Nat, lifetime : Nat, tcpst : TcpSt]

Held == [port : DynPort, timeout : Nat]

Permanent(kind, t, pr, src, p, q) ==
    [tun |-> t, pr |-> pr, src |-> src, dst |-> AllDst, pool |-> p, port |-> q,
     kind |-> kind, timeout |-> 0, lifetime |-> 0, tcpst |-> {}]

Dynamic(t, pr, src, d, q) ==
    [tun |-> t, pr |-> pr, src |-> src, dst |-> d, pool |-> srcidx[t],
     port |-> q, kind |-> "dyn", timeout |-> seconds + Retrans,
     lifetime |-> Lifetime[pr], tcpst |-> {}]

\* wildcard match in the splay tree of the tunnel (from the inside); natin()
\* is given only private sources and so never meets an A+P entry
InMatches(t, pr, src, d) ==
    {n \in nats : n.tun = t /\ n.pr = pr /\ n.src = src /\ n.dst \in {d, AllDst}}

\* wildcard match in the NAT tree (from the outside)
OutMatches(p, pr, q, d) ==
    {n \in nats : n.pool = p /\ n.pr = pr /\ n.port = q /\ n.dst \in {d, AllDst}}

InRange(n, k) == n.pool = k[1] /\ n.pr = k[2] /\ n.port \in DynPort

(***************************************************************************)
(* Timeouts.                                                               *)
(***************************************************************************)
ExtendAlwaysBug(n, secs) ==
    IF n.timeout # 0 THEN [n EXCEPT !.timeout = seconds + secs] ELSE n

Extend(n, secs) ==
    IF n.timeout # 0 /\ seconds + secs > n.timeout
    THEN [n EXCEPT !.timeout = seconds + secs] ELSE n

\* n after the flags of a segment, the side that sent it being `me`
TcpMark(n, fl, me) ==
    LET st == IF n.tcpst = {} /\ "ack" \in fl THEN {"acked"} ELSE n.tcpst
    IN  CASE "rst" \in fl -> st \cup Closing
          [] "rst" \notin fl /\ "fin" \in fl -> st \cup {me}
          [] OTHER -> st

\* both sides have closed and this segment says so anew
TcpCloses(n, fl, me) ==
    /\ Closing \subseteq TcpMark(n, fl, me)
    /\ "rst" \in fl \/ ("fin" \in fl /\ me \notin n.tcpst)

CloseLifetime(st, fl) ==
    IF "rst" \notin fl THEN Closed ELSE IF "acked" \in st THEN Echo ELSE Retrans

TcpStateLifetimeBug(n, fl, me) ==
    LET st == TcpMark(n, fl, me)
        due == seconds + CloseLifetime(st, fl)
    IN  IF n.timeout # 0 /\ TcpCloses(n, fl, me) /\ n.timeout > due
        THEN [n EXCEPT !.tcpst = st, !.timeout = due]
        ELSE IF n.timeout # 0 THEN [n EXCEPT !.tcpst = st] ELSE n

\* tcpstate_in(), tcpstate_out()
TcpState(n, fl, me) ==
    LET st == TcpMark(n, fl, me)
        lt == CloseLifetime(st, fl)
    IN  IF n.timeout = 0 THEN n
        ELSE IF TcpCloses(n, fl, me)
             THEN [n EXCEPT !.tcpst = st, !.lifetime = lt,
                            !.timeout = IF @ > seconds + lt
                                        THEN seconds + lt ELSE @]
             ELSE [n EXCEPT !.tcpst = st]

\* the "increased" result: the timeout came forward
Shortened(n, fl, me) == TcpState(n, fl, me).timeout < n.timeout

\* the end of natin() and of natout(): TCP state, then the timeout
Refresh(n, fl, me, secs) ==
    IF Shortened(n, fl, me) THEN TcpState(n, fl, me)
    ELSE Extend(TcpState(n, fl, me), secs)

RefreshIn(n, fl)  == Refresh(n, fl, "in", Retrans)
RefreshOut(n, fl) ==
    LET m == TcpState(n, fl, "out") IN Refresh(n, fl, "out", m.lifetime)

Flags(pr) == IF pr = "tcp" THEN SUBSET {"ack", "fin", "rst"} ELSE {{}}

Replace(n, m) == nats' = (nats \ {n}) \cup {m}

(***************************************************************************)
(* Releasing bindings: del_nat() for every n in S.  A dynamic port goes    *)
(* to the tail of the on-hold queue of its pool; all of them get the same  *)
(* deadline, so their order in the queue is immaterial.                    *)
(***************************************************************************)
HeldOfNoDelayBug(n) == [port |-> n.port, timeout |-> seconds]

HeldOf(n) == [port |-> n.port, timeout |-> seconds + Hold]

HeldsOf(S, k) ==
    LET s == SetToSeq({n \in S : InRange(n, k)})
    IN  [i \in DOMAIN s |-> HeldOf(s[i])]

RequeueHeadBug(q, S, k) == HeldsOf(S, k) \o q

Requeue(q, S, k) == q \o HeldsOf(S, k)

CountIf(S, t, pr) == Cardinality({n \in S : n.tun = t /\ n.pr = pr})

KindCount(S, kind) == Cardinality({n \in S : n.kind = kind})

Release(S) ==
    /\ nats' = nats \ S
    /\ tnatcnt' = [s \in Slot |-> tnatcnt[s] - CountIf(S, s[1], s[2])]
    /\ dyncnt' = [pr \in Proto |-> dyncnt[pr]
                    - KindCount({n \in S : n.pr = pr}, "dyn")]
    /\ snatcnt' = snatcnt - KindCount(S, "snat")
    /\ prrcnt' = prrcnt - KindCount(S, "prr")

(***************************************************************************)
(* Tunnels.  A tunnel is made by a command or, with autotunnel, by its     *)
(* first packet; without an address its pool is the next in rotation, any  *)
(* pool in this model.                                                     *)
(***************************************************************************)
Init ==
    /\ tunnels = {}
    /\ srcidx \in {[t \in Tunnel |-> p] : p \in Pool}
    /\ freebm = [k \in Key |-> DynPort]
    /\ bucket = [s \in Slot |-> {}]
    /\ nats = {}
    /\ helds = [k \in Key |-> <<>>]
    /\ natcnt = [k \in Key |-> 0]
    /\ tnatcnt = [s \in Slot |-> 0]
    /\ dyncnt = [pr \in Proto |-> 0]
    /\ snatcnt = 0
    /\ prrcnt = 0
    /\ lastnat = [t \in Tunnel |-> 0]
    /\ tnatrt = [s \in Slot |-> 0]
    /\ seconds = 1
    /\ lastsecs = 1
    /\ pc = "select"

NewTunnel(t, p) ==
    /\ tunnels' = tunnels \cup {t}
    /\ srcidx' = [srcidx EXCEPT ![t] = p]
    /\ lastnat' = [lastnat EXCEPT ![t] = 0]
    /\ tnatrt' = [s \in Slot |-> IF s[1] = t THEN 0 ELSE tnatrt[s]]

AddTunnel(t, p) ==
    /\ pc \in {"commands", "packets"}
    /\ t \notin tunnels
    /\ NewTunnel(t, p)
    /\ UNCHANGED <<portVars, cntVars, loopVars>>

DelTunnelBucketBug(t) ==
    LET S == {n \in nats : n.tun = t}
    IN  /\ pc = "commands"
        /\ t \in tunnels
        /\ tunnels' = tunnels \ {t}
        /\ Release(S)
        /\ helds' = [k \in Key |-> Requeue(helds[k], S, k)]
        /\ bucket' = [s \in Slot |-> IF s[1] = t THEN {} ELSE bucket[s]]
        /\ UNCHANGED <<freebm, natcnt, srcidx, rateVars, loopVars>>

DelTunnelStaticBug(t) ==
    LET S == {n \in nats : n.tun = t /\ n.kind # "dyn"}
    IN  /\ pc = "commands"
        /\ t \in tunnels
        /\ tunnels' = tunnels \ {t}
        /\ Release(S)
        /\ helds' = [k \in Key |-> Requeue(helds[k], S, k)]
        /\ freebm' = [k \in Key |-> IF k[1] = srcidx[t]
                        THEN freebm[k] \cup bucket[<<t, k[2]>>] ELSE freebm[k]]
        /\ bucket' = [s \in Slot |-> IF s[1] = t THEN {} ELSE bucket[s]]
        /\ UNCHANGED <<natcnt, srcidx, rateVars, loopVars>>

DelTunnelNoHoldBug(t) ==
    LET S == {n \in nats : n.tun = t}
    IN  /\ pc = "commands"
        /\ t \in tunnels
        /\ tunnels' = tunnels \ {t}
        /\ Release(S)
        /\ freebm' = [k \in Key |-> IF k[1] = srcidx[t]
                        THEN freebm[k] \cup bucket[<<t, k[2]>>]
                             \cup {n.port : n \in {m \in S : InRange(m, k)}}
                        ELSE freebm[k]]
        /\ bucket' = [s \in Slot |-> IF s[1] = t THEN {} ELSE bucket[s]]
        /\ UNCHANGED <<helds, natcnt, srcidx, rateVars, loopVars>>

\* del_tunnel(): every binding released, the buckets given back at once
DelTunnel(t) ==
    LET S == {n \in nats : n.tun = t}
    IN  /\ pc = "commands"
        /\ t \in tunnels
        /\ tunnels' = tunnels \ {t}
        /\ Release(S)
        /\ helds' = [k \in Key |-> Requeue(helds[k], S, k)]
        /\ freebm' = [k \in Key |-> IF k[1] = srcidx[t]
                        THEN freebm[k] \cup bucket[<<t, k[2]>>] ELSE freebm[k]]
        /\ bucket' = [s \in Slot |-> IF s[1] = t THEN {} ELSE bucket[s]]
        /\ UNCHANGED <<natcnt, srcidx, rateVars, loopVars>>

(***************************************************************************)
(* Static and A+P bindings.  A missing tunnel is made on the way, with the *)
(* pool p2, and stays even when the binding then collides.                 *)
(***************************************************************************)
CollidesOutsideBug(b) ==
    \E n \in nats : n.kind = b.kind /\ n.pr = b.pr /\ n.pool = b.pool /\ n.port = b.port

Collides(b) ==
    \E n \in nats :
        /\ n.kind = b.kind /\ n.pr = b.pr
        /\ \/ n.pool = b.pool /\ n.port = b.port
           \/ n.tun = b.tun /\ n.src = b.src

AddPermanent(b, p2) ==
    /\ pc = "commands"
    /\ b.port \notin DynPort
    /\ IF b.tun \in tunnels THEN UNCHANGED <<tunVars, rateVars>>
                            ELSE NewTunnel(b.tun, p2)
    /\ IF Collides(b) THEN UNCHANGED <<nats, tnatcnt>>
       ELSE /\ nats' = nats \cup {b}
            /\ tnatcnt' = [tnatcnt EXCEPT ![<<b.tun, b.pr>>] = @ + 1]
    /\ UNCHANGED <<freebm, bucket, helds, natcnt, dyncnt, loopVars>>

AddSnatCountBug(t, pr, src, p, q) ==
    /\ AddPermanent(Permanent("snat", t, pr, src, p, q), p)
    /\ snatcnt' = snatcnt + 1
    /\ UNCHANGED prrcnt

AddSnat(t, pr, src, p, q) ==
    LET b == Permanent("snat", t, pr, src, p, q)
    IN  /\ AddPermanent(b, p)
        /\ snatcnt' = IF Collides(b) THEN snatcnt ELSE snatcnt + 1
        /\ UNCHANGED prrcnt

AddPrr(t, pr, p, q, p2) ==
    LET b == Permanent("prr", t, pr, <<p, q>>, p, q)
    IN  /\ AddPermanent(b, p2)
        /\ prrcnt' = IF Collides(b) THEN prrcnt ELSE prrcnt + 1
        /\ UNCHANGED snatcnt

\* del_snat(), del_prr(): the exact search and del_nat()
DelPermanent(n) ==
    /\ pc = "commands"
    /\ n \in nats
    /\ n.kind # "dyn"
    /\ Release({n})
    /\ helds' = [k \in Key |-> Requeue(helds[k], {n}, k)]
    /\ UNCHANGED <<freebm, bucket, natcnt, rateVars, tunVars, loopVars>>

(***************************************************************************)
(* Packets.                                                                *)
(***************************************************************************)
Packet == pc = "packets"

\* natin() on a binding that exists
NatInHit(n, fl) ==
    /\ Packet
    /\ n \in nats
    /\ n.kind # "prr"
    /\ fl \in Flags(n.pr)
    /\ Replace(n, RefreshIn(n, fl))
    /\ UNCHANGED <<freebm, bucket, helds, cntVars, rateVars, tunVars, loopVars>>

AttemptWideBug(t, pr) ==
    /\ lastnat' = [lastnat EXCEPT ![t] = seconds]
    /\ tnatrt' = [s \in Slot |->
           IF s[1] # t THEN tnatrt[s]
           ELSE IF lastnat[t] # seconds THEN (IF s[2] = pr THEN 1 ELSE 0)
           ELSE IF s[2] = pr THEN tnatrt[s] + 1 ELSE tnatrt[s]]

\* the attempts counted by natin(); tnatrt[] is an unsigned char
Attempt(t, pr) ==
    /\ lastnat' = [lastnat EXCEPT ![t] = seconds]
    /\ tnatrt' = [s \in Slot |->
           IF s[1] # t THEN tnatrt[s]
           ELSE IF lastnat[t] # seconds THEN (IF s[2] = pr THEN 1 ELSE 0)
           ELSE IF s[2] = pr THEN (tnatrt[s] + 1) % RateMod ELSE tnatrt[s]]

RateAllows(t, pr) ==
    \/ lastnat[t] # seconds
    \/ (tnatrt[<<t, pr>>] + 1) % RateMod < MaxNatRt[pr]

\* no binding matches and the tunnel may have one more
Miss(t, pr, src, d) ==
    /\ Packet
    /\ t \in tunnels
    /\ InMatches(t, pr, src, d) = {}
    /\ tnatcnt[<<t, pr>>] < MaxNatCnt[pr]

NatInOverRate(t, pr, src, d) ==
    /\ Miss(t, pr, src, d)
    /\ ~RateAllows(t, pr)
    /\ Attempt(t, pr)
    /\ UNCHANGED <<portVars, cntVars, tunVars, loopVars>>

\* fill_bucket() found no free port, or a malloc() failed before it
NatInNoPort(t, pr, src, d) ==
    /\ Miss(t, pr, src, d)
    /\ RateAllows(t, pr)
    /\ Attempt(t, pr)
    /\ UNCHANGED <<portVars, cntVars, tunVars, loopVars>>

DrawBitBug(t, pr, q) ==
    LET s == <<t, pr>>
    IN  /\ \/ /\ q \in bucket[s]
              /\ bucket' = [bucket EXCEPT ![s] = @ \ {q}]
           \/ /\ bucket[s] = {}
              /\ \E B \in SUBSET freebm[<<srcidx[t], pr>>] :
                     /\ q \in B
                     /\ Cardinality(B) <= BuckSize[pr]
                     /\ bucket' = [bucket EXCEPT ![s] = B \ {q}]
        /\ UNCHANGED freebm

\* the port q of the bucket, filled first when it is empty: fill_bucket()
\* draws at random and may miss, so any number of free ports up to BuckSize
Draw(t, pr, q) ==
    LET k == <<srcidx[t], pr>>
        s == <<t, pr>>
    IN  \/ /\ q \in bucket[s]
           /\ bucket' = [bucket EXCEPT ![s] = @ \ {q}]
           /\ UNCHANGED freebm
        \/ /\ bucket[s] = {}
           /\ \E B \in SUBSET freebm[k] :
                  /\ q \in B
                  /\ Cardinality(B) <= BuckSize[pr]
                  /\ freebm' = [freebm EXCEPT ![k] = @ \ B]
                  /\ bucket' = [bucket EXCEPT ![s] = B \ {q}]

\* natin() on a miss: new_nat() and then the rest of natin() on the result
NatInNew(t, pr, src, d, q, fl) ==
    /\ Miss(t, pr, src, d)
    /\ RateAllows(t, pr)
    /\ fl \in Flags(pr)
    /\ Attempt(t, pr)
    /\ Draw(t, pr, q)
    /\ nats' = nats \cup {RefreshIn(Dynamic(t, pr, src, d, q), fl)}
    /\ natcnt' = [natcnt EXCEPT ![<<srcidx[t], pr>>] = @ + 1]
    /\ tnatcnt' = [tnatcnt EXCEPT ![<<t, pr>>] = @ + 1]
    /\ dyncnt' = [dyncnt EXCEPT ![pr] = @ + 1]
    /\ UNCHANGED <<helds, snatcnt, prrcnt, tunVars, loopVars>>

NatInHeapFullCountBug(t, pr, src, d, q) ==
    /\ Miss(t, pr, src, d)
    /\ RateAllows(t, pr)
    /\ Attempt(t, pr)
    /\ Draw(t, pr, q)
    /\ helds' = [helds EXCEPT ![<<srcidx[t], pr>>] =
                    Append(@, [port |-> q, timeout |-> seconds + Hold])]
    /\ UNCHANGED <<natcnt, nats, tnatcnt, dyncnt, snatcnt, prrcnt, tunVars, loopVars>>

\* the heap cannot grow: the port drawn goes on hold
NatInHeapFull(t, pr, src, d, q) ==
    LET k == <<srcidx[t], pr>>
    IN  /\ Miss(t, pr, src, d)
        /\ RateAllows(t, pr)
        /\ Attempt(t, pr)
        /\ Draw(t, pr, q)
        /\ natcnt' = [natcnt EXCEPT ![k] = @ + 1]
        /\ helds' = [helds EXCEPT ![k] =
                        Append(@, [port |-> q, timeout |-> seconds + Hold])]
        /\ UNCHANGED <<nats, tnatcnt, dyncnt, snatcnt, prrcnt, tunVars, loopVars>>

\* natout(): a packet from the Internet reaches the binding; one too big
\* for the tunnel may be answered by toobigout() before it is forwarded
NatOut(n, fl) ==
    /\ Packet
    /\ n \in nats
    /\ n.kind # "prr"
    /\ fl \in Flags(n.pr)
    /\ \E m \in {n, Extend(n, n.lifetime)} : Replace(n, RefreshOut(m, fl))
    /\ UNCHANGED <<freebm, bucket, helds, cntVars, rateVars, tunVars, loopVars>>

\* toobigout(), then the packet is dropped: the timeout alone moves
TooBigOut(n) ==
    /\ Packet
    /\ n \in nats
    /\ n.pr # "icmp"
    /\ Replace(n, Extend(n, n.lifetime))
    /\ UNCHANGED <<freebm, bucket, helds, cntVars, rateVars, tunVars, loopVars>>

\* naticmpout(): an ICMP error about a TCP or UDP packet sent by the binding
NatIcmpOut(n) ==
    /\ Packet
    /\ n \in nats
    /\ n.kind # "prr"
    /\ n.pr # "icmp"
    /\ Replace(n, Extend(n, Echo))
    /\ UNCHANGED <<freebm, bucket, helds, cntVars, rateVars, tunVars, loopVars>>

(***************************************************************************)
(* The main loop.                                                          *)
(***************************************************************************)
Select ==
    /\ pc = "select"
    /\ \E d \in 0..MaxSkip :
           /\ seconds + d <= MaxTime
           /\ seconds' = seconds + d
    /\ pc' = "commands"
    /\ UNCHANGED <<portVars, cntVars, rateVars, tunVars, lastsecs>>

CommandsDone ==
    /\ pc = "commands"
    /\ pc' = "packets"
    /\ UNCHANGED <<portVars, cntVars, rateVars, tunVars, seconds, lastsecs>>

FreedPrefixLateBug(q, i) ==
    /\ i <= Len(q)
    /\ \A j \in 1..i : q[j].timeout < seconds
    /\ i < Len(q) => q[i + 1].timeout >= seconds

FreedPrefixLastBug(q, i) ==
    /\ i <= Len(q)
    /\ i = Len(q) => i = 0
    /\ \A j \in 1..i : q[j].timeout <= seconds
    /\ i + 1 < Len(q) => q[i + 1].timeout > seconds

\* free_heldnats() stops at the first port still on hold
FreedPrefix(q, i) ==
    /\ i <= Len(q)
    /\ \A j \in 1..i : q[j].timeout <= seconds
    /\ i < Len(q) => q[i + 1].timeout > seconds

PrefixPorts(q, i) == {q[j].port : j \in 1..i}

ExpiredStaleBug == {n \in nats : n.timeout # 0 /\ n.timeout < lastsecs}

Expired == {n \in nats : n.timeout # 0 /\ n.timeout < seconds}

\* once a second: free_heldnats(), then del_nat() while the root of the heap
\* has expired
Expire ==
    /\ pc = "packets"
    /\ seconds # lastsecs
    /\ \E cut \in [Key -> UNION {0..Len(helds[kk]) : kk \in Key}] :
           /\ \A k \in Key : FreedPrefix(helds[k], cut[k])
           /\ freebm' = [k \in Key |-> freebm[k] \cup PrefixPorts(helds[k], cut[k])]
           /\ natcnt' = [k \in Key |-> natcnt[k] - cut[k]]
           /\ helds' = [k \in Key |->
                  Requeue(SubSeq(helds[k], cut[k] + 1, Len(helds[k])), Expired, k)]
    /\ Release(Expired)
    /\ lastsecs' = seconds
    /\ pc' = "select"
    /\ UNCHANGED <<bucket, rateVars, tunVars, seconds>>

SameSecond ==
    /\ pc = "packets"
    /\ seconds = lastsecs
    /\ pc' = "select"
    /\ UNCHANGED <<portVars, cntVars, rateVars, tunVars, seconds, lastsecs>>

Loop == Select \/ CommandsDone \/ Expire \/ SameSecond

Command ==
    \/ \E t \in Tunnel, p \in Pool : AddTunnel(t, p)
    \/ \E t \in Tunnel : DelTunnel(t)
    \/ \E t \in Tunnel, pr \in Proto \ {"icmp"}, src \in Src, p \in Pool, q \in Port :
           AddSnat(t, pr, src, p, q)
    \/ \E t \in Tunnel, pr \in Proto \ {"icmp"}, p \in Pool, q \in Port, p2 \in Pool :
           AddPrr(t, pr, p, q, p2)
    \/ \E n \in nats : DelPermanent(n)

\* packets of a flow that has a binding
Hit ==
    \/ \E n \in nats : \E fl \in Flags(n.pr) : NatInHit(n, fl) \/ NatOut(n, fl)
    \/ \E n \in nats : TooBigOut(n) \/ NatIcmpOut(n)

Traffic ==
    \/ Hit
    \/ \E t \in Tunnel, pr \in Proto, src \in Src, d \in Dst :
           \/ NatInOverRate(t, pr, src, d)
           \/ NatInNoPort(t, pr, src, d)
           \/ \E q \in DynPort :
                  \/ NatInHeapFull(t, pr, src, d, q)
                  \/ \E fl \in Flags(pr) : NatInNew(t, pr, src, d, q, fl)

Next == Loop \/ Command \/ Traffic

Spec == Init /\ [][Next]_vars

\* loop() never blocks, select() waits one second at most, and time passes
Advance == Select /\ seconds' > seconds

FairSpec == Spec /\ WF_vars(Loop) /\ SF_vars(Advance)

(***************************************************************************)
(* Properties.                                                             *)
(***************************************************************************)

\* Every variable has its type, and the set of bindings is finite.
TypeOK ==
    /\ tunnels \subseteq Tunnel
    /\ srcidx \in [Tunnel -> Pool]
    /\ freebm \in [Key -> SUBSET DynPort]
    /\ bucket \in [Slot -> SUBSET DynPort]
    /\ nats \subseteq Binding
    /\ IsFiniteSet(nats)
    /\ helds \in [Key -> Seq(Held)]
    /\ natcnt \in [Key -> Int]
    /\ tnatcnt \in [Slot -> Int]
    /\ dyncnt \in [Proto -> Int]
    /\ snatcnt \in Int
    /\ prrcnt \in Int
    /\ lastnat \in [Tunnel -> Nat]
    /\ tnatrt \in [Slot -> 0..(RateMod - 1)]
    /\ seconds \in Nat
    /\ lastsecs \in Nat
    /\ pc \in {"select", "commands", "packets"}

\* The uses of the dynamic ports of the pool and protocol k.
PortsOf(q) == {q[i].port : i \in DOMAIN q}
Distinct(q) == \A i, j \in DOMAIN q : q[i].port = q[j].port => i = j

BuckPorts(t, k) == IF srcidx[t] = k[1] THEN bucket[<<t, k[2]>>] ELSE {}
BoundPorts(k) == {n.port : n \in {m \in nats : InRange(m, k)}}
HeldPorts(k) == PortsOf(helds[k])

\* No port has two uses: a free port is in no bucket, bound to nothing and
\* not on hold ("nat uses a free port", check_nat_pool(); "on hold port uses
\* a free port", check_helds()), and a port drawn by fill_bucket() is used by
\* one tunnel, one binding or one entry of the queue at a time.
OneUse ==
    \A k \in Key :
        /\ freebm[k] \cap BoundPorts(k) = {}
        /\ freebm[k] \cap HeldPorts(k) = {}
        /\ BoundPorts(k) \cap HeldPorts(k) = {}
        /\ \A t \in Tunnel :
               /\ BuckPorts(t, k) \cap freebm[k] = {}
               /\ BuckPorts(t, k) \cap BoundPorts(k) = {}
               /\ BuckPorts(t, k) \cap HeldPorts(k) = {}
               /\ \A u \in Tunnel \ {t} : BuckPorts(t, k) \cap BuckPorts(u, k) = {}
        /\ \A n, m \in nats :
               InRange(n, k) /\ InRange(m, k) /\ n.port = m.port => n = m
        /\ Distinct(helds[k])

\* No port is lost: whatever del_nat(), del_tunnel() and free_heldnats() do,
\* a dynamic port is free, in a bucket, bound or on hold.
NoneLost ==
    \A k \in Key, q \in DynPort :
        \/ q \in freebm[k]
        \/ q \in BoundPorts(k)
        \/ q \in HeldPorts(k)
        \/ \E t \in Tunnel : q \in BuckPorts(t, k)

\* The counter of a pool is the number of its ports bound or on hold
\* (check_pool_elm(): "pool cnt mismatch"), although one function increments
\* it and another decrements it, much later.
PoolCount ==
    \A k \in Key :
        natcnt[k] = Cardinality({n \in nats : InRange(n, k)}) + Len(helds[k])

\* The counters of tunnels and of the daemon agree with the bindings there
\* are (check_pools(), check_tunnels()).
BindingCounts ==
    /\ \A s \in Slot : tnatcnt[s] = CountIf(nats, s[1], s[2])
    /\ \A pr \in Proto : dyncnt[pr] = KindCount({n \in nats : n.pr = pr}, "dyn")
    /\ snatcnt = KindCount(nats, "snat")
    /\ prrcnt = KindCount(nats, "prr")

\* A binding belongs to a live tunnel, a dynamic one to the pool of that
\* tunnel and inside its range (check_nat(): "nat has no tunnel").  A tunnel
\* deleted takes its bindings and its bucket along.
Anchored ==
    /\ \A n \in nats : /\ n.tun \in tunnels
                       /\ n.kind = "dyn" <=> n.port \in DynPort
                       /\ n.kind = "dyn" => n.pool = srcidx[n.tun]
    /\ \A s \in Slot : s[1] \notin tunnels => bucket[s] = {} /\ tnatcnt[s] = 0

\* Inside, one flow has one dynamic binding: natin() never makes a second
\* one for a flow (splay collision of new_nat()).
OneBindingPerFlow ==
    \A n, m \in nats :
        n.tun = m.tun /\ n.pr = m.pr /\ n.src = m.src /\ n.dst = m.dst /\ n.kind = m.kind
            => n = m

\* The search by the public side finds a static binding and nothing else:
\* "session nat tree mismatch" in check_session_elm().
FoundByWild ==
    \A n \in nats : n.kind # "dyn" =>
        OutMatches(n.pool, n.pr, n.port, AllDst) = {n}

\* The on-hold queue is in the order of its deadlines, so that
\* free_heldnats() may stop at the first port that is not due.
HeldsInOrder ==
    \A k \in Key : \A i, j \in DOMAIN helds[k] :
        i < j => helds[k][i].timeout <= helds[k][j].timeout

\* Once the loop has been through its expiry, nothing overdue remains: no
\* binding past its timeout and, with a hold lifetime, no port past its
\* deadline, not even one behind another in its queue.
NothingOverdue ==
    pc = "select" /\ seconds = lastsecs =>
        /\ Expired = {}
        /\ Hold > 0 => \A k \in Key : \A i \in DOMAIN helds[k] :
                           helds[k][i].timeout > seconds

AtLeast(a, b) == IF a >= b THEN a ELSE b

\* A TCP connection both sides have closed does not keep its port for the
\* lifetime of an open one: whatever segments follow the FIN or RST, its
\* timeout stays within the short lifetimes (tcpstate_in(), tcpstate_out()).
ClosedIsShort ==
    \A n \in nats : n.kind = "dyn" /\ Closing \subseteq n.tcpst =>
        n.timeout <= seconds + AtLeast(Closed, AtLeast(Echo, Retrans))

BindingKey(n) == <<n.tun, n.pr, n.src, n.dst, n.kind>>

\* The timeout of a binding comes forward only when its TCP connection is
\* closed on both sides: the packets of an open flow never shorten it, in
\* whatever order natin(), natout() and the ICMP errors see them.
OnlyCloseShortens ==
    [][\A n \in nats, m \in nats' :
           BindingKey(m) = BindingKey(n) /\ m.timeout < n.timeout
               => Closing \subseteq m.tcpst]_vars

DueIn(h, q) == {h[i].timeout : i \in {j \in DOMAIN h : h[j].port = q}}
DueFor(k, q) == DueIn(helds[k], q)

QuarantineStep ==
    \A k \in Key, q \in DynPort :
        /\ q \in BoundPorts(k) /\ q \notin BoundPorts(k)'
               => DueFor(k, q)' = {seconds + Hold}
        /\ DueFor(k, q) # {} /\ DueFor(k, q)' # DueFor(k, q)
               => /\ q \in freebm'[k]
                  /\ \A due \in DueFor(k, q) : due <= seconds

\* A port that leaves a binding stays on hold for the hold lifetime before
\* any tunnel can draw it again: it never goes from a binding to a bucket, to
\* another binding or to the free map in one step, and leaves the queue for
\* the free map, when due.
Quarantine == [][QuarantineStep]_vars

\* A port on hold whose deadline comes before the end of the modelled time
\* goes back to the free map: the queue is served as long as the loop runs.
HeldIsFreed ==
    \A k \in Key, q \in DynPort, due \in 0..(MaxTime - 1) :
        (due \in DueFor(k, q)) ~> (q \in freebm[k])

BoundUntil(k, q, due) ==
    \E n \in nats : InRange(n, k) /\ n.port = q /\ n.timeout = due

\* A binding whose timeout falls inside the modelled time loses its port or
\* has its timeout moved by traffic: none outlives its timeout for ever,
\* because Expire serves every root of the heap.
BindingExpires ==
    \A k \in Key, q \in DynPort, due \in 1..(MaxTime - 1) :
        BoundUntil(k, q, due) ~> ~BoundUntil(k, q, due)
=============================================================================
