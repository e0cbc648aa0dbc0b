------------------------------ MODULE AftrBucket ------------------------------
(***************************************************************************)
(* AftrNat with the memory of the buckets.  new_nat() means to forget a    *)
(* bucket when its last port is drawn, but tests the address of the array  *)
(* of counters (`if (t->avail == 0)`), so the pointer stays; and when the  *)
(* malloc() of the next fill_bucket() fails, new_nat() goes on with that   *)
(* pointer: the counter stays at 0 and the first port of the old bucket is *)
(* bound a second time.  A bucket is drawn from its end, so that port is   *)
(* the last one drawn.                                                     *)
(***************************************************************************)
EXTENDS AftrNat

VARIABLE stale          \* the port b[0] of a bucket drawn to its end, if any

bvars == <<vars, stale>>

BInit == Init /\ stale = [s \in Slot |-> {}]

\* a port drawn: the last one stays in the bucket the tunnel points to
DrawnBinding(t, pr, src, d, q) ==
    /\ \/ NatInHeapFull(t, pr, src, d, q)
       \/ \E fl \in Flags(pr) : NatInNew(t, pr, src, d, q, fl)
    /\ stale' = [stale EXCEPT ![<<t, pr>>] =
                    IF bucket'[<<t, pr>>] = {} THEN {q} ELSE {}]

\* no free port: fill_bucket() frees the bucket it made and forgets it; or
\* the malloc() of the binding failed before
Refused(t, pr, src, d) ==
    \/ NatInOverRate(t, pr, src, d) /\ UNCHANGED stale
    \/ /\ NatInNoPort(t, pr, src, d)
       /\ stale' \in {stale, [stale EXCEPT ![<<t, pr>>] = {}]}

\* the malloc() of fill_bucket() fails and new_nat() uses the old bucket
BucketMallocFails(t, pr, src, d, q, fl) ==
    LET k == <<srcidx[t], pr>>
        taken == \E n \in nats : n.pool = k[1] /\ n.pr = pr /\ n.port = q /\ n.dst = d
    IN  /\ Miss(t, pr, src, d)
        /\ RateAllows(t, pr)
        /\ Attempt(t, pr)
        /\ bucket[<<t, pr>>] = {}
        /\ q \in stale[<<t, pr>>]
        /\ natcnt' = [natcnt EXCEPT ![k] = @ + 1]
        /\ IF taken
           THEN /\ helds' = [helds EXCEPT ![k] =
                               Append(@, [port |-> q, timeout |-> seconds + Hold])]
                /\ UNCHANGED <<nats, tnatcnt, dyncnt>>
           ELSE /\ nats' = nats \cup {RefreshIn(Dynamic(t, pr, src, d, q), fl)}
                /\ tnatcnt' = [tnatcnt EXCEPT ![<<t, pr>>] = @ + 1]
                /\ dyncnt' = [dyncnt EXCEPT ![pr] = @ + 1]
                /\ UNCHANGED helds
        /\ UNCHANGED <<freebm, bucket, snatcnt, prrcnt, tunVars, loopVars, stale>>

\* del_tunnel() frees the tunnel and what it points to
BCommand ==
    /\ Command
    /\ stale' = [s \in Slot |-> IF s[1] \in tunnels' THEN stale[s] ELSE {}]

BNext ==
    \/ (Loop \/ Hit) /\ UNCHANGED stale
    \/ BCommand
    \/ \E t \in Tunnel, pr \in Proto, src \in Src, d \in Dst :
           \/ Refused(t, pr, src, d)
           \/ \E q \in DynPort :
                  \/ DrawnBinding(t, pr, src, d, q)
                  \/ \E fl \in Flags(pr) : BucketMallocFails(t, pr, src, d, q, fl)

BSpec == BInit /\ [][BNext]_bvars

\* The port of a binding is not free: "nat uses a free port" in
\* check_nat_pool(), which `debug check pool` runs on every binding.
BoundIsNotFree == \A k \in Key : freebm[k] \cap BoundPorts(k) = {}
=============================================================================
