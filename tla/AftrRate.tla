------------------------------- MODULE AftrRate -------------------------------
(***************************************************************************)
(* The creation rate of AftrNat, observed with history variables: what a   *)
(* tunnel made in the current second, and how often its counter of         *)
(* attempts, tnatrt[], came round to 0 in it.                              *)
(***************************************************************************)
EXTENDS AftrNat

VARIABLES
    laps,    \* [Slot -> Nat]: times tnatrt[] wrapped in this second
    made     \* [Slot -> Nat]: bindings made by traffic in this second

rvars == <<vars, laps, made>>

RInit ==
    /\ Init
    /\ laps = [s \in Slot |-> 0]
    /\ made = [s \in Slot |-> 0]

DynKeys(S, s) == {BindingKey(n) : n \in {m \in S : <<m.tun, m.pr>> = s /\ m.kind = "dyn"}}

Fresh(s) == DynKeys(nats', s) \ DynKeys(nats, s)

Wraps(s) == lastnat'[s[1]] = lastnat[s[1]] /\ tnatrt[s] # 0 /\ tnatrt'[s] = 0

\* the same second for a tunnel that stays
SameLife(s) == seconds' = seconds /\ s[1] \in tunnels /\ s[1] \in tunnels'

RNext ==
    /\ Next
    /\ laps' = [s \in Slot |-> IF ~SameLife(s) THEN 0
                               ELSE IF Wraps(s) THEN laps[s] + 1 ELSE laps[s]]
    /\ made' = [s \in Slot |-> IF ~SameLife(s) THEN 0
                               ELSE made[s] + Cardinality(Fresh(s))]

RSpec == RInit /\ [][RNext]_rvars

\* "Specifies the maximum rate of dynamic NAT creation per second"
\* (man/aftr.conf.5:246): in no second does a tunnel make more bindings than
\* the configured rate.
RateKept == \A s \in Slot : made[s] <= MaxNatRt[s[2]]

\* What natin() does keep to: the rate once for each time its 8-bit counter of
\* attempts comes round, so the rate itself in a second in which it does not.
RateBounded == \A s \in Slot : made[s] <= MaxNatRt[s[2]] * (laps[s] + 1)
=============================================================================
