------------------------------ MODULE MCAftrRate ------------------------------
(* Small instances of AftrRate for TLC.                                       *)
EXTENDS AftrRate, MCAftrNat

CONSTANTS a1, a2, a3
MCSrc3 == {a1, a2, a3}
SrcSymmetry == Permutations({a1, a2, a3}) \cup Permutations({q1, q2, q3})
NatRt2 == OfProto(2)
NatCnt3 == OfProto(3)

\* bound of the model: attempts in one second
MaxTries == \A s \in Slot : laps[s] = 0 \/ (laps[s] = 1 /\ tnatrt[s] <= 1)
=============================================================================
