------------------------------ MODULE MCAftrNat ------------------------------
(* Small instances of AftrNat for TLC: model values and symmetry.           *)
EXTENDS AftrNatLease

CONSTANTS p1, p2, q1, q2, q3, s1, s2, t1, t2, d1, d2

MCDynPort2 == {q1, q2}
MCDynPort3 == {q1, q2, q3}
MCStatPort == {s1, s2}
MCTunnel == {t1, t2}
MCTunnel1 == {t1}
MCDst == {d1, d2}
MCDst1 == {d1}

MCPool == {p1, p2}

PortSymmetry ==
    UNION {Permutations(S) : S \in {{q1, q2, q3}, {s1, s2}, MCTunnel}}

OfProto(x) == [pr \in Proto |-> x]
BuckSize1 == OfProto(1)
BuckSize2 == OfProto(2)
NatCnt2 == OfProto(2)
NatRt1 == OfProto(1)
Life2 == OfProto(2)
Life3 == OfProto(3)
=============================================================================
