SPECIFICATION Spec
CONSTANTS
    p1 = p1
    p2 = p2
    q1 = q1
    q2 = q2
    q3 = q3
    s1 = s1
    s2 = s2
    t1 = t1
    t2 = t2
    d1 = d1
    d2 = d2
    Pool = {p1, p2}
    Proto = {"udp"}
    Tunnel <- MCTunnel
    DynPort = {q1}
    StatPort = {s1}
    Src = {a}
    Dst <- MCDst1
    BuckSize <- BuckSize1
    MaxNatCnt <- NatCnt2
    MaxNatRt <- NatRt1
    RateMod = 2
    Lifetime <- Life2
    Closed = 1
    Echo = 1
    Retrans = 1
    Hold = 1
    MaxSkip = 1
    MaxTime = 2
SYMMETRY PortSymmetry

INVARIANTS
    FoundByWild
