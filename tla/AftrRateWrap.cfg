SPECIFICATION RSpec
CONSTANTS
    p1 = p1
    p2 = p2
    q1 = q1
    q2 = q2
    q3 = q3
    s1 = s1
    s2 = s2
    t1 = t1
    t2 = t2
    d1 = d1
    d2 = d2
    Pool = {p1}
    Proto = {"udp"}
    Tunnel <- MCTunnel1
    DynPort <- MCDynPort3
    StatPort = {}
    Src <- MCSrc3
    Dst <- MCDst1
    BuckSize <- BuckSize2
    MaxNatCnt <- NatCnt3
    MaxNatRt <- NatRt2
    RateMod = 4
    Lifetime <- Life2
    Closed = 1
    Echo = 1
    Retrans = 1
    Hold = 1
    MaxSkip = 1
    MaxTime = 2
    a1 = a1
    a2 = a2
    a3 = a3
SYMMETRY SrcSymmetry
INVARIANTS
    RateKept
CONSTRAINTS
    MaxTries
