SPECIFICATION FairSpec
CONSTANTS
    p1 = p1
    p2 = p2
    q1 = q1
    q2 = q2
    q3 = q3
    s1 = s1
    s2 = s2
    t1 = t1
    t2 = t2
    d1 = d1
    d2 = d2
    Pool <- MCPool
    Proto = {"tcp"}
    Tunnel <- MCTunnel1
    DynPort = {q1}
    StatPort = {}
    Src = {a}
    Dst <- MCDst1
    BuckSize <- BuckSize2
    MaxNatCnt <- NatCnt2
    MaxNatRt <- NatRt1
    RateMod = 2
    Lifetime <- Life3
    Closed = 1
    Echo = 2
    Retrans = 1
    Hold = 1
    MaxSkip = 1
    MaxTime = 6
INVARIANTS
    Anchored
    ClosedIsShort
PROPERTIES
    OnlyCloseShortens
    HeldIsFreed
    BindingExpires
