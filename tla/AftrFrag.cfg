SPECIFICATION Spec
CONSTANTS
    t1 = t1
    Tunnel = {t1}
    NoTunnel = NoTunnel
    NoPacket = NoPacket
    Packet <- MCPacket
    FragMax <- MCFragMax
    FragTnMax <- MCFragTnMax
    Lifetime = 1
    MaxLen = 2
    Fragment <- MCFragment
    HashSize <- MCHashSize
    MaxSkip = 1
INVARIANTS
    TypeOK
    CacheIsLive
    CountsHold
    RebuiltIsPacket
    NoneLeftWhole
PROPERTIES
    ImplementsReassembly
