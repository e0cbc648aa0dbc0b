SPECIFICATION Spec
CONSTANTS
    NumMsg = 2
    Size <- MCSize4
    MaxChain = 6
INVARIANTS
    TypeOK
    Faithful
    Recovers
CHECK_DEADLOCK FALSE
