SPECIFICATION Spec
CONSTANTS
    e1 = e1
    e2 = e2
    Entry <- MCEntry1
    NoNat = {n1}
    FirstGen = 4
    Attempts = 4
    Quantum = 2
    BtQuantum = 1
    MaxSess = 3
    MaxGen = 6
    MaxLines = 2
    Latecomers = FALSE
    Batched = TRUE
INVARIANTS
    FlushedAtClose
