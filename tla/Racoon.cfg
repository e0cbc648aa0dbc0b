CONSTANTS
    p1 = p1
    p2 = p2
    h1 = h1
    Ph1 = {p1, p2}
    Ph2 = {h1}
    NoPh1 = NoPh1
    s1 = s1
    Spid = {s1}
    InSpid = InSpid
    RetryCounter = 2
    RetryCheckph1 = 1
    DpdMaxfails = 2
    Rekey = "on"
    MaxOut = 2
    DumpFails = TRUE
    Fragments = TRUE
    WeakPhase1Check = TRUE
SPECIFICATION FairSpec
INVARIANTS TypeOK BackPointers EveryHandleTimed DpdHonest
PROPERTIES SurvivesRekey Ph1HandlesEnd Ph2NegotiationsEnd
CHECK_DEADLOCK FALSE
