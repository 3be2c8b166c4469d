SPECIFICATION FairSpec
CONSTANTS
    p1 = p1
    p2 = p2
    None = None
    Procs <- OneProc
    Reconnects = 3
    CaseRetries = 3
    MaxFaults = 6
INVARIANTS
    OutcomeHonest
PROPERTY
    CommissionEnds
