SPECIFICATION LeaseSpec
CONSTANTS
    Proc = {p, q}
    N = 4
    Gates = {3}
    MaxRuns = 2
    MaxKills = 2
    NoProc = NoProc
CHECK_DEADLOCK FALSE
INVARIANTS
    AppliedOnce
