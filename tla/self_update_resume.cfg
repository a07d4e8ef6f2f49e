SPECIFICATION Spec
CONSTANTS
    Updater = {p1, p2}
    MaxKills = 1
    MaxOperator = 1
    MaxBreaks = 1
    MaxFaults = 2
SYMMETRY Symmetry
CHECK_DEADLOCK FALSE
INVARIANT
    UpdateSomethingAlwaysRuns
