SPECIFICATION Spec
CONSTANTS
    StepId <- MCStepId
    Version <- MCVersion3
    Process <- MCTriage
    Path <- MCTriagePath
    Value <- MCNumbers
    Inputs <- MCInputs
    MigrateTo <- MCNoVersion
    MeterVersions <- MCNoVersion
    MaxSteps = 9
    MaxCalls = 5
    StorageFaults = TRUE
    CallerRetries = FALSE
    Absent = Absent
    Scalar = Scalar
    None = None
CHECK_DEADLOCK FALSE
INVARIANTS
    LiveIsFold
    SnapshotIsFold
    BlockIsDurable
    AwaitedGateIsOpen
    BarrierHolds
    AppliedOnce
PROPERTIES
    GatePassedByAnswer
    Implements
