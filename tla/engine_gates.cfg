SPECIFICATION Spec
CONSTANTS
    StepId <- MCStepId
    Version <- MCVersion1
    Process <- MCTwoGates
    Path <- MCLinePath
    Value <- MCOne
    Inputs <- MCInputs
    MigrateTo <- MCNoVersion
    MeterVersions <- MCNoVersion
    MaxSteps = 9
    MaxCalls = 6
    StorageFaults = FALSE
    CallerRetries = FALSE
    Absent = Absent
    Scalar = Scalar
    None = None
CHECK_DEADLOCK FALSE
INVARIANTS
    AwaitedGateIsOpen
