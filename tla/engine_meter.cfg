SPECIFICATION Spec
CONSTANTS
    StepId <- MCStepId
    Version <- MCVersion2
    Process <- MCExtended
    Path <- MCLinePath
    Value <- MCOne
    Inputs <- MCInputs
    MigrateTo <- MCNoVersion
    MeterVersions <- MCMetered
    MaxSteps = 9
    MaxCalls = 6
    StorageFaults = FALSE
    CallerRetries = FALSE
    Absent = Absent
    Scalar = Scalar
    None = None
CHECK_DEADLOCK FALSE
INVARIANTS
    VersionPinned
