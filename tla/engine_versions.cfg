SPECIFICATION FairSpec
CONSTANTS
    StepId <- MCStepId
    Version <- MCVersion5
    Process <- MCVersions
    Path <- MCVersionsPath
    Value <- MCLeaves
    Inputs <- MCInputs
    MigrateTo <- MCVersion2
    MeterVersions <- MCNoVersion
    MaxSteps = 6
    MaxCalls = 5
    StorageFaults = TRUE
    CallerRetries = FALSE
    Absent = Absent
    Scalar = Scalar
    None = None
CHECK_DEADLOCK FALSE
INVARIANTS
    TypeOK
    VersionPinned
PROPERTIES
    RunReturns
