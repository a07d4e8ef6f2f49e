SPECIFICATION Spec
CONSTANTS
    StepId <- MCStepId
    Version <- MCVersion2
    Process <- MCReplaced
    Path <- MCLinePath
    Value <- MCOne
    Inputs <- MCInputs
    MigrateTo <- MCVersion2
    MeterVersions <- MCNoVersion
    MaxSteps = 9
    MaxCalls = 4
    StorageFaults = FALSE
    CallerRetries = FALSE
    Absent = Absent
    Scalar = Scalar
    None = None
CHECK_DEADLOCK FALSE
INVARIANTS
    CurrentStepExists
