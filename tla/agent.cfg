SPECIFICATION Spec
CONSTANTS
    Action <- MCAction
    Policy <- MCPolicy
    Granted = {"write"}
    Rego <- MCRego
    MaxTurns = 4
    ToolPolicies <- MCPolicy
    Stubs = {"read"}
    Budget <- MCBudget
    Global <- MCGlobal
    Project <- MCProject
    Tool <- MCTool
    Builtin <- MCBuiltin
    MaxTime = 2
    Caller = {c1, c2}
    Entry <- MCEntry
    Config <- MCConfig
    MaxNow = 1
    MaxFailures = 2
    Command <- MCCommand
    Wrapper <- MCWrapper
    MaxMixed = 3
    MaxWrap = 9
    Root <- MCRoot
    Dirs <- MCDirs
    LinkAt <- MCLinkAt
    Component <- MCComponent
    MaxPath = 3
    Setting <- MCSetting
    Port = {80, 443}
    MaxForks = 2
    Host <- MCHost
    DecisionList <- MCDecisionList
    Question <- MCQuestion
    Body <- MCBody
    Remote <- MCRemote
    ModelId = {m1, m2}
    Completion <- MCCompletion
    Wording = {t1, t2}
    Worker = {w1, w2}
    MaxCalls = 2
    SEARCH_HOST <- MCSearchHost
    FactId = {1, 2, 3}
    Size = {0, 2}
    Score <- MCScore
    Matching = {1, 3}
    Page = 1
    HitLimit = {1, 3}
    MaxWrites = 3
SYMMETRY Symmetry
CHECK_DEADLOCK FALSE
INVARIANTS
    RightTurns
    AnswersRight
    BoundedSubagents
    RightModelCalls
    
    OutwardIsTrue
