SPECIFICATION Spec
CONSTANTS
    Tool = {"write", "deploy"}
    External = {"deploy"}
    MaxSent = 2
    MaxAsks = 2
    MaxLines = 5
    Size <- MCSize
    KEEP_RECENT_ENTRIES = 2
    Trigger = 4
    RESUME_DEPTH = 5
    Preset <- MCPreset
    Model = {"m", "n", "sk"}
    Refused = {"sk"}
    Locale = {"en"}
    MaxDialogs = 2
    Explicit = {"kimi"}
    Installer = {i, j}
    Name = {"x"}
    Package <- MCPackage
    Needs <- MCNeeds
    Reviewer = {"r"}
    MaxInstalls = 2
    Process = {c, d}
    Provider = {p, q}
    LIFETIME = 2
    SKEW = 1
    MaxTime = 3
    MaxIssues = 2
    Prompt = {e}
    MaxSessions = 1
    MaxEvents = 2
    MaxInstances = 2
    Request <- MCRequest
    MaxMcpLines = 2
    Called = {"files.read", "files.write", "crm", "mail", "echo", "nobody"}
    BuiltinTool <- MCBuiltinTool
    Stub <- MCStub
    Manifest <- MCManifest
    McpServers <- MCServers
    MaxCalls = 2
SYMMETRY Symmetry
CHECK_DEADLOCK FALSE
INVARIANTS
    DialogueIsKept
    SetIsKept
    ServedIsTrue
