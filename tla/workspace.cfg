SPECIFICATION Spec
CONSTANTS
    Session = {s1, s2}
    File = {f1}
    Text = {a, b}
    MaxVersion = 2
    MaxMail = 2
    MaxMs = 1
    Importer = {i1, i2}
    Names <- MCNames
    MaxEvents = 2
    MaxSuffix = 3
    MaxImports = 2
    Process = {1, 2}
    Path = {fa, fb}
    Content = {1, 2, 3}
    Edit <- MCEdit
    TooBig = {3}
    Keep = 1
    MaxSecond = 2
    Writer = {w1, w2}
    Ids = {"", "t1", "t2"}
    Status = {"doing", "pending", "in_progress"}
    MaxItems = 2
    MaxLength = 3
    MaxProcs = 2
    Cap = 2
    MaxIds = 3
    MaxOut = 3
    Saver = {v1, v2}
    Topic = {t1, t2}
    Object = {"a", "b", "key", "masked"}
    Mask <- MCMask
    Near <- MCNear
    MaxSaves = 3
    MaxConsolidations = 2
    NodeType <- MCNodeType
    EdgeType <- MCEdgeType
    Ident = {"b1", "b2"}
    Alike <- MCAlike
    MaxNodes = 3
    MaxEdges = 2
    Budget = 10
    MARK = 2
    RulesSize = 2
    Sizes = {0, 2, 5, 9}
    StateSizes = {1, 6, 7, 8, 9, 15}
    RuleSizes = {3}
    Node = {"n1", "n2", "n3"}
    Edge <- MCEdge
SYMMETRY Symmetry
CHECK_DEADLOCK FALSE
INVARIANTS
    SessionsAreTold
    DiskIsKept
    MemoryIsSound
