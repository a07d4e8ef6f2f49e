SPECIFICATION DaemonSpec
CONSTANTS
    alice = alice
    bob = bob
    Actor <- MCActor
    Envelope <- MCLetters
    Allowed <- MCAllowed
    Capacity = 1
    MaxPublish = 2
    MaxCrash = 1
    MaxFreeze = 1
    MaxFailed = 1
    NoEnvelope = NoEnvelope
    Proc = {p, q}
    N = 4
    Gates = {3}
    MaxRuns = 4
    MaxKills = 2
    NoProc = NoProc
    t1 = t1
    t2 = t2
    t3 = t3
    Task <- MCThree
    MaxAttempts = 2
    Limit = 1
    NoLimit = NoLimit
    MaxReports = 3
    every = every
    single = single
    runner = runner
    daemon = daemon
    Schedule <- MCSchedule
    Rows <- MCRows
    Once = Once
    Gated <- MCGated
    Daemon <- MCDaemons
    Horizon = 3
    MaxSubmit = 2
    MaxDeath = 1
    MaxSetBack = 1
    NoRow = NoRow
CHECK_DEADLOCK FALSE
INVARIANTS
    ConfirmedOnceHandled
    FreezeStopsActors
    QueueIsEscalated
    OneDriver
    NoStepSkipped
    FinishedIsComplete
    SchedulesAreKept
PROPERTIES
    EveryEnvelopeHandled
    QueueIsTheHumans
    LeaseIsFreed
    DueIsRun
