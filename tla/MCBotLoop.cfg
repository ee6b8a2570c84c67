CONSTANTS
    t1 = t1
    t2 = t2
    kA = kA
    kB = kB
    c1 = c1
    Slots <- LaunchFeed
    Tasks = {t1, t2}
    Settings = {kA, kB}
    Clients = {c1}
    BotLoop = BotLoop
    None = None
    MaxQueue = 1
    Launches = 3
    DequeSize = 2
    MaxPositions = 1
    MaxTicks = 2
    HoldTicks = 2
    FillDelay = 1
    MaxPaperFaults = 1
SPECIFICATION LoopSpec
CHECK_DEADLOCK FALSE
INVARIANT BotLoopTypeOK
PROPERTIES PositionsAreSound StopStopsSources SourceComesUp BotLoopComesRound EveryPositionEnds
