SPECIFICATION PatientSpec
CONSTANTS
    t1 = t1
    t2 = t2
    t3 = t3
    kA = kA
    kB = kB
    c1 = c1
    Slots <- BothFeeds
    Tasks = {t1, t2, t3}
    Settings = {kA, kB}
    Clients = {c1}
    BotLoop = BotLoop
    None = None
    MaxQueue = 1
SYMMETRY Symmetry
INVARIANTS SourcesAreHeld NoFailureIsLost
CHECK_DEADLOCK FALSE
