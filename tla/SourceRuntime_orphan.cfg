SPECIFICATION FairSpec
CONSTANTS
    t1 = t1
    t2 = t2
    t3 = t3
    kA = kA
    kB = kB
    c1 = c1
    Slots <- LaunchFeed
    Tasks = {t1, t2, t3}
    Settings = {kA}
    Clients = {c1}
    BotLoop = BotLoop
    None = None
    MaxQueue = 0
PROPERTY StopStopsSources
CHECK_DEADLOCK FALSE
