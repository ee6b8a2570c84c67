CONSTANTS
    MaxWrites = 1
    MaxFaults = 3
    MaxStops = 1
    Launched = 3
    Caps = {1, 2}
    Backlog = 2
    MaxChoices = 3
    MaxCuts = 2
    MaxMisses = 1
    MaxFeedRestarts = 1
    StrategyCandidates = {"k1", "k2"}
    Intents = {"i1", "i2"}
    Trials <- TrialOutcomes
    FailureWindows = 3
    RecoveryWindows = 3
    MaxSettings = 2
    MaxRestarts = 1
    HealthRequests = {"h1", "h2"}
    MaxProbes = 3
    Logins = {"l1", "l2"}
    Exits = {"x1"}
    MaxStoreFaults = 3
    MaxKills = 1
    MaxPairings = 2
    MaxRealtimeClients = 2
    MaxWires = 2
    MaxSequence = 4
    MaxTroubles = 2
SPECIFICATION Spec
CHECK_DEADLOCK FALSE
INVARIANTS OperationsTypeOK ProbesAreSound RealtimeIsSound
PROPERTIES RestoreHolds FeedHolds SelectionHolds AssessmentHolds SessionIsDurable
