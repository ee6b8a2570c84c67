CONSTANTS
    None = None
    Buys = {}
    Sells = {s1}
    BrowserIntents = {}
    Audits = {a1}
    Keys = {k1, k2}
    MaxAttempts = 3
    MaxSimulations = 2
    MaxCrashes = 1
SPECIFICATION LivenessSpec
CHECK_DEADLOCK FALSE
INVARIANT FailureIsTrue
PROPERTIES
    ReceiptsSettle
    LandedIsAccountedUnlessRestarted
