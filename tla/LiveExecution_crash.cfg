CONSTANTS
    None = None
    Buys = {}
    Sells = {s1}
    BrowserIntents = {}
    Audits = {a1}
    Keys = {k1}
    MaxAttempts = 2
    MaxSimulations = 1
    MaxCrashes = 1
SPECIFICATION LivenessSpec
CHECK_DEADLOCK FALSE
PROPERTY LandedIsAccounted
