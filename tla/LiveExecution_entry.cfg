CONSTANTS
    None = None
    Buys = {b1}
    Sells = {}
    BrowserIntents = {}
    Audits = {a1}
    Keys = {k1}
    MaxAttempts = 1
    MaxSimulations = 1
    MaxCrashes = 0
SPECIFICATION GuardedSpec
CHECK_DEADLOCK FALSE
INVARIANT ClaimReachesSigner
