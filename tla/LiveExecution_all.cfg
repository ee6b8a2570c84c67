CONSTANTS
    None = None
    Buys = {}
    Sells = {s1}
    BrowserIntents = {}
    Audits = {a1}
    Keys = {k1}
    MaxAttempts = 1
    MaxSimulations = 1
    MaxCrashes = 0
SPECIFICATION Spec
CHECK_DEADLOCK FALSE
INVARIANTS
    IndInv
    SellReachesSigner
