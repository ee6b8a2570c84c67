CONSTANTS
    None = None
    Buys = {b1}
    Sells = {s1}
    BrowserIntents = {s1}
    Audits = {a1, a2}
    Keys = {k1}
    MaxAttempts = 1
    MaxSimulations = 0
    MaxCrashes = 0
SPECIFICATION UnguardedSpec
SYMMETRY Symmetry
CHECK_DEADLOCK FALSE
INVARIANT FilledOnceAndOnlyIfLanded
PROPERTY EntryGateHolds
