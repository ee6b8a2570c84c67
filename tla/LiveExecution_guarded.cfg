CONSTANTS
    None = None
    Buys = {}
    Sells = {s1}
    BrowserIntents = {}
    Audits = {a1, a2}
    Keys = {k1, k2}
    MaxAttempts = 1
    MaxSimulations = 2
    MaxCrashes = 1
SPECIFICATION GuardedSpec
SYMMETRY Symmetry
CHECK_DEADLOCK FALSE
INVARIANTS
    DispatchedAtMostOnce
    ExecutesReviewedQuote
    NoFalseSuccess
PROPERTIES
    TerminalReceiptIsFinal
    ImplementsGuardedDispatch
