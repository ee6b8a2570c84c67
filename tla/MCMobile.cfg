CONSTANTS
    Authorizations = {"a1", "a2"}
    TreasuryKeys = {"k1", "k2"}
    AutoSweeps = {"s1"}
    TreasuryKinds = {"withdrawal", "profit_sweep", "rent_recovery"}
    Amounts = {1, 2}
    StartBalance = 6
    SweepReserve = 2
    SweepAmount = 1
    MaxSweepsPerDay = 1
    Fee = 1
    Rent = 1
    MaxTreasuryCrashes = 1
    Pairings = {"p1", "p2"}
    Phones = {"d1", "d2"}
    Tickets = {"t1", "t2"}
    Sockets = {"w1", "w2"}
    ApiCalls = {"r1"}
    MaxFailedAttempts = 1
    MaxTickets = 1
    MaxSessionRestarts = 1
SPECIFICATION Spec
CHECK_DEADLOCK FALSE
INVARIANTS MobileTypeOK CredentialsAdmitOnce
PROPERTIES TreasuryWithinLimits ImplementsPaidTransfer TransferSettles RevocationHolds
