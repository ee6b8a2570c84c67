CONSTANTS
    PilotAudits = {"b1", "b2", "b3"}
    SessionStop = 1
    DailyStop = 1
    FreezeAt = 2
    ConsecutiveStop = 2
    MaxWindows = 3
    MaxPolicies = 1
    MaxVersions = 2
    MaxPilotRestarts = 1
    MaxReviews = 2
    MaxDays = 1
    MaxReversals = 1
    AlertEvents = {"e1"}
    PushDevices = {"d1", "d2"}
    PushTokens = {"x1", "x2"}
    Deliverers = {"w1", "w2"}
    MaxAttempts = 2
    Candidates = {"c1", "c2"}
    ShadowAudits = {"q1", "q2"}
    Mints = {"m1", "m2"}
    Cap <- Subscriptions
    EntryWindow = 1
    TrackWindow = 2
    MaxClock = 2
    MaxObservations = 3
    MaxShadowVersions = 1
    MaxShadowCrashes = 1
    Revisions = {"v1", "v2"}
    Graders = {"g1", "g2"}
    MaxReviewAttempts = 2
    MaxPending = 1
    TokenBudget = 2
    MaxClaims = 3
    MaxClears = 1
SPECIFICATION Spec
CHECK_DEADLOCK FALSE
INVARIANTS BackendTypeOK PilotIsAccountable EvidenceIsSound
PROPERTIES PilotStops OutboxHolds QueueHolds
