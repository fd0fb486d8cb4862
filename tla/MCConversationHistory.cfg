CONSTANTS
    w1 = w1
    w2 = w2
    acme = acme
    umbrella = umbrella
    None = None
    Workers = {w1, w2}
    Tenants = {acme}
    Channels = {"sync", "stream"}
    CorrectionLoop = TRUE
    FeedbackCapture = TRUE
    PageLimit = 1
    Outages = TRUE
    MaxSessions = 1
    MaxTurns = 2
SPECIFICATION FairHistorySpec
INVARIANT ContextSeesPriorTurns
INVARIANT ForksOnlyByOverlap
INVARIANT CorrectionsAreMined
PROPERTY EveryRequestAnswered
