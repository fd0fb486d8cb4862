CONSTANTS
    w1 = w1
    w2 = w2
    acme = acme
    umbrella = umbrella
    None = None
    Workers = {w1, w2}
    Tenants = {acme, umbrella}
    Channels = {"sync"}
    CorrectionLoop = TRUE
    FeedbackCapture = TRUE
    PageLimit = 2
    Outages = TRUE
    MaxSessions = 2
    MaxTurns = 3
SPECIFICATION Spec
SYMMETRY Symmetry
INVARIANT TypeOK
INVARIANT LineageInSession
INVARIANT CorrectionsAreFinal
INVARIANT TenantIsolation
INVARIANT MinedFromLineage
INVARIANT ReceiptIsOwn
PROPERTY ImplementsLog
