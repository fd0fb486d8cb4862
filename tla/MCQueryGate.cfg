CONSTANTS
    h1 = h1
    h2 = h2
    acme = acme
    umbrella = umbrella
    Threads = {h1, h2}
    Tenants = {acme, umbrella}
    NoClaim = NoClaim
    AuthDisabled = FALSE
    Outages = TRUE
    Burst = 1
    Rpm = 45
    MaxClock = 2
SPECIFICATION GateSpec
SYMMETRY Symmetry
INVARIANT GateTypeOK
INVARIANT GrantsAccounted
INVARIANT BudgetInOrder
INVARIANT ServedIsPaid
INVARIANT OnlyActiveRuns
PROPERTY RetryAfterSuffices
