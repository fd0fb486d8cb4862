CONSTANTS
    acme = acme
    umbrella = umbrella
    r1 = r1
    r2 = r2
    u1 = u1
    Tenants = {acme, umbrella}
    Readers = {r1, r2}
    Writers = {u1}
    WriteKinds = {"promote", "approve", "decay"}
    MaxTenants = 1
    TTL = 2
    MaxLoad = 1
    MaxWrites <- MCMaxWrites
    Outages = TRUE
SPECIFICATION FleetSpec
SYMMETRY Symmetry
INVARIANT FleetTypeOK
INVARIANT CacheBounded
INVARIANT StaleOnlyIfExcused
INVARIANT TTLBoundsStaleness
