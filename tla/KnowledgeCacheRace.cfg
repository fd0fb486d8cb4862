CONSTANTS
    acme = acme
    r1 = r1
    u1 = u1
    Tenants = {acme}
    Readers = {r1}
    Writers = {u1}
    WriteKinds = {"promote", "approve"}
    MaxTenants = 1
    TTL = 2
    MaxWrites <- MCMaxWrites
    Outages = FALSE
SPECIFICATION Spec
INVARIANT WritesVisible
