CONSTANTS
    u1 = u1
    u2 = u2
    acme = acme
    umbrella = umbrella
    manual = manual
    blank = blank
    Uploaders = {u1, u2}
    Tenants = {acme, umbrella}
    Files = {manual, blank}
    Sections <- MCSections
    ChunkSize = 3
    ChunkOverlap = 1
    Deletions = TRUE
    Outages = TRUE
    MaxDocuments = 3
SPECIFICATION Spec
SYMMETRY Symmetry
INVARIANT TypeOK
INVARIANT ReceiptIsComplete
INVARIANT ListedCountsHold
INVARIANT OneDocumentPerFile
