CONSTANTS
    a1 = a1
    a2 = a2
    speed = speed
    wrong = wrong
    s1 = s1
    s2 = s2
    Questions = {speed, wrong}
    Complaints = {wrong}
    SQLs = {s1, s2}
    Actors = {a1, a2}
    Operations = {"mine", "approve", "reject", "batch"}
    PageLimit = 2
    Outages = TRUE
    MaxRows = 2
SPECIFICATION Spec
SYMMETRY Symmetry
INVARIANT TypeOK
INVARIANT ApprovedRowsAreTaught
INVARIANT ProvenanceIsExact
INVARIANT RejectedIsNeverTaught
