CONSTANTS
    m1 = m1
    m2 = m2
    rpm = rpm
    oil = oil
    speed = speed
    temperature = temperature
    NoKey = NoKey
    Keys = {rpm, oil}
    Aliases = {speed, temperature}
    Admins = {m1, m2}
    Outages = TRUE
    MaxCandidates = 3
SPECIFICATION Spec
SYMMETRY Symmetry
INVARIANT TypeOK
INVARIANT AliasesAreRegistered
INVARIANT ApprovedIsKnown
