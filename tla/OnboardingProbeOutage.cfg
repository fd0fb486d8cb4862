CONSTANTS
    m1 = m1
    m2 = m2
    rpm = rpm
    oil = oil
    speed = speed
    temperature = temperature
    NoKey = NoKey
    Keys = {rpm, oil}
    Aliases = {speed, temperature}
    Admins = {m1}
    Outages = TRUE
    MaxCandidates = 1
SPECIFICATION Spec
INVARIANT OutageIsTyped
