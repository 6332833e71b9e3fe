CONSTANTS
    Workers = {w1, w2}
    Monitor = mon
    None = none
    MaxStarts = 2
    MaxEpoch = 2
    StopFaults = FALSE
SPECIFICATION Spec
INVARIANT
    AcceptedIsTrusted
