CONSTANTS
    Workers = {w1}
    Monitor = mon
    None = none
    MaxStarts = 2
    MaxEpoch = 2
    StopFaults = TRUE
SPECIFICATION FairSpec
INVARIANTS
    ClosedIsClean
PROPERTIES
    CallsReturn
    MonitorRecovers
    MonitorStops
