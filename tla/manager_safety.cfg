CONSTANTS
    Workers = {w1, w2}
    Monitor = mon
    None = none
    MaxStarts = 3
    MaxEpoch = 2
    StopFaults = FALSE
SPECIFICATION Spec
SYMMETRY Symmetry
INVARIANTS
    TypeOK
    HealthyIsTrusted
    PoisonedNotReused
    SingleProcess
    StoppedIsClean
    ClosedIsClean
    NoTokenWhilePublished
    NoReplyFromReplaced
PROPERTIES
    NoStartAfterClose
    ImplementsTrustedGeneration
