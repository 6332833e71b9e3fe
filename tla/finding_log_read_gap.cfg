CONSTANTS
    MaxBackups = 2
    MaxLines = 2
    Faults = {}
    MaxEvents = 5
    MaxFiles = 3
    Limits = {0, 1}
    Filters = {{1, 2, 3, 4, 5}}
SPECIFICATION Spec
INVARIANT
    ReadHasNoGaps
