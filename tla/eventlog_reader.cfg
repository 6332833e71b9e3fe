CONSTANTS
    MaxBackups = 2
    MaxLines = 2
    Faults = {"crash"}
    MaxEvents = 5
    MaxFiles = 3
    Limits = {0, 1}
    Filters = {{1, 2, 3, 5}}
SPECIFICATION Spec
INVARIANTS
    TypeOK
    ReadInOrder
    QuietReadIsComplete
