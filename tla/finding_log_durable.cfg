CONSTANTS
    MaxBackups = 2
    MaxLines = 2
    Faults = {"io", "crash", "close"}
    MaxEvents = 7
    MaxFiles = 4
SPECIFICATION LogSpec
INVARIANT
    AcknowledgedIsReadable
