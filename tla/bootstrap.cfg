CONSTANTS
    MaxProcs = 3
    Budgets <- MCBudgets
SPECIFICATION Spec
INVARIANTS
    BootTypeOK
    PublishedIsOwnChild
    LeftoverFailsOneStart
PROPERTIES
    ServersKeepGate
    OperationsSettle
