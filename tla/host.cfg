SPECIFICATION Spec
CONSTANTS
    N = 2
    Admins = {a1}
    MaxGen <- MCMaxGen
INVARIANTS
    TypeOK
    ExitLeavesNothing
    StartAllOrNothing
    AnswerNotOlder
PROPERTIES
    ManagersKeepTrust
    ShutdownCompletes
