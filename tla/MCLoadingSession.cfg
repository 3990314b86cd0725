CONSTANTS
    Kinds <- MCKinds
    Room = "room"
    Dids = {"nora", "ola", "nobody"}
    Accounts = {"nora", "ola"}
    Kept <- MCKept
    Attempts <- MCAttempts
    None = None
    Versions = {"first", "second"}
    MaxSessions = 2
    MaxReloads = 1
SPECIFICATION Spec
INVARIANT OwnRecords
CHECK_DEADLOCK FALSE
