CONSTANTS
    Kinds <- MCKinds
    Room = "room"
    Dids = {"nora", "ola", "nobody"}
    Accounts = {"nora", "ola"}
    Kept <- MCKept
    Attempts <- MCAttempts
    None = None
    Versions = {"first", "second"}
    MaxSessions = 2
    MaxReloads = 1
SPECIFICATION FairSpec
INVARIANTS TypeOK StoredIsHeldOrMarked NoFetchIsStranded
PROPERTIES FetchingEnds
CHECK_DEADLOCK FALSE
