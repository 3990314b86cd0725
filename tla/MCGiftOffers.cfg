SPECIFICATION FairSpec
CONSTANTS
    g = g
    h = h
    r = r
    gina = gina
    hugo = hugo
    rosa = rosa
    Nobody = Nobody
    NoOffer = NoOffer
    Clients <- MCClients
    Accounts <- MCAccounts
    SignsInAs <- MCSignsInAs
    GivesTo <- MCGivesTo
    Mutes <- MCMutes
    LogsOut = {}
    Items = {"thing", "world"}
    DialogTTL = 3
    PendingTTL = 6
    AnswerMargin = 3
    MaxDelay = 1
    Sleepy = FALSE
    Lossy = FALSE
    MaxNow = 6
    MaxOffers = 1
    MaxConn = 0
INVARIANTS
    TypeOK
    OneOfferAtATime
    
    OutcomesAgree
PROPERTIES
    GateReopens
CHECK_DEADLOCK FALSE
