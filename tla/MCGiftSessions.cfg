SPECIFICATION FairSpec
CONSTANTS
    g = g
    r = r
    gina = gina
    rosa = rosa
    otto = otto
    Nobody = Nobody
    NoOffer = NoOffer
    Clients <- MCClients
    Accounts <- MCAccounts
    SignsInAs <- MCSignsInAs
    GivesTo <- MCGivesTo
    Mutes = {}
    LogsOut = {g,r}
    Items = {"thing","world","unreadable"}
    DialogTTL = 1
    PendingTTL = 2
    AnswerMargin = 1
    MaxDelay = 1
    Sleepy = TRUE
    Lossy = TRUE
    MaxNow = 2
    MaxOffers = 1
    MaxConn = 1
INVARIANTS
    OnePlace
    AcceptedMeansLanded
PROPERTIES
    AnsweredOnce
    OffersResolve
CHECK_DEADLOCK FALSE
