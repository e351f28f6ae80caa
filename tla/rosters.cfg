SPECIFICATION Spec
CONSTANTS
    a1 = a1
    a2 = a2
    a3 = a3
    a4 = a4
    t1 = t1
    NoAthlete = NoAthlete
    Athletes <- MCAthletes
    Teams <- MCOneTeam
    Slots = {0, 1}
    Roles = {1, 2}
    Role <- MCRole
    Competition <- MCCompetition
    Limit <- MCLimit
    MinCompetitions = 2
    TotalCredits = 2
    AiTeams <- MCOneTeam
    Prices = {2}
    ImportPrices = {1}
    RandomPrice = 1
    ReleasePercents = {50}
    AdminAmounts <- MCAdminAmounts
    AdminIds = {1}
    MaxRows = 2
    MaxEntries = 4
INVARIANTS
    TypeOK
    LedgerChain
    QuotaRespected
    ValidatedIsComplete
PROPERTIES
    ReleasePaysBack
    ConfirmedImportIsComplete
CHECK_DEADLOCK FALSE
SYMMETRY MCSymmetry
