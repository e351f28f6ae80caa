SPECIFICATION TradesSpec
CONSTANTS
    a1 = a1
    a2 = a2
    a3 = a3
    t1 = t1
    t2 = t2
    NoAthlete = NoAthlete
    Athletes <- MCAthletes
    Teams <- MCTeams
    Slots = {0, 1}
    Roles = {1, 2}
    Role <- MCRole
    Competition <- MCCompetition
    Limit <- MCLimit
    MinCompetitions = 1
    AiTeams = {}
    ImportPrices = {}
    RandomPrice = 0
    AdminIds = {1}
    MaxRows = 0
    TotalCredits = 2
    Prices = {0}
    ReleasePercents = {}
    AdminAmounts <- MCAdminAmounts
    MaxEntries = 4
    Offers <- MCOffers
    Deadlines = {"ahead"}
    ApprovalModes = {TRUE, FALSE}
    ActiveLimit = 1
    MaxProposals = 2
INVARIANTS
    OneOwner
    CreditsFollowTrades
PROPERTIES
    TradesAsProposed
SYMMETRY MCSymmetry
CHECK_DEADLOCK FALSE
