SPECIFICATION FairLiveSpec
CONSTANTS
    a1 = a1
    a2 = a2
    t1 = t1
    t2 = t2
    NoAthlete = NoAthlete
    NoTeam = NoTeam
    Admin = Admin
    Athletes <- MCAthletes
    Teams <- MCTeams
    Slots = {0}
    Roles = {1}
    Role <- MCRole
    Competition <- MCCompetition
    Limit <- MCLimit
    MinCompetitions = 1
    AiTeams = {}
    ImportPrices = {}
    RandomPrice = 0
    AdminIds = {1}
    MaxRows = 0
    TotalCredits = 2
    Prices = {}
    ReleasePercents = {50}
    AdminAmounts <- MCAdminAmounts
    MaxEntries = 7
    Modes = {"manual", "sequential", "generated", "turn_based"}
    RaiseAmounts = {1}
    MinIncrement = 1
    Duration = 1
    Soft = 1
    MaxLots = 2
    MaxLate = 1
PROPERTIES
    ListKept
    
CHECK_DEADLOCK FALSE
