SPECIFICATION LiveSpec
CONSTANTS
    a1 = a1
    a2 = a2
    t1 = t1
    t2 = t2
    NoAthlete = NoAthlete
    NoTeam = NoTeam
    Admin = Admin
    Athletes <- MCAthletes
    Teams <- MCTeams
    Slots = {0}
    Roles = {1}
    Role <- MCRole
    Competition <- MCCompetition
    Limit <- MCLimit
    MinCompetitions = 1
    AiTeams = {}
    ImportPrices = {}
    RandomPrice = 0
    AdminIds = {1}
    MaxRows = 0
    TotalCredits = 2
    Prices = {}
    ReleasePercents = {}
    AdminAmounts = {}
    MaxEntries = 5
    Modes = {"manual"}
    RaiseAmounts = {1, 2}
    MinIncrement = 1
    Duration = 1
    Soft = 2
    MaxLots = 3
    MaxLate = 1
INVARIANTS
    SoldIsCharged
PROPERTIES
    SaleSettles
    LotsFollowAuction
SYMMETRY MCSymmetry
CHECK_DEADLOCK FALSE
