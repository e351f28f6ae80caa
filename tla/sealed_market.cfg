SPECIFICATION SealedSpec
CONSTANTS
    a1 = a1
    a2 = a2
    a3 = a3
    t1 = t1
    t2 = t2
    NoAthlete = NoAthlete
    Roles = {1}
    Competition <- MCCompetition
    Limit <- MCLimit
    MinCompetitions = 1
    AiTeams = {}
    ImportPrices = {}
    RandomPrice = 0
    AdminIds = {1}
    MaxRows = 0
    Rosters <- MCHalfAssigned
    Teams <- MCTeams
    Athletes <- MCAthletes
    Role <- MCRole
    Slots = {0, 1}
    TotalCredits = 2
    Prices = {}
    ReleasePercents = {}
    AdminAmounts = {}
    MaxEntries = 3
    Kinds = {"initial", "waiver"}
    BidAmounts = {1, 2}
    MaxSessions = 1
    MaxTiebreaks = 1
    MaxBids = 4
    MaxWithdrawals = 1
INVARIANTS
    HighestBidWins
    WinnersCharged
PROPERTIES
    WinTradesAsBid
CHECK_DEADLOCK FALSE
