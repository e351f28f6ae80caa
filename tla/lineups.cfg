SPECIFICATION LineupsSpec
CONSTANTS
  d1 = d1
  d2 = d2
  d3 = d3
  d4 = d4
  a1 = a1
  a2 = a2
  early = early
  late = late
  None = None
  Athletes <- MCAthletes
  Role <- MCRole
  RoleOrder <- MCOrder
  Modules <- MCModules
  Quota <- MCQuota
  Score <- MCScore
  Available <- MCAvailable
  Fixtures = {early, late}
  FixtureOf <- MCFixtureOf
  FirstKickoff <- MCKickoff
  Kickoffs <- MCTimes
  Movable = {early}
  Rosters <- MCRosters
  Proposals <- MCProposals
  Drafts <- MCDrafts
  Previous <- MCPrevious
  Voted <- MCVoted
  StarterCount = 2
  BenchActive = 2
  MaxSubstitutions = 1
  MaxTacticalMoves = 1
  Margin = 0
  LastInstant = 2
  MaxRevisions = 3
INVARIANTS
  SubstitutionsSound
PROPERTIES
  SubmittedBeforeLock
  DraftBeforeLock
  BestRespectsLocks
CHECK_DEADLOCK FALSE
