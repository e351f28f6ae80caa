SPECIFICATION TurnsSpec
CONSTANTS
  f1 = f1
  f2 = f2
  f3 = f3
  None = None
  Fixtures <- MCFixtures
  Squads <- MCSquads
  FirstKickoffs <- MCKickoffs
  Kickoffs <- MCTimes
  Movable = {f3}
  Size <- MCSize
  Windows = 3
  WindowLength = 1
  MinFixtures = 2
  Coverage = 1
  Horizon = 2
  LastInstant = 2
  Created = 0
  MaxMoves = 1
  MaxOperations = 1
INVARIANTS
  NumbersFollowWindows
  FixtureInOneTurn

  
  
CHECK_DEADLOCK FALSE
