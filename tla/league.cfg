SPECIFICATION LeagueSpec
CONSTANTS
  o = o
  a = a
  p = p
  r1 = r1
  r2 = r2
  None = None
  Users <- MCUsers
  Owner = o
  Robots <- MCRobots
  MinParticipants = 2
  Counts <- MCCounts
  FirstCount = 2
  Invites <- MCInvites
  Requests <- MCRequests
  MaxRequests = 6
SYMMETRY MCSymmetry
CHECK_DEADLOCK FALSE
INVARIANTS AdminRemains AcceptedIsMember
PROPERTIES SeasonStartsReady JoinsFit
