SPECIFICATION NotificationsSpec
CONSTANTS
  Users = {u1, u2}
  Muted = {}
  Pushable = {u1, u2}
  Broadcasts = {b1, b2}
  Reminder = reminder
  Workers = {w1, w2}
  MaxCrashes = 1
  MaxFailures = 1
INVARIANTS
  SentReachesAll
  PushedOncePerRow
PROPERTIES
  CancelledIsQuiet
  DueIsSettled
CHECK_DEADLOCK FALSE
