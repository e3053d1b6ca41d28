SPECIFICATION FairSpec
CONSTANTS
  Setups = {s1, s2}
  Trackers = {1, 2}
  MaxSetup = 2
  MaxTrackers = 1
  MaxSent = 3
  MaxFaults = 1
  MaxReplies = 1
INVARIANTS
  ActionsRunAtMostOnce
  SetupBeforeActions
  PoseFollowsItsIdentity
PROPERTIES
  NothingStaleIsPassedOn
  Reattaches
CHECK_DEADLOCK FALSE
