SPECIFICATION Spec
CONSTANTS
  Places = {7, 9}
  Strap <- MCStrap
  DriftRate = 1
  Elsewhere = {5}
  Poses <- MCPoses
  Unclear = {1}
  Ease = 2
  MaxTime = 3
  MaxResets = 3
INVARIANTS
  HeadingFollowsReset
  BendsShow
  DriftIsCancelled
