\* Three sessions that are landed or removed, a commit on a branch or the base, a restart.
CONSTANTS
  a = a
  b = b
  c = c
  Branches = {a, b, c}
  Conflicts <- MCConflicts
  Threshold = 2
  NoTrial = NoTrial
  NoBranch = NoBranch
  MaxEvents = 1
SPECIFICATION MCSpec
INVARIANTS TestSeesItsMerge
PROPERTIES VerdictsSettle LandEnds
CHECK_DEADLOCK FALSE  \* every session may have landed
