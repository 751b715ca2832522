\* Two sessions; a commit is made and dropped again.
CONSTANTS
  a = a
  b = b
  c = c
  Branches = {a, b}
  Conflicts <- MCConflicts
  Threshold = 2
  NoTrial = NoTrial
  NoBranch = NoBranch
  MaxEvents = 2
SPECIFICATION UndoSpec
PROPERTIES VerdictsSettle
CHECK_DEADLOCK FALSE  \* every session may have landed
