\* Three clients start daemons over crash debris or an empty path; daemons die, are
\* stopped, and the socket file is deleted once.
CONSTANTS
  d1 = d1
  d2 = d2
  d3 = d3
  Daemons = {d1, d2, d3}
  Nothing = Nothing
  Debris = Debris
  MaxRemovals = 1
SPECIFICATION Spec
INVARIANTS ExitLeavesNothing
PROPERTIES StampedeServes OrphansEnd LosersConnect
CHECK_DEADLOCK FALSE  \* every daemon may have exited
