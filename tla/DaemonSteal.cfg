\* Two daemons start over crash debris.
CONSTANTS
  d1 = d1
  d2 = d2
  Daemons = {d1, d2}
  Nothing = Nothing
  Debris = Debris
  MaxRemovals = 0
SPECIFICATION Spec
PROPERTIES NeverStolen
CHECK_DEADLOCK FALSE  \* every daemon may have exited
