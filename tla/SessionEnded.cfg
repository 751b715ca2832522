\* A start overlaps a kill: the session comes back from the dead.
CONSTANTS
  s1 = s1
  c1 = c1
  c2 = c2
  b1 = b1
  Sessions = {s1}
  Calls = {c1, c2}
  Blocks = {b1}
  Ops = {"new", "resume", "kill"}
  NoSession = NoSession
  NoShell = NoShell
SPECIFICATION Spec
PROPERTIES EndedIsTerminal
CHECK_DEADLOCK FALSE  \* every session may have ended
