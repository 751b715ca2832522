\* session.start on a running session, then a start of another one.
CONSTANTS
  s1 = s1
  s2 = s2
  c1 = c1
  c2 = c2
  b1 = b1
  b2 = b2
  Sessions = {s1, s2}
  Calls = {c1, c2}
  Blocks = {b1, b2}
  Ops = {"new", "start", "stop"}
  NoSession = NoSession
  NoShell = NoShell
SPECIFICATION Spec
INVARIANTS BlocksNotShared
CHECK_DEADLOCK FALSE  \* a creation that failed half way keeps its branch name taken
