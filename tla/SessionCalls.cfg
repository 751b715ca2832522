\* Every operation on one session, two calls in flight, is every call answered; and two
\* sessions that are created, resumed, stopped and killed, three calls in flight.
CONSTANTS
  s1 = s1
  s2 = s2
  c1 = c1
  c2 = c2
  c3 = c3
  b1 = b1
  b2 = b2
  Sessions = {s1, s2}
  Calls = {c1, c2, c3}
  Blocks = {b1, b2}
  OneSession = s1
  TwoCalls = {c1, c2}
  OneBlock = b1
  Ops = {"new", "start", "resume", "stop", "kill", "kill_rm", "rm", "gc", "gc_force", "land", "land_force", "delete", "delete_force", "restart"}
  NoSession = NoSession
  NoShell = NoShell
SPECIFICATION StorySpec
INVARIANTS LeaseHeldByShell RemovedIsRecorded RowsMatchShells BlocksNotShared StartingHasCall
PROPERTIES CallsEnd
