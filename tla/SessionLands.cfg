\* Lands racing starts, kills, removals and restarts.
CONSTANTS
  s1 = s1
  s2 = s2
  c1 = c1
  c2 = c2
  b1 = b1
  b2 = b2
  Sessions = {s1, s2}
  Calls = {c1, c2}
  Blocks = {b1, b2}
  Ops = {"new", "start", "kill", "rm", "gc", "land", "land_force"}
  OneSession = s1
  TwoCalls = {c1, c2}
  OneBlock = b1
  NoSession = NoSession
  NoShell = NoShell
SPECIFICATION LandsSpec
INVARIANTS OneLandAtATime LandLockHeld LandedWasMerged
SYMMETRY Symmetry
