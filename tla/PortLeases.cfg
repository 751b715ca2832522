\* Two sessions; blocks 2-3 and 4-5, and port 6 that is too little for a third block.
CONSTANTS
  s1 = s1
  s2 = s2
  Sessions = {s1, s2}
  Base = 2
  BlockSize = 2
  PortLimit = 7
  NoBlock = NoBlock
SPECIFICATION Spec
INVARIANTS PortsExclusive GrantedPortsInRange
PROPERTIES NeverGrantsSquatted ImplementsPool AcquireEnds
