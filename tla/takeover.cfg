SPECIFICATION MCSpec
CONSTANTS
  j1 = j1
  p1 = p1
  p2 = p2
  Jobs <- MCJobs
  Ports <- MCPorts
  MaxEvent = 2
  MaxVersion = 2
  Native = {2}
  MaxChange = 4
INVARIANTS LoginIsKept RestoreGivesBack FlagIsTakenBack
CONSTRAINT Unharmed
CHECK_DEADLOCK FALSE
SYMMETRY Symmetry
