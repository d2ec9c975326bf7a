\* A restart from the history while the session runs.
SPECIFICATION Spec
CONSTANTS
  d1 = d1
  None = none
  Session = {s1, s2}
  Transcript = {r1}
  Workspace = {w1}
  Dir = {d1}
  Call = {}
  Home <- MCHome
  Paths <- MCPaths
SYMMETRY MCSymmetry
PROPERTIES
  StopStopsAll
CHECK_DEADLOCK FALSE
