\* A prompt against starts, renames and what is on disk; fair, without symmetry.
SPECIFICATION PromptSpec
CONSTANTS
  d1 = d1
  None = none
  Session = {s1, s2}
  Transcript = {r1}
  Workspace = {w1}
  Dir = {d1}
  Call = {c1}
  Home <- MCHome
  Paths <- MCPaths
PROPERTIES
  SeenIsAnnounced
  PromptsDisplaceNobody
CHECK_DEADLOCK FALSE
