\* Two sessions, side by side or in a worktree each, and two transcripts.
SPECIFICATION LifeSpec
CONSTANTS
  d1 = d1
  None = none
  Session = {s1, s2}
  Transcript = {r1, r2}
  Workspace = {w1}
  Dir = {d1, d2}
  Call = {}
  Home <- MCHome
  Paths <- MCPaths
SYMMETRY MCSymmetry
INVARIANTS
  EntriesAreAlive
  NamesHold
CHECK_DEADLOCK FALSE
