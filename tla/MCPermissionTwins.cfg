\* Two hooks, two of which may use one tool-use ID, and two phones; fair.
SPECIFICATION MCSpec
CONSTANTS
  r1 = r1
  r2 = r2
  p1 = p1
  p2 = p2
  s1 = s1
  s2 = s2
  t1 = t1
  t2 = t2
  None = none
  Request = {r1, r2}
  Client = {p1, p2}
  Session = {s1, s2}
  ToolUse = {t1, t2}
  Call <- MCCall
  Pattern <- MCPattern
  PatternOf <- MCPatternOf
  Matches <- MCMatches
  Invocation <- TwinInvocations
  MaxPatterns = 1
  InternalSubscribers = 1
INVARIANTS
  AnswersAreDelivered
  MemoryIsGranted
PROPERTIES
  KeepsPromise
  EveryHookIsAnswered
CHECK_DEADLOCK TRUE
