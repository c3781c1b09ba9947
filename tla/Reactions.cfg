SPECIFICATION FairSpec
CONSTANTS
  a1 = a1
  a2 = a2
  o1 = o1
  q1 = q1
  q2 = q2
  k = k
  l = l
  None = None
  Own <- MCOwn
  Foreign <- MCForeign
  Keys <- MCKeys
  Removals <- MCRemovals
INVARIANTS
  RemovalSticks
  OnlyAskedFor
PROPERTIES
  RetriesEnd
CHECK_DEADLOCK FALSE
