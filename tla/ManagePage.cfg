SPECIFICATION FairSpec
CONSTANTS
  Plans <- Orders
  MaxAtOnce = 2
  Polls = {p1}
  beeper = beeper
  staging = staging
  Domains = {beeper, staging}
  Default = beeper
  Elsewhere = {}
  None = None
  Failed = Failed
CHECK_DEADLOCK FALSE
INVARIANTS
  SentIsSent
  TokenToItsDomain
  LoginsAreTrue
PROPERTIES
  PageCatchesUp
