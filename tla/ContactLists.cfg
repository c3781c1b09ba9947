SPECIFICATION ListsSpec
CONSTANTS
  Users = {1, 2, 3}
  Localpart <- Localparts
  Accounts = {1, 2, 3}
  x = x
  y = y
  Bridge <- Bridges
  Requests = {q1, q2}
  Limit = 1
  MaxChanges = 2
  MaxBegun = 1
  WalkAccounts = {2, 3}
  None = None
  a = a
  A = A
  b = b
  Spellings = {a, A, b}
  Lower <- LowerCase
  Bonuses = {100, 200}
  MaxHeard = 3
  Nobody = Nobody
  NoDetail = NoDetail
  NoName = NoName
SYMMETRY Symmetry
CHECK_DEADLOCK FALSE
INVARIANTS
  OneChat
  NobodyPassedOver
  MergedRight
