SPECIFICATION Spec
CONSTANTS
  id = id
  unknown = unknown
  k1 = k1
  t1 = t1
  t2 = t2
  q1 = q1
  q2 = q2
  uri = uri
  other = other
  v = v
  Static = Static
  ManageClient = ManageClient
  NoCode = NoCode
  Absent = Absent
  Callback = Callback
  ClientIDs <- MCClientIDs
  Codes <- MCCodes
  Tokens <- MCTokens
  RedirectLists <- MCRedirectLists
  AuthorizeRequests <- MCAuthorizeRequests
  CallbackRequests <- MCCallbackRequests
  Forms <- MCForms
  Requests <- MCRequests
  CodeTTL = 0
  TokenTTL = 0
  MaxNow = 1
  MaxCrashes = 2
SYMMETRY Interchangeable
INVARIANTS
  AtMostOneTokenPerCode
  HandedOutIsDurable
  RevocationSticks
CHECK_DEADLOCK FALSE
