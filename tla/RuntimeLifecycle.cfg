SPECIFICATION Spec
CONSTANTS
  configured = configured
  unconfigured = unconfigured
  dir = dir
  Unset = Unset
  None = None
  Failed = Failed
  Threads = {t1, t2}
  Runtimes = {configured, unconfigured}
  Root <- Directories
  Clients = {c1, c2}
  Methods = {"token", "password", "key"}
  MaxCalls = 5
SYMMETRY Symmetry
CHECK_DEADLOCK FALSE
INVARIANTS
  OwnDirectory
  OneClient
  HearsClient
  LoggedInOnce
