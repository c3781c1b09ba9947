SPECIFICATION Spec
CONSTANTS
  c1 = c1
  c2 = c2
  a = a
  b = b
  m1 = m1
  Hub = Hub
  Wildcard = Wildcard
  Blank = Blank
  Bodies <- MCBodies
  Clients <- MCClients
  Syncs <- MCSyncs
  Payloads <- MCPayloads
  QueueSize = 1
  MaxSyncs = 1
  MaxPayloads <- MCMaxPayloads
INVARIANTS
  ReadyFirst
  StreamIsLog
  StaleAtMostOnce
  ClosedOnce
