SPECIFICATION FairSpec
CONSTANTS
  c1 = c1
  c2 = c2
  a = a
  b = b
  m1 = m1
  Hub = Hub
  Wildcard = Wildcard
  Blank = Blank
  Bodies <- MCBodies
  Clients <- MCClients
  Syncs <- MCLiveSyncs
  Payloads <- MCLivePayloads
  QueueSize = 1
  MaxSyncs = 2
  MaxPayloads <- MCLiveMaxPayloads
PROPERTIES
  QueueDrained
  DeadClientForgotten
  PayloadsAnswered
