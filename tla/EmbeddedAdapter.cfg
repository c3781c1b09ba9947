SPECIFICATION EmbeddedSpec
CONSTANTS
  Conns = {k1, k2}
  Handles = {h1, h2}
  Nil = Nil
  MaxEvents = 1
  MaxSends = 2
CHECK_DEADLOCK FALSE
INVARIANTS
  AdapterGetsEvents
