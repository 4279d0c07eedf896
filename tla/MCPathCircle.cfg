CONSTANTS
  Terms = {t1, t2}
  Strangers = {}
  Zeros = {}
  MaxTerminals = 64
  GW = gateway
  LOC = locator
  Cap = 2
  AckCap = 1
  Batch = 1
  SockCap = 1
  Backlog = 1
  MaxCmds = 8
  MaxKills = 0
  MaxCloses = 0
SPECIFICATION SpecLoad
INVARIANTS NoCircularWait
SYMMETRY TermSymmetry
CHECK_DEADLOCK FALSE
