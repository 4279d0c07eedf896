CONSTANTS
  Terms = {t1}
  Strangers = {}
  Zeros = {}
  MaxTerminals = 64
  GW = gateway
  LOC = locator
  Cap = 1
  AckCap = 1
  Batch = 1
  SockCap = 1
  Backlog = 1
  MaxCmds = 2
  MaxKills = 0
  MaxCloses = 1
SPECIFICATION Spec
INVARIANTS AckMeansDelivered
CHECK_DEADLOCK FALSE
