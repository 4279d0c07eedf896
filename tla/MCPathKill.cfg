CONSTANTS
  Terms = {t1, t2}
  Strangers = {}
  Zeros = {}
  MaxTerminals = 64
  GW = gateway
  LOC = locator
  Cap = 1
  AckCap = 1
  Batch = 1
  SockCap = 1
  Backlog = 1
  MaxCmds = 3
  MaxKills = 1
  MaxCloses = 0
SPECIFICATION SpecTermdDies
PROPERTIES OthersUnaffected
CHECK_DEADLOCK FALSE
