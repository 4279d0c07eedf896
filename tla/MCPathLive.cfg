CONSTANTS
  Terms = {t1}
  Strangers = {}
  Zeros = {}
  MaxTerminals = 64
  GW = gateway
  LOC = locator
  Cap = 1
  AckCap = 1
  Batch = 2
  SockCap = 1
  Backlog = 1
  MaxCmds = 6
  MaxKills = 1
  MaxCloses = 0
SPECIFICATION SpecSupervised
INVARIANTS AckMeansDelivered
PROPERTIES EveryCommandShown EveryCommandAcked PathDrains
CHECK_DEADLOCK FALSE
