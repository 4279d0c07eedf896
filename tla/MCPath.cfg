CONSTANTS
  Terms = {t1}
  Strangers = {stranger}
  Zeros = {stranger}
  MaxTerminals = 64
  GW = gateway
  LOC = locator
  Cap = 1
  AckCap = 1
  Batch = 2
  SockCap = 1
  Backlog = 1
  MaxCmds = 2
  MaxKills = 2
  MaxCloses = 1
SPECIFICATION Spec
INVARIANTS TypeOK ShownInOrder AckedInOrder ClientIsReported
PROPERTIES ImplementsOrderedDelivery ImplementsRegistry
CHECK_DEADLOCK FALSE
