CONSTANTS
  Instances = {i1, i2}
  Senders = {s1, s2}
  BindsPort = TRUE
  Cap = 2
  MaxMsgs = 3
  MaxQueues = 3
  MaxKills = 2
SPECIFICATION SpecFair
INVARIANTS TypeOK HandledInOrder
PROPERTIES DeafStops
CHECK_DEADLOCK FALSE
