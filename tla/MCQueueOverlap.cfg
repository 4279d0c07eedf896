CONSTANTS
  Instances = {i1, i2}
  Senders = {s1}
  BindsPort = TRUE
  Cap = 1
  MaxMsgs = 1
  MaxQueues = 1
  MaxKills = 0
SPECIFICATION Spec
INVARIANTS RunnerHasQueue
CHECK_DEADLOCK FALSE
