CONSTANTS
  Instances = {i1, i2}
  Senders = {s1, s2}
  BindsPort = FALSE
  Cap = 2
  MaxMsgs = 4
  MaxQueues = 3
  MaxKills = 2
SPECIFICATION SpecSupervised
INVARIANTS RunnerHasQueue
PROPERTIES AcceptedIsHandled SendersGoOn
CHECK_DEADLOCK FALSE
