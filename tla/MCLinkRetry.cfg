CONSTANTS
  Guis = {g1}
  Backlog = 1
  MaxSignals = 2
  MaxFaults = 1
SPECIFICATION Spec
PROPERTIES KeepsTrying
CHECK_DEADLOCK FALSE
