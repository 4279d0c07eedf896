CONSTANTS
  Guis = {g1, g2}
  Backlog = 1
  MaxSignals = 2
  MaxFaults = 3
SPECIFICATION Spec
INVARIANTS TypeOK LabelCatchesUp OneRetryAtATime
PROPERTIES ReplacedIsStale ServedInTurn
CHECK_DEADLOCK FALSE
