CONSTANTS
  Byte = {0, 2, 3, 4}
  Known = {2, 3}
  Handled = {3}
  HeaderLen = 2
  MsgLen = 2
  MaxLen = 3
  ChunkLen = 3
  Backlog = 1
  MaxBytes = 5
  MaxConns = 2
SPECIFICATION Spec
INVARIANTS TypeOK CutAsAWhole WellFormedIsHandled EveryByteInOneMessage BufferIsOfThisConnection DesyncEndsConnection BufferIsBounded
PROPERTIES DrainTerminates
