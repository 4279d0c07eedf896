CONSTANTS
  Terms = {1001, 1002}
  Readers = {locator}
  Wanted = {1001}
  MaxRows = 2
  InitRetries = 1
SPECIFICATION FairSpec
INVARIANTS TypeOK MutualExclusion SemaphoreBalance OpenMeansInitialised OneRowPerTerminal RegisteredHasRow FindIsASnapshot DamageIsConfined
PROPERTIES RowsNeverChangeHands ImplementsRegistry ReaderIsServed
