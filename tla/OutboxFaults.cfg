SPECIFICATION Spec
CONSTANTS
  NumTx = 2
  MaxBatchSize = 2
  MaxConflicts = 1
  MaxFailures = 2
  MaxRestarts = 1
  Malformed = {2}
  Faults = {"late", "reject", "omit", "reconnect"}
\* The client stops when everything is settled.
CHECK_DEADLOCK FALSE
INVARIANTS
  Inv
  ClaimsAreExact
  OneSender
  MemoryAgreesWithOutbox
  AwaitsOnlyTheFuture
  NothingIsLost
  OutboxKeepsWriteOrder
PROPERTIES
  AckedNeverRegresses
