SPECIFICATION Spec
CONSTANTS
  NumTx = 3
  MaxBatchSize = 3
  MaxConflicts = 0
  MaxFailures = 1
  MaxRestarts = 1
  Malformed = {2}
  Faults = {"late", "omit", "reconnect"}
\* The client stops when everything is settled.
CHECK_DEADLOCK FALSE
PROPERTIES
  DeliversInOrder
