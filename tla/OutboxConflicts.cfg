SPECIFICATION Spec
CONSTANTS
  NumTx = 3
  MaxBatchSize = 2
  MaxConflicts = 1
  MaxFailures = 0
  MaxRestarts = 0
  Malformed = {2}
  Faults = {"reject"}
\* The client stops when everything is settled.
CHECK_DEADLOCK FALSE
INVARIANTS
  DroppedIsNeverApplied
PROPERTIES
  DroppedIsNeverSent
