SPECIFICATION FairSpec
CONSTANTS
  NumTx = 2
  MaxBatchSize = 2
  MaxConflicts = 1
  MaxFailures = 1
  MaxRestarts = 1
  Malformed = {2}
  Faults = {"reject", "reconnect"}
\* The client stops when everything is settled.
CHECK_DEADLOCK FALSE
PROPERTIES
  EveryWriteSettles
