SPECIFICATION FairSpec
CONSTANTS
    Clients <- MCClients
    MaxRetries = 2
    Scenarios <- MCScenarios
\* The documents rest when everything is done.
CHECK_DEADLOCK FALSE
INVARIANTS
    ConnectedHasSeen
    EditsAreOwed
PROPERTY
    DocumentsSettle
