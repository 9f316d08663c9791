SPECIFICATION FairSpec
CONSTANTS
    MaxRetries = 2
    MaxHead = 3
    Scenarios <- MCScenarios
\* The stream rests when everything is delivered and nothing else may happen.
CHECK_DEADLOCK FALSE
INVARIANTS
    TypeOK
    StreamHasNoGap
PROPERTIES
    ClosedStaysClosed
    SubscriptionSettles
