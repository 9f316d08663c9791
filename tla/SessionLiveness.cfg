SPECIFICATION Spec
CONSTANTS
    Groups <- MCGroups
    Own = "me"
    Entries <- MCFewEntries
    Access <- MCAccess
    Requests <- MCRequests
    ReplayPageSize = 2
    GapFillPageSize = 1
    GapFillMaxPages = 1
    MaxBufferedActions = 1
    Configs <- MCConfigs
    MaxId = 2
INVARIANTS NothingSkipped
PROPERTIES SubscribeIsAnswered NotificationIsDelivered
\* A connection stops when it has ended, or has nothing left to do.
CHECK_DEADLOCK FALSE
