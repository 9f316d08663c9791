SPECIFICATION Spec
CONSTANTS
    Groups <- MCGroups
    Own = "me"
    Entries <- MCEntries
    Access <- MCAccess
    Requests <- MCRequests
    ReplayPageSize = 2
    GapFillPageSize = 1
    GapFillMaxPages = 1
    MaxBufferedActions = 1
    Configs <- MCOnce
    MaxId = 3
INVARIANTS TypeOK NothingPublishedIsMissed
PROPERTIES ReadsTheLog
\* A connection stops when it has ended, or has nothing left to do.
CHECK_DEADLOCK FALSE
