SPECIFICATION FairSpec
CONSTANTS
    Groups <- MCGroups
    Own = "me"
    Scenarios <- MCScenarios
    Mode = "auto"
    PageSize = 1
    BufferLimit = 2
    MaxStreams = 2
    MaxPagers = 2
    MaxBoots = 2
INVARIANTS CursorsAreCovered RevokedRowsAreGone OneStream
PROPERTIES CatchesUp
\* The client stops when it is in sync, or when everything it could do is spent.
CHECK_DEADLOCK FALSE
