SPECIFICATION FairSpec
CONSTANTS
    Fields <- TheFields
    Scenarios <- All
\* The script ends, everything is settled, and the row rests.
CHECK_DEADLOCK FALSE
INVARIANTS
    TypeOK
    ShowsServerAndPending
    StoreFollowsLog
    OriginalIsServers
    ForgottenWithTheWrite
PROPERTY
    EndsAtServer
