SPECIFICATION Spec
CONSTANTS
    Rows <- MCRows
    Groups <- MCGroups
    Scenarios <- MCScenarios
    BatchSize = 2
    BufferSize = 1
INVARIANTS
    AppliedOnce
    AnswersAreTrue
    GrantsAreCommitted
    
    UntouchedRowsArrive
