SPECIFICATION FairSpec
CONSTANTS
    PoolSize = 4
    MaxPages = 6
    RowsPerPage = 2
    MaxChanges = 1
    MaxLost = 2
INVARIANTS
    TypeOK
    PinnedWhileUsed
    StatementsUnpin
    FullOnlyAfterLosses
PROPERTIES
    StatementsEnd
CHECK_DEADLOCK FALSE
