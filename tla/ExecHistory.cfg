SPECIFICATION Spec
CONSTANTS
    Spans = {"cli", "sync", "item", "other", "sync2", "item2", "query", "request"}
    Parent <- MCParent
    Kind <- MCKind
    DefaultLimit = 1
    MaxLimit = 2
    Limits = {1, 2}
    MaxFaults = 1
INVARIANTS
    TypeOK
    WholeExecutions
    PagingComplete
