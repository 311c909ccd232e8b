SPECIFICATION SearchSpec
CONSTANTS
    MaxDoc = 3
    Queries <- MCQueries
    Pages <- MCPages
    Unsigned = 4
CHECK_DEADLOCK FALSE
INVARIANT HeapOrdered
INVARIANT NeverPastEnd
INVARIANT PageExact
PROPERTY ImplementsDocIterator
PROPERTY SearchReturns
