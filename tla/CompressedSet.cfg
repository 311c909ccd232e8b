SPECIFICATION Spec
CONSTANTS
    BlockSize = 2
    MaxDoc = 8
INVARIANT Canonical
INVARIANT FindExact
INVARIANT DecompFresh
PROPERTY ImplementsDocIterator
