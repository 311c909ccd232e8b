SPECIFICATION Spec
CONSTANTS
    MaxElem = 3
    InitialSizes = {1, 2, 4}
INVARIANT MembershipExact
INVARIANT InsertInBounds
INVARIANT IteratesOnce
PROPERTY ImplementsSet
