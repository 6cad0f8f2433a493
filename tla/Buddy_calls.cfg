CONSTANTS
    Start = 8
    End = 72
    MaxOrder = 7
    Size <- PowersOfTwo
    Sizes = {0, 12, 17, 65}
SPECIFICATION Spec
INVARIANTS
    TypeOK
    NoOverlap
    NothingLost
    NoFreeBuddies
    FailsOnlyWhenFull
PROPERTIES
    ImplementsHeap
