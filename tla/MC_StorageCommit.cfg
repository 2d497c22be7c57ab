\* Two sessions, two chunks each, valid key.
CONSTANTS
    s1 = s1
    s2 = s2
    Sessions <- MCSessions
    Key = k
    NoId = NoId
    KeyValid = TRUE
    MaxWrites = 2

SPECIFICATION Spec

SYMMETRY MCSymmetry

INVARIANTS
    TypeOK
    CallbackAssertionsHold
    FinalizeAtMostOnce
    NoOrphanAfterClose
    ContentMatchesWrites
    RefineInv

PROPERTIES
    CommittedKept
    CoordinatorSpec
