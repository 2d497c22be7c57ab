\* Three writers in one ExitStack, one chunk each, valid key.
CONSTANTS
    s1 = s1
    s2 = s2
    s3 = s3
    Sessions <- MCSessions
    Key = k
    NoId = NoId
    KeyValid = TRUE
    MaxWrites = 1

SPECIFICATION StackSpec

SYMMETRY MCSymmetry

INVARIANTS
    AllRemovedOnBodyFailure
    AllKeptOnSuccess
