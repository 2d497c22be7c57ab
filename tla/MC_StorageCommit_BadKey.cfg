\* A storage whose key does not match _KEY_REGEX.
CONSTANTS
    s1 = s1
    s2 = s2
    Sessions <- MCSessions
    Key = k
    NoId = NoId
    KeyValid = FALSE
    MaxWrites = 2

SPECIFICATION Spec

SYMMETRY MCSymmetry

INVARIANT
    NoOrphanAfterClose
