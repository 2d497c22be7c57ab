\* Session close when the backend remove raises.
CONSTANTS
    s1 = s1
    s2 = s2
    Sessions <- MCSessions
    Key = k
    NoId = NoId
    KeyValid = TRUE
    MaxWrites = 2

SPECIFICATION Spec

SYMMETRY MCSymmetry

INVARIANT
    ExitNeverRaises
