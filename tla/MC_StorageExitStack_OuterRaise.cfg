\* Three writers in one ExitStack: the docstring's all-or-nothing claim,
\* for failures raised by a writer's own __exit__ as well.
CONSTANTS
    s1 = s1
    s2 = s2
    s3 = s3
    Sessions <- MCSessions
    Key = k
    NoId = NoId
    KeyValid = TRUE
    MaxWrites = 1

SPECIFICATION StackSpec

SYMMETRY MCSymmetry

INVARIANT AllRemovedOnFailure
