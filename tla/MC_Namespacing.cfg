\* Two storage configurations with any pair of candidate keys, ids issued
\* by either and read back through either.
CONSTANTS
    s1 = s1
    s2 = s2
    Storages <- MCStorages
    KeyCandidates <- MCKeys
    RawIds <- MCRawIds

SPECIFICATION Spec

INVARIANTS
    RoundTrip
    WrongStorageDetected
