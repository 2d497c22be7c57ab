\* Up to two caller paths from three candidates, every program, install
\* root and host layout, and every failure of every step.
CONSTANTS
    CallerPaths <- MCCallerPaths
    MaxCallerPaths = 2

SPECIFICATION FairSpec

INVARIANTS
    TeardownAfterChildExit
    SuccessMeansIsolated
    DefaultsProtected
    SandboxCleanedUp

PROPERTIES
    SandboxTerminates
