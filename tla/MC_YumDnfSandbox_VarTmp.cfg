\* No caller paths: is the /var/tmp replacement directory of the script
\* removed by the time the parent is done?
CONSTANTS
    CallerPaths <- MCCallerPaths
    MaxCallerPaths = 0

SPECIFICATION Spec

INVARIANT VarTmpRemoved
