\* One VM with a seed root disk and up to three 9p or btrfs shares over
\* two mount points (so that two shares may share one).
CONSTANTS
    m1 = m1
    m2 = m2
    Mountpoints <- MCMountpoints
    Kinds = {"9p", "disk"}
    RootKinds = {"seed"}
    MaxShares = 3

SPECIFICATION Spec

INVARIANTS
    DrivesResolveInGuest
    UnitsComplete
