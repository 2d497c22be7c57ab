\* One VM with a seed root disk and 25 BtrfsDisks, the 25th taking drive
\* index 26 from _next_drive: does its name still match the guest's?
CONSTANTS
    m1 = m1
    m2 = m2
    Mountpoints <- MCOneMountpoint
    Kinds = {"disk"}
    RootKinds = {"seed"}
    MaxShares = 25

SPECIFICATION Spec

INVARIANT DrivesResolveInGuest
