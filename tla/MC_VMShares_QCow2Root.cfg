\* One VM with a QCow2RootDisk (a single root drive) and BtrfsDisk shares:
\* do the drive names handed out by _next_drive match the guest's?
CONSTANTS
    m1 = m1
    m2 = m2
    Mountpoints <- MCMountpoints
    Kinds = {"9p", "disk"}
    RootKinds = {"qcow2"}
    MaxShares = 2

SPECIFICATION Spec

INVARIANT DrivesResolveInGuest
