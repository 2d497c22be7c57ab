------------------------------ MODULE VMShares ------------------------------
(***************************************************************************)
(* The shares of one VM (antlir/vm/share.py).                              *)
(*                                                                         *)
(* A caller builds the shares of a VM: 9p exports of host directories      *)
(* (Plan9Export) and btrfs disks (BtrfsDisk), each with a mount point in   *)
(* the guest, and one root disk (BtrfsSeedRootDisk or QCow2RootDisk)      *)
(* whose copy-on-write scratch image is created with qemu-img and          *)
(* registered on the VM's exit stack.  Plan9Export takes its 9p mount tag  *)
(* and BtrfsDisk its virtio drive name from module-global counters.        *)
(* export_spec then writes one systemd mount unit per share into a         *)
(* directory the guest reads at boot.  The unit of a BtrfsDisk mounts      *)
(* /dev/<its drive name>; the guest's kernel names the virtio disks after  *)
(* the order they appear on qemu's command line, root disk first.          *)
(*                                                                         *)
(* A 9p tag "fs<n>" is the number n.  A drive name "vd" + c is the          *)
(* sequence of the offsets from 'a' of the characters c; a name is         *)
(* compared with the guest's by these sequences.  Mount points are model   *)
(* values; systemd-escape maps distinct mount points to distinct unit      *)
(* names, so a unit file is identified by its mount point.                 *)
(***************************************************************************)
EXTENDS Naturals, Sequences, FiniteSets

CONSTANTS
    Mountpoints,    \* guest mount points the caller may use
    Kinds,          \* the share classes the caller builds: "9p", "disk"
    RootKinds,      \* the root disk classes the caller may use
    MaxShares       \* bound on the shares one VM is given

ASSUME VMSharesAssumption ==
    /\ Kinds \subseteq {"9p", "disk"}
    /\ RootKinds \subseteq {"seed", "qcow2"}
    /\ MaxShares \in Nat

VARIABLES
    nextTag,    \* __next_tag_index
    nextDrive,  \* __next_drive_index
    shares,     \* the shares built, in the order the VM is given them
    root,       \* the root disk's class, or "none" before it exists
    scratch,    \* the scratch images on the exit stack, in creation order
    units,      \* the export directory: mount point -> share of its unit
    stage       \* "setup", "exported", "aborted" or "closed"

vars == <<nextTag, nextDrive, shares, root, scratch, units, stage>>

NoUnit == [kind |-> "none", id |-> 0, mp |-> "none"]

ShareRec == [kind : {"9p", "disk"}, id : Nat, mp : Mountpoints]

-----------------------------------------------------------------------------
(* Guest side: the name the kernel's virtio_blk gives the disk at 0-based  *)
(* position p: vda .. vdz, then vdaa .. vdzz.                              *)
GuestName(p) == IF p < 26 THEN <<p>> ELSE <<p \div 26 - 1, p % 26>>

(* _next_drive: "vd" + chr(idx + ord("a")), one character whatever idx.    *)
DriveName(idx) == <<idx>>

(* BtrfsSeedRootDisk: the seed at seed_dev "vda", then the child at       *)
(* child_dev "vdb", in the order of its qemu_args.                         *)
SeedDrives == <<0, 1>>

(* QCow2RootDisk: one drive, dev "vda".                                    *)
QCow2Drives == <<0>>

RootDrives(kind) ==
    IF kind = "seed" THEN SeedDrives
    ELSE IF kind = "qcow2" THEN QCow2Drives
    ELSE << >>

IsDisk(sh) == sh.kind = "disk"

(* The 0-based position among the VM's virtio-blk devices of the disk of *)
(* the k-th share, in command-line order: the root share's drives first,  *)
(* then one per BtrfsDisk in the order of the list (a Plan9Export is a   *)
(* -virtfs device, not a disk).                                           *)
DiskPosition(k) ==
    Len(RootDrives(root)) + Cardinality({j \in 1..k : IsDisk(shares[j])}) - 1

-----------------------------------------------------------------------------
Init ==
    /\ nextTag = 0
    /\ nextDrive = 2
    /\ shares = <<>>
    /\ root = "none"
    /\ scratch = <<>>
    /\ units = [m \in Mountpoints |-> NoUnit]
    /\ stage = "setup"

(* Plan9Export(path=..., mountpoint=mp): mount_tag from _next_tag.         *)
NewPlan9Export(mp) ==
    /\ stage = "setup"
    /\ "9p" \in Kinds
    /\ Len(shares) < MaxShares
    /\ shares' = Append(shares, [kind |-> "9p", id |-> nextTag, mp |-> mp])
    /\ nextTag' = nextTag + 1
    /\ UNCHANGED <<nextDrive, root, scratch, units, stage>>

(* Variant of NewBtrfsDisk whose counter is advanced before it is read.   *)
NewBtrfsDiskPreIncrement(mp) ==
    /\ stage = "setup"
    /\ "disk" \in Kinds
    /\ Len(shares) < MaxShares
    /\ shares' = Append(shares, [kind |-> "disk", id |-> nextDrive + 1, mp |-> mp])
    /\ nextDrive' = nextDrive + 1
    /\ UNCHANGED <<nextTag, root, scratch, units, stage>>

(* BtrfsDisk(path=..., mountpoint=mp): dev from _next_drive.               *)
NewBtrfsDisk(mp) ==
    /\ stage = "setup"
    /\ "disk" \in Kinds
    /\ Len(shares) < MaxShares
    /\ shares' = Append(shares, [kind |-> "disk", id |-> nextDrive, mp |-> mp])
    /\ nextDrive' = nextDrive + 1
    /\ UNCHANGED <<nextTag, root, scratch, units, stage>>

(* BtrfsSeedRootDisk or QCow2RootDisk: __post_init__ calls                 *)
(* _tmp_qcow2_disk, which enters a NamedTemporaryFile into the exit stack  *)
(* and then runs qemu-img create on it; if qemu-img fails the error is     *)
(* logged and re-raised, the file staying on the stack, and the VM's       *)
(* setup is abandoned.                                                     *)
NewRootDisk(kind, imgOk) ==
    /\ stage = "setup"
    /\ root = "none"
    /\ kind \in RootKinds
    /\ scratch' = Append(scratch, IF imgOk THEN "image" ELSE "empty")
    /\ root' = IF imgOk THEN kind ELSE root
    /\ stage' = IF imgOk THEN stage ELSE "aborted"
    /\ UNCHANGED <<nextTag, nextDrive, shares, units>>

(* The list export_spec iterates over: the root share first, then the     *)
(* others.  A root disk has no mount point of its own.                    *)
ExportList ==
    <<[kind |-> root, id |-> 0, mp |-> "none"]>> \o shares

(* Share.generator: Plan9Export and BtrfsDisk set it, the root disks keep  *)
(* the base class's False.                                                 *)
Generator(sh) == sh.kind \in {"9p", "disk"}

(* Variant of ExportSpec whose loop ends at the first share without a     *)
(* generator instead of skipping it.                                       *)
ExportSpecBreak ==
    /\ stage = "setup"
    /\ root # "none"
    /\ units' = [m \in Mountpoints |-> NoUnit]
    /\ stage' = "exported"
    /\ UNCHANGED <<nextTag, nextDrive, shares, root, scratch>>

(* Share.export_spec: in a fresh directory, for each share in turn that    *)
(* has a generator, open <dir>/<escaped mount point> for writing and write *)
(* its unit; a later share with the same mount point truncates the file.   *)
(* The VM boots with the directory exported.                               *)
ExportSpec ==
    /\ stage = "setup"
    /\ root # "none"
    /\ units' = [m \in Mountpoints |->
                   LET W == {i \in 1..Len(ExportList) :
                                Generator(ExportList[i]) /\ ExportList[i].mp = m}
                   IN  IF W = {} THEN NoUnit
                       ELSE ExportList[CHOOSE i \in W : \A k \in W : k <= i]]
    /\ stage' = "exported"
    /\ UNCHANGED <<nextTag, nextDrive, shares, root, scratch>>

(* The VM's exit stack is closed: the export directory and every scratch  *)
(* image, created or not, are deleted.                                    *)
CloseStack ==
    /\ stage \in {"setup", "exported", "aborted"}
    /\ scratch' = [i \in DOMAIN scratch |-> "removed"]
    /\ units' = [m \in Mountpoints |-> NoUnit]
    /\ stage' = "closed"
    /\ UNCHANGED <<nextTag, nextDrive, shares, root>>

Done ==
    /\ stage = "closed"
    /\ UNCHANGED vars

Next ==
    \/ \E mp \in Mountpoints : NewPlan9Export(mp) \/ NewBtrfsDisk(mp)
    \/ \E kind \in RootKinds, imgOk \in BOOLEAN : NewRootDisk(kind, imgOk)
    \/ ExportSpec
    \/ CloseStack
    \/ Done

Spec == Init /\ [][Next]_vars

-----------------------------------------------------------------------------
TypeOK ==
    /\ nextTag \in Nat
    /\ nextDrive \in Nat
    /\ shares \in Seq(ShareRec)
    /\ root \in RootKinds \cup {"none"}
    /\ scratch \in Seq({"image", "empty", "removed"})
    /\ units \in [Mountpoints -> ShareRec \cup {NoUnit}]
    /\ stage \in {"setup", "exported", "aborted", "closed"}

(* Every mount unit of a BtrfsDisk names the device the guest has for it: *)
(* once the VM runs, the drive name each virtio-blk device was given (by  *)
(* _next_drive or hard coded in the root disk) is the name the guest's    *)
(* kernel gives the device at its position on the command line.           *)
DrivesResolveInGuest ==
    stage = "exported" =>
        /\ \A j \in 1..Len(RootDrives(root)) :
              DriveName(RootDrives(root)[j]) = GuestName(j - 1)
        /\ \A k \in 1..Len(shares) :
              IsDisk(shares[k]) => DriveName(shares[k].id) = GuestName(DiskPosition(k))

(* Every share's mount point has a unit in the export directory once     *)
(* export_spec has run, and that unit is the share's own or a later       *)
(* share's at the same mount point: the loop skips only the root disk,    *)
(* and open(mode="w") lets a later share truncate an earlier one's unit   *)
(* (the order qemu gets them in), never the reverse.                      *)
UnitsComplete ==
    stage = "exported" =>
        \A i \in 1..Len(shares) :
            \E k \in i..Len(shares) :
                /\ shares[k].mp = shares[i].mp
                /\ units[shares[i].mp] = shares[k]
=============================================================================
