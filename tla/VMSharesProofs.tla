--------------------------- MODULE VMSharesProofs ---------------------------
(***************************************************************************)
(* Proofs about VMShares: export_spec leaves every share's mount point    *)
(* with the unit of that share or of a later one at the same point, and   *)
(* the drive names of the BtrfsDisks resolve in the guest.                 *)
(***************************************************************************)
EXTENDS VMShares, SequenceTheorems, FiniteSetTheorems, WellFoundedInduction,
        TLAPS

-----------------------------------------------------------------------------
(***************************************************************************)
(* Why every share's mount point gets a unit of its own or a later share: *)
(* once export_spec has run, the directory is the one its loop wrote for  *)
(* the current list, which nothing changes before the stack is closed;    *)
(* there the unit of a mount point is that of its last writer.            *)
(***************************************************************************)

(* The directory export_spec's loop writes for the current list.           *)
ExportedUnits ==
    [m \in Mountpoints |->
        LET W == {i \in 1..Len(ExportList) :
                     Generator(ExportList[i]) /\ ExportList[i].mp = m}
        IN  IF W = {} THEN NoUnit
            ELSE ExportList[CHOOSE i \in W : \A k \in W : k <= i]]

UInv ==
    /\ nextTag \in Nat
    /\ nextDrive \in Nat
    /\ shares \in Seq(ShareRec)
    /\ root \in RootKinds \cup {"none"}
    /\ stage = "exported" => units = ExportedUnits

(* In the list export_spec iterates over, the root share comes first and  *)
(* the i-th share is at i + 1.                                             *)
LEMMA ExportListLayout ==
    ASSUME shares \in Seq(ShareRec)
    PROVE  /\ Len(ExportList) = Len(shares) + 1
           /\ ExportList[1] = [kind |-> root, id |-> 0, mp |-> "none"]
           /\ \A k \in 2..Len(shares) + 1 : ExportList[k] = shares[k - 1]
<1> DEFINE R == [kind |-> root, id |-> 0, mp |-> "none"]
           S == ShareRec \cup {R}
<1>1. <<R>> \in Seq(S) /\ shares \in Seq(S)
  OBVIOUS
<1>2. Len(<<R>>) = 1
  OBVIOUS
<1>3. QED
  BY <1>1, <1>2, ConcatProperties DEF ExportList

(* A nonempty set of indices has a largest element (the CHOOSE of the     *)
(* directory's last writer is defined).                                     *)
LEMMA LastIndex ==
    ASSUME NEW N \in Nat, NEW I \in SUBSET (1..N), I # {}
    PROVE  \E m \in I : \A j \in I : j <= m
<1> DEFINE T == {N - i : i \in I}
<1>1. T \subseteq Nat /\ T # {}
  <2>1. \A i \in I : N - i \in Nat
    OBVIOUS
  <2>2. PICK i0 \in I : TRUE
    OBVIOUS
  <2>3. N - i0 \in T
    BY DEF T
  <2>4. QED
    BY <2>1, <2>3 DEF T
<1>2. PICK x \in T : \A y \in T : ~(<<y, x>> \in OpToRel(<, Nat))
  BY <1>1, NatLessThanWellFounded, WFMin
<1>3. PICK m \in I : x = N - m
  BY <1>2 DEF T
<1>4. ASSUME NEW j \in I PROVE ~(N - j < N - m)
  <2>1. N - j \in T
    BY Zenon DEF T
  <2>2. j \in 1..N /\ m \in 1..N
    OBVIOUS
  <2>3. N - j \in Nat /\ N - m \in Nat
    BY <2>2
  <2>4. QED
    BY <1>2, <1>3, <2>1, <2>3 DEF OpToRel
<1>5. QED
  BY <1>4

(* The unit of a share's mount point is written by the last share at that *)
(* mount point, which is the share itself or a later one.                  *)
LEMMA LastUnit ==
    ASSUME shares \in Seq(ShareRec),
           root \in RootKinds \cup {"none"},
           NEW i \in 1..Len(shares)
    PROVE  \E k \in i..Len(shares) :
              /\ shares[k].mp = shares[i].mp
              /\ ExportedUnits[shares[i].mp] = shares[k]
<1> DEFINE m == shares[i].mp
           W == {j \in 1..Len(ExportList) :
                    Generator(ExportList[j]) /\ ExportList[j].mp = m}
           w == CHOOSE j \in W : \A k \in W : k <= j
<1>1. ~Generator(ExportList[1])
  BY ExportListLayout, VMSharesAssumption DEF Generator
<1>2. ASSUME NEW k \in 2..Len(shares) + 1
      PROVE  /\ ExportList[k] = shares[k - 1]
             /\ Generator(ExportList[k])
  <2>1. shares[k - 1] \in ShareRec
    OBVIOUS
  <2>2. ExportList[k] = shares[k - 1]
    BY ExportListLayout
  <2>3. QED
    BY <2>1, <2>2 DEF Generator, ShareRec
<1>3. i + 1 \in W
  <2>1. i + 1 \in 2..Len(shares) + 1 /\ i + 1 \in 1..Len(ExportList)
    BY ExportListLayout
  <2>2. Generator(ExportList[i + 1]) /\ ExportList[i + 1].mp = m
    BY <2>1, <1>2 DEF m
  <2>3. QED
    BY <2>1, <2>2 DEF W
<1>4. W \subseteq 2..Len(shares) + 1
  BY <1>1, ExportListLayout DEF W
<1>5. w \in W /\ \A k \in W : k <= w
  <2>0. Len(shares) + 1 \in Nat /\ W \subseteq 1..Len(shares) + 1 /\ W # {}
    BY <1>3, <1>4
  <2>1. \E j \in W : \A k \in W : k <= j
    BY <2>0, LastIndex
  <2>2. QED
    BY <2>1 DEF w
<1>6. w - 1 \in i..Len(shares)
  <2>1. w \in 2..Len(shares) + 1 /\ i + 1 <= w
    BY <1>3, <1>4, <1>5
  <2>2. QED
    BY <2>1
<1>7. shares[w - 1].mp = m /\ ExportList[w] = shares[w - 1]
  BY <1>2, <1>4, <1>5 DEF W
<1>8. m \in Mountpoints
  <2>1. shares[i] \in ShareRec
    OBVIOUS
  <2>2. QED
    BY <2>1 DEF ShareRec, m
<1>9. ExportedUnits[m] = ExportList[w]
  <2>1. ExportedUnits[m] = IF W = {} THEN NoUnit ELSE ExportList[w]
    BY <1>8 DEF ExportedUnits, W, w
  <2>2. QED
    BY <2>1, <1>3
<1>10. QED
  BY <1>6, <1>7, <1>9 DEF m

LEMMA UInvInductive == Spec => []UInv
<1>1. Init => UInv
  BY DEF Init, UInv
<1>2. UInv /\ [Next]_vars => UInv'
  <2> SUFFICES ASSUME UInv, [Next]_vars PROVE UInv'
    OBVIOUS
  <2>1. ASSUME NEW mp \in Mountpoints, NewPlan9Export(mp) PROVE UInv'
    BY <2>1 DEF UInv, NewPlan9Export, ShareRec
  <2>2. ASSUME NEW mp \in Mountpoints, NewBtrfsDisk(mp) PROVE UInv'
    BY <2>2 DEF UInv, NewBtrfsDisk, ShareRec
  <2>3. ASSUME NEW kind \in RootKinds, NEW imgOk \in BOOLEAN,
               NewRootDisk(kind, imgOk)
        PROVE  UInv'
    BY <2>3 DEF UInv, NewRootDisk
  <2>4. CASE ExportSpec
    <3>1. ExportList' = ExportList
      BY <2>4 DEF ExportSpec, ExportList
    <3>2. ExportedUnits' = ExportedUnits
      BY <3>1 DEF ExportedUnits
    <3>3. units' = ExportedUnits
      BY <2>4 DEF ExportSpec, ExportedUnits
    <3>4. QED
      BY <2>4, <3>2, <3>3 DEF UInv, ExportSpec
  <2>5. CASE CloseStack
    BY <2>5 DEF UInv, CloseStack
  <2>6. CASE Done \/ UNCHANGED vars
    <3>1. ExportList' = ExportList
      BY <2>6 DEF Done, vars, ExportList
    <3>2. ExportedUnits' = ExportedUnits
      BY <3>1 DEF ExportedUnits
    <3>3. QED
      BY <2>6, <3>2 DEF UInv, Done, vars
  <2>7. QED
    BY <2>1, <2>2, <2>3, <2>4, <2>5, <2>6 DEF Next
<1>3. QED
  BY <1>1, <1>2, PTL DEF Spec

(* export_spec writes a unit for every share but the root, and a later    *)
(* share truncates only a unit of its own mount point: for any mount      *)
(* points, share kinds and number of shares, every share's mount point    *)
(* has in the exported directory the unit of that share or of a later    *)
(* share at the same mount point.                                          *)
THEOREM UnitsCompleteProof == Spec => []UnitsComplete
<1>1. UInv => UnitsComplete
  BY LastUnit DEF UInv, UnitsComplete
<1>2. QED
  BY UInvInductive, <1>1, PTL
-----------------------------------------------------------------------------
(***************************************************************************)
(* Why the drive names resolve: _next_drive hands the BtrfsDisks the      *)
(* indices 2, 3, ... in the order they are built, which is their order in *)
(* the list, so the k-th share, if it is a disk, has index 1 + its rank   *)
(* among the disks.  A seed root disk has two drives, so that index is    *)
(* also the disk's position on qemu's command line; and the guest names   *)
(* it with one letter as long as the index is below 26.                   *)
(***************************************************************************)

(* The disks among the first k shares of s.                                *)
Disks(s, k) == {j \in 1..k : IsDisk(s[j])}

LEMMA DisksCounted ==
    ASSUME NEW s, NEW k \in Nat
    PROVE  IsFiniteSet(Disks(s, k)) /\ Cardinality(Disks(s, k)) \in 0..k
<1>1. IsFiniteSet(1..k) /\ Cardinality(1..k) = k
  BY FS_Interval
<1>2. Disks(s, k) \subseteq 1..k
  BY DEF Disks
<1>3. IsFiniteSet(Disks(s, k)) /\ Cardinality(Disks(s, k)) <= k
  BY <1>1, <1>2, FS_Subset
<1>4. QED
  BY <1>3, FS_CardinalityType

LEMMA DisksAppend ==
    ASSUME NEW s \in Seq(ShareRec), NEW x, NEW k \in 0..Len(s)
    PROVE  Disks(Append(s, x), k) = Disks(s, k)
BY DEF Disks

LEMMA DisksAppendLast ==
    ASSUME NEW s \in Seq(ShareRec), NEW x
    PROVE  Cardinality(Disks(Append(s, x), Len(s) + 1))
           = IF IsDisk(x) THEN Cardinality(Disks(s, Len(s))) + 1
             ELSE Cardinality(Disks(s, Len(s)))
<1>1. Disks(Append(s, x), Len(s) + 1)
      = IF IsDisk(x) THEN Disks(s, Len(s)) \cup {Len(s) + 1}
        ELSE Disks(s, Len(s))
  BY DEF Disks
<1>2. IsFiniteSet(Disks(s, Len(s)))
  BY LenProperties, DisksCounted
<1>3. Len(s) + 1 \notin Disks(s, Len(s))
  BY DEF Disks
<1>4. QED
  BY <1>1, <1>2, <1>3, FS_AddElement

DInv ==
    /\ shares \in Seq(ShareRec)
    /\ nextTag \in Nat
    /\ nextDrive \in Nat
    /\ Len(shares) <= MaxShares
    /\ root \in RootKinds \cup {"none"}
    /\ stage = "exported" => root # "none"
    /\ nextDrive = 2 + Cardinality(Disks(shares, Len(shares)))
    /\ \A k \in 1..Len(shares) :
          IsDisk(shares[k]) => shares[k].id = 1 + Cardinality(Disks(shares, k))

(* A constructor appends one share; the earlier shares keep their ranks.  *)
LEMMA AppendShare ==
    ASSUME DInv, NEW x \in ShareRec, shares' = Append(shares, x),
           Len(shares) < MaxShares,
           nextDrive' = IF IsDisk(x) THEN nextDrive + 1 ELSE nextDrive,
           IsDisk(x) => x.id = nextDrive,
           nextTag' \in Nat, UNCHANGED <<root, stage>>
    PROVE  DInv'
<1> DEFINE depth == Len(shares)
<1>1. shares' \in Seq(ShareRec) /\ Len(shares') = depth + 1
  BY DEF DInv, depth
<1>2. Cardinality(Disks(shares', depth + 1))
      = IF IsDisk(x) THEN Cardinality(Disks(shares, depth)) + 1
        ELSE Cardinality(Disks(shares, depth))
  BY DisksAppendLast DEF DInv, depth
<1>3. Cardinality(Disks(shares, depth)) \in Nat
  BY DisksCounted DEF depth
<1>4. nextDrive' \in Nat /\ nextDrive' = 2 + Cardinality(Disks(shares', depth + 1))
  BY <1>2, <1>3 DEF DInv, depth
<1>5. ASSUME NEW k \in 1..depth + 1, IsDisk(shares'[k])
      PROVE  shares'[k].id = 1 + Cardinality(Disks(shares', k))
  <2>1. CASE k <= depth
    <3>1. shares'[k] = shares[k] /\ Disks(shares', k) = Disks(shares, k)
      BY <2>1, DisksAppend DEF DInv, depth
    <3>2. QED
      BY <1>5, <2>1, <3>1 DEF DInv, depth
  <2>2. CASE k = depth + 1
    <3>1. shares'[k] = x /\ IsDisk(x)
      BY <1>5, <2>2 DEF DInv, depth
    <3>2. QED
      BY <1>2, <1>3, <2>2, <3>1 DEF DInv, depth
  <2>3. QED
    BY <2>1, <2>2
<1>6. QED
  BY <1>1, <1>4, <1>5, VMSharesAssumption DEF DInv, depth

LEMMA DInvInductive == Spec => []DInv
<1>1. Init => DInv
  <2>1. Disks(<< >>, 0) = {}
    BY DEF Disks
  <2>2. QED
    BY <2>1, FS_EmptySet, VMSharesAssumption DEF Init, DInv
<1>2. DInv /\ [Next]_vars => DInv'
  <2> SUFFICES ASSUME DInv, [Next]_vars PROVE DInv'
    OBVIOUS
  <2>1. ASSUME NEW mp \in Mountpoints, NewPlan9Export(mp) PROVE DInv'
    <3>1. [kind |-> "9p", id |-> nextTag, mp |-> mp] \in ShareRec
          /\ ~IsDisk([kind |-> "9p", id |-> nextTag, mp |-> mp])
      BY DEF DInv, ShareRec, IsDisk
    <3>2. QED
      BY <2>1, <3>1, AppendShare DEF NewPlan9Export, DInv
  <2>2. ASSUME NEW mp \in Mountpoints, NewBtrfsDisk(mp) PROVE DInv'
    <3>1. [kind |-> "disk", id |-> nextDrive, mp |-> mp] \in ShareRec
          /\ IsDisk([kind |-> "disk", id |-> nextDrive, mp |-> mp])
      BY DEF DInv, ShareRec, IsDisk
    <3>2. QED
      BY <2>2, <3>1, AppendShare DEF NewBtrfsDisk, DInv
  <2>3. ASSUME NEW kind \in RootKinds, NEW imgOk \in BOOLEAN,
               NewRootDisk(kind, imgOk)
        PROVE  DInv'
    BY <2>3 DEF DInv, NewRootDisk
  <2>4. CASE ExportSpec
    BY <2>4 DEF DInv, ExportSpec
  <2>5. CASE CloseStack
    BY <2>5 DEF DInv, CloseStack
  <2>6. CASE Done \/ UNCHANGED vars
    BY <2>6 DEF DInv, Done, vars
  <2>7. QED
    BY <2>1, <2>2, <2>3, <2>4, <2>5, <2>6 DEF Next
<1>3. QED
  BY <1>1, <1>2, PTL DEF Spec

(* With a BtrfsSeedRootDisk and at most 24 shares, every unit of a        *)
(* BtrfsDisk mounts the device the guest has for it: _next_drive's        *)
(* counter starts after the seed's two drives, and stays below 'z'.  The  *)
(* two hypotheses are the two ways the property fails (runs              *)
(* vm_qcow2_root and vm_many_disks); for any mount points and share       *)
(* kinds.                                                                  *)
THEOREM DrivesResolveProof ==
    ASSUME RootKinds \subseteq {"seed"}, MaxShares <= 24
    PROVE  Spec => []DrivesResolveInGuest
<1>1. DInv => DrivesResolveInGuest
  <2> SUFFICES ASSUME DInv, stage = "exported"
               PROVE  DrivesResolveInGuest
    BY DEF DrivesResolveInGuest
  <2>1. root = "seed" /\ RootDrives(root) = <<0, 1>>
    BY DEF DInv, RootDrives, SeedDrives
  <2>2. \A j \in 1..Len(RootDrives(root)) :
           DriveName(RootDrives(root)[j]) = GuestName(j - 1)
    BY <2>1 DEF DriveName, GuestName
  <2>3. ASSUME NEW k \in 1..Len(shares), IsDisk(shares[k])
        PROVE  DriveName(shares[k].id) = GuestName(DiskPosition(k))
    <3> DEFINE c == Cardinality(Disks(shares, k))
    <3>1. c \in 0..k /\ k <= 24
      BY DisksCounted, VMSharesAssumption DEF DInv, c
    <3>2. shares[k].id = 1 + c
      BY <2>3 DEF DInv, c
    <3>3. Len(RootDrives(root)) = 2
      BY <2>1
    <3>4. {j \in 1..k : IsDisk(shares[j])} = Disks(shares, k)
      BY DEF Disks
    <3>5. DiskPosition(k) = Len(RootDrives(root)) + c - 1
      BY <3>4, Zenon DEF DiskPosition, c
    <3>7. DiskPosition(k) = 1 + c
      BY <3>1, <3>3, <3>5
    <3>6. QED
      BY <3>1, <3>2, <3>7 DEF DriveName, GuestName
  <2>4. QED
    BY <2>2, <2>3 DEF DrivesResolveInGuest
<1>2. QED
  BY DInvInductive, <1>1, PTL
=============================================================================
