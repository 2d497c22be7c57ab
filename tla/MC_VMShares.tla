----------------------------- MODULE MC_VMShares -----------------------------
(* Model-checking instance of VMShares: two guest mount points.           *)
EXTENDS VMShares

CONSTANTS m1, m2

MCMountpoints == {m1, m2}

(* A single mount point, for the runs that only count disks. *)
MCOneMountpoint == {m1}
==============================================================================
