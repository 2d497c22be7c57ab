------------------------- MODULE MC_StorageCommit --------------------------
(* Write sessions on one storage; EXTENDS the proofs module so that the  *)
(* runs also check the inductive invariant the proofs rest on.          *)
EXTENDS StorageCommitProofs, TLC

CONSTANTS s1, s2

MCSessions == {s1, s2}

MCSymmetry == Permutations(MCSessions)
=============================================================================
