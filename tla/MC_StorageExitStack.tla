------------------------ MODULE MC_StorageExitStack ------------------------
(* Three writers entered into one ExitStack.                               *)
EXTENDS StorageExitStack, TLC

CONSTANTS s1, s2, s3

MCSessions == {s1, s2, s3}

MCSymmetry == Permutations(MCSessions)
=============================================================================
