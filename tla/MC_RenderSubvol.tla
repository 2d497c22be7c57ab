-------------------------- MODULE MC_RenderSubvol --------------------------
(* Model-checking instance of RenderSubvol: two renderers, two subvolumes. *)
EXTENDS RenderSubvol

CONSTANTS r1, r2, v1, v2

MCRenderers == {r1, r2}

MCSubvols == {v1, v2}

(* A test rendering two subvolumes, say a layer and its parent.           *)
MCDistinctTargets == [r \in MCRenderers |-> IF r = r1 THEN v1 ELSE v2]
==============================================================================
