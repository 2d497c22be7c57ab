\* Two render_subvol calls on two subvolumes, every command outcome, from
\* every ro value.
CONSTANTS
    r1 = r1
    r2 = r2
    v1 = v1
    v2 = v2
    Renderers <- MCRenderers
    Subvols <- MCSubvols
    Target <- MCDistinctTargets

SPECIFICATION Spec

INVARIANT ReadonlyRestored
