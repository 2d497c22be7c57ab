---------------------------- MODULE RenderSubvol ----------------------------
(***************************************************************************)
(* render_subvol (antlir/tests/subvol_helpers.py) run by one or more       *)
(* renderers, each on a subvolume.  Each reads the subvolume's ro property,*)
(* marks it read-only and takes its send-stream, then, in a finally, sets  *)
(* the property back to what it read.  Each btrfs command may fail; a      *)
(* failing property read raises before the try.                            *)
(***************************************************************************)
EXTENDS Naturals

CONSTANTS
    Subvols,    \* subvolumes
    Renderers,  \* the calls of render_subvol
    Target      \* renderer -> the subvolume it renders

ASSUME RenderAssumption == Target \in [Renderers -> Subvols]

VARIABLES
    ro,         \* subvolume -> its ro property
    orig,       \* subvolume -> its ro property before any render began
    pc,         \* renderer -> "idle", "read", "rendered", "done"
    wasRo,      \* renderer -> the ro value it read
    failed,     \* renderer -> its call raised
    restoreFailed \* renderer -> its set_readonly in the finally raised

vars == <<ro, orig, pc, wasRo, failed, restoreFailed>>

(* No two calls render the same subvolume (a test renders each subvolume  *)
(* it checks once).                                                        *)
DistinctTargets ==
    \A r1, r2 \in Renderers : Target[r1] = Target[r2] => r1 = r2

Init ==
    /\ ro \in [Subvols -> BOOLEAN]
    /\ orig = ro
    /\ pc = [r \in Renderers |-> "idle"]
    /\ wasRo = [r \in Renderers |-> FALSE]
    /\ failed = [r \in Renderers |-> FALSE]
    /\ restoreFailed = [r \in Renderers |-> FALSE]

(* Variant of Restore whose set_readonly is not in a finally: it runs only *)
(* after a render that succeeded.                                          *)
RestoreNoFinally(r, ok) ==
    /\ pc[r] = "rendered"
    /\ ro' = IF ok /\ ~failed[r] THEN [ro EXCEPT ![Target[r]] = wasRo[r]] ELSE ro
    /\ pc' = [pc EXCEPT ![r] = "done"]
    /\ failed' = [failed EXCEPT ![r] = failed[r] \/ ~ok]
    /\ restoreFailed' = [restoreFailed EXCEPT ![r] = ~ok]
    /\ UNCHANGED <<orig, wasRo>>

(* btrfs property get -ts <path> ro, compared with "ro=true".              *)
ReadFlag(r, ok) ==
    /\ pc[r] = "idle"
    /\ wasRo' = [wasRo EXCEPT ![r] = ro[Target[r]]]
    /\ pc' = [pc EXCEPT ![r] = IF ok THEN "read" ELSE "done"]
    /\ failed' = [failed EXCEPT ![r] = ~ok]
    /\ UNCHANGED <<ro, orig, restoreFailed>>

(* mark_readonly_and_get_sendstream: the property is set, then btrfs send *)
(* runs; either may raise.                                                 *)
Render(r, markOk, sendOk) ==
    /\ pc[r] = "read"
    /\ ro' = [ro EXCEPT ![Target[r]] = @ \/ markOk]
    /\ pc' = [pc EXCEPT ![r] = "rendered"]
    /\ failed' = [failed EXCEPT ![r] = ~(markOk /\ sendOk)]
    /\ UNCHANGED <<orig, wasRo, restoreFailed>>

(* The finally: subvol.set_readonly(was_readonly); if it raises, its error *)
(* replaces the render's.                                                  *)
Restore(r, ok) ==
    /\ pc[r] = "rendered"
    /\ ro' = IF ok THEN [ro EXCEPT ![Target[r]] = wasRo[r]] ELSE ro
    /\ pc' = [pc EXCEPT ![r] = "done"]
    /\ failed' = [failed EXCEPT ![r] = failed[r] \/ ~ok]
    /\ restoreFailed' = [restoreFailed EXCEPT ![r] = ~ok]
    /\ UNCHANGED <<orig, wasRo>>

Finished ==
    /\ \A r \in Renderers : pc[r] = "done"
    /\ UNCHANGED vars

Next ==
    \/ \E r \in Renderers, ok \in BOOLEAN : ReadFlag(r, ok) \/ Restore(r, ok)
    \/ \E r \in Renderers, markOk, sendOk \in BOOLEAN : Render(r, markOk, sendOk)
    \/ Finished

Spec == Init /\ [][Next]_vars

-----------------------------------------------------------------------------
TypeOK ==
    /\ ro \in [Subvols -> BOOLEAN]
    /\ orig \in [Subvols -> BOOLEAN]
    /\ pc \in [Renderers -> {"idle", "read", "rendered", "done"}]
    /\ wasRo \in [Renderers -> BOOLEAN]
    /\ failed \in [Renderers -> BOOLEAN]
    /\ restoreFailed \in [Renderers -> BOOLEAN]

(* "Determine the original ro/rw state of the subvol so we can put it back *)
(* the way it was after rendering": once every render of a subvolume is   *)
(* over, whether its send-stream succeeded or not, the subvolume has the  *)
(* ro property it had before the first began, unless a set_readonly of a  *)
(* finally failed.                                                         *)
ReadonlyRestored ==
    \A v \in Subvols :
        (\A r \in Renderers :
            Target[r] = v => pc[r] = "done" /\ ~restoreFailed[r])
            => ro[v] = orig[v]
=============================================================================
