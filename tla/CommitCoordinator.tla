------------------------- MODULE CommitCoordinator -------------------------
(***************************************************************************)
(* What the commit protocol promises, per write session: the state        *)
(* machine of the CommitCoordinator, WRITING -> COMMITTED | ABORTED |      *)
(* CLEANUP_FAILED.  Nothing here says how a commit reaches the backend;    *)
(* it says which outcomes a session may end in, given what the caller was *)
(* handed and how its scope ended.                                         *)
(*                                                                         *)
(*   attempted   the backend's finalize has been entered (at most once)    *)
(*   stored      the session's blob is retrievable from the backend        *)
(*   issued      commit returned the blob's id to the caller               *)
(*   revocable   the recorded remove_on_exception flag                     *)
(*   failedScope the session's scope was left by an exception              *)
(***************************************************************************)
CONSTANT Sessions

VARIABLES state, attempted, stored, issued, revocable, failedScope

cvars == <<state, attempted, stored, issued, revocable, failedScope>>

Init ==
    /\ state = [s \in Sessions |-> "idle"]
    /\ attempted = [s \in Sessions |-> FALSE]
    /\ stored = [s \in Sessions |-> FALSE]
    /\ issued = [s \in Sessions |-> FALSE]
    /\ revocable = [s \in Sessions |-> FALSE]
    /\ failedScope = [s \in Sessions |-> FALSE]

(* writer() creates a session in WRITING.                                  *)
Create(s) ==
    /\ state[s] = "idle"
    /\ state' = [state EXCEPT ![s] = "writing"]
    /\ UNCHANGED <<attempted, stored, issued, revocable, failedScope>>

(* The first commit: the flag is recorded, finalize is entered once, and  *)
(* it persists the blob or not, and hands its id to the caller or not; an *)
(* id is handed only for a persisted blob.  A later commit is rejected    *)
(* with no effect.                                                         *)
CommitAttempt(s, roe) ==
    /\ state[s] = "writing"
    /\ ~attempted[s]
    /\ \E persist, hand \in BOOLEAN :
          /\ hand => persist
          /\ stored' = [stored EXCEPT ![s] = @ \/ persist]
          /\ issued' = [issued EXCEPT ![s] = hand]
    /\ attempted' = [attempted EXCEPT ![s] = TRUE]
    /\ revocable' = [revocable EXCEPT ![s] = roe]
    /\ UNCHANGED <<state, failedScope>>

(* Closing the scope, exc telling whether an exception propagates.  A     *)
(* session never committed is first committed implicitly with             *)
(* removeOnException=true.                                                 *)
Closing(s, exc) ==
    /\ state[s] = "writing"
    /\ attempted' = [attempted EXCEPT ![s] = TRUE]
    /\ revocable' = [revocable EXCEPT ![s] = IF attempted[s] THEN @ ELSE TRUE]
    /\ failedScope' = [failedScope EXCEPT ![s] = exc]
    /\ UNCHANGED issued

(* An issued blob not revoked by an exception stays: COMMITTED.           *)
CloseCommitted(s, exc) ==
    /\ Closing(s, exc)
    /\ issued[s] /\ ~(exc /\ revocable[s])
    /\ state' = [state EXCEPT ![s] = "committed"]
    /\ UNCHANGED stored

(* Otherwise cleanup removes whatever blob the session left: ABORTED ...   *)
CloseAborted(s, exc) ==
    /\ Closing(s, exc)
    /\ ~issued[s] \/ (exc /\ revocable[s])
    /\ state' = [state EXCEPT ![s] = "aborted"]
    /\ stored' = [stored EXCEPT ![s] = FALSE]

(* ... or the backend's remove fails and the blob stays: CLEANUP_FAILED.   *)
CloseCleanupFailed(s, exc) ==
    /\ Closing(s, exc)
    /\ ~issued[s] \/ (exc /\ revocable[s])
    /\ state' = [state EXCEPT ![s] = "cleanupFailed"]
    /\ stored' = [stored EXCEPT ![s] = TRUE]

Next ==
    \E s \in Sessions :
        \/ Create(s)
        \/ \E roe \in BOOLEAN : CommitAttempt(s, roe)
        \/ \E exc \in BOOLEAN :
              CloseCommitted(s, exc) \/ CloseAborted(s, exc)
                  \/ CloseCleanupFailed(s, exc)

Spec == Init /\ [][Next]_cvars
=============================================================================
