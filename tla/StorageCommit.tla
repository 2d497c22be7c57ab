--------------------------- MODULE StorageCommit ---------------------------
(***************************************************************************)
(* The commit protocol of antlir's blob Storage (rpm/storage/storage.py):  *)
(* a StorageOutput handed to the caller by Storage.writer(), and the       *)
(* _CommitCallback context manager that owns the backend's                 *)
(* get_id_and_release_resources() and cleans up on __exit__.              *)
(*                                                                         *)
(* Several write sessions share one backend.  Each session s is one        *)
(* `with storage.writer() as out:` block; the backend gives the blob of s  *)
(* the raw id s.  The backend itself is abstract: its finalize operation   *)
(* may raise before yielding an id, or raise in its release phase after    *)
(* yielding one, and its remove(id) may raise.                             *)
(*                                                                         *)
(* Data is abstracted to a count of chunks: `sunk` is how many chunks the  *)
(* backend sink received, `content` how many the persisted blob holds.     *)
(***************************************************************************)
EXTENDS Naturals

CONSTANTS
    Sessions,   \* the write sessions (model values)
    Key,        \* the Storage's key
    NoId,       \* None, for _CommitCallback.id
    KeyValid,   \* whether Key matches _KEY_REGEX
    MaxWrites   \* bound on the chunks written in one session

ASSUME StorageAssumption ==
    /\ KeyValid \in BOOLEAN
    /\ MaxWrites \in Nat
    /\ NoId \notin {Key} \X Sessions

VARIABLES
    phase,      \* "new", "open" (inside the with-block) or "closed"
    output,     \* StorageOutput._output is not None
    sunk,       \* chunks the backend sink has received
    cb,         \* the _CommitCallback's fields
    blob,       \* backend: "none", "stored" or "removed"
    content,    \* backend: chunks in the persisted blob
    finalized,  \* times get_id_and_release_resources() was entered
    returned,   \* commit() returned the id to the caller
    excExit,    \* the with-block was left by an exception
    exitRaised  \* _CommitCallback.__exit__ raised

vars == <<phase, output, sunk, cb, blob, content, finalized, returned,
          excExit, exitRaised>>

BlobIds == {Key} \X Sessions

(* _CommitCallback's state: get_id_and_release_resources is not None,     *)
(* id, remove and remove_on_exception.                                     *)
CallbackRec == [getId : BOOLEAN, id : BlobIds \cup {NoId},
                remove : BOOLEAN, roe : BOOLEAN]

(* The outcomes of the backend's scoped finalize operation.                *)
FinalizeOutcomes == {"ok", "acquireFails", "releaseFails"}

(* Variant of AddKey that forgets to mark the id with the key.             *)
AddKeyUnmarked(raw) == raw

(* Storage._add_key: the id handed to the user is the raw id marked with  *)
(* the key.  The assert on the key is KeyValid.                            *)
AddKey(raw) == <<Key, raw>>

(* The backend persisted the blob and yielded its id.                      *)
Persists(out) == out # "acquireFails"

(* The with-block of __call__ completed: the id was keyed (the key check  *)
(* passed) and the release phase did not raise.                            *)
Succeeds(out) == out = "ok" /\ KeyValid

(* Variant of AfterCall that consumes the finalize reference only once    *)
(* the scoped operation succeeded, instead of before it runs.              *)
AfterCallLateConsume(s, c, roeArg, out) ==
    [getId  |-> ~Succeeds(out),
     roe    |-> roeArg,
     id     |-> IF Persists(out) /\ KeyValid THEN AddKey(s) ELSE c.id,
     remove |-> IF Succeeds(out) THEN FALSE ELSE c.remove]

(* Variant of AfterCall that never clears remove.                          *)
AfterCallKeepsRemove(s, c, roeArg, out) ==
    [getId  |-> FALSE,
     roe    |-> roeArg,
     id     |-> IF Persists(out) /\ KeyValid THEN AddKey(s) ELSE c.id,
     remove |-> c.remove]

(* _CommitCallback.__call__ past its double-commit check, as a function   *)
(* of the callback's state: remove_on_exception is recorded and the       *)
(* finalize reference consumed before the backend runs; the id is set     *)
(* only if _add_key passes; remove is cleared only after the scoped       *)
(* operation exited normally.                                              *)
AfterCall(s, c, roeArg, out) ==
    [getId  |-> FALSE,
     roe    |-> roeArg,
     id     |-> IF Persists(out) /\ KeyValid THEN AddKey(s) ELSE c.id,
     remove |-> IF Succeeds(out) THEN FALSE ELSE c.remove]

(* The backend's blob after a finalize with this outcome.                  *)
BlobAfter(s, out) == IF Persists(out) THEN "stored" ELSE blob[s]

ContentAfter(s, out) == IF Persists(out) THEN sunk[s] ELSE content[s]

Init ==
    /\ phase = [s \in Sessions |-> "new"]
    /\ output = [s \in Sessions |-> FALSE]
    /\ sunk = [s \in Sessions |-> 0]
    /\ cb = [s \in Sessions |->
               [getId |-> FALSE, id |-> NoId, remove |-> TRUE, roe |-> FALSE]]
    /\ blob = [s \in Sessions |-> "none"]
    /\ content = [s \in Sessions |-> 0]
    /\ finalized = [s \in Sessions |-> 0]
    /\ returned = [s \in Sessions |-> FALSE]
    /\ excExit = [s \in Sessions |-> FALSE]
    /\ exitRaised = [s \in Sessions |-> FALSE]

(* Storage.writer() entered: a StorageOutput around a fresh sink and a    *)
(* _CommitCallback.__init__.                                               *)
Open(s) ==
    /\ phase[s] = "new"
    /\ phase' = [phase EXCEPT ![s] = "open"]
    /\ output' = [output EXCEPT ![s] = TRUE]
    /\ cb' = [cb EXCEPT ![s] =
                [getId |-> TRUE, id |-> NoId, remove |-> TRUE, roe |-> FALSE]]
    /\ UNCHANGED <<sunk, blob, content, finalized, returned, excExit,
                   exitRaised>>

(* StorageOutput.write: forwarded to the sink.  After commit() the output *)
(* is None and write raises, which the caller sees as an exception.       *)
Write(s) ==
    /\ phase[s] = "open"
    /\ output[s]
    /\ sunk[s] < MaxWrites
    /\ sunk' = [sunk EXCEPT ![s] = @ + 1]
    /\ UNCHANGED <<phase, output, cb, blob, content, finalized, returned,
                   excExit, exitRaised>>

(* Variant of Commit without the double-commit check.                      *)
CommitUnguarded(s, roeArg, out) ==
    /\ phase[s] = "open"
    /\ output' = [output EXCEPT ![s] = FALSE]
    /\ cb' = [cb EXCEPT ![s] = AfterCall(s, cb[s], roeArg, out)]
    /\ finalized' = [finalized EXCEPT ![s] = @ + 1]
    /\ blob' = [blob EXCEPT ![s] = BlobAfter(s, out)]
    /\ content' = [content EXCEPT ![s] = ContentAfter(s, out)]
    /\ returned' = [returned EXCEPT ![s] = Succeeds(out)]
    /\ UNCHANGED <<phase, sunk, excExit, exitRaised>>

(* Variant of Commit that leaves the StorageOutput's sink in place.        *)
CommitKeepsOutput(s, roeArg, out) ==
    /\ phase[s] = "open"
    /\ cb[s].getId
    /\ cb' = [cb EXCEPT ![s] = AfterCall(s, cb[s], roeArg, out)]
    /\ finalized' = [finalized EXCEPT ![s] = @ + 1]
    /\ blob' = [blob EXCEPT ![s] = BlobAfter(s, out)]
    /\ content' = [content EXCEPT ![s] = ContentAfter(s, out)]
    /\ returned' = [returned EXCEPT ![s] = Succeeds(out)]
    /\ UNCHANGED <<phase, output, sunk, excExit, exitRaised>>

(* StorageOutput.commit(remove_on_exception=roeArg): the output is        *)
(* cleared, then _CommitCallback.__call__ runs.  A second call finds the  *)
(* finalize reference gone and raises "Cannot commit twice" before any    *)
(* backend code: that leaves the state as it is (a stutter).  A failing   *)
(* finalize raises to the caller, who may catch it and stay in the block. *)
Commit(s, roeArg, out) ==
    /\ phase[s] = "open"
    /\ cb[s].getId
    /\ output' = [output EXCEPT ![s] = FALSE]
    /\ cb' = [cb EXCEPT ![s] = AfterCall(s, cb[s], roeArg, out)]
    /\ finalized' = [finalized EXCEPT ![s] = @ + 1]
    /\ blob' = [blob EXCEPT ![s] = BlobAfter(s, out)]
    /\ content' = [content EXCEPT ![s] = ContentAfter(s, out)]
    /\ returned' = [returned EXCEPT ![s] = Succeeds(out)]
    /\ UNCHANGED <<phase, sunk, excExit, exitRaised>>

(* Variant of ImplicitCommit that does not force remove back on.          *)
ImplicitCommitNoForce(s, c, out) ==
    IF c.getId THEN AfterCall(s, c, TRUE, out) ELSE c

(* __exit__ step 1: if commit was never called, commit implicitly with    *)
(* remove_on_exception=True just to learn the id, then force remove; a    *)
(* failure of that attempt is logged and masked.                           *)
ImplicitCommit(s, c, out) ==
    IF c.getId
    THEN LET r == AfterCall(s, c, TRUE, out)
         IN  IF Succeeds(out) THEN [r EXCEPT !.remove = TRUE] ELSE r
    ELSE c

(* Variant of ExcRemove that never forces removal.                         *)
ExcRemoveNoForce(c, exc) == c

(* Variant of ExcRemove that removes on any exception.                     *)
ExcRemoveIgnoringFlag(c, exc) ==
    IF exc THEN [c EXCEPT !.remove = TRUE] ELSE c

(* __exit__ step 2: an exception leaving the block after a commit with    *)
(* remove_on_exception=True forces removal.                                *)
ExcRemove(c, exc) ==
    IF exc /\ c.roe THEN [c EXCEPT !.remove = TRUE] ELSE c

(* _CommitCallback.__exit__(exc): steps 1 and 2 above, then               *)
(* storage.remove(id) if remove is set and an id is known.  remove is not *)
(* guarded: when it raises, __exit__ raises.                               *)
Exit(s, exc, out, rmOk) ==
    LET c1 == ImplicitCommit(s, cb[s], out)
        c2 == ExcRemove(c1, exc)
        removing == c2.remove /\ c2.id # NoId
        persisted == cb[s].getId /\ Persists(out)
    IN
    /\ phase[s] = "open"
    /\ phase' = [phase EXCEPT ![s] = "closed"]
    /\ cb' = [cb EXCEPT ![s] = c2]
    /\ finalized' = [finalized EXCEPT ![s] = IF cb[s].getId THEN @ + 1 ELSE @]
    /\ blob' = [blob EXCEPT ![s] =
                  IF removing /\ rmOk THEN "removed"
                  ELSE IF persisted THEN "stored" ELSE @]
    /\ content' = [content EXCEPT ![s] = IF persisted THEN sunk[s] ELSE @]
    /\ excExit' = [excExit EXCEPT ![s] = exc]
    /\ exitRaised' = [exitRaised EXCEPT ![s] = removing /\ ~rmOk]
    /\ UNCHANGED <<output, sunk, returned>>

(* Every session's block has been left: the program is done with the     *)
(* storage.                                                                *)
Terminated ==
    /\ \A s \in Sessions : phase[s] = "closed"
    /\ UNCHANGED vars

Next ==
    \/ Terminated
    \/ \E s \in Sessions :
           \/ Open(s)
           \/ Write(s)
           \/ \E roeArg \in BOOLEAN, out \in FinalizeOutcomes :
                 Commit(s, roeArg, out)
           \/ \E exc, rmOk \in BOOLEAN, out \in FinalizeOutcomes :
                 Exit(s, exc, out, rmOk)

Spec == Init /\ [][Next]_vars

-----------------------------------------------------------------------------
(***************************************************************************)
(* Properties                                                              *)
(***************************************************************************)

TypeOK ==
    /\ phase \in [Sessions -> {"new", "open", "closed"}]
    /\ output \in [Sessions -> BOOLEAN]
    /\ sunk \in [Sessions -> 0..MaxWrites]
    /\ cb \in [Sessions -> CallbackRec]
    /\ blob \in [Sessions -> {"none", "stored", "removed"}]
    /\ content \in [Sessions -> 0..MaxWrites]
    /\ finalized \in [Sessions -> Nat]
    /\ returned \in [Sessions -> BOOLEAN]
    /\ excExit \in [Sessions -> BOOLEAN]
    /\ exitRaised \in [Sessions -> BOOLEAN]

(* The assertions of _CommitCallback hold whenever they are reached: while *)
(* commit has not been called, no id is known, remove is set and          *)
(* remove_on_exception is clear (storage.py:177, 189-190, 211).            *)
CallbackAssertionsHold ==
    \A s \in Sessions :
        phase[s] = "open" /\ cb[s].getId
            => cb[s].id = NoId /\ cb[s].remove /\ ~cb[s].roe

(* The backend's finalize operation is entered at most once per session,  *)
(* whatever mix of explicit commits, failed commits retried by the        *)
(* caller, and the implicit commit in __exit__ (the finalize reference is *)
(* consumed before the backend runs, storage.py:161-165).                  *)
FinalizeAtMostOnce ==
    \A s \in Sessions : finalized[s] <= 1

(* Cleanup is complete: once a session's block is left, its blob is still *)
(* in the backend only if commit() handed its id to the caller and no     *)
(* exception after a commit(remove_on_exception=True) called for its      *)
(* removal -- or the backend's remove itself failed (storage.py:185-218).  *)
NoOrphanAfterClose ==
    \A s \in Sessions :
        phase[s] = "closed" /\ blob[s] = "stored"
            => \/ returned[s] /\ ~(excExit[s] /\ cb[s].roe)
               \/ exitRaised[s]

(* A blob whose id commit() returned is never removed by its session,     *)
(* unless the block is then left by an exception and the commit asked for *)
(* remove_on_exception (storage.py:179-181, 208-216).                      *)
CommittedKept ==
    [][\A s \in Sessions :
          returned[s] /\ blob[s] = "stored" /\ blob'[s] = "removed"
              => excExit'[s] /\ cb[s].roe]_vars

(* The persisted blob holds exactly the chunks written through the        *)
(* StorageOutput: no write reaches the sink after commit() began          *)
(* (storage.py:63).                                                        *)
ContentMatchesWrites ==
    \A s \in Sessions : blob[s] # "none" => content[s] = sunk[s]

(* __exit__ never raises, so it never replaces the exception leaving the  *)
(* block (spec: session-close cleanup "never raises").                     *)
ExitNeverRaises ==
    \A s \in Sessions : ~exitRaised[s]

-----------------------------------------------------------------------------
(***************************************************************************)
(* Refinement: the sessions implement the CommitCoordinator state machine *)
(* of the spec.  A closed session is CLEANUP_FAILED if its __exit__ raised, *)
(* COMMITTED if its blob is still stored, ABORTED otherwise.               *)
(***************************************************************************)
CoordinatorState(s) ==
    IF phase[s] = "new" THEN "idle"
    ELSE IF phase[s] = "open" THEN "writing"
    ELSE IF exitRaised[s] THEN "cleanupFailed"
    ELSE IF blob[s] = "stored" THEN "committed"
    ELSE "aborted"

Coordinator == INSTANCE CommitCoordinator WITH
    state       <- [s \in Sessions |-> CoordinatorState(s)],
    attempted   <- [s \in Sessions |-> finalized[s] > 0],
    stored      <- [s \in Sessions |-> blob[s] = "stored"],
    issued      <- returned,
    revocable   <- [s \in Sessions |-> cb[s].roe],
    failedScope <- excExit

(* The sessions end only in the outcomes the spec's CommitCoordinator     *)
(* allows: every step of __call__ and __exit__ is a step of that state    *)
(* machine or leaves it unchanged (storage.py:139-218).                    *)
CoordinatorSpec == Coordinator!Spec

=============================================================================
