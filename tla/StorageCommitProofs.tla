------------------------ MODULE StorageCommitProofs ------------------------
(***************************************************************************)
(* Proofs about the commit protocol of StorageCommit, for every set of    *)
(* sessions, every key and every bound on writes.                          *)
(***************************************************************************)
EXTENDS StorageCommit, TLAPS

(***************************************************************************)
(* The finalize reference and the counter of finalize calls move together: *)
(* a session that has not been opened never entered finalize; an open one *)
(* entered it exactly when the reference is gone; a closed one entered it *)
(* once and holds no reference.  While the reference is held, the         *)
(* callback is in its initial state.                                       *)
(***************************************************************************)
Consumed ==
    \A s \in Sessions :
        /\ phase[s] = "new" => finalized[s] = 0 /\ ~cb[s].getId
        /\ phase[s] = "open" => finalized[s] = IF cb[s].getId THEN 0 ELSE 1
        /\ phase[s] = "closed" => finalized[s] = 1 /\ ~cb[s].getId
        /\ cb[s].getId => cb[s].id = NoId /\ cb[s].remove /\ ~cb[s].roe

IInv == TypeOK /\ Consumed

(***************************************************************************)
(* With a valid key, what __exit__ needs to know to clean up: a session   *)
(* not yet opened has no blob; while the finalize reference is held the   *)
(* backend has no blob; once the backend holds one, the callback knows    *)
(* its id; and remove is cleared only for an id the caller received.      *)
(***************************************************************************)
Tracked ==
    \A s \in Sessions :
        /\ phase[s] = "new" => blob[s] = "none"
        /\ cb[s].getId => blob[s] = "none"
        /\ blob[s] # "none" => cb[s].id # NoId
        /\ ~cb[s].remove => returned[s]

CleanupInv == IInv /\ Tracked /\ NoOrphanAfterClose

-----------------------------------------------------------------------------
(* Lemmas on the helpers that compute the callback's next state.          *)

LEMMA AfterCallType ==
    ASSUME NEW s \in Sessions, NEW c \in CallbackRec, NEW roeArg \in BOOLEAN,
           NEW out \in FinalizeOutcomes
    PROVE  AfterCall(s, c, roeArg, out) \in CallbackRec
BY StorageAssumption DEF AfterCall, CallbackRec, AddKey, BlobIds, Persists,
                         Succeeds

LEMMA ImplicitCommitType ==
    ASSUME NEW s \in Sessions, NEW c \in CallbackRec,
           NEW out \in FinalizeOutcomes
    PROVE  ImplicitCommit(s, c, out) \in CallbackRec
<1>1. AfterCall(s, c, TRUE, out) \in CallbackRec
  BY AfterCallType
<1>2. QED
  BY <1>1 DEF ImplicitCommit, CallbackRec

LEMMA ExcRemoveType ==
    ASSUME NEW c \in CallbackRec, NEW exc \in BOOLEAN
    PROVE  ExcRemove(c, exc) \in CallbackRec
BY DEF ExcRemove, CallbackRec

(* After any call of __call__ the finalize reference is gone.             *)
LEMMA AfterCallConsumes ==
    ASSUME NEW s \in Sessions, NEW c \in CallbackRec, NEW roeArg \in BOOLEAN,
           NEW out \in FinalizeOutcomes
    PROVE  ~AfterCall(s, c, roeArg, out).getId
BY DEF AfterCall

-----------------------------------------------------------------------------
(* Type correctness: every reachable state gives every variable a value   *)
(* of its type.                                                            *)

LEMMA TypeInit == Init => TypeOK
BY StorageAssumption DEF Init, TypeOK, CallbackRec

LEMMA TypeStep == TypeOK /\ [Next]_vars => TypeOK'
<1> SUFFICES ASSUME TypeOK, [Next]_vars PROVE TypeOK'
  OBVIOUS
<1>1. CASE Terminated
  BY <1>1 DEF Terminated, vars, TypeOK
<1>2. ASSUME NEW s \in Sessions, Open(s) PROVE TypeOK'
  BY <1>2, StorageAssumption DEF Open, TypeOK, CallbackRec, BlobIds
<1>3. ASSUME NEW s \in Sessions, Write(s) PROVE TypeOK'
  BY <1>3, StorageAssumption DEF Write, TypeOK
<1>4. ASSUME NEW s \in Sessions, NEW roeArg \in BOOLEAN,
             NEW out \in FinalizeOutcomes, Commit(s, roeArg, out)
      PROVE TypeOK'
  <2>1. AfterCall(s, cb[s], roeArg, out) \in CallbackRec
    BY AfterCallType DEF TypeOK
  <2>2. BlobAfter(s, out) \in {"none", "stored", "removed"}
        /\ ContentAfter(s, out) \in 0..MaxWrites
    BY DEF TypeOK, BlobAfter, ContentAfter
  <2>3. Succeeds(out) \in BOOLEAN
    BY StorageAssumption DEF Succeeds
  <2>4. QED
    BY <1>4, <2>1, <2>2, <2>3 DEF Commit, TypeOK
<1>5. ASSUME NEW s \in Sessions, NEW exc \in BOOLEAN, NEW rmOk \in BOOLEAN,
             NEW out \in FinalizeOutcomes, Exit(s, exc, out, rmOk)
      PROVE TypeOK'
  <2>1. ExcRemove(ImplicitCommit(s, cb[s], out), exc) \in CallbackRec
    BY ImplicitCommitType, ExcRemoveType DEF TypeOK
  <2>2. QED
    BY <1>5, <2>1 DEF Exit, TypeOK
<1>6. CASE UNCHANGED vars
  BY <1>6 DEF vars, TypeOK
<1>7. QED
  BY <1>1, <1>2, <1>3, <1>4, <1>5, <1>6 DEF Next

(* Every variable always has a value of its type.                          *)
THEOREM TypeCorrect == Spec => []TypeOK
BY TypeInit, TypeStep, PTL DEF Spec

-----------------------------------------------------------------------------
(* Consumed is inductive, given the type invariant.                        *)

LEMMA ConsumedInit == Init => Consumed
<1> SUFFICES ASSUME Init, NEW s \in Sessions PROVE Consumed!(s)
  BY DEF Consumed
<1>1. phase[s] = "new" /\ finalized[s] = 0 /\ ~cb[s].getId
  BY DEF Init
<1>2. QED
  BY <1>1

LEMMA ConsumedStep == TypeOK /\ Consumed /\ [Next]_vars => Consumed'
<1> SUFFICES ASSUME TypeOK, Consumed, [Next]_vars PROVE Consumed'
  OBVIOUS
<1>1. CASE Terminated
  BY <1>1 DEF Terminated, vars, Consumed
<1>2. ASSUME NEW s \in Sessions, Open(s) PROVE Consumed'
  BY <1>2 DEF Open, Consumed, TypeOK
<1>3. ASSUME NEW s \in Sessions, Write(s) PROVE Consumed'
  BY <1>3 DEF Write, Consumed
<1>4. ASSUME NEW s \in Sessions, NEW roeArg \in BOOLEAN,
             NEW out \in FinalizeOutcomes, Commit(s, roeArg, out)
      PROVE Consumed'
  <2>1. ~AfterCall(s, cb[s], roeArg, out).getId
    BY AfterCallConsumes DEF TypeOK
  <2>2. finalized[s] = 0
    BY <1>4 DEF Commit, Consumed
  <2>3. QED
    BY <1>4, <2>1, <2>2 DEF Commit, Consumed, TypeOK
<1>5. ASSUME NEW s \in Sessions, NEW exc \in BOOLEAN, NEW rmOk \in BOOLEAN,
             NEW out \in FinalizeOutcomes, Exit(s, exc, out, rmOk)
      PROVE Consumed'
  <2> DEFINE c2 == ExcRemove(ImplicitCommit(s, cb[s], out), exc)
  <2>1. ~c2.getId
    <3>1. ~ImplicitCommit(s, cb[s], out).getId
      BY AfterCallConsumes DEF ImplicitCommit, TypeOK, AfterCall
    <3>2. QED
      BY <3>1 DEF ExcRemove
  <2>2. cb' = [cb EXCEPT ![s] = c2]
    BY <1>5 DEF Exit
  <2>3. finalized'[s] = 1
    BY <1>5 DEF Exit, Consumed, TypeOK
  <2>4. QED
    BY <1>5, <2>1, <2>2, <2>3 DEF Exit, Consumed, TypeOK
<1>6. CASE UNCHANGED vars
  BY <1>6 DEF vars, Consumed
<1>7. QED
  BY <1>1, <1>2, <1>3, <1>4, <1>5, <1>6 DEF Next

LEMMA IInvInvariant == Spec => []IInv
<1>1. Init => IInv
  BY TypeInit, ConsumedInit DEF IInv
<1>2. IInv /\ [Next]_vars => IInv'
  BY TypeStep, ConsumedStep DEF IInv
<1>3. QED
  BY <1>1, <1>2, PTL DEF Spec

(* The backend's finalize operation is entered at most once per session   *)
(* (the double-commit check of _CommitCallback.__call__ and the implicit  *)
(* commit of __exit__ together), for any number of sessions.              *)
THEOREM FinalizeOnce == Spec => []FinalizeAtMostOnce
<1>1. IInv => FinalizeAtMostOnce
  <2> SUFFICES ASSUME IInv, NEW s \in Sessions PROVE finalized[s] <= 1
    BY DEF FinalizeAtMostOnce
  <2>1. phase[s] \in {"new", "open", "closed"} /\ Consumed!(s)
    BY DEF IInv, TypeOK, Consumed
  <2>2. QED
    BY <2>1
<1>2. QED
  BY <1>1, IInvInvariant, PTL

(* The assertions of _CommitCallback.__call__ and __exit__ never fail.    *)
THEOREM CallbackAssertions == Spec => []CallbackAssertionsHold
<1>1. IInv => CallbackAssertionsHold
  BY DEF IInv, Consumed, CallbackAssertionsHold
<1>2. QED
  BY <1>1, IInvInvariant, PTL

-----------------------------------------------------------------------------
(* With a valid key, Tracked and NoOrphanAfterClose are inductive on top  *)
(* of IInv.                                                                *)

LEMMA CleanupInit == Init => Tracked /\ NoOrphanAfterClose
BY DEF Init, Tracked, NoOrphanAfterClose

LEMMA CleanupStep ==
    ASSUME KeyValid, IInv, Tracked, NoOrphanAfterClose, [Next]_vars
    PROVE  Tracked' /\ NoOrphanAfterClose'
<1> USE DEF IInv
<1>1. CASE Terminated
  BY <1>1 DEF Terminated, vars, Tracked, NoOrphanAfterClose
<1>2. ASSUME NEW s \in Sessions, Open(s)
      PROVE Tracked' /\ NoOrphanAfterClose'
  BY <1>2 DEF Open, Tracked, NoOrphanAfterClose, TypeOK
<1>3. ASSUME NEW s \in Sessions, Write(s)
      PROVE Tracked' /\ NoOrphanAfterClose'
  BY <1>3 DEF Write, Tracked, NoOrphanAfterClose
<1>4. ASSUME NEW s \in Sessions, NEW roeArg \in BOOLEAN,
             NEW out \in FinalizeOutcomes, Commit(s, roeArg, out)
      PROVE Tracked' /\ NoOrphanAfterClose'
  <2> DEFINE r == AfterCall(s, cb[s], roeArg, out)
  <2>1. /\ cb' = [cb EXCEPT ![s] = r] /\ phase' = phase
        /\ blob' = [blob EXCEPT ![s] = BlobAfter(s, out)]
        /\ returned' = [returned EXCEPT ![s] = Succeeds(out)]
        /\ excExit' = excExit /\ exitRaised' = exitRaised
    BY <1>4 DEF Commit
  <2>2. cb[s].getId /\ cb[s].remove /\ blob[s] = "none" /\ phase[s] = "open"
    BY <1>4 DEF Commit, Consumed, Tracked
  <2>3. /\ ~r.getId
        /\ BlobAfter(s, out) # "none" => r.id # NoId
        /\ ~r.remove => Succeeds(out)
    BY <2>2, StorageAssumption DEF AfterCall, BlobAfter, Persists, Succeeds,
                                   AddKey, BlobIds
  <2>4. Tracked!(s)'
    <3>1. cb'[s] = r /\ blob'[s] = BlobAfter(s, out)
          /\ (returned'[s] <=> Succeeds(out))
      BY <2>1 DEF TypeOK
    <3>2. QED
      BY <2>1, <2>2, <2>3, <3>1
  <2>5. ASSUME NEW t \in Sessions, t # s PROVE Tracked!(t)'
    <3>1. cb'[t] = cb[t] /\ blob'[t] = blob[t] /\ returned'[t] = returned[t]
      BY <2>1, <2>5 DEF TypeOK
    <3>2. QED
      BY <2>1, <3>1 DEF Tracked
  <2>6. NoOrphanAfterClose'
    BY <2>1, <2>2 DEF NoOrphanAfterClose, TypeOK
  <2>7. QED
    BY <2>4, <2>5, <2>6 DEF Tracked
<1>5. ASSUME NEW s \in Sessions, NEW exc \in BOOLEAN, NEW rmOk \in BOOLEAN,
             NEW out \in FinalizeOutcomes, Exit(s, exc, out, rmOk)
      PROVE Tracked' /\ NoOrphanAfterClose'
  <2> DEFINE c1 == ImplicitCommit(s, cb[s], out)
             c2 == ExcRemove(c1, exc)
             removing == c2.remove /\ c2.id # NoId
             persisted == cb[s].getId /\ Persists(out)
  <2>1. /\ cb' = [cb EXCEPT ![s] = c2]
        /\ phase' = [phase EXCEPT ![s] = "closed"]
        /\ blob' = [blob EXCEPT ![s] =
                       IF removing /\ rmOk THEN "removed"
                       ELSE IF persisted THEN "stored" ELSE blob[s]]
        /\ excExit' = [excExit EXCEPT ![s] = exc]
        /\ exitRaised' = [exitRaised EXCEPT ![s] = removing /\ ~rmOk]
        /\ returned' = returned
        /\ phase[s] = "open"
    BY <1>5 DEF Exit
  <2>2. ~c2.getId
    BY AfterCallConsumes DEF ImplicitCommit, ExcRemove, TypeOK, AfterCall
  <2>3. CASE cb[s].getId
    <3>1. cb[s].remove /\ blob[s] = "none"
      BY <2>3 DEF Consumed, Tracked
    <3>2. c2.remove /\ (Persists(out) => c2.id # NoId)
      BY <2>3, <3>1, StorageAssumption
         DEF ImplicitCommit, ExcRemove, AfterCall, Persists, Succeeds,
             AddKey, BlobIds
    <3>3. blob'[s] # "none" => c2.id # NoId
      BY <2>1, <2>3, <3>1, <3>2 DEF TypeOK
    <3>4. blob'[s] = "stored" => exitRaised'[s]
      BY <2>1, <2>3, <3>1, <3>2 DEF TypeOK
    <3>5. QED
      BY <2>1, <2>2, <3>2, <3>3, <3>4
         DEF Tracked, NoOrphanAfterClose, TypeOK
  <2>4. CASE ~cb[s].getId
    <3>1. c1 = cb[s]
      BY <2>4 DEF ImplicitCommit
    <3>2. /\ c2.id = cb[s].id
          /\ (c2.roe <=> cb[s].roe)
          /\ (c2.remove <=> (cb[s].remove \/ (exc /\ cb[s].roe)))
      <4>1. CASE exc /\ cb[s].roe
        BY <3>1, <4>1 DEF ExcRemove, TypeOK, CallbackRec
      <4>2. CASE ~(exc /\ cb[s].roe)
        BY <3>1, <4>2 DEF ExcRemove
      <4>3. QED
        BY <4>1, <4>2
    <3>3. blob'[s] # "none" => c2.id # NoId
      BY <2>1, <2>4, <3>2 DEF Tracked, TypeOK
    <3>4. ~c2.remove => returned[s]
      BY <3>2 DEF Tracked
    <3>5. blob'[s] = "stored"
            => \/ returned'[s] /\ ~(excExit'[s] /\ cb'[s].roe)
               \/ exitRaised'[s]
      BY <2>1, <2>4, <3>2, <3>4 DEF Tracked, TypeOK
    <3>6. QED
      BY <2>1, <2>2, <3>3, <3>4, <3>5 DEF Tracked, NoOrphanAfterClose, TypeOK
  <2>5. QED
    BY <2>3, <2>4
<1>6. CASE UNCHANGED vars
  BY <1>6 DEF vars, Tracked, NoOrphanAfterClose
<1>7. QED
  BY <1>1, <1>2, <1>3, <1>4, <1>5, <1>6 DEF Next

(* With a key that matches _KEY_REGEX, every session's cleanup is          *)
(* complete: after its block is left, its blob survives only if the caller *)
(* received the id and no exception after commit(remove_on_exception=True) *)
(* followed, or the backend's remove raised.  For any number of sessions.  *)
THEOREM CleanupComplete ==
    ASSUME KeyValid
    PROVE  Spec => []NoOrphanAfterClose
<1>1. Init => CleanupInv
  BY TypeInit, ConsumedInit, CleanupInit DEF CleanupInv, IInv
<1>2. CleanupInv /\ [Next]_vars => CleanupInv'
  BY TypeStep, ConsumedStep, CleanupStep DEF CleanupInv, IInv
<1>3. QED
  BY <1>1, <1>2, PTL DEF Spec, CleanupInv

-----------------------------------------------------------------------------
(***************************************************************************)
(* What the refinement to CommitCoordinator needs beyond CleanupInv: a    *)
(* session not yet opened has recorded no flag and returned no id; no id  *)
(* is returned while the finalize reference is held; and while the block  *)
(* is open, a returned id has remove cleared and a known id names a       *)
(* stored blob.                                                            *)
(***************************************************************************)
Refined ==
    \A s \in Sessions :
        /\ phase[s] = "new" => ~cb[s].roe /\ ~returned[s]
        /\ cb[s].getId => ~returned[s]
        /\ phase[s] = "open" /\ returned[s] => ~cb[s].remove /\ blob[s] = "stored"
        /\ phase[s] = "open" /\ cb[s].id # NoId => blob[s] = "stored"

RefineInv == CleanupInv /\ Refined

LEMMA RefinedInit == Init => Refined
<1> SUFFICES ASSUME Init, NEW s \in Sessions PROVE Refined!(s)
  BY DEF Refined
<1>1. phase[s] = "new" /\ ~cb[s].roe /\ ~cb[s].getId /\ ~returned[s]
  BY DEF Init
<1>2. QED
  BY <1>1

LEMMA RefinedStep ==
    ASSUME IInv, Refined, [Next]_vars
    PROVE  Refined'
<1> USE DEF IInv
<1>1. CASE Terminated
  BY <1>1 DEF Terminated, vars, Refined
<1>2. ASSUME NEW s \in Sessions, Open(s) PROVE Refined'
  BY <1>2 DEF Open, Refined, TypeOK
<1>3. ASSUME NEW s \in Sessions, Write(s) PROVE Refined'
  BY <1>3 DEF Write, Refined
<1>4. ASSUME NEW s \in Sessions, NEW roeArg \in BOOLEAN,
             NEW out \in FinalizeOutcomes, Commit(s, roeArg, out)
      PROVE Refined'
  <2> DEFINE r == AfterCall(s, cb[s], roeArg, out)
  <2>1. /\ cb' = [cb EXCEPT ![s] = r] /\ phase' = phase
        /\ blob' = [blob EXCEPT ![s] = BlobAfter(s, out)]
        /\ returned' = [returned EXCEPT ![s] = Succeeds(out)]
    BY <1>4 DEF Commit
  <2>2. cb[s].getId /\ cb[s].id = NoId /\ phase[s] = "open"
    BY <1>4 DEF Commit, Consumed
  <2>3. /\ ~r.getId
        /\ Succeeds(out) => ~r.remove /\ BlobAfter(s, out) = "stored"
        /\ r.id # NoId => BlobAfter(s, out) = "stored"
    BY <2>2 DEF AfterCall, BlobAfter, Persists, Succeeds
  <2>4. Refined!(s)'
    <3>1. cb'[s] = r /\ blob'[s] = BlobAfter(s, out)
          /\ (returned'[s] <=> Succeeds(out))
      BY <2>1 DEF TypeOK
    <3>2. QED
      BY <2>1, <2>2, <2>3, <3>1
  <2>5. ASSUME NEW t \in Sessions, t # s PROVE Refined!(t)'
    <3>1. cb'[t] = cb[t] /\ blob'[t] = blob[t] /\ returned'[t] = returned[t]
      BY <2>1, <2>5 DEF TypeOK
    <3>2. QED
      BY <2>1, <3>1 DEF Refined
  <2>6. QED
    BY <2>4, <2>5 DEF Refined
<1>5. ASSUME NEW s \in Sessions, NEW exc \in BOOLEAN, NEW rmOk \in BOOLEAN,
             NEW out \in FinalizeOutcomes, Exit(s, exc, out, rmOk)
      PROVE Refined'
  <2>1. ~ExcRemove(ImplicitCommit(s, cb[s], out), exc).getId
    BY AfterCallConsumes DEF ImplicitCommit, ExcRemove, TypeOK, AfterCall
  <2>2. QED
    BY <1>5, <2>1 DEF Exit, Refined, TypeOK
<1>6. CASE UNCHANGED vars
  BY <1>6 DEF vars, Refined
<1>7. QED
  BY <1>1, <1>2, <1>3, <1>4, <1>5, <1>6 DEF Next
-----------------------------------------------------------------------------
(* Each step of a session is a step of the CommitCoordinator or a stutter *)
(* of it.                                                                  *)

(* The images of the session variables under the refinement mapping.     *)
AState == [t \in Sessions |-> CoordinatorState(t)]
AAttempted == [t \in Sessions |-> finalized[t] > 0]
AStored == [t \in Sessions |-> blob[t] = "stored"]
ARevocable == [t \in Sessions |-> cb[t].roe]

LEMMA RefineOpen ==
    ASSUME RefineInv, NEW s \in Sessions, Open(s)
    PROVE  Coordinator!Create(s)
<1> USE DEF RefineInv, CleanupInv, IInv
<1>0. phase[s] = "new"
  BY DEF Open
<1>1. CoordinatorState(s) = "idle" /\ ~cb[s].roe
  <2>1. CoordinatorState(s) = "idle"
    BY <1>0 DEF CoordinatorState
  <2>2. ~cb[s].roe
    BY <1>0 DEF Refined
  <2>3. QED
    BY <2>1, <2>2
<1>2. \A t \in Sessions :
        CoordinatorState(t)' = IF t = s THEN "writing" ELSE CoordinatorState(t)
  BY DEF Open, CoordinatorState, TypeOK
<1>3. \A t \in Sessions : cb'[t].roe = cb[t].roe
  <2>1. cb'[s].roe = FALSE
    BY DEF Open, TypeOK
  <2>2. ASSUME NEW t \in Sessions, t # s PROVE cb'[t] = cb[t]
    BY <2>2 DEF Open, TypeOK
  <2>3. cb[s].roe = FALSE
    BY <1>1 DEF TypeOK, CallbackRec
  <2>4. QED
    BY <2>1, <2>2, <2>3
<1>4. QED
  BY <1>1, <1>2, <1>3 DEF Open, Coordinator!Create

LEMMA RefineCommit ==
    ASSUME RefineInv, NEW s \in Sessions, NEW roeArg \in BOOLEAN,
           NEW out \in FinalizeOutcomes, Commit(s, roeArg, out)
    PROVE  Coordinator!CommitAttempt(s, roeArg)
<1> USE DEF RefineInv, CleanupInv, IInv
<1>1. /\ phase[s] = "open" /\ cb[s].getId /\ finalized[s] = 0
      /\ blob[s] = "none"
  BY DEF Commit, Consumed, Tracked
<1>2. AState[s] = "writing" /\ ~AAttempted[s]
  <2>1. AState[s] = "writing"
    BY <1>1 DEF AState, CoordinatorState
  <2>2. AAttempted[s] <=> finalized[s] > 0
    BY Zenon DEF AAttempted
  <2>3. ~(finalized[s] > 0)
    BY <1>1
  <2>4. QED
    BY <2>1, <2>2, <2>3
<1>3. AState' = AState
  BY DEF Commit, AState, CoordinatorState, TypeOK
<1>4. AAttempted' = [AAttempted EXCEPT ![s] = TRUE]
  <2>1. finalized'[s] = 1
    BY <1>1 DEF Commit, TypeOK
  <2>2. \A t \in Sessions \ {s} : finalized'[t] = finalized[t]
    BY DEF Commit, TypeOK
  <2>3. ASSUME NEW t \in Sessions
        PROVE  AAttempted'[t] = IF t = s THEN TRUE ELSE AAttempted[t]
    <3>1. CASE t = s
      <4>1. AAttempted'[s] <=> finalized'[s] > 0
        BY Zenon DEF AAttempted
      <4>2. finalized'[s] > 0
        BY <2>1
      <4>3. QED
        BY <3>1, <4>1, <4>2, Zenon
    <3>2. CASE t # s
      BY <2>2, <3>2 DEF AAttempted
    <3>3. QED
      BY <3>1, <3>2
  <2>4. QED
    BY <2>3 DEF AAttempted
<1>5. ARevocable' = [ARevocable EXCEPT ![s] = roeArg]
  BY DEF Commit, AfterCall, ARevocable, TypeOK
<1>6. AStored' = [AStored EXCEPT ![s] = @ \/ Persists(out)]
  BY <1>1 DEF Commit, BlobAfter, AStored, TypeOK
<1>7. /\ returned' = [returned EXCEPT ![s] = Succeeds(out)]
      /\ excExit' = excExit
  BY DEF Commit
<1>8. /\ Persists(out) \in BOOLEAN /\ Succeeds(out) \in BOOLEAN
      /\ Succeeds(out) => Persists(out)
  BY DEF Persists, Succeeds
<1>9. QED
  BY <1>2, <1>3, <1>4, <1>5, <1>6, <1>7, <1>8
  DEF Coordinator!CommitAttempt, AState, AAttempted, AStored, ARevocable
LEMMA RefineStutter ==
    ASSUME (\E s \in Sessions : Write(s)) \/ Terminated \/ UNCHANGED vars
    PROVE  UNCHANGED Coordinator!cvars
<1>1. UNCHANGED <<phase, finalized, blob, returned, cb, excExit, exitRaised>>
  BY DEF Write, Terminated, vars
<1>2. QED
  BY <1>1 DEF Coordinator!cvars, CoordinatorState

(* __exit__ closes the session: the common part of the three closings.    *)
LEMMA RefineClosing ==
    ASSUME RefineInv, RefineInv', NEW s \in Sessions, NEW exc \in BOOLEAN,
           NEW rmOk \in BOOLEAN, NEW out \in FinalizeOutcomes,
           Exit(s, exc, out, rmOk)
    PROVE  /\ Coordinator!Closing(s, exc)
           /\ \A t \in Sessions \ {s} : AState'[t] = AState[t]
           /\ \A t \in Sessions \ {s} : AStored'[t] = AStored[t]
<1> USE DEF RefineInv, CleanupInv, IInv
<1> DEFINE c2 == ExcRemove(ImplicitCommit(s, cb[s], out), exc)
<1>1. /\ phase[s] = "open" /\ phase'[s] = "closed"
      /\ cb' = [cb EXCEPT ![s] = c2]
      /\ excExit' = [excExit EXCEPT ![s] = exc]
      /\ returned' = returned
      /\ \A t \in Sessions \ {s} :
            /\ phase'[t] = phase[t] /\ blob'[t] = blob[t]
            /\ exitRaised'[t] = exitRaised[t] /\ finalized'[t] = finalized[t]
  BY DEF Exit, TypeOK
<1>2. AState[s] = "writing"
  BY <1>1 DEF AState, CoordinatorState
<1>3. finalized'[s] = 1
  BY <1>1 DEF Consumed, TypeOK
<1>4. AAttempted' = [AAttempted EXCEPT ![s] = TRUE]
  <2>1. ASSUME NEW t \in Sessions
        PROVE  AAttempted'[t] = IF t = s THEN TRUE ELSE AAttempted[t]
    <3>1. CASE t = s
      <4>1. AAttempted'[s] <=> finalized'[s] > 0
        BY Zenon DEF AAttempted
      <4>2. finalized'[s] > 0
        BY <1>3
      <4>3. QED
        BY <3>1, <4>1, <4>2, Zenon
    <3>2. CASE t # s
      BY <1>1, <3>2 DEF AAttempted
    <3>3. QED
      BY <3>1, <3>2
  <2>2. QED
    BY <2>1 DEF AAttempted
<1>5. c2.roe = IF AAttempted[s] THEN cb[s].roe ELSE TRUE
  <2>1. CASE cb[s].getId
    <3>1. ~AAttempted[s]
      <4>1. AAttempted[s] <=> finalized[s] > 0
        BY Zenon DEF AAttempted
      <4>2. ~(finalized[s] > 0)
        BY <1>1, <2>1 DEF Consumed
      <4>3. QED
        BY <4>1, <4>2, Zenon
    <3>2. c2.roe = TRUE
      BY <2>1 DEF ImplicitCommit, AfterCall, ExcRemove
    <3>3. QED
      BY <3>1, <3>2
  <2>2. CASE ~cb[s].getId
    <3>1. AAttempted[s]
      <4>1. AAttempted[s] <=> finalized[s] > 0
        BY Zenon DEF AAttempted
      <4>2. finalized[s] > 0
        BY <1>1, <2>2 DEF Consumed
      <4>3. QED
        BY <4>1, <4>2, Zenon
    <3>2. c2.roe = cb[s].roe
      BY <2>2 DEF ImplicitCommit, ExcRemove, TypeOK, CallbackRec
    <3>3. QED
      BY <3>1, <3>2
  <2>3. QED
    BY <2>1, <2>2
<1>6. ARevocable' = [ARevocable EXCEPT ![s] = IF AAttempted[s] THEN @ ELSE TRUE]
  BY <1>1, <1>5 DEF ARevocable, TypeOK
<1>7. \A t \in Sessions \ {s} : AState'[t] = AState[t] /\ AStored'[t] = AStored[t]
  BY <1>1 DEF AState, AStored, CoordinatorState
<1>8. QED
  BY <1>1, <1>2, <1>4, <1>6, <1>7
  DEF Coordinator!Closing, AState, AAttempted, ARevocable
(* __exit__ ends the session in the outcome the CommitCoordinator allows.  *)
LEMMA RefineExit ==
    ASSUME RefineInv, RefineInv', NEW s \in Sessions, NEW exc \in BOOLEAN,
           NEW rmOk \in BOOLEAN, NEW out \in FinalizeOutcomes,
           Exit(s, exc, out, rmOk)
    PROVE  \/ Coordinator!CloseCommitted(s, exc)
           \/ Coordinator!CloseAborted(s, exc)
           \/ Coordinator!CloseCleanupFailed(s, exc)
<1> USE DEF RefineInv, CleanupInv, IInv
<1> DEFINE c2 == ExcRemove(ImplicitCommit(s, cb[s], out), exc)
           removing == c2.remove /\ c2.id # NoId
           persisted == cb[s].getId /\ Persists(out)
           revoked == ~returned[s] \/ (exc /\ cb[s].roe)
<1>1. /\ phase[s] = "open" /\ phase'[s] = "closed"
      /\ cb'[s] = c2
      /\ excExit'[s] = exc
      /\ returned' = returned
      /\ blob'[s] = IF removing /\ rmOk THEN "removed"
                    ELSE IF persisted THEN "stored" ELSE blob[s]
      /\ exitRaised'[s] = (removing /\ ~rmOk)
  BY DEF Exit, TypeOK
<1>2. /\ Coordinator!Closing(s, exc)
      /\ \A t \in Sessions \ {s} : AState'[t] = AState[t]
      /\ \A t \in Sessions \ {s} : AStored'[t] = AStored[t]
  BY RefineClosing
(* The three outcomes, from the callback's state on entry to __exit__.    *)
<1>3. /\ exitRaised'[s] => blob'[s] = "stored" /\ revoked
      /\ ~exitRaised'[s] /\ blob'[s] = "stored"
            => ~revoked /\ blob[s] = "stored"
      /\ ~exitRaised'[s] /\ blob'[s] # "stored" => revoked
  <2>1. ~exitRaised'[s] /\ blob'[s] = "stored"
            => returned[s] /\ ~(exc /\ c2.roe)
    BY <1>1 DEF NoOrphanAfterClose, TypeOK
  <2>2. CASE cb[s].getId
    <3>1. ~returned[s] /\ cb[s].id = NoId /\ cb[s].remove
      BY <2>2 DEF Consumed, Refined
    <3>2. c2.id # NoId => persisted
      BY <2>2, <3>1 DEF ImplicitCommit, AfterCall, ExcRemove, Persists
    <3>3. QED
      BY <1>1, <2>1, <3>1, <3>2
  <2>3. CASE ~cb[s].getId
    <3>1. /\ c2.id = cb[s].id /\ c2.roe = cb[s].roe
          /\ (c2.remove <=> cb[s].remove \/ (exc /\ cb[s].roe))
      BY <2>3 DEF ImplicitCommit, ExcRemove, TypeOK, CallbackRec
    <3>2. /\ returned[s] => ~cb[s].remove /\ blob[s] = "stored"
          /\ cb[s].id # NoId => blob[s] = "stored"
      BY <1>1 DEF Refined
    <3>3. blob'[s] = IF removing /\ rmOk THEN "removed" ELSE blob[s]
      BY <1>1, <2>3
    <3>4. QED
      BY <1>1, <2>1, <3>1, <3>2, <3>3
  <2>4. QED
    BY <2>2, <2>3
(* The session's image changes at s only.                                  *)
<1>4. ASSUME NEW st, NEW b \in BOOLEAN, AState'[s] = st, AStored'[s] <=> b
      PROVE  /\ AState' = [AState EXCEPT ![s] = st]
             /\ AStored' = [AStored EXCEPT ![s] = b]
  <2>1. AState' = [AState EXCEPT ![s] = st]
    BY <1>2, <1>4 DEF AState
  <2>2. ASSUME NEW t \in Sessions
        PROVE  AStored'[t] = IF t = s THEN b ELSE AStored[t]
    <3>1. CASE t = s
      <4>1. AStored'[s] \in BOOLEAN
        BY Zenon DEF AStored
      <4>2. QED
        BY <1>4, <3>1, <4>1, Zenon
    <3>2. CASE t # s
      BY <1>2, <3>2
    <3>3. QED
      BY <3>1, <3>2
  <2>3. AStored' = [AStored EXCEPT ![s] = b]
    BY <2>2 DEF AStored
  <2>4. QED
    BY <2>1, <2>3
<1>5. CASE exitRaised'[s]
  <2>1. AState'[s] = "cleanupFailed" /\ (AStored'[s] <=> TRUE)
    BY <1>1, <1>3, <1>5 DEF AState, CoordinatorState, AStored
  <2>2. QED
    BY <1>2, <1>3, <1>4, <1>5, <2>1
    DEF Coordinator!CloseCleanupFailed, AState, AStored
<1>6. CASE ~exitRaised'[s] /\ blob'[s] = "stored"
  <2>1. AState'[s] = "committed" /\ (AStored'[s] <=> AStored[s])
    BY <1>1, <1>3, <1>6 DEF AState, CoordinatorState, AStored
  <2>2. AStored' = AStored
    <3>1. AStored[s] \in BOOLEAN
      BY Zenon DEF AStored
    <3>2. AStored' = [AStored EXCEPT ![s] = AStored[s]]
      BY <1>4, <2>1, <3>1
    <3>3. QED
      BY <3>2 DEF AStored
  <2>3. QED
    BY <1>2, <1>3, <1>4, <1>6, <2>1, <2>2
    DEF Coordinator!CloseCommitted, AState, AStored, ARevocable
<1>7. CASE ~exitRaised'[s] /\ blob'[s] # "stored"
  <2>1. AState'[s] = "aborted" /\ (AStored'[s] <=> FALSE)
    BY <1>1, <1>7 DEF AState, CoordinatorState, AStored
  <2>2. QED
    BY <1>2, <1>3, <1>4, <1>7, <2>1
    DEF Coordinator!CloseAborted, AState, AStored
<1>8. QED
  BY <1>5, <1>6, <1>7
(* With a key that matches _KEY_REGEX, the strengthening the refinement  *)
(* rests on holds in every state: CleanupInv (finalize at most once, the  *)
(* callback's assertions, no orphan after __exit__) and Refined (a       *)
(* returned id has remove cleared and a stored blob while the block is   *)
(* open).  For any number of sessions and any bound on writes.           *)
THEOREM RefineInvariant ==
    ASSUME KeyValid
    PROVE  Spec => []RefineInv
<1>1. Init => RefineInv
  BY TypeInit, ConsumedInit, CleanupInit, RefinedInit
  DEF RefineInv, CleanupInv, IInv
<1>2. RefineInv /\ [Next]_vars => RefineInv'
  BY TypeStep, ConsumedStep, CleanupStep, RefinedStep
  DEF RefineInv, CleanupInv, IInv
<1>3. QED
  BY <1>1, <1>2, PTL DEF Spec

(* With a key that matches _KEY_REGEX, the write sessions of storage.py   *)
(* implement the spec's CommitCoordinator: writer() is Create, the first  *)
(* commit() is CommitAttempt, __exit__ is one of the three closings, and  *)
(* writes, rejected second commits and termination change nothing it     *)
(* sees.  For any number of sessions and any bound on writes.              *)
THEOREM CoordinatorRefinement ==
    ASSUME KeyValid
    PROVE  Spec => CoordinatorSpec
<1>1. Init => Coordinator!Init
  <2> SUFFICES ASSUME Init
               PROVE  /\ AState = [t \in Sessions |-> "idle"]
                      /\ AAttempted = [t \in Sessions |-> FALSE]
                      /\ AStored = [t \in Sessions |-> FALSE]
                      /\ returned = [t \in Sessions |-> FALSE]
                      /\ ARevocable = [t \in Sessions |-> FALSE]
                      /\ excExit = [t \in Sessions |-> FALSE]
    BY DEF Coordinator!Init, AState, AAttempted, AStored, ARevocable
  <2>1. AState = [t \in Sessions |-> "idle"]
    BY DEF Init, AState, CoordinatorState
  <2>2. AAttempted = [t \in Sessions |-> FALSE]
    <3>1. ASSUME NEW t \in Sessions PROVE AAttempted[t] = FALSE
      <4>1. finalized[t] = 0
        BY DEF Init
      <4>2. AAttempted[t] = (0 > 0)
        BY <4>1, Zenon DEF AAttempted
      <4>3. (0 > 0) = FALSE
        OBVIOUS
      <4>4. QED
        BY <4>2, <4>3, Zenon
    <3>2. QED
      BY <3>1 DEF AAttempted
  <2>3. AStored = [t \in Sessions |-> FALSE]
    BY Zenon DEF Init, AStored
  <2>4. QED
    BY <2>1, <2>2, <2>3, Zenon DEF Init, ARevocable
<1>2. ASSUME RefineInv, RefineInv', [Next]_vars
      PROVE  [Coordinator!Next]_Coordinator!cvars
  <2>1. CASE Terminated \/ UNCHANGED vars
    BY <2>1, RefineStutter DEF Coordinator!cvars
  <2>2. ASSUME NEW s \in Sessions, Open(s)
        PROVE  [Coordinator!Next]_Coordinator!cvars
    BY <1>2, <2>2, RefineOpen DEF Coordinator!Next
  <2>3. ASSUME NEW s \in Sessions, Write(s)
        PROVE  [Coordinator!Next]_Coordinator!cvars
    BY <2>3, RefineStutter
  <2>4. ASSUME NEW s \in Sessions, NEW roeArg \in BOOLEAN,
               NEW out \in FinalizeOutcomes, Commit(s, roeArg, out)
        PROVE  [Coordinator!Next]_Coordinator!cvars
    BY <1>2, <2>4, RefineCommit DEF Coordinator!Next
  <2>5. ASSUME NEW s \in Sessions, NEW exc \in BOOLEAN, NEW rmOk \in BOOLEAN,
               NEW out \in FinalizeOutcomes, Exit(s, exc, out, rmOk)
        PROVE  [Coordinator!Next]_Coordinator!cvars
    BY <1>2, <2>5, RefineExit DEF Coordinator!Next
  <2>6. QED
    BY <1>2, <2>1, <2>2, <2>3, <2>4, <2>5 DEF Next
<1>3. QED
  BY <1>1, <1>2, RefineInvariant, PTL
  DEF Spec, CoordinatorSpec, Coordinator!Spec
-----------------------------------------------------------------------------
(***************************************************************************)
(* ContentMatchesWrites rests on this: the backend has no blob for a      *)
(* session not yet opened, nor while its StorageOutput still forwards     *)
(* writes to the sink.                                                     *)
(***************************************************************************)
Unsealed ==
    \A s \in Sessions :
        /\ phase[s] = "new" => blob[s] = "none"
        /\ phase[s] = "open" /\ output[s] => blob[s] = "none"

LEMMA ContentInit == Init => Unsealed /\ ContentMatchesWrites
BY DEF Init, Unsealed, ContentMatchesWrites

LEMMA ContentStep ==
    ASSUME IInv, Refined, Unsealed, ContentMatchesWrites, [Next]_vars
    PROVE  Unsealed' /\ ContentMatchesWrites'
<1> USE DEF IInv
<1>1. CASE Terminated
  BY <1>1 DEF Terminated, vars, Unsealed, ContentMatchesWrites
<1>2. ASSUME NEW s \in Sessions, Open(s)
      PROVE Unsealed' /\ ContentMatchesWrites'
  BY <1>2 DEF Open, Unsealed, ContentMatchesWrites, TypeOK
<1>3. ASSUME NEW s \in Sessions, Write(s)
      PROVE Unsealed' /\ ContentMatchesWrites'
  <2>1. blob[s] = "none"
    BY <1>3 DEF Write, Unsealed
  <2>2. QED
    BY <1>3, <2>1 DEF Write, Unsealed, ContentMatchesWrites, TypeOK
<1>4. ASSUME NEW s \in Sessions, NEW roeArg \in BOOLEAN,
             NEW out \in FinalizeOutcomes, Commit(s, roeArg, out)
      PROVE Unsealed' /\ ContentMatchesWrites'
  <2>1. blob'[s] # "none" => content'[s] = sunk'[s]
    BY <1>4 DEF Commit, BlobAfter, ContentAfter, ContentMatchesWrites,
                TypeOK
  <2>2. ~output'[s] /\ phase'[s] = phase[s]
    BY <1>4 DEF Commit, TypeOK
  <2>3. QED
    BY <1>4, <2>1, <2>2 DEF Commit, Unsealed, ContentMatchesWrites, TypeOK
<1>5. ASSUME NEW s \in Sessions, NEW exc \in BOOLEAN, NEW rmOk \in BOOLEAN,
             NEW out \in FinalizeOutcomes, Exit(s, exc, out, rmOk)
      PROVE Unsealed' /\ ContentMatchesWrites'
  <2> DEFINE c2 == ExcRemove(ImplicitCommit(s, cb[s], out), exc)
             persisted == cb[s].getId /\ Persists(out)
  <2>1. /\ phase[s] = "open" /\ phase'[s] = "closed"
        /\ blob'[s] \in {"removed", "stored", blob[s]}
        /\ blob'[s] = "removed" => c2.id # NoId \/ blob[s] = "removed"
        /\ blob'[s] = "stored" => persisted \/ blob[s] = "stored"
        /\ content'[s] = IF persisted THEN sunk[s] ELSE content[s]
        /\ sunk' = sunk
    BY <1>5 DEF Exit, TypeOK, c2, persisted
  <2>2. c2.id # NoId => persisted \/ blob[s] = "stored"
    <3>1. CASE cb[s].getId
      BY <3>1 DEF Consumed, ImplicitCommit, AfterCall, ExcRemove, Persists,
                  c2, persisted
    <3>2. CASE ~cb[s].getId
      BY <2>1, <3>2 DEF ImplicitCommit, ExcRemove, Refined, c2, persisted
    <3>3. QED
      BY <3>1, <3>2
  <2>3. blob'[s] # "none" => content'[s] = sunk'[s]
    BY <2>1, <2>2 DEF ContentMatchesWrites, c2, persisted
  <2>4. QED
    BY <1>5, <2>1, <2>3 DEF Exit, Unsealed, ContentMatchesWrites, TypeOK
<1>6. CASE UNCHANGED vars
  BY <1>6 DEF vars, Unsealed, ContentMatchesWrites
<1>7. QED
  BY <1>1, <1>2, <1>3, <1>4, <1>5, <1>6 DEF Next

(* The persisted blob holds exactly the chunks written through its        *)
(* StorageOutput: commit() cuts the output off before the backend         *)
(* finalizes, so no write is lost or added after the blob is sealed, for  *)
(* any sessions and any key.                                               *)
THEOREM ContentCorrect == Spec => []ContentMatchesWrites
<1>1. Init => IInv /\ Refined /\ Unsealed /\ ContentMatchesWrites
  BY TypeInit, ConsumedInit, RefinedInit, ContentInit DEF IInv
<1>2. IInv /\ Refined /\ Unsealed /\ ContentMatchesWrites /\ [Next]_vars
        => (IInv /\ Refined /\ Unsealed /\ ContentMatchesWrites)'
  BY TypeStep, ConsumedStep, RefinedStep, ContentStep DEF IInv
<1>3. QED
  BY <1>1, <1>2, PTL DEF Spec
-----------------------------------------------------------------------------
(***************************************************************************)
(* A closed session whose id commit() returned keeps its blob unless an   *)
(* exception left the block after commit(remove_on_exception=True).  For  *)
(* any key: the key only decides whether an id is ever returned.          *)
(***************************************************************************)
Kept ==
    \A s \in Sessions :
        phase[s] = "closed" /\ returned[s] /\ ~(excExit[s] /\ cb[s].roe)
            => blob[s] = "stored"

LEMMA KeptInit == Init => Kept
BY DEF Init, Kept

LEMMA KeptStep ==
    ASSUME IInv, Refined, Kept, [Next]_vars
    PROVE  Kept'
<1> USE DEF IInv
<1>1. CASE Terminated
  BY <1>1 DEF Terminated, vars, Kept
<1>2. ASSUME NEW s \in Sessions, Open(s) PROVE Kept'
  BY <1>2 DEF Open, Kept, TypeOK
<1>3. ASSUME NEW s \in Sessions, Write(s) PROVE Kept'
  BY <1>3 DEF Write, Kept
<1>4. ASSUME NEW s \in Sessions, NEW roeArg \in BOOLEAN,
             NEW out \in FinalizeOutcomes, Commit(s, roeArg, out)
      PROVE Kept'
  BY <1>4 DEF Commit, Kept, TypeOK
<1>5. ASSUME NEW s \in Sessions, NEW exc \in BOOLEAN, NEW rmOk \in BOOLEAN,
             NEW out \in FinalizeOutcomes, Exit(s, exc, out, rmOk)
      PROVE Kept'
  <2> DEFINE c2 == ExcRemove(ImplicitCommit(s, cb[s], out), exc)
  <2>1. /\ phase[s] = "open"
        /\ cb' = [cb EXCEPT ![s] = c2]
        /\ excExit' = [excExit EXCEPT ![s] = exc]
        /\ returned' = returned
    BY <1>5 DEF Exit
  <2>2. ASSUME returned[s], ~(exc /\ c2.roe) PROVE blob'[s] = "stored"
    <3>1. ~cb[s].getId /\ ~cb[s].remove /\ blob[s] = "stored"
      BY <2>1, <2>2 DEF Refined
    <3>2. c2.roe = cb[s].roe /\ ~c2.remove
      BY <2>2, <3>1 DEF ImplicitCommit, ExcRemove, TypeOK, CallbackRec, c2
    <3>3. QED
      BY <1>5, <3>1, <3>2 DEF Exit, TypeOK, c2
  <2>3. QED
    BY <1>5, <2>1, <2>2 DEF Exit, Kept, TypeOK
<1>6. CASE UNCHANGED vars
  BY <1>6 DEF vars, Kept
<1>7. QED
  BY <1>1, <1>2, <1>3, <1>4, <1>5, <1>6 DEF Next
-----------------------------------------------------------------------------
(***************************************************************************)
(* CommittedKept, the step property: no step removes a stored blob whose  *)
(* id commit() returned, unless that step is the __exit__ of a block left *)
(* by an exception after commit(remove_on_exception=True).                *)
(***************************************************************************)
KeptStepOK ==
    \A s \in Sessions :
        returned[s] /\ blob[s] = "stored" /\ blob'[s] = "removed"
            => excExit'[s] /\ cb[s].roe

(* IInv and Refined hold for any key.                                      *)
LEMMA RefinedInvariant == Spec => [](IInv /\ Refined)
<1>1. Init => IInv /\ Refined
  BY TypeInit, ConsumedInit, RefinedInit DEF IInv
<1>2. IInv /\ Refined /\ [Next]_vars => (IInv /\ Refined)'
  BY TypeStep, ConsumedStep, RefinedStep DEF IInv
<1>3. QED
  BY <1>1, <1>2, PTL DEF Spec

LEMMA KeptStepHolds ==
    ASSUME IInv, Refined, [Next]_vars
    PROVE  KeptStepOK
<1> USE DEF IInv
<1> SUFFICES ASSUME NEW s \in Sessions, returned[s], blob[s] = "stored",
                    blob'[s] = "removed"
             PROVE  excExit'[s] /\ cb[s].roe
  BY DEF KeptStepOK
<1>1. CASE Terminated \/ UNCHANGED vars
  BY <1>1 DEF Terminated, vars
<1>2. ASSUME NEW t \in Sessions, Open(t) PROVE FALSE
  BY <1>2 DEF Open, TypeOK
<1>3. ASSUME NEW t \in Sessions, Write(t) PROVE FALSE
  BY <1>3 DEF Write
<1>4. ASSUME NEW t \in Sessions, NEW roeArg \in BOOLEAN,
             NEW out \in FinalizeOutcomes, Commit(t, roeArg, out)
      PROVE FALSE
  BY <1>4 DEF Commit, BlobAfter, TypeOK
<1>5. ASSUME NEW t \in Sessions, NEW exc \in BOOLEAN, NEW rmOk \in BOOLEAN,
             NEW out \in FinalizeOutcomes, Exit(t, exc, out, rmOk)
      PROVE  excExit'[s] /\ cb[s].roe
  <2>1. t = s
    BY <1>5 DEF Exit, TypeOK
  <2> DEFINE c2 == ExcRemove(ImplicitCommit(s, cb[s], out), exc)
  <2>2. phase[s] = "open" /\ excExit'[s] = exc
    BY <1>5, <2>1 DEF Exit, TypeOK
  <2>3. ~cb[s].getId /\ ~cb[s].remove
    BY <2>2 DEF Refined
  <2>4. c2.remove => exc /\ cb[s].roe
    BY <2>3 DEF ImplicitCommit, ExcRemove, TypeOK, CallbackRec, c2
  <2>5. c2.remove
    BY <1>5, <2>1 DEF Exit, TypeOK, c2
  <2>6. QED
    BY <2>2, <2>4, <2>5
<1>6. QED
  BY <1>1, <1>2, <1>3, <1>4, <1>5 DEF Next

(* A blob whose id commit() returned is removed by its session only when  *)
(* the block is left by an exception after                               *)
(* commit(remove_on_exception=True) (storage.py:179-181, 208-216): for    *)
(* any key, any number of sessions and any bound on writes.               *)
THEOREM CommittedKeptProof == Spec => CommittedKept
<1>1. IInv /\ Refined /\ [Next]_vars => [KeptStepOK]_vars
  BY KeptStepHolds
<1>2. QED
  BY <1>1, RefinedInvariant, PTL DEF Spec, CommittedKept, KeptStepOK
=============================================================================
