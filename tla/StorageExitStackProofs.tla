----------------------- MODULE StorageExitStackProofs -----------------------
(***************************************************************************)
(* Proofs of the all-or-nothing use of writers in a contextlib.ExitStack   *)
(* (storage.py:57-60), for any number of writers.  The stack's steps are   *)
(* steps of the sessions of StorageCommit, so the session invariants of    *)
(* StorageCommitProofs hold; what the stack adds is that the writers it    *)
(* holds are exactly the open sessions, and that the exception the block   *)
(* was left by reaches every writer's __exit__.                            *)
(***************************************************************************)
EXTENDS StorageExitStack, StorageCommitProofs, SequenceTheorems

(* The writers entered and not yet exited, as a set.                       *)
InStack(s) == \E i \in 1..Len(stack) : stack[i] = s

EInv ==
    /\ stack \in Seq(Sessions)
    /\ stage \in {"body", "unwind", "done"}
    /\ pending \in BOOLEAN /\ bodyExc \in BOOLEAN
    /\ \A i, j \in 1..Len(stack) : stack[i] = stack[j] => i = j
    /\ \A s \in Sessions : phase[s] = "open" <=> InStack(s)
    /\ stage = "done" => stack = << >>
    /\ stage # "body" /\ bodyExc => pending
    /\ \A s \in Sessions :
          phase[s] = "closed" =>
              /\ stage # "body"
              /\ excExit[s] => pending
              /\ bodyExc => excExit[s]

(* Every step of the stack is a step of the sessions or leaves them be.   *)
LEMMA StackStepIsNext ==
    ASSUME EInv, StackNext
    PROVE  [Next]_vars
<1>1. ASSUME NEW s \in Sessions, Enter(s) PROVE [Next]_vars
  BY <1>1 DEF Enter, Next
<1>2. ASSUME NEW s \in Sessions, BodyWrite(s) PROVE [Next]_vars
  BY <1>2 DEF BodyWrite, Next
<1>3. ASSUME NEW s \in Sessions, NEW roeArg \in BOOLEAN,
             NEW out \in FinalizeOutcomes, BodyCommit(s, roeArg, out)
      PROVE [Next]_vars
  BY <1>3 DEF BodyCommit, Next
<1>4. ASSUME NEW out \in FinalizeOutcomes, NEW rmOk \in BOOLEAN,
             Unwind(out, rmOk)
      PROVE [Next]_vars
  <2>1. stack[Len(stack)] \in Sessions /\ pending \in BOOLEAN
    BY <1>4 DEF Unwind, EInv
  <2>2. QED
    BY <1>4, <2>1 DEF Unwind, Next
<1>5. CASE (\E exc \in BOOLEAN : LeaveBody(exc)) \/ Finish \/ StackDone
  BY <1>5 DEF LeaveBody, Finish, StackDone, allVars, vars
<1>6. QED
  BY <1>1, <1>2, <1>3, <1>4, <1>5 DEF StackNext

LEMMA EInvInit == StackInit => EInv
<1> SUFFICES ASSUME StackInit PROVE EInv
  OBVIOUS
<1>1. stack = << >> /\ Len(stack) = 0 /\ stage = "body"
  BY DEF StackInit
<1>2. \A s \in Sessions : phase[s] = "new"
  BY DEF StackInit, Init
<1>3. \A s \in Sessions : ~InStack(s)
  BY <1>1 DEF InStack
<1>4. pending = FALSE /\ bodyExc = FALSE
  BY DEF StackInit
<1>5. stack \in Seq(Sessions)
  BY <1>1
<1>6. \A s \in Sessions : phase[s] = "open" <=> InStack(s)
  BY <1>2, <1>3
<1>7. \A s \in Sessions : phase[s] # "closed"
  BY <1>2
<1>8. \A i, j \in 1..Len(stack) : stack[i] = stack[j] => i = j
  BY <1>1
<1>9. QED
  BY <1>1, <1>4, <1>5, <1>6, <1>7, <1>8 DEF EInv

LEMMA EInvStep ==
    ASSUME TypeOK, EInv, [StackNext]_allVars
    PROVE  EInv'
<1>1. ASSUME NEW s \in Sessions, Enter(s) PROVE EInv'
  <2>1. /\ phase[s] = "new" /\ phase' = [phase EXCEPT ![s] = "open"]
        /\ stack' = Append(stack, s)
        /\ stage = "body"
        /\ UNCHANGED <<stage, pending, bodyExc, excExit>>
    BY <1>1 DEF Enter, Open
  <2>2. ~InStack(s)
    BY <2>1 DEF EInv, TypeOK
  <2>3. \A i \in 1..Len(stack) : stack[i] # s
    BY <2>2 DEF InStack
  <2>4. /\ stack' \in Seq(Sessions)
        /\ Len(stack') = Len(stack) + 1
        /\ \A i \in 1..Len(stack) : stack'[i] = stack[i]
        /\ stack'[Len(stack) + 1] = s
    BY <2>1 DEF EInv
  <2>5. \A i, j \in 1..Len(stack') : stack'[i] = stack'[j] => i = j
    BY <2>3, <2>4 DEF EInv
  <2>6. \A t \in Sessions : InStack(t)' <=> InStack(t) \/ t = s
    BY <2>4 DEF InStack, EInv
  <2>7. \A t \in Sessions : phase'[t] = "open" <=> InStack(t)'
    BY <2>1, <2>6 DEF EInv, TypeOK
  <2>8. QED
    BY <2>1, <2>4, <2>5, <2>7 DEF EInv, TypeOK
<1>2. ASSUME NEW s \in Sessions, BodyWrite(s) PROVE EInv'
  BY <1>2 DEF BodyWrite, Write, EInv, InStack, stackVars
<1>3. ASSUME NEW s \in Sessions, NEW roeArg \in BOOLEAN,
             NEW out \in FinalizeOutcomes, BodyCommit(s, roeArg, out)
      PROVE EInv'
  BY <1>3 DEF BodyCommit, Commit, EInv, InStack, stackVars
<1>4. ASSUME NEW exc \in BOOLEAN, LeaveBody(exc) PROVE EInv'
  BY <1>4 DEF LeaveBody, EInv, InStack, vars
<1>5. ASSUME NEW out \in FinalizeOutcomes, NEW rmOk \in BOOLEAN,
             Unwind(out, rmOk)
      PROVE EInv'
  <2> DEFINE depth == Len(stack)
             top == stack[depth]
  <2>1. /\ stage = "unwind" /\ stack # << >>
        /\ Exit(top, pending, out, rmOk)
        /\ pending' = (pending \/ exitRaised'[top])
        /\ stack' = SubSeq(stack, 1, depth - 1)
        /\ UNCHANGED <<stage, bodyExc>>
    BY <1>5 DEF Unwind, depth, top
  <2>2. depth \in Nat /\ depth >= 1 /\ top \in Sessions
    BY <2>1 DEF EInv, depth, top
  <2>3. /\ phase' = [phase EXCEPT ![top] = "closed"]
        /\ excExit' = [excExit EXCEPT ![top] = pending]
    BY <2>1 DEF Exit
  <2>4. /\ stack' \in Seq(Sessions)
        /\ Len(stack') = depth - 1
        /\ \A i \in 1..depth - 1 : stack'[i] = stack[i]
    <3>1. \A i \in 1..depth - 1 : stack[i] \in Sessions
      BY <2>2 DEF EInv, depth
    <3>2. /\ SubSeq(stack, 1, depth - 1) \in Seq(Sessions)
          /\ Len(SubSeq(stack, 1, depth - 1))
               = IF 1 <= depth - 1 THEN depth - 1 - 1 + 1 ELSE 0
          /\ \A i \in 1..depth - 1 - 1 + 1 :
               SubSeq(stack, 1, depth - 1)[i] = stack[1 + i - 1]
      BY <2>2, <3>1, SubSeqProperties
    <3>3. stack' = SubSeq(stack, 1, depth - 1)
      BY <2>1
    <3>4. depth - 1 \in Nat /\ depth - 1 - 1 + 1 = depth - 1
      BY <2>2
    <3>5. QED
      BY <3>2, <3>3, <3>4
  <2>5. \A i, j \in 1..Len(stack') : stack'[i] = stack'[j] => i = j
    BY <2>2, <2>4 DEF EInv
  <2>6. \A t \in Sessions : InStack(t)' <=> InStack(t) /\ t # top
    BY <2>2, <2>4 DEF InStack, EInv, depth, top
  <2>7. \A t \in Sessions : phase'[t] = "open" <=> InStack(t)'
    BY <2>2, <2>3, <2>6 DEF EInv, TypeOK
  <2>8. pending \in BOOLEAN /\ exitRaised'[top] \in BOOLEAN
    BY <2>1, <2>2 DEF EInv, Exit, TypeOK
  <2>9. QED
    BY <2>1, <2>2, <2>3, <2>4, <2>5, <2>7, <2>8 DEF EInv, TypeOK
<1>6. CASE Finish
  BY <1>6 DEF Finish, EInv, InStack, vars
<1>7. CASE StackDone \/ UNCHANGED allVars
  BY <1>7 DEF StackDone, EInv, InStack, allVars, vars, stackVars
<1>8. QED
  BY <1>1, <1>2, <1>3, <1>4, <1>5, <1>6, <1>7 DEF StackNext
-----------------------------------------------------------------------------
(* The session invariants carry over to the stack.                        *)
LEMMA SessionStep ==
    ASSUME EInv, [StackNext]_allVars
    PROVE  [Next]_vars
<1>1. CASE StackNext
  BY <1>1, StackStepIsNext
<1>2. CASE UNCHANGED allVars
  BY <1>2 DEF allVars
<1>3. QED
  BY <1>1, <1>2

KInv == EInv /\ IInv /\ Refined /\ Kept

LEMMA KInvInvariant == StackSpec => []KInv
<1>1. StackInit => KInv
  BY EInvInit, TypeInit, ConsumedInit, RefinedInit, KeptInit
  DEF StackInit, KInv, IInv
<1>2. KInv /\ [StackNext]_allVars => KInv'
  <2> SUFFICES ASSUME KInv, [StackNext]_allVars PROVE KInv'
    OBVIOUS
  <2>1. [Next]_vars
    BY SessionStep DEF KInv
  <2>2. QED
    BY <2>1, EInvStep, TypeStep, ConsumedStep, RefinedStep, KeptStep
    DEF KInv, IInv
<1>3. QED
  BY <1>1, <1>2, PTL DEF StackSpec

(* All or nothing, the success half, for any number of writers and any    *)
(* key: when the ExitStack's block and every writer's __exit__ complete   *)
(* without an exception, every id that commit() handed to the caller      *)
(* still names a stored blob.                                              *)
THEOREM KeptOnSuccess == StackSpec => []AllKeptOnSuccess
<1>1. KInv => AllKeptOnSuccess
  <2> SUFFICES ASSUME KInv, stage = "done", ~pending,
                      NEW s \in Sessions, returned[s]
               PROVE  blob[s] = "stored"
    BY DEF AllKeptOnSuccess
  <2>1. phase[s] \in {"new", "open", "closed"}
    BY DEF KInv, IInv, TypeOK
  <2>2. phase[s] # "new"
    BY DEF KInv, Refined
  <2>3. phase[s] # "open"
    BY DEF KInv, EInv, InStack
  <2>4. ~excExit[s]
    BY <2>1, <2>2, <2>3 DEF KInv, EInv
  <2>5. QED
    BY <2>1, <2>2, <2>3, <2>4 DEF KInv, Kept
<1>2. QED
  BY <1>1, KInvInvariant, PTL

(* All or nothing when the caller's code fails, for any number of writers *)
(* and a key that matches _KEY_REGEX: if the block of the ExitStack is    *)
(* left by an exception, every blob written in it is removed, except one  *)
(* committed with remove_on_exception=False or one whose removal raised.  *)
THEOREM RemovedOnBodyFailure ==
    ASSUME KeyValid
    PROVE  StackSpec => []AllRemovedOnBodyFailure
<1>1. StackSpec => [](KInv /\ CleanupInv)
  <2>1. StackInit => CleanupInv
    BY TypeInit, ConsumedInit, CleanupInit DEF StackInit, CleanupInv, IInv
  <2>2. KInv /\ CleanupInv /\ [StackNext]_allVars => CleanupInv'
    BY SessionStep, TypeStep, ConsumedStep, CleanupStep
    DEF KInv, CleanupInv, IInv
  <2>3. QED
    BY <2>1, <2>2, KInvInvariant, PTL DEF StackSpec
<1>2. KInv /\ CleanupInv => AllRemovedOnBodyFailure
  <2> SUFFICES ASSUME KInv, CleanupInv, stage = "done", bodyExc,
                      NEW s \in Survivors
               PROVE  FALSE
    BY DEF AllRemovedOnBodyFailure
  <2>1. /\ s \in Sessions /\ blob[s] = "stored"
        /\ ~(returned[s] /\ ~cb[s].roe) /\ ~exitRaised[s]
    BY DEF Survivors
  <2>2. phase[s] \in {"new", "open", "closed"}
    BY <2>1 DEF KInv, IInv, TypeOK
  <2>3. phase[s] # "new"
    BY <2>1 DEF CleanupInv, Tracked
  <2>4. phase[s] # "open"
    BY <2>1 DEF KInv, EInv, InStack
  <2>5. excExit[s]
    BY <2>1, <2>2, <2>3, <2>4 DEF KInv, EInv
  <2>6. QED
    BY <2>1, <2>2, <2>3, <2>4, <2>5 DEF CleanupInv, NoOrphanAfterClose
<1>3. QED
  BY <1>1, <1>2, PTL
=============================================================================
