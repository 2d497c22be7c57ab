-------------------------- MODULE StorageExitStack --------------------------
(***************************************************************************)
(* Several writers of one Storage entered into a contextlib.ExitStack by   *)
(* one caller, the use the docstring of StorageOutput.commit recommends    *)
(* (storage.py:57-60): "Combining `remove_on_exception` with               *)
(* `contextlib.ExitStack` allows you to write multiple blobs in an         *)
(* all-or-nothing fashion -- if any failure occurs, all written blobs are  *)
(* automatically deleted."                                                 *)
(*                                                                         *)
(* The sessions are those of StorageCommit.  The caller opens writers one  *)
(* after another, writes and commits in any order, then leaves the stack's *)
(* block, normally or by an exception.  The stack then calls each writer's *)
(* __exit__ in the reverse order of entry; an __exit__ that raises         *)
(* replaces the exception seen by the writers entered before it.           *)
(***************************************************************************)
EXTENDS StorageCommit, Sequences

VARIABLES
    stack,      \* the writers entered, in order of entry, not yet exited
    stage,      \* "body", "unwind" or "done"
    pending,    \* an exception is propagating through the stack
    bodyExc     \* the block itself was left by an exception

stackVars == <<stack, stage, pending, bodyExc>>

allVars == <<vars, stackVars>>

StackInit ==
    /\ Init
    /\ stack = <<>>
    /\ stage = "body"
    /\ pending = FALSE
    /\ bodyExc = FALSE

(* stack.enter_context(storage.writer())                                   *)
Enter(s) ==
    /\ stage = "body"
    /\ Open(s)
    /\ stack' = Append(stack, s)
    /\ UNCHANGED <<stage, pending, bodyExc>>

BodyWrite(s) ==
    /\ stage = "body"
    /\ Write(s)
    /\ UNCHANGED stackVars

BodyCommit(s, roeArg, out) ==
    /\ stage = "body"
    /\ Commit(s, roeArg, out)
    /\ UNCHANGED stackVars

(* The with-block of the ExitStack ends, by an exception or normally.      *)
LeaveBody(exc) ==
    /\ stage = "body"
    /\ stage' = "unwind"
    /\ pending' = exc
    /\ bodyExc' = exc
    /\ UNCHANGED <<vars, stack>>

(* The stack exits its last entered writer with the exception currently   *)
(* propagating; if that __exit__ raises, its error propagates from here.  *)
Unwind(out, rmOk) ==
    LET s == stack[Len(stack)] IN
    /\ stage = "unwind"
    /\ stack # <<>>
    /\ Exit(s, pending, out, rmOk)
    /\ pending' = (pending \/ exitRaised'[s])
    /\ stack' = SubSeq(stack, 1, Len(stack) - 1)
    /\ UNCHANGED <<stage, bodyExc>>

Finish ==
    /\ stage = "unwind"
    /\ stack = <<>>
    /\ stage' = "done"
    /\ UNCHANGED <<vars, stack, pending, bodyExc>>

(* The caller is done with the stack.                                      *)
StackDone ==
    /\ stage = "done"
    /\ UNCHANGED allVars

StackNext ==
    \/ \E s \in Sessions :
          \/ Enter(s)
          \/ BodyWrite(s)
          \/ \E roeArg \in BOOLEAN, out \in FinalizeOutcomes :
                BodyCommit(s, roeArg, out)
    \/ \E exc \in BOOLEAN : LeaveBody(exc)
    \/ \E out \in FinalizeOutcomes, rmOk \in BOOLEAN : Unwind(out, rmOk)
    \/ Finish
    \/ StackDone

StackSpec == StackInit /\ [][StackNext]_allVars

-----------------------------------------------------------------------------
StackTypeOK ==
    /\ TypeOK
    /\ stack \in Seq(Sessions)
    /\ stage \in {"body", "unwind", "done"}
    /\ pending \in BOOLEAN
    /\ bodyExc \in BOOLEAN

(* Writers whose blob the stack's exit leaves in the backend although the  *)
(* docstring's premise holds for them: they did not commit with           *)
(* remove_on_exception=False, and their own removal did not raise.        *)
Survivors ==
    {s \in Sessions : blob[s] = "stored"
                      /\ ~(returned[s] /\ ~cb[s].roe) /\ ~exitRaised[s]}

(* All or nothing when the caller's code fails: if the block of the stack *)
(* is left by an exception, every blob written in it is removed, except   *)
(* one committed with remove_on_exception=False or one whose own removal  *)
(* raised.                                                                 *)
AllRemovedOnBodyFailure ==
    stage = "done" /\ bodyExc => Survivors = {}

(* All or nothing as the commit docstring states it: if any failure       *)
(* occurs -- the exception leaving the stack may also come from a         *)
(* writer's own __exit__ -- every blob written is removed, with the same  *)
(* exceptions.                                                             *)
AllRemovedOnFailure ==
    stage = "done" /\ pending
        => Survivors = {}

(* All or nothing, the success half: when the stack is left normally,     *)
(* every id commit() handed to the caller still names a stored blob.      *)
AllKeptOnSuccess ==
    stage = "done" /\ ~pending
        => \A s \in Sessions : returned[s] => blob[s] = "stored"
=============================================================================
