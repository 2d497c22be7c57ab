------------------------- MODULE RenderSubvolProofs -------------------------
(***************************************************************************)
(* Proofs about RenderSubvol: when no two calls render one subvolume, the *)
(* finally of render_subvol puts every subvolume's ro property back.       *)
(***************************************************************************)
EXTENDS RenderSubvol, TLAPS

(* The strengthening.  A renderer between its property read and its       *)
(* finally holds the value the subvolume had at the start, and a          *)
(* subvolume differs from its start only while a renderer of it is in     *)
(* that window or after that renderer's set_readonly failed.              *)
Holding(r) == pc[r] \in {"read", "rendered"} => wasRo[r] = orig[Target[r]]

Disturbed(v) ==
    ro[v] # orig[v] =>
        \E r \in Renderers :
            /\ Target[r] = v
            /\ \/ pc[r] = "rendered"
               \/ pc[r] = "done" /\ restoreFailed[r]

RInv ==
    /\ TypeOK
    /\ \A r \in Renderers : Holding(r)
    /\ \A v \in Subvols : Disturbed(v)

(* Every state of a run satisfies the type invariant and the strengthening.*)
LEMMA RInvInductive ==
    ASSUME DistinctTargets
    PROVE  Spec => []RInv
<1> USE RenderAssumption
<1>1. Init => RInv
  BY DEF Init, RInv, TypeOK, Holding, Disturbed
<1>2. RInv /\ [Next]_vars => RInv'
  <2> SUFFICES ASSUME RInv, [Next]_vars PROVE RInv'
    OBVIOUS
  <2>1. ASSUME NEW r \in Renderers, NEW ok \in BOOLEAN, ReadFlag(r, ok)
        PROVE  RInv'
    <3>1. ro[Target[r]] = orig[Target[r]]
      BY <2>1, DistinctTargets DEF RInv, Disturbed, ReadFlag, TypeOK, DistinctTargets
    <3>2. QED
      BY <2>1, <3>1 DEF RInv, TypeOK, Holding, Disturbed, ReadFlag
  <2>2. ASSUME NEW r \in Renderers, NEW ok \in BOOLEAN, Restore(r, ok)
        PROVE  RInv'
    BY <2>2, DistinctTargets DEF RInv, TypeOK, Holding, Disturbed, Restore, DistinctTargets
  <2>3. ASSUME NEW r \in Renderers, NEW markOk \in BOOLEAN,
               NEW sendOk \in BOOLEAN, Render(r, markOk, sendOk)
        PROVE  RInv'
    <3>1. TypeOK'
      BY <2>3 DEF RInv, TypeOK, Render
    <3>2. \A q \in Renderers : Holding(q)'
      BY <2>3 DEF RInv, TypeOK, Holding, Render
    <3>3. ASSUME NEW v \in Subvols PROVE Disturbed(v)'
      <4>1. CASE v = Target[r]
        BY <2>3, <4>1 DEF RInv, TypeOK, Disturbed, Render
      <4>2. CASE v # Target[r]
        <5>1. ro'[v] = ro[v] /\ orig' = orig
          BY <2>3, <4>2 DEF RInv, TypeOK, Render
        <5>2. ro[v] # orig[v] =>
                \E q \in Renderers \ {r} :
                    /\ Target[q] = v
                    /\ \/ pc[q] = "rendered"
                       \/ pc[q] = "done" /\ restoreFailed[q]
          BY <2>3, <4>2 DEF RInv, Disturbed, Render
        <5>3. QED
          BY <2>3, <5>1, <5>2 DEF RInv, TypeOK, Disturbed, Render
      <4>3. QED
        BY <4>1, <4>2
    <3>4. QED
      BY <3>1, <3>2, <3>3 DEF RInv
  <2>4. CASE Finished
    BY <2>4 DEF RInv, TypeOK, Holding, Disturbed, Finished, vars
  <2>5. CASE UNCHANGED vars
    BY <2>5 DEF RInv, TypeOK, Holding, Disturbed, vars
  <2>6. QED
    BY <2>1, <2>2, <2>3, <2>4, <2>5 DEF Next
<1>3. QED
  BY <1>1, <1>2, PTL DEF Spec

(* render_subvol restores the read-only flag: for any renderers and        *)
(* subvolumes, when each subvolume is rendered by at most one call, once   *)
(* the calls of a subvolume are over with no failed set_readonly, it has   *)
(* the ro property it had before.                                          *)
THEOREM ReadonlyRestoredProof ==
    ASSUME DistinctTargets
    PROVE  Spec => []ReadonlyRestored
<1>1. RInv => ReadonlyRestored
  BY DEF RInv, Disturbed, ReadonlyRestored
<1>2. QED
  BY RInvInductive, <1>1, PTL
=============================================================================
