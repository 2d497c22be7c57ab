------------------------- MODULE YumDnfSandboxProofs -------------------------
(***************************************************************************)
(* Proofs about YumDnfSandbox: the parent's teardown never runs while the *)
(* package manager's process is alive, and leaves no dummy on the host.    *)
(***************************************************************************)
EXTENDS YumDnfSandbox, SequenceTheorems, WellFoundedInduction, TLAPS

Alive == {"setup", "devMounted", "protected", "trapped", "running"}

(* The strengthening: which resources exist at each place of the parent,   *)
(* and where the parent can be while the child is alive.                   *)
SInv ==
    /\ child \in Alive => pc = "running" /\ dev = "created" /\ dummies = "created"
    /\ pc \in {"start", "preflighted", "devReady", "dummiesReady"} => child = "none"
    /\ pc \in {"start", "preflighted"} => dev = "none"
    /\ pc \in {"start", "preflighted", "devReady"} => dummies = "none"
    /\ pc \in {"devReady", "dummiesReady", "running", "unwinding"} => dev = "created"
    /\ pc \in {"dummiesReady", "running", "unwinding"} => dummies = "created"
    /\ pc \in {"unwinding", "done"} => child \in {"none", "exited"}
    /\ dev = "removed" \/ dummies = "removed" => pc = "done"
    /\ pc = "done" => dev # "created" /\ dummies # "created"

(* Every state of a run satisfies the strengthening.                        *)
LEMMA SInvInductive == Spec => []SInv
<1>1. Init => SInv
  BY DEF Init, SInv, Alive
<1>2. SInv /\ [Next]_vars => SInv'
  <2> SUFFICES ASSUME SInv, [Next]_vars PROVE SInv'
    OBVIOUS
  <2>1. ASSUME NEW ok \in BOOLEAN, Preflight(ok) PROVE SInv'
    BY <2>1 DEF SInv, Alive, Preflight
  <2>2. ASSUME NEW ok \in BOOLEAN, DummyDev(ok) PROVE SInv'
    BY <2>2 DEF SInv, Alive, DummyDev
  <2>3. ASSUME NEW ok \in BOOLEAN, Spawn(ok) PROVE SInv'
    BY <2>3 DEF SInv, Alive, Spawn
  <2>4. CASE Dummies
    BY <2>4 DEF SInv, Alive, Dummies
  <2>5. CASE Wait
    BY <2>5 DEF SInv, Alive, Wait
  <2>6. CASE Unwind
    BY <2>6 DEF SInv, Alive, Unwind
  <2>7. ASSUME NEW ok \in BOOLEAN, ChildDev(ok) PROVE SInv'
    BY <2>7 DEF SInv, Alive, ChildDev, ChildFails
  <2>8. ASSUME NEW ok \in BOOLEAN, ChildVarTmp(ok) PROVE SInv'
    BY <2>8 DEF SInv, Alive, ChildVarTmp, ChildFails
  <2>9. ASSUME NEW ok \in BOOLEAN, ChildExec(ok) PROVE SInv'
    BY <2>9 DEF SInv, Alive, ChildExec, ChildFails
  <2>10. ASSUME NEW ok \in BOOLEAN, PackageManagerExits(ok) PROVE SInv'
    BY <2>10 DEF SInv, Alive, PackageManagerExits
  <2>11. CASE ChildProtect
    BY <2>11 DEF SInv, Alive, ChildProtect, ChildFails
  <2>12. CASE Done \/ UNCHANGED vars
    BY <2>12 DEF SInv, Done, vars
  <2>13. QED
    BY <2>1, <2>2, <2>3, <2>4, <2>5, <2>6, <2>7, <2>8, <2>9, <2>10,
       <2>11, <2>12 DEF Next
<1>3. QED
  BY <1>1, <1>2, PTL DEF Spec

(* "Wait **before** we tear down all the yum / dnf isolation": for any    *)
(* protected paths, the dummy /dev and the dummies are removed only once  *)
(* the package manager's process has exited or was never started.         *)
THEOREM TeardownSafe == Spec => []TeardownAfterChildExit
<1>1. SInv => TeardownAfterChildExit
  BY DEF SInv, TeardownAfterChildExit
<1>2. QED
  BY SInvInductive, <1>1, PTL

(* The with-statements of yum_dnf_from_snapshot leave no dummy /dev and   *)
(* no dummy file or directory behind, whichever step failed.               *)
THEOREM CleanedUp == Spec => []SandboxCleanedUp
<1>1. SInv => SandboxCleanedUp
  BY DEF SInv, SandboxCleanedUp
<1>2. QED
  BY SInvInductive, <1>1, PTL
-----------------------------------------------------------------------------
(***************************************************************************)
(* Why success means isolation: once the child is past its protect lines, *)
(* or has exited with status 0, every protected path is mounted; and the  *)
(* parent unwinds without an exception only after a status-0 exit.        *)
(***************************************************************************)
IsoInv ==
    /\ child \in {"protected", "trapped", "running"} \/ (child = "exited" /\ childOk)
         => mounted = DOMAIN Protection
    /\ pc \in {"unwinding", "done"} /\ ~exc => child = "exited" /\ childOk

(* The inputs are chosen once, so the protected paths never change.       *)
LEMMA ProtectionFixed ==
    ASSUME UNCHANGED inputs
    PROVE  Protection' = Protection
BY DEF Protection, inputs

LEMMA IsoInvInductive == Spec => [](SInv /\ IsoInv)
<1>1. Init => IsoInv
  BY DEF Init, IsoInv
<1>2. SInv /\ IsoInv /\ [Next]_vars => IsoInv'
  <2> SUFFICES ASSUME SInv, IsoInv, [Next]_vars PROVE IsoInv'
    OBVIOUS
  <2>1. ASSUME NEW ok \in BOOLEAN, Preflight(ok) PROVE IsoInv'
    BY <2>1, ProtectionFixed DEF IsoInv, SInv, Preflight
  <2>2. ASSUME NEW ok \in BOOLEAN, DummyDev(ok) PROVE IsoInv'
    BY <2>2, ProtectionFixed DEF IsoInv, SInv, DummyDev
  <2>3. ASSUME NEW ok \in BOOLEAN, Spawn(ok) PROVE IsoInv'
    BY <2>3, ProtectionFixed DEF IsoInv, Spawn
  <2>4. CASE Dummies
    BY <2>4, ProtectionFixed DEF IsoInv, Dummies
  <2>5. CASE Wait
    BY <2>5, ProtectionFixed DEF IsoInv, Wait
  <2>6. CASE Unwind
    BY <2>6, ProtectionFixed DEF IsoInv, Unwind
  <2>7. ASSUME NEW ok \in BOOLEAN, ChildDev(ok) PROVE IsoInv'
    BY <2>7, ProtectionFixed DEF IsoInv, SInv, Alive, ChildDev, ChildFails
  <2>8. ASSUME NEW ok \in BOOLEAN, ChildVarTmp(ok) PROVE IsoInv'
    BY <2>8, ProtectionFixed DEF IsoInv, SInv, Alive, ChildVarTmp, ChildFails
  <2>9. ASSUME NEW ok \in BOOLEAN, ChildExec(ok) PROVE IsoInv'
    BY <2>9, ProtectionFixed DEF IsoInv, SInv, Alive, ChildExec, ChildFails
  <2>10. ASSUME NEW ok \in BOOLEAN, PackageManagerExits(ok) PROVE IsoInv'
    BY <2>10, ProtectionFixed DEF IsoInv, SInv, Alive, PackageManagerExits
  <2>11. CASE ChildProtect
    BY <2>11, ProtectionFixed DEF IsoInv, SInv, Alive, ChildProtect, ChildFails
  <2>12. CASE Done \/ UNCHANGED vars
    BY <2>12, ProtectionFixed DEF IsoInv, Done, vars
  <2>13. QED
    BY <2>1, <2>2, <2>3, <2>4, <2>5, <2>6, <2>7, <2>8, <2>9, <2>10,
       <2>11, <2>12 DEF Next
<1>3. QED
  BY <1>1, <1>2, SInvInductive, PTL DEF Spec

(* yum_dnf_from_snapshot returns normally only after the package manager  *)
(* exited with status 0 having run with every protected path under its    *)
(* read-only dummy, for any caller paths, program and install root: the   *)
(* script's set -e stops it at the first failed mount, and               *)
(* check_popen_returncode turns that stop into an exception.              *)
THEOREM Isolated == Spec => []SuccessMeansIsolated
<1>1. IsoInv => SuccessMeansIsolated
  BY DEF IsoInv, SuccessMeansIsolated
<1>2. QED
  BY IsoInvInductive, <1>1, PTL
-----------------------------------------------------------------------------
(***************************************************************************)
(* Why the defaults cannot be un-protected: the caller's paths come first *)
(* in protected_paths, so for the key of a default the last path of the   *)
(* generator is a default too; and two defaults with one key have one     *)
(* type, since only the host log is a file and its name is the only one   *)
(* of four components.                                                     *)
(***************************************************************************)

(* A nonempty set of indices has a last one.                               *)
LEMMA LastIndex ==
    ASSUME NEW N \in Nat, NEW I \in SUBSET (1..N), I # {}
    PROVE  \E m \in I : \A j \in I : j <= m
<1> DEFINE T == {N - i : i \in I}
<1>1. T \subseteq Nat /\ T # {}
  <2>1. \A i \in I : N - i \in Nat
    OBVIOUS
  <2>2. PICK i0 \in I : TRUE
    OBVIOUS
  <2>3. N - i0 \in T
    BY DEF T
  <2>4. QED
    BY <2>1, <2>3 DEF T
<1>2. PICK x \in T : \A y \in T : ~(<<y, x>> \in OpToRel(<, Nat))
  BY <1>1, NatLessThanWellFounded, WFMin
<1>3. PICK m \in I : x = N - m
  BY <1>2 DEF T
<1>4. ASSUME NEW j \in I PROVE ~(N - j < N - m)
  <2>1. N - j \in T
    BY Zenon DEF T
  <2>2. j \in 1..N /\ m \in 1..N
    OBVIOUS
  <2>3. N - j \in Nat /\ N - m \in Nat
    BY <2>2
  <2>4. QED
    BY <1>2, <1>3, <2>1, <2>3 DEF OpToRel
<1>5. QED
  BY <1>4

(* The components of the defaults' names.                                  *)
Comp(pg) ==
    {"etc", "yum.repos.d", "pki", "rpm-gpg", "rpm", ".meta", "yum",
     "var", "log", "lib", "cache", pg}

LogPath(pg) == Path(<<"var", "log", pg, "log">>, TRUE, FALSE)

(* The paths a default can be: the host log, or a directory whose name    *)
(* has fewer than four components.                                        *)
DefaultPaths(pg) ==
    {LogPath(pg)} \cup
    {p \in [n : Seq(Comp(pg)), abs : BOOLEAN, dir : {TRUE}] : Len(p.n) < 4}

(* Two defaults with one key have one type.                                *)
LEMMA DefaultKeysTyped ==
    ASSUME NEW pg, NEW x \in DefaultPaths(pg), NEW y \in DefaultPaths(pg),
           Key(x) = Key(y)
    PROVE  x.dir = y.dir
<1>1. Len(LogPath(pg).n) = 4
  BY DEF LogPath, Path
<1>2. x.n = y.n
  BY DEF Key
<1>3. ASSUME NEW u \in DefaultPaths(pg), NEW v \in DefaultPaths(pg),
             u.n = v.n, u = LogPath(pg)
      PROVE  v = LogPath(pg)
  <2>1. Len(v.n) = 4
    BY <1>1, <1>3
  <2>2. v = LogPath(pg) \/ Len(v.n) < 4
    BY Zenon DEF DefaultPaths
  <2>3. QED
    BY <2>1, <2>2
<1>4. x = LogPath(pg) <=> y = LogPath(pg)
  BY <1>2, <1>3
<1>5. QED
  BY <1>4 DEF DefaultPaths, LogPath, Path

(* Tuples of members of S are sequences over S.                           *)
LEMMA Tuple1InSeq ==
    ASSUME NEW S, NEW a \in S
    PROVE  <<a>> \in Seq(S)
OBVIOUS

LEMMA Tuple4InSeq ==
    ASSUME NEW S, NEW a \in S, NEW b \in S, NEW c \in S, NEW d \in S
    PROVE  <<a, b, c, d>> \in Seq(S)
OBVIOUS

LEMMA Tuple5InSeq ==
    ASSUME NEW S, NEW a \in S, NEW b \in S, NEW c \in S, NEW d \in S,
           NEW e \in S
    PROVE  <<a, b, c, d, e>> \in Seq(S)
OBVIOUS

LEMMA DirDefault ==
    ASSUME NEW pg, NEW nm \in Seq(Comp(pg)), Len(nm) < 4, NEW a \in BOOLEAN
    PROVE  Path(nm, a, TRUE) \in DefaultPaths(pg)
BY DEF DefaultPaths, Path

LEMMA DefaultsListed ==
    ASSUME NEW pg \in {"yum", "dnf"}, NEW root \in BOOLEAN, NEW yum \in BOOLEAN
    PROVE  ProtectedDefaults(pg, root, yum) \in Seq(DefaultPaths(pg))
<1> DEFINE G == DefaultPaths(pg)
<1>1. << Path(<<"etc", "yum.repos.d">>, TRUE, TRUE),
         Path(<<"etc", pg>>, TRUE, TRUE),
         Path(<<"etc", "pki", "rpm-gpg">>, TRUE, TRUE),
         Path(<<"etc", "rpm">>, TRUE, TRUE),
         MetaDir >> \in Seq(G)
  <2>1. /\ Path(<<"etc", "yum.repos.d">>, TRUE, TRUE) \in G
        /\ Path(<<"etc", pg>>, TRUE, TRUE) \in G
        /\ Path(<<"etc", "pki", "rpm-gpg">>, TRUE, TRUE) \in G
        /\ Path(<<"etc", "rpm">>, TRUE, TRUE) \in G
        /\ MetaDir \in G
    <3>1. /\ <<"etc", "yum.repos.d">> \in Seq(Comp(pg))
          /\ <<"etc", pg>> \in Seq(Comp(pg))
          /\ <<"etc", "pki", "rpm-gpg">> \in Seq(Comp(pg))
          /\ <<"etc", "rpm">> \in Seq(Comp(pg))
          /\ <<".meta">> \in Seq(Comp(pg))
      BY DEF Comp
    <3>2. /\ Len(<<"etc", "yum.repos.d">>) < 4
          /\ Len(<<"etc", pg>>) < 4
          /\ Len(<<"etc", "pki", "rpm-gpg">>) < 4
          /\ Len(<<"etc", "rpm">>) < 4
          /\ Len(<<".meta">>) < 4
      OBVIOUS
    <3>3. QED
      BY <3>1, <3>2, DirDefault DEF G, MetaDir
  <2>2. QED
    BY <2>1, Tuple5InSeq
<1>2. (IF yum THEN << Path(<<"etc", "yum">>, TRUE, TRUE) >> ELSE << >>) \in Seq(G)
  <2>1. << Path(<<"etc", "yum">>, TRUE, TRUE) >> \in Seq(G)
    <3>1. <<"etc", "yum">> \in Seq(Comp(pg)) /\ Len(<<"etc", "yum">>) < 4
      BY DEF Comp
    <3>2. Path(<<"etc", "yum">>, TRUE, TRUE) \in G
      BY <3>1, DirDefault DEF G
    <3>3. QED
      BY <3>2, Tuple1InSeq
  <2>2. << >> \in Seq(G)
    OBVIOUS
  <2>3. QED
    BY <2>1, <2>2
<1>3. Defaults(pg, yum) \in Seq(G)
  BY <1>1, <1>2, ConcatProperties DEF Defaults
<1>4. HostDbs(pg) \in Seq(G)
  <2>1. /\ <<"var", "lib", pg>> \in Seq(Comp(pg))
        /\ <<"var", "lib", "rpm">> \in Seq(Comp(pg))
        /\ <<"var", "cache", pg>> \in Seq(Comp(pg))
        /\ Len(<<"var", "lib", pg>>) < 4
        /\ Len(<<"var", "lib", "rpm">>) < 4
        /\ Len(<<"var", "cache", pg>>) < 4
    BY DEF Comp
  <2>2. /\ Path(<<"var", "lib", pg>>, TRUE, TRUE) \in G
        /\ Path(<<"var", "lib", "rpm">>, TRUE, TRUE) \in G
        /\ Path(<<"var", "cache", pg>>, TRUE, TRUE) \in G
        /\ Path(<<"var", "log", pg, "log">>, TRUE, FALSE) \in G
    BY <2>1, DirDefault DEF G, DefaultPaths, LogPath
  <2>3. QED
    BY <2>2, Tuple4InSeq DEF HostDbs
<1>5. (IF root THEN << >> ELSE HostDbs(pg)) \in Seq(G)
  <2>1. << >> \in Seq(G)
    OBVIOUS
  <2>2. QED
    BY <1>4, <2>1
<1>6. QED
  BY <1>3, <1>5, ConcatProperties DEF ProtectedDefaults
(* For any caller list, program, root, host and .meta: the last path the *)
(* generator yields with a default's key is a default of the same type,  *)
(* so the dict maps that key to the default's dummy.                     *)
LEMMA DefaultWins ==
    ASSUME NEW cl \in Seq(CallerPaths), NEW pg \in {"yum", "dnf"},
           NEW root \in BOOLEAN, NEW yum \in BOOLEAN, NEW meta \in BOOLEAN,
           NEW i \in 1..Len(ProtectedDefaults(pg, root, yum)),
           ProtectedDefaults(pg, root, yum)[i] # MetaDir \/ meta
    PROVE  DummyMap(ProtectedList(cl, pg, root, yum), meta)
               [Key(ProtectedDefaults(pg, root, yum)[i])]
           = IF ProtectedDefaults(pg, root, yum)[i].dir THEN "td" ELSE "tf"
<1> DEFINE D == ProtectedDefaults(pg, root, yum)
           l == ProtectedList(cl, pg, root, yum)
           depth == Len(cl)
           d == D[i]
           k == Key(d)
           I == {j \in Shown(l, meta) : Key(l[j]) = k}
           last == CHOOSE j \in I : \A j2 \in I : j2 <= j
<1>1. D \in Seq(DefaultPaths(pg))
  BY DefaultsListed DEF D
<1>2. /\ Len(l) = depth + Len(D)
      /\ \A j \in 1..depth + Len(D) :
            l[j] = IF j <= depth THEN cl[j] ELSE D[j - depth]
  <2>1. cl \in Seq(CallerPaths \cup DefaultPaths(pg))
        /\ D \in Seq(CallerPaths \cup DefaultPaths(pg))
    BY <1>1
  <2>2. QED
    BY <2>1, ConcatProperties DEF ProtectedList, l, D, depth
<1>3. depth + i \in I
  <2>1. depth + i \in 1..Len(l) /\ l[depth + i] = d
    BY <1>2 DEF d
  <2>2. QED
    BY <2>1 DEF I, Shown, k, d
<1>4. \E m \in I : \A j \in I : j <= m
  <2>1. I \in SUBSET (1..Len(l)) /\ Len(l) \in Nat
    BY DEF I, Shown
  <2>2. QED
    BY <1>3, <2>1, LastIndex
<1>5. last \in I /\ \A j \in I : j <= last
  BY <1>4 DEF last
<1>6. last - depth \in 1..Len(D) /\ l[last] = D[last - depth]
  <2>1. last \in 1..Len(l) /\ last >= depth + i
    BY <1>3, <1>5 DEF I, Shown
  <2>2. QED
    BY <1>2, <2>1
<1>7. Key(D[last - depth]) = k
  BY <1>5, <1>6 DEF I
<1>8. D[last - depth].dir = d.dir
  <2>1. D[last - depth] \in DefaultPaths(pg) /\ d \in DefaultPaths(pg)
    BY <1>1, <1>6 DEF d
  <2>2. QED
    BY <1>7, <2>1, DefaultKeysTyped DEF k
<1>9. k \in {Key(l[j]) : j \in Shown(l, meta)}
  BY <1>3 DEF I
<1>10. DummyMap(l, meta)[k] = IF l[last].dir THEN "td" ELSE "tf"
  BY <1>9 DEF DummyMap, I, last
<1>11. QED
  BY <1>6, <1>8, <1>10 DEF d, k, D, l

(* The inputs are typed, and never change.                                 *)
InputsOK ==
    /\ caller \in Seq(CallerPaths)
    /\ prog \in {"yum", "dnf"}
    /\ toRoot \in BOOLEAN
    /\ withYum \in BOOLEAN
    /\ metaExists \in BOOLEAN

LEMMA NextKeepsInputs ==
    ASSUME [Next]_vars
    PROVE  UNCHANGED inputs
BY DEF Next, vars, Preflight, DummyDev, Spawn, Dummies, Wait, Unwind,
       ChildDev, ChildVarTmp, ChildExec, PackageManagerExits, ChildProtect,
       Done

LEMMA InputsTyped == Spec => []InputsOK
<1>1. Init => InputsOK
  <2>1. CallerLists \subseteq Seq(CallerPaths)
    BY DEF CallerLists
  <2>2. QED
    BY <2>1 DEF Init, InputsOK
<1>2. InputsOK /\ [Next]_vars => InputsOK'
  BY NextKeepsInputs DEF InputsOK, inputs
<1>3. QED
  BY <1>1, <1>2, PTL DEF Spec

(* "There are some internal defaults that cannot be un-protected": for    *)
(* any list of caller paths, program, install root and host, every        *)
(* default the generator yields is protected by a dummy of its own type,  *)
(* because the caller's paths come first and the dict keeps the last      *)
(* duplicate.                                                              *)
THEOREM DefaultsProtectedProof == Spec => []DefaultsProtected
<1>1. InputsOK => DefaultsProtected
  <2> SUFFICES ASSUME InputsOK, NEW i \in 1..Len(DefaultList),
                      DefaultList[i] # MetaDir \/ metaExists
               PROVE  Protection[Key(DefaultList[i])]
                      = IF DefaultList[i].dir THEN "td" ELSE "tf"
    BY DEF DefaultsProtected
  <2>2. QED
    BY DefaultWins DEF InputsOK, DefaultList, Protection
<1>2. QED
  BY InputsTyped, <1>1, PTL
=============================================================================
