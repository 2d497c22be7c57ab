--------------------------- MODULE YumDnfSandbox ---------------------------
(***************************************************************************)
(* yum_dnf_from_snapshot (antlir/rpm/yum_dnf_from_snapshot.py): the        *)
(* Python parent and the package manager child it runs under unshare.      *)
(*                                                                         *)
(* The parent computes the protected paths, then nests three scoped        *)
(* resources: a dummy /dev (_dummy_dev), an empty directory td and an      *)
(* empty file tf to bind-mount over the protected paths                    *)
(* (_dummies_for_protected_paths), and the child process (Popen).  The     *)
(* child is bash -o pipefail -uexc running the script of _isolate_yum_dnf  *)
(* in a private mount namespace: it mounts the dummy /dev, mounts the      *)
(* dummies read-only on the protected paths, relocates /var/tmp onto a     *)
(* fresh temporary directory, sets an EXIT trap that removes it, and       *)
(* execs the package manager.  The parent waits, checks the return code,   *)
(* and unwinds its resources in reverse order.                             *)
(*                                                                         *)
(* A path is a record: its name (a tuple of components), whether it is     *)
(* absolute, and whether it is written with a trailing slash.  normpath    *)
(* drops the slash, so a path's key is its name and absoluteness.  The     *)
(* inputs of a run -- the caller's paths, the program, where it installs,  *)
(* whether yum is installed apart from dnf, whether the install root has   *)
(* a .meta directory, and the type on disk of the caller's paths -- are    *)
(* chosen in Init and kept.                                                *)
(***************************************************************************)
EXTENDS Naturals, Sequences, FiniteSets

CONSTANTS
    CallerPaths,     \* the --protected-path values a caller may pass
    MaxCallerPaths   \* bound on how many it passes

ASSUME SandboxAssumption ==
    /\ CallerPaths \subseteq [n : Seq(STRING), abs : BOOLEAN, dir : BOOLEAN]
    /\ MaxCallerPaths \in Nat

VARIABLES
    caller,      \* the caller's list of protected paths
    prog,        \* yum_dnf.value: "yum" or "dnf"
    toRoot,      \* install_root.realpath() == "/"
    withYum,     \* has_yum() and not yum_is_dnf()
    metaExists,  \* os.path.exists(install_root / META_DIR)
    diskDir,     \* key of a caller path -> it is a directory on disk
    pc,          \* the parent's place in yum_dnf_from_snapshot
    exc,         \* an exception propagates through the parent's with
    dev,         \* the dummy /dev directory: "none", "created", "removed"
    dummies,     \* td and tf: "none", "created", "removed"
    child,       \* the child's place in the script, or "none"
    childOk,     \* the child exited with status 0
    mounted,     \* keys of the protected paths mounted in the child
    varTmp       \* the directory of mktemp -d: "none", "created", "removed"

inputs == <<caller, prog, toRoot, withYum, metaExists, diskDir>>
vars == <<inputs, pc, exc, dev, dummies, child, childOk, mounted, varTmp>>

Path(n, abs, dir) == [n |-> n, abs |-> abs, dir |-> dir]

Key(p) == [n |-> p.n, abs |-> p.abs]

MetaDir == Path(<<".meta">>, FALSE, TRUE)

(* The internal defaults, lines 432-447.                                   *)
Defaults(pg, yum) ==
    << Path(<<"etc", "yum.repos.d">>, TRUE, TRUE),
       Path(<<"etc", pg>>, TRUE, TRUE),
       Path(<<"etc", "pki", "rpm-gpg">>, TRUE, TRUE),
       Path(<<"etc", "rpm">>, TRUE, TRUE),
       MetaDir >>
    \o (IF yum THEN << Path(<<"etc", "yum">>, TRUE, TRUE) >> ELSE << >>)

(* The host DBs and log, protected when not installing to /, 454-466.     *)
HostDbs(pg) ==
    << Path(<<"var", "log", pg, "log">>, TRUE, FALSE),
       Path(<<"var", "lib", pg>>, TRUE, TRUE),
       Path(<<"var", "lib", "rpm">>, TRUE, TRUE),
       Path(<<"var", "cache", pg>>, TRUE, TRUE) >>

(* What protected_paths adds to the caller's paths: the defaults, and   *)
(* the host DBs unless installing to / (lines 424-467).                    *)
ProtectedDefaults(pg, root, yum) ==
    Defaults(pg, yum) \o (IF root THEN << >> ELSE HostDbs(pg))

(* Variant of ProtectedList that puts the caller's paths after the        *)
(* defaults.                                                               *)
ProtectedListCallerLast(cl, pg, root, yum) ==
    ProtectedDefaults(pg, root, yum) \o cl

(* protected_paths, the caller's paths first (line 424).                  *)
ProtectedList(cl, pg, root, yum) ==
    cl \o ProtectedDefaults(pg, root, yum)

(* The generator's filter (line 484): META_DIR only if the install root   *)
(* has one.                                                                *)
Shown(l, meta) == {i \in 1..Len(l) : l[i] # MetaDir \/ meta}

(* The dict comprehension of _dummies_for_protected_paths over that        *)
(* generator: normalised path -> td if the path has a trailing slash, tf   *)
(* otherwise; for duplicate keys the last path wins.                       *)
DummyMap(l, meta) ==
    [k \in {Key(l[i]) : i \in Shown(l, meta)} |->
        LET I == {i \in Shown(l, meta) : Key(l[i]) = k}
            last == CHOOSE i \in I : \A j \in I : j <= i
        IN  IF l[last].dir THEN "td" ELSE "tf"]

Protection ==
    DummyMap(ProtectedList(caller, prog, toRoot, withYum), metaExists)

DefaultList == ProtectedDefaults(prog, toRoot, withYum)

(* The type on disk of a protected path: the defaults exist with the type *)
(* their form gives (line 430), the caller's as diskDir says.             *)
IsDirOnDisk(k) ==
    IF \E i \in 1..Len(DefaultList) : Key(DefaultList[i]) = k
    THEN \E i \in 1..Len(DefaultList) : Key(DefaultList[i]) = k /\ DefaultList[i].dir
    ELSE diskDir[k]

(* mount --bind of a directory on a directory or a file on a file.         *)
Fits(k) == (Protection[k] = "td") = IsDirOnDisk(k)

CallerKeys == {Key(p) : p \in CallerPaths}

CallerLists == UNION {[1..m -> CallerPaths] : m \in 0..MaxCallerPaths}

-----------------------------------------------------------------------------
Init ==
    /\ caller \in CallerLists
    /\ prog \in {"yum", "dnf"}
    /\ toRoot \in BOOLEAN
    /\ withYum \in BOOLEAN
    /\ metaExists \in BOOLEAN
    /\ diskDir \in [CallerKeys -> BOOLEAN]
    /\ pc = "start"
    /\ exc = FALSE
    /\ dev = "none"
    /\ dummies = "none"
    /\ child = "none"
    /\ childOk = FALSE
    /\ mounted = {}
    /\ varTmp = "none"

(* Lines 411-473 up to the with: resolving the binary, the container and  *)
(* private-network checks, touching the host log, the --config check.     *)
(* Each raises on failure, before any resource exists.                     *)
Preflight(ok) ==
    /\ pc = "start"
    /\ pc' = IF ok THEN "preflighted" ELSE "done"
    /\ exc' = ~ok
    /\ UNCHANGED <<inputs, dev, dummies, child, childOk, mounted, varTmp>>

(* _dummy_dev: mkdtemp, then sudo chown, chmod and touch null; a failing  *)
(* check_call reaches the finally, which removes the directory.            *)
DummyDev(ok) ==
    /\ pc = "preflighted"
    /\ dev' = IF ok THEN "created" ELSE "removed"
    /\ pc' = IF ok THEN "devReady" ELSE "done"
    /\ exc' = ~ok
    /\ UNCHANGED <<inputs, dummies, child, childOk, mounted, varTmp>>

(* _dummies_for_protected_paths: temp_dir and NamedTemporaryFile, and the *)
(* mapping yielded.                                                        *)
Dummies ==
    /\ pc = "devReady"
    /\ dummies' = "created"
    /\ pc' = "dummiesReady"
    /\ UNCHANGED <<inputs, exc, dev, child, childOk, mounted, varTmp>>

(* Variant of Spawn that goes on to wait for the process even when Popen *)
(* raised and no process was started.                                      *)
SpawnWaitsAnyway(ok) ==
    /\ pc = "dummiesReady"
    /\ child' = IF ok THEN "setup" ELSE child
    /\ pc' = "running"
    /\ exc' = FALSE
    /\ UNCHANGED <<inputs, dev, dummies, childOk, mounted, varTmp>>

(* subprocess.Popen of sudo unshare ... bash; it raises if it cannot       *)
(* start the process.                                                      *)
Spawn(ok) ==
    /\ pc = "dummiesReady"
    /\ child' = IF ok THEN "setup" ELSE child
    /\ pc' = IF ok THEN "running" ELSE "unwinding"
    /\ exc' = ~ok
    /\ UNCHANGED <<inputs, dev, dummies, childOk, mounted, varTmp>>

(* Variant of Wait that does not wait for the process.                     *)
WaitSkipped ==
    /\ pc = "running"
    /\ pc' = "unwinding"
    /\ exc' = ~(child = "exited" /\ childOk)
    /\ UNCHANGED <<inputs, dev, dummies, child, childOk, mounted, varTmp>>

(* yum_dnf_proc.wait() and check_popen_returncode, which raises on a       *)
(* non-zero status.                                                        *)
Wait ==
    /\ pc = "running"
    /\ child = "exited"
    /\ pc' = "unwinding"
    /\ exc' = ~childOk
    /\ UNCHANGED <<inputs, dev, dummies, child, childOk, mounted, varTmp>>

(* Variant of Unwind whose removal of the dummy /dev is not in a finally:  *)
(* it runs only when no exception propagates.                              *)
UnwindNoFinally ==
    /\ pc = "unwinding"
    /\ dummies' = "removed"
    /\ dev' = IF exc THEN dev ELSE "removed"
    /\ pc' = "done"
    /\ UNCHANGED <<inputs, exc, child, childOk, mounted, varTmp>>

(* The with unwinds: Popen.__exit__; the dummies' generator (its check    *)
(* that td and tf are still empty runs only if no exception propagates,   *)
(* and passes: they are mounted read-only); tf and td are deleted; the    *)
(* finally of _dummy_dev removes the dummy /dev.                           *)
Unwind ==
    /\ pc = "unwinding"
    /\ dummies' = "removed"
    /\ dev' = "removed"
    /\ pc' = "done"
    /\ UNCHANGED <<inputs, exc, child, childOk, mounted, varTmp>>

-----------------------------------------------------------------------------
(* The child ends with a failure status: under -e a failing command ends  *)
(* the script.                                                             *)
ChildFails ==
    /\ child' = "exited"
    /\ childOk' = FALSE

(* mkdir, chown, chmod of $install_root/dev, then the bind mounts of the  *)
(* dummy /dev and of /dev/null; they fail if the dummy /dev is gone.       *)
ChildDev(ok) ==
    /\ child = "setup"
    /\ IF ok /\ dev = "created"
       THEN child' = "devMounted" /\ UNCHANGED childOk
       ELSE ChildFails
    /\ UNCHANGED <<inputs, pc, exc, dev, dummies, mounted, varTmp>>

(* Variant of ChildProtect for a script run without -e: a failing mount   *)
(* is reported and the script goes on.                                     *)
ChildProtectNoErrexit ==
    /\ child = "devMounted"
    /\ mounted' = {k \in DOMAIN Protection : dummies = "created" /\ Fits(k)}
    /\ child' = "protected"
    /\ UNCHANGED <<inputs, pc, exc, dev, dummies, childOk, varTmp>>

(* The mount ... -o bind,ro lines, one per protected path; the first that *)
(* fails (its dummy is gone or has the other type) ends the script.        *)
ChildProtect ==
    /\ child = "devMounted"
    /\ IF dummies = "created" /\ \A k \in DOMAIN Protection : Fits(k)
       THEN /\ mounted' = DOMAIN Protection
            /\ child' = "protected"
            /\ UNCHANGED childOk
       ELSE /\ ChildFails
            /\ UNCHANGED mounted
    /\ UNCHANGED <<inputs, pc, exc, dev, dummies, varTmp>>

(* The bad_file loop (guarded by -e tests, it cannot fail), then          *)
(* var_tmp=$(mktemp -d ...), mount "$var_tmp" /var/tmp and the trap: if   *)
(* the mount fails the script ends before the trap is set.                 *)
ChildVarTmp(ok) ==
    /\ child = "protected"
    /\ varTmp' = "created"
    /\ IF ok THEN child' = "trapped" /\ UNCHANGED childOk ELSE ChildFails
    /\ UNCHANGED <<inputs, pc, exc, dev, dummies, mounted>>

(* exec "$@": bash is replaced by the package manager and its EXIT trap   *)
(* is gone; if exec cannot run the command, bash exits and the trap       *)
(* removes the directory.                                                  *)
ChildExec(found) ==
    /\ child = "trapped"
    /\ IF found
       THEN child' = "running" /\ UNCHANGED <<childOk, varTmp>>
       ELSE ChildFails /\ varTmp' = "removed"
    /\ UNCHANGED <<inputs, pc, exc, dev, dummies, mounted>>

(* The package manager exits; its mount namespace goes with it.            *)
PackageManagerExits(ok) ==
    /\ child = "running"
    /\ child' = "exited"
    /\ childOk' = ok
    /\ UNCHANGED <<inputs, pc, exc, dev, dummies, mounted, varTmp>>

Done ==
    /\ pc = "done"
    /\ child \in {"none", "exited"}
    /\ UNCHANGED vars

Next ==
    \/ \E ok \in BOOLEAN : Preflight(ok) \/ DummyDev(ok) \/ Spawn(ok)
    \/ Dummies \/ Wait \/ Unwind
    \/ \E ok \in BOOLEAN :
          ChildDev(ok) \/ ChildVarTmp(ok) \/ ChildExec(ok) \/ PackageManagerExits(ok)
    \/ ChildProtect
    \/ Done

Spec == Init /\ [][Next]_vars

(* The parent is one sequential Python thread: a step of it that can be   *)
(* taken is eventually taken.                                              *)
ParentStep ==
    \/ \E ok \in BOOLEAN : Preflight(ok) \/ DummyDev(ok) \/ Spawn(ok)
    \/ Dummies \/ Wait \/ Unwind

(* The child is one bash process, then the package manager exec'd in its  *)
(* place; the package manager is assumed to exit (wait() has no timeout). *)
ChildStep ==
    \/ \E ok \in BOOLEAN :
          ChildDev(ok) \/ ChildVarTmp(ok) \/ ChildExec(ok) \/ PackageManagerExits(ok)
    \/ ChildProtect

FairSpec == Spec /\ WF_vars(ParentStep) /\ WF_vars(ChildStep)

-----------------------------------------------------------------------------
TypeOK ==
    /\ caller \in CallerLists
    /\ prog \in {"yum", "dnf"}
    /\ {toRoot, withYum, metaExists, exc, childOk} \subseteq BOOLEAN
    /\ diskDir \in [CallerKeys -> BOOLEAN]
    /\ pc \in {"start", "preflighted", "devReady", "dummiesReady", "running",
              "unwinding", "done"}
    /\ {dev, dummies, varTmp} \subseteq {"none", "created", "removed"}
    /\ child \in {"none", "setup", "devMounted", "protected", "trapped",
                 "running", "exited"}
    /\ mounted \subseteq DOMAIN Protection

(* The parent tears down nothing the child uses while the child runs: the *)
(* dummy /dev and the dummies are removed only once the child has exited  *)
(* ("Wait **before** we tear down all the yum / dnf isolation").          *)
TeardownAfterChildExit ==
    dev = "removed" \/ dummies = "removed" => child \in {"none", "exited"}

(* yum_dnf_from_snapshot returns normally only if the package manager ran *)
(* and succeeded with every protected path covered by its read-only       *)
(* dummy.                                                                  *)
SuccessMeansIsolated ==
    pc = "done" /\ ~exc =>
        /\ child = "exited" /\ childOk
        /\ mounted = DOMAIN Protection

(* "There are some internal defaults that cannot be un-protected" (the    *)
(* --protected-path help): whatever paths the caller passes, each default *)
(* that is protected at all is covered by a dummy of its own type.        *)
DefaultsProtected ==
    \A i \in 1..Len(DefaultList) :
        LET d == DefaultList[i] IN
        d # MetaDir \/ metaExists =>
            Protection[Key(d)] = IF d.dir THEN "td" ELSE "tf"

(* Once the parent is done, the sandbox left nothing on the host: the     *)
(* dummy /dev and the dummies are deleted, however the run failed.        *)
SandboxCleanedUp ==
    pc = "done" => dev # "created" /\ dummies # "created"

(* yum_dnf_from_snapshot returns or raises, and by then the process it   *)
(* spawned has exited: no step fails in a way that leaves the parent      *)
(* waiting on a child that will never exit, or the child waiting on the   *)
(* parent (wait() at line 535 before the with-block unwinds).             *)
SandboxTerminates ==
    <>(pc = "done" /\ child \in {"none", "exited"})

(* The comment of the script: the trap "rmdir "$var_tmp"" cleans up the   *)
(* isolation directory, since "the trap above means the bash process is   *)
(* not replaced by the child"; once the parent is done no directory made  *)
(* by mktemp -d is left.                                                   *)
VarTmpRemoved ==
    pc = "done" => varTmp # "created"
=============================================================================
