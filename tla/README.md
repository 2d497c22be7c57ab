# TLA+ verification of antlir's blob storage commit protocol and its neighbours

This directory holds TLA+ models of the code under `src/`. It also holds the
TLC configurations that check them and TLAPS proofs about them.
`PROJECT.json` lists the components, runs, mutants, hazards and theorems
that this file explains.

## 1. The system

The sources are four Python files of antlir:

| file | part | what it does |
|---|---|---|
| `src/antlir/rpm/storage/storage.py` | **Storage core** | `StorageOutput` (write session), `StorageInput` (read session), `Storage._add_key` / `strip_key` (id namespacing), `_CommitCallback` (commit protocol and cleanup). |
| `src/antlir/vm/share.py` | **VM shares** | `Plan9Export`, `BtrfsDisk`, `BtrfsSeedRootDisk`, `QCow2RootDisk`. Global counters hand out 9p mount tags (`fs0, fs1, …`) and virtio drive names (`vdc, vdd, …`). `export_spec` writes one systemd mount unit per share into a temp dir. The root disks create scratch qcow2 images registered on an exit stack. |
| `src/antlir/rpm/yum_dnf_from_snapshot.py` | **yum/dnf sandbox** | Computes a set of protected paths. Then it nests three scoped resources: a dummy `/dev`, dummies bind-mounted over the protected paths, and the `unshare`d package manager process. The process runs a bash prologue that mounts, traps and `exec`s. Teardown undoes them in LIFO order. |
| `src/antlir/tests/subvol_helpers.py` | **test helpers** | `render_subvol` renders a subvolume and restores its read-only flag in a `finally`. `pop_path` and `check_common_rpm_render` are assertions over renderings. |

### 1.1 Storage core: state, operations, interactions

State of one write session (`with storage.writer() as out:`):

* `StorageOutput._output`: the backend sink; set to `None` by `commit()`.
* `_CommitCallback` has four fields:
  * `get_id_and_release_resources`: the backend's scoped finalize operation. It is set to `None` when a commit starts.
  * `id`: the keyed blob id, or `None`.
  * `remove`: true until a commit fully succeeds.
  * `remove_on_exception`.
* The backend's state: which blobs are persisted, and which have been removed.

Operations:

* `write(data)` forwards to the sink.
* `commit(remove_on_exception)` clears the sink and calls the callback. The callback rejects a second commit, records the flag and consumes the finalize reference. It then enters the backend's finalize, whose acquire persists the blob and yields a raw id. It keys the id with `_add_key` and leaves the finalize, whose release may still raise. Finally it clears `remove` and returns the id.
* `__exit__` runs at the end of the `with` block. If commit was never called, it commits implicitly and masks any failure. An exception leaving the block after `commit(remove_on_exception=True)` forces removal. Then, if `remove` is set and an id is known, `__exit__` calls `storage.remove(id)`.

The core talks to the backend through calls: the sink, the finalize context
manager, and `remove`. It talks to the caller through the `with` block, the
returned id and exceptions. Several sessions may be open on one storage at
once. One caller does this by stacking writers in a `contextlib.ExitStack`,
as the commit docstring suggests, and several threads can do it too. Sessions
share only the backend.

What makes the core hard:

* **Exceptions at every step.** The backend may fail before yielding an id, in its release after yielding one, or in `remove`.
* **The caller's order.** The caller may catch a failed commit and retry it, commit twice, or raise after committing.
* **The order of `__exit__`.** The implicit commit, the `remove_on_exception` override and the final remove decide together whether a blob survives.

Properties that make the core correct:

* The backend's finalize runs at most once per session.
* The callback's own assertions never fail.
* **Cleanup is complete.** After the block, a blob survives only if its id was handed to the caller and not revoked by `remove_on_exception`.
* A returned id is never removed without that request.
* The persisted blob holds exactly the chunks written before commit.
* `__exit__` never raises. The spec says so; the code does not guarantee it (§3).

### 1.2 Other components: state, operations, interactions

* **ExitStack of writers.** The docstring of `commit` (storage.py:57-60)
  recommends entering several writers into a `contextlib.ExitStack` to get
  all-or-nothing writes. The stack exits them last-entered first. An
  `__exit__` that raises hands its exception to the writers entered before it.
* **Namespacing.** A `Storage` configuration has a key, which never changes.
  `_add_key` checks the key against `_KEY_REGEX` and formats `key:raw`.
  `strip_key` splits an id at its first `:` and asserts that the prefix is the
  key. Several configurations may issue ids, and an id may be read back
  through any of them. The hazards:
  * the regex's `$` also accepts a trailing newline;
  * a raw id may itself hold `:`.
* **VM shares.** Two module-global counters hand out 9p tags and virtio drive
  names as the shares are built. A root disk creates a scratch image on the
  VM's exit stack. `export_spec` writes one unit per share, named after its
  mount point. The hazards:
  * the drive name is `chr(idx + ord('a'))`, which runs past `z`;
  * the counter assumes two root drives, but `QCow2RootDisk` has one;
  * two shares with one mountpoint share one unit file;
  * a failing `qemu-img` leaves a scratch file on the stack.
* **yum/dnf sandbox.** Two processes take part. The Python parent computes
  the protected paths and nests three scoped resources: a dummy `/dev`, the
  dummies and the child. The child is a bash script run under `unshare`. It
  mounts the dummy `/dev` and the dummies, relocates `/var/tmp`, sets an EXIT
  trap and `exec`s the package manager. The parent waits for the child and
  unwinds in LIFO order. The hazards:
  * any step of either process may fail;
  * the teardown must not race the child;
  * duplicate protected paths collapse in a dict, and the last one wins;
  * `exec` drops the trap.
* **Test helpers.** `render_subvol` reads the `ro` property of a subvolume,
  marks it read-only, takes the send-stream, and restores the property it read
  in a `finally`. Every btrfs command may fail.
* **Read session.** `StorageInput` only forwards reads. It has no state of
  its own.

## 2. Plan and its state

| # | module | part | state |
|---|---|---|---|
| 1 | `StorageCommit` | commit protocol of interleaved sessions | done |
| 2 | `StorageCommitProofs` | type, at-most-once finalize, assertions, cleanup | proved |
| 3 | `StorageExitStack` | writers in an ExitStack, LIFO unwinding | done; one finding |
| 4 | `Namespacing` | `_add_key` / `strip_key` over a small alphabet | done |
| 5 | `VMShares` | tags, drive names, units, scratch images | done; two findings |
| 6 | `YumDnfSandbox` | protected paths, parent and child, teardown | done; one finding |
| 7 | `YumDnfSandboxProofs` | teardown order and cleanup | proved |
| 8 | `RenderSubvol` | ro flag restored in the finally | done |
| 9 | `RenderSubvolProofs` | the flag restored, for any number of renders | proved |
| 10 | `NamespacingProofs` | round trip and wrong-key detection for all strings | proved |
| 11 | `VMSharesProofs` | the root disk backed by a created image; units complete | proved |
| 12 | `CommitCoordinator` | the abstract per-session commit state machine | refined by `StorageCommit`, proved |
| 13 | `StorageExitStackProofs` | the ExitStack's two promises, for any number of writers | proved |

Left open:

* a refinement of `StorageExitStack` to an abstract all-or-nothing
  specification. The outer-raise finding shows that the docstring's promise
  is false as stated. A refinement would hold only for a weaker abstract
  specification, and the two invariants of `exit_stack` already state that
  weaker promise directly.

## 3. The modules, and how they correspond to the code

### `StorageCommit` (storage.py, StorageOutput and _CommitCallback)

Constants:

* `Sessions`: model values, one per `with storage.writer()` block.
* `Key`, and `KeyValid`: does the key match `_KEY_REGEX`?
* `NoId`: the `None` of `self.id`.
* `MaxWrites`: the bound on chunks written in a session.

Variables:

* `phase`: new, inside the block, or closed.
* `output`: is `StorageOutput._output` still set?
* `sunk`: the number of chunks the sink received.
* `cb`: the callback's fields (`getId`, `id`, `remove`, `roe`).
* `blob` and `content`: the backend's blob and the chunks it holds.
* Observation variables:
  * `finalized`: how many times finalize was entered.
  * `returned`: did `commit()` hand the id to the caller?
  * `excExit`: did the block end with an exception?
  * `exitRaised`: did `__exit__` raise?

Data is abstracted to a count of chunks, and the raw id of session `s` is `s`.
`AddKey(raw) = <<Key, raw>>` keeps the key apart from the raw id. The string
format is modelled in the `Namespacing` module.

Actions, one per operation:

| action | code |
|---|---|
| `Open(s)` | `Storage.writer()`: `StorageOutput.__init__` and `_CommitCallback.__init__` |
| `Write(s)` | `StorageOutput.write` |
| `Commit(s, roeArg, out)` | `StorageOutput.commit` and the whole of `_CommitCallback.__call__` (helper `AfterCall`) |
| `Exit(s, exc, out, rmOk)` | the whole of `__exit__`: `ImplicitCommit`, `ExcRemove`, then the guarded `storage.remove` |
| `Terminated` | every block is done. Without it, TLC would report the end of the program as a deadlock. |

In `Commit`, `out` ranges over the backend's outcomes: `ok`, `acquireFails`
(the backend raises before yielding an id) and `releaseFails` (its release
raises after the id was yielded). A second `commit()` raises before any
backend code; that is a stutter, so `Commit` is guarded by `cb[s].getId`. A
write after commit raises `AttributeError`, so `Write` is guarded by
`output[s]`. The caller may catch an exception and carry on, or let it
propagate; `Exit`'s `exc` covers both. Each action is atomic. Sessions share
only the backend, and within one session everything is sequential, so a
finer split would add no behaviour.

### `CommitCoordinator` (the abstract specification of a session)

This module says what a write session promises and not how. It has one state
machine per session: idle, then writing, then committed, aborted or
cleanupFailed. Its variables are `attempted`, `stored`, `issued`,
`revocable` and `failedScope`. Its actions are `Create`, `CommitAttempt`
(entered at most once; an id is handed out only for a persisted blob) and
three closings. A session closes as committed exactly when its id was issued
and not revoked by an exception; otherwise its blob is removed or the remove
fails.

`StorageCommit` implements it. The refinement mapping is `CoordinatorState`
together with four images:

* `attempted` is "finalize was entered";
* `stored` is "the blob is stored";
* `issued` is "the id was returned";
* `revocable` is the recorded `remove_on_exception` flag.

`StorageCommit` instantiates the module as `Coordinator` and states
`CoordinatorSpec == Coordinator!Spec`, which the `commit_protocol` run
checks as a property. `Write` and `Terminated` are stutters of the abstract
specification.

### `StorageExitStack` (storage.py:57-60, writers in a `contextlib.ExitStack`)

The module extends `StorageCommit` and adds the stack:

* `stack`: the writers entered and not yet exited;
* `stage`: in the body, unwinding, or done;
* `pending`: is an exception propagating?
* `bodyExc`: did the caller's block raise?

The actions:

* `Enter(s)` is `enter_context(storage.writer())`, which is `Open`.
* `BodyWrite` and `BodyCommit` are `Write` and `Commit` inside the block.
* `LeaveBody(exc)` ends the block, normally or by an exception.
* `Unwind(out, rmOk)` pops the last writer and runs the whole `Exit` with the
  pending exception. If that `__exit__` raises, the exception becomes pending.
* `Finish` ends the unwinding.

`Survivors` is the set of blobs the docstring's promise covers that are still
stored: it leaves out a blob committed with `remove_on_exception=False`, and
a blob whose own remove raised.

### `Namespacing` (storage.py:113-126, `_add_key`, `strip_key`)

A string is a tuple of one-character strings over `a`, `b`, `:` and the
newline. The state:

* `key`: one per storage, chosen in `Init` and never changed;
* `issued`: the ids handed out;
* `lastRead`: the last `strip_key` call and its result (an id, `ValueError`
  or `AssertionError`).

The operators:

* `KeyMatches` is `_KEY_REGEX.match` with Python's `$`, which also accepts a
  trailing newline.
* `AddKey` formats `key:sid`.
* `StripKey` is `split(':', 1)` and the key assertion.
* `Issue(s, raw)` is the commit callback's `_add_key`. A key that fails the
  check issues nothing.
* `Read(s, item)` is a reader or `remove` stripping an issued id.

### `VMShares` (vm/share.py)

The state:

* `nextTag` and `nextDrive`: the module-global counters. `nextDrive` starts
  at 2.
* `shares`: the shares in the order the VM is given them.
* `root`: the root disk class.
* `scratch`: the images on the exit stack.
* `units`: the export directory, one unit per mount point.
* `stage`.

The actions:

* `NewPlan9Export` and `NewBtrfsDisk` are the constructors, each taking its
  name from its counter.
* `NewRootDisk(kind, imgOk)` is `__post_init__` and `_tmp_qcow2_disk`. The
  file is entered on the stack before `qemu-img` runs. A failure is
  re-raised, and the VM's setup is abandoned.
* `ExportSpec` is `export_spec`'s loop. A later share with the same mount
  point truncates the file.
* `CloseStack` deletes everything on the stack.

The guest side is `GuestName(p)`, virtio_blk's naming of the disk at position
`p`: `vda`..`vdz`, then `vdaa`... A drive name is the sequence of its
letters' offsets from `a`. The code's `_next_drive` gives `<<idx>>` for every
index. `RootDrives(kind)` is what the root disk's `qemu_args` put first on
qemu's command line: two drives for a seed root and one for a qcow2 root.
`DiskPosition(k)` is the place of the k-th share's drive after them, counting
the BtrfsDisks before it.

### `YumDnfSandbox` (rpm/yum_dnf_from_snapshot.py)

The inputs are chosen in `Init` and then kept:

* `caller`: the caller's protected paths, up to `MaxCallerPaths` of them;
* `prog`: yum or dnf;
* whether the install goes to `/`;
* whether yum is installed apart from dnf;
* whether `.meta` exists;
* the type on disk of each caller path.

A path is its components, whether it is absolute, and whether it was written
with a trailing slash. `normpath` keeps the first two.

`ProtectedList` is the list built at lines 424-467: the caller's paths, then
`ProtectedDefaults`. The defaults are the fixed directories and `.meta`, then
`/etc/yum/` when yum is installed apart from dnf, then the host databases and
log unless the install goes to `/`. `Shown` is the generator's filter at
lines 474-485, which drops `.meta` when it does not exist. `DummyMap` is the
dict comprehension of `_dummies_for_protected_paths`, in which the last
duplicate wins: a key maps to the kind of the path at the largest shown
index with that key. `Protection` is the mapping the child receives.

The parent's actions, in order:

1. `Preflight`: checks that may raise before any resource exists.
2. `DummyDev`: `_dummy_dev`.
3. `Dummies`.
4. `Spawn`: `Popen`.
5. `Wait`: `wait` and `check_popen_returncode`.
6. `Unwind`: the with-statements' exits, the `finally` of `_dummy_dev`
   included. The `sudo rm -r` of that `finally` (line 282) is a
   `subprocess.run` whose status nobody checks. The model takes it as
   removing the dummy /dev, so `SandboxCleanedUp` says that every path out
   runs the removals, not that `rm` succeeds.

The child's actions are the lines of the bash prologue:

* `ChildDev`: the mounts of `/dev`.
* `ChildProtect`: the read-only bind mounts. Under `-e` the first failing
  mount ends the script; a mount fails when its dummy is gone or has the
  other type.
* `ChildVarTmp`: `mktemp -d`, the mount, then the trap.
* `ChildExec`: `exec` drops the trap. A failed `exec` runs it.
* `PackageManagerExits`.

The two processes interleave freely. This is how the parent's teardown could
race the child.

### `RenderSubvol` (tests/subvol_helpers.py:19-40)

The state of each `render_subvol` call:

* `pc`;
* the flag it read (`wasRo`);
* whether it failed, and whether its restore failed.

The state of each subvolume:

* its `ro` property;
* `orig`, its value before any call.

The actions:

* `ReadFlag`: `btrfs property get`, which raises before the `try`.
* `Render`: `mark_readonly_and_get_sendstream`. Either half may raise.
* `Restore`: the `finally`'s `set_readonly`, which may raise too.

Several calls run concurrently. `DistinctTargets` says that no two calls
render one subvolume.

## 4. Runs

Every run but one checks safety only. `yum_sandbox` also checks a liveness
property, `SandboxTerminates`, under `FairSpec`, which is `Spec` with weak
fairness on the parent's steps (`ParentStep`) and on the child's steps
(`ChildStep`). The code justifies this fairness:

* the parent is one sequential Python thread, and each of its steps is a
  call it makes as soon as the previous one returns;
* the child is one bash process under `set -e`, which runs its prologue line
  after line;
* `wait()` at line 535 has no timeout, so the property assumes that the
  package manager itself exits. `PackageManagerExits` is a child step, and
  its fairness is exactly this assumption.

With the child's fairness dropped, TLC finds the property violated: the
parent waits for ever. No other run assumes fairness, since no other code
waits on anything.

Deadlock is checked in every run. Each model ends in a stuttering step
(`Terminated`, `StackDone`, `Done`, `Finished`) that is enabled only where
the program has really finished.

| run | cfg | expect | what it shows |
|---|---|---|---|
| `commit_protocol` | `MC_StorageCommit.cfg` | pass | `TypeOK`, `CallbackAssertionsHold`, `FinalizeAtMostOnce`, `NoOrphanAfterClose`, `ContentMatchesWrites`, the proofs' inductive `RefineInv`, `CommittedKept` (an action property) and `CoordinatorSpec` (the refinement) hold for two interleaved sessions. |
| `exit_raises` | `MC_StorageCommit_ExitRaises.cfg` | violation | `ExitNeverRaises` fails: a failing remove escapes `__exit__` (finding 1). |
| `bad_key_orphan` | `MC_StorageCommit_BadKey.cfg` | violation | `NoOrphanAfterClose` fails with an invalid key (finding 2). |
| `exit_stack` | `MC_StorageExitStack.cfg` | pass | For three writers in one stack: `AllRemovedOnBodyFailure` (a failing block leaves no covered blob) and `AllKeptOnSuccess`. |
| `exit_stack_outer_raise` | `MC_StorageExitStack_OuterRaise.cfg` | violation | `AllRemovedOnFailure`, the docstring's promise for any failure, fails when an outer `__exit__` raises (finding 3). |
| `namespacing` | `MC_Namespacing.cfg` | pass | `RoundTrip` and `WrongStorageDetected` for two storages, four keys (valid, a prefix of another, with `:`, with a trailing newline) and raw ids with and without `:`. |
| `vm_shares` | `MC_VMShares.cfg` | pass | `DrivesResolveInGuest` and `UnitsComplete` with a seed root disk and up to three shares over two mount points. With two mount points, two or three shares can share one, so the truncation of an earlier share's unit happens. |
| `vm_qcow2_root` | `MC_VMShares_QCow2Root.cfg` | violation | `DrivesResolveInGuest` fails with a `QCow2RootDisk` (finding 4). |
| `vm_many_disks` | `MC_VMShares_ManyDisks.cfg` | violation | `DrivesResolveInGuest` fails at the 25th disk (finding 5). |
| `yum_sandbox` | `MC_YumDnfSandbox.cfg` | pass | `TeardownAfterChildExit`, `SuccessMeansIsolated`, `DefaultsProtected` and `SandboxCleanedUp` for every list of up to two caller paths, every program, root and host layout, and every failure. Under `FairSpec`, `SandboxTerminates`: the parent always returns or raises, with the child gone. |
| `yum_var_tmp` | `MC_YumDnfSandbox_VarTmp.cfg` | violation | `VarTmpRemoved` fails (finding 6). |
| `render_subvol` | `MC_RenderSubvol.cfg` | pass | `ReadonlyRestored` for two concurrent renders of two subvolumes, from every initial flag and every command outcome. |

Bounds, and why they are enough:

* **Commit protocol.**
  * Two sessions interleave the commit of one with the exit of the other.
    Every property is about one session over the shared backend.
  * `MaxWrites = 2` tells writes before a commit from writes after it.
  * Sessions are a symmetry set.
* **ExitStack.** Three writers give an inner writer, a middle one that
  raises, and an outer one. That is the shortest chain in which an exception
  born in the unwinding reaches a writer. One write each is enough, since
  the content is checked by `commit_protocol`.
* **Namespacing.** The keys cover each branch of `KeyMatches` and `StripKey`:
  * a prefix key, so that a wrong key can look like a right one;
  * `:` in the key and in the raw id;
  * the newline.
* **VM shares.**
  * Three shares over two mount points include a shared mount point and
    both share kinds.
  * The drive-name overflow needs 25 disks, hence its own run on one mount
    point.
* **yum sandbox.** The three caller candidates are:
  * `/etc/rpm` written as a file, which duplicates a default with the other
    type;
  * `srv` as a directory and as a file.

  Two of them give a duplicate inside the caller's list.
* **render_subvol.** Two calls on distinct subvolumes interleave their
  commands. The theorem of §6 covers any number of calls.

The passing runs fire every action and every disjunct of their next-state
relations. Each property of a passing run has a mutant in `PROJECT.json`: a
plausible slip in the code under it, which TLC finds. Some of the slips:

* the key is dropped from the id;
* the finalize reference is consumed late;
* the drive counter is advanced before it is read;
* the caller's paths are put after the defaults;
* `Wait` is skipped;
* a `finally` is dropped;
* the string is split at the last `:`.

## 5. Findings

1. **`__exit__` can raise** (`storage.py:216`, run `exit_raises`).
   `storage.remove(self.id)` is not guarded. A backend remove that raises
   escapes `__exit__`. It replaces the exception already leaving the block,
   or fails a block that succeeded. The spec says that session-close cleanup
   never raises.
2. **A bad key orphans every blob** (`storage.py:118,170`, run
   `bad_key_orphan`). `_add_key` asserts the key only after the backend has
   persisted the blob, and before `self.id` is set. `__exit__` then has no id
   to remove. The spec says the key should be validated at construction;
   `Storage` never does it.
3. **ExitStack is not all-or-nothing** (`storage.py:57-60,216`, run
   `exit_stack_outer_raise`). The stack exits writers last-first. When an
   outer writer's remove raises, the inner writers have already exited
   normally and kept their committed blobs. The stack then fails with those
   blobs stored. Trace: writers A and B. A is uncommitted; B commits with
   `remove_on_exception=True`. The block ends normally, B keeps its blob, and
   A's remove raises.
4. **`QCow2RootDisk` shifts every drive name** (`share.py:24`, run
   `vm_qcow2_root`). `__next_drive_index` starts at 2 for the two drives of a
   seed root disk. A qcow2 root has one drive, so the guest sees the first
   `BtrfsDisk` as `vdb`, while its unit mounts `/dev/vdc`.
5. **Drive names past `vdz`** (`share.py:38`, run `vm_many_disks`). From
   index 26, `_next_drive` gives `vd{`, while the guest names the disk `vdaa`.
6. **The `/var/tmp` directory leaks** (`yum_dnf_from_snapshot.py:222-228`, run
   `yum_var_tmp`). The comment says that the EXIT trap removes the directory
   because bash is not replaced by the child. But `exec` replaces bash
   whatever traps are set, so the trap never runs. This was checked with
   `bash -c 'trap ... EXIT; exec true'`. The trap is also set only after the
   mount at line 220. A failing mount therefore leaks the directory too.

## 6. Proofs (checked by `tlapm`)

| module | theorem | statement |
|---|---|---|
| `StorageCommitProofs` | `TypeCorrect` | `Spec => []TypeOK` |
| | `FinalizeOnce` | `Spec => []FinalizeAtMostOnce` |
| | `CallbackAssertions` | `Spec => []CallbackAssertionsHold` |
| | `CleanupComplete` | `ASSUME KeyValid PROVE Spec => []NoOrphanAfterClose` |
| | `ContentCorrect` | `Spec => []ContentMatchesWrites` |
| | `RefineInvariant` | `ASSUME KeyValid PROVE Spec => []RefineInv` |
| | `CoordinatorRefinement` | `ASSUME KeyValid PROVE Spec => CoordinatorSpec` |
| | `CommittedKeptProof` | `Spec => CommittedKept` (an action property) |
| `StorageExitStackProofs` | `KeptOnSuccess` | `StackSpec => []AllKeptOnSuccess` |
| | `RemovedOnBodyFailure` | `ASSUME KeyValid PROVE StackSpec => []AllRemovedOnBodyFailure` |
| `YumDnfSandboxProofs` | `TeardownSafe` | `Spec => []TeardownAfterChildExit` |
| | `CleanedUp` | `Spec => []SandboxCleanedUp` |
| | `Isolated` | `Spec => []SuccessMeansIsolated` |
| | `DefaultsProtectedProof` | `Spec => []DefaultsProtected` |
| `RenderSubvolProofs` | `ReadonlyRestoredProof` | `ASSUME DistinctTargets PROVE Spec => []ReadonlyRestored` |
| `VMSharesProofs` | `UnitsCompleteProof` | `Spec => []UnitsComplete` |
| | `DrivesResolveProof` | `ASSUME RootKinds \subseteq {"seed"}, MaxShares <= 24 PROVE Spec => []DrivesResolveInGuest` |
| `NamespacingProofs` | `RoundTripProof` | `Spec => []RoundTrip` |
| | `WrongStorageProof` | `Spec => []WrongStorageDetected` |

All of them hold for every value of the constants: any number of sessions,
any key and bound, any protected paths, any renderers and subvolumes, and
any keys and raw ids over the model's alphabet (`NamespacingAssumption`).
The hypotheses that some of them add (`KeyValid`, `DistinctTargets`, the seed
root and the share bound) are each needed: a `violation` run or a finding
shows the property failing without it.

**Commit protocol.** `FinalizeAtMostOnce` is not inductive by itself. A step
of `Commit` needs to know that the finalize reference is still held exactly
when finalize has not been entered. `Consumed` records this link between the
reference, the counter and the phase, and the callback's initial values while
the reference is held. `IInv = TypeOK /\ Consumed` is inductive. From it
follow `FinalizeAtMostOnce` and the assertions.

For cleanup, `Tracked` adds four facts:

* a session not yet opened has no blob;
* while the reference is held, the backend has no blob;
* a persisted blob's id is known to the callback, which needs `KeyValid`
  (finding 2 shows why);
* `remove` is cleared only for a returned id.

`CleanupInv = IInv /\ Tracked /\ NoOrphanAfterClose` is inductive. The
`commit_protocol` run checks it too. The `Exit` step splits on whether the
implicit commit runs. Helper lemmas: `AfterCallType`, `ImplicitCommitType`,
`ExcRemoveType`, `AfterCallConsumes`.

**Content.** `Unsealed` says that a blob is not stored while the session is
new or its sink is still open. A write therefore never lands after the blob
was persisted. With it, `ContentMatchesWrites` is inductive without `KeyValid`.

**Refinement.** `CoordinatorRefinement` follows the usual pattern:

* the initial state maps to the abstract initial state;
* every step maps to an abstract step or a stutter.

The invariant it rests on is `RefineInv = CleanupInv /\ Refined`. `Refined`
adds four facts:

* a new session has no recorded flag and returned no id;
* while the finalize reference is held, nothing was returned;
* an open session that returned an id still has its blob, and `remove` is
  cleared;
* an open session whose callback knows an id has its blob.

There is one lemma per concrete action:

* `RefineOpen`: `Open` is `Create`;
* `RefineCommit`: `Commit` is `CommitAttempt`, whatever the backend does;
* `RefineStutter`: `Write` and `Terminated` are stutters;
* `RefineExit`: `Exit` is one of the three closings. Its outcome is decided
  by the implicit commit, the `remove_on_exception` override and the remove.

`KeyValid` is needed here as in `CleanupComplete`: with a bad key, finalize
persists a blob whose id nobody knows. The abstract specification has no
such state. `Kept` (a closed session that returned its id and was not
revoked still has its blob) is proved alongside, for the ExitStack.
`RefineInvariant` states the invariant itself as a theorem; the
`commit_protocol` run checks it on two sessions.

**Committed blobs are kept.** `CommittedKept` is an action property: a step
that removes a blob whose id was returned is the exit of its own context,
with an exception and `remove_on_exception=True`. Its proof needs no
`KeyValid`. `RefinedInvariant` gives `IInv /\ Refined` for any key.
`KeptStepHolds` then goes through the actions. Only `Exit` can remove a
stored blob. For a session that returned its id, `Refined` says that the
callback's `remove` flag is cleared and no new id is pending. So the implicit
commit does nothing, and only the override taken when the body raised can
set `remove` again.

**ExitStack.** `EInv` relates the stack to the sessions:

* the stack's entries are distinct;
* a session is open exactly when it is on the stack;
* the stack is empty when done;
* once the body has raised, an exception is pending;
* an exited session was exited with the pending exception, and after the
  body raised.

`KInv = EInv /\ IInv /\ Refined /\ Kept` is inductive for `StackSpec`. The
lemma `StackStepIsNext` shows that each stack step is a step of
`StorageCommit`'s `Next`, so the commit protocol's invariants carry over.
From `KInv`:

* `AllKeptOnSuccess` follows from `Kept` (no exception reached any writer);
* `AllRemovedOnBodyFailure` follows from `NoOrphanAfterClose`, which needs
  `KeyValid`.

**Isolation.** `IsoInv` says two things:

* once the child is past its protect lines, or exited with status 0, every
  protected path is mounted;
* the parent unwinds without an exception only after a status-0 exit.

`ProtectionFixed` says that the protected paths never change, since the
inputs are chosen once.

**Sandbox.** `SInv` lists which resources exist at each place of the parent:

* while the child is alive, the parent is in `running` with both resources
  created;
* before `Spawn`, there is no child;
* in `unwinding` and `done`, the child is gone or was never started;
* a resource is removed only in `done`.

The two properties are consequences of `SInv`, and `SInv` is preserved by
each of the 13 actions. It needs no type invariant. TLC checked `SInv` on the
`yum_sandbox` instance before it was proved.

**render_subvol.** `RInv` has two parts:

* a call between its read and its `finally` holds the subvolume's original
  flag (`Holding`);
* a subvolume differs from its original only while a call on it is in that
  window, or after its `set_readonly` failed (`Disturbed`).

`ReadFlag` needs `DistinctTargets`. It reads the original value only because
no other call on that subvolume can be in the window. Without the
assumption, the property fails: one call may read the flag that another call
has just set.

**Namespacing.** The core is a lemma about strings, `StripAddKey`. If a key
`k` holds no `:`, then stripping `AddKey(k, raw)` with a key `k2` gives
`raw` when `k2 = k`, and an `AssertionError` otherwise. It rests on three
facts:

* `AddKeyLayout`, the positions of the key, the `:` and the raw id, from the
  library's `ConcatProperties`;
* the first `:` of the id is at `Len(k) + 1`;
* `SubSeq` on each side of it gives back `k` and `raw` (`SubSeqProperties`,
  `SeqEqual`).

`KeyHasNoColon` shows that any key `KeyMatches` accepts satisfies the
premise, the trailing newline of `$` included. `NInv` says that every issued
id is well formed under a key that passed the check, and that the last read
is `StripKey` of an issued id. Both theorems follow from `NInv`.

**VM units.** `UInv` says that once `export_spec` has run, the directory is
`ExportedUnits`, the function its loop computes for the current list. Only
`CloseStack` follows that step, and it leaves the `exported` stage.
`ExportListLayout` (from `ConcatProperties`) places the root share at 1 and
the i-th share at i + 1. `LastUnit` shows that the unit of a share's mount
point is the one its last writer wrote. The root has no generator, so that
writer is a share at that mount point, and the share itself is one of the
writers. The last writer is therefore the share itself or a later one.
`LastIndex` (the well-founded minimum of `N - i`) shows that the loop's last
writer, the `CHOOSE` of `ExportedUnits`, exists.

**Default paths protected.** `DefaultsProtected` says that every default path
maps to a dummy of its own kind, whatever the caller passed. Its argument has
four parts:

* `DefaultsListed`: every entry of `ProtectedDefaults` lies in
  `DefaultPaths(prog)`. These are the log file and directories of at most
  three components.
* `DefaultKeysTyped`: two paths of that set with the same normalised key
  have the same kind.
* `LastIndex`: a nonempty finite set of indices has a largest element. It is
  proved with the well-founded minimum (`WFMin`) of `N - i`, so no recursion
  is involved.
* `DefaultWins`: the largest shown index of a default's key lies in the
  defaults, because they come after the caller's paths. So the dict's last
  duplicate is a default, which has the default's kind.

`InputsOK` says the inputs keep the values `Init` chose.

**Drive names.** `DInv` is proved for every value of the constants. It says
that `nextDrive` is 2 plus the number of BtrfsDisks built so far, and that
the k-th share, when it is a disk, has index 1 plus its rank among the first
k shares' disks (`Disks(shares, k)`). Each constructor appends one share and
leaves the earlier ranks alone (`DisksAppend`). The new rank counts one more
disk exactly when the new share is one (`DisksAppendLast`, from the library's
`FS_AddElement`). `DisksCounted` bounds a rank by k.

`DrivesResolveProof` adds two hypotheses:

* The root is a seed. Then the root's drives are positions 0 and 1, and a
  disk's position `DiskPosition(k)` is 1 plus its rank, which is its index.
  With a qcow2 root the positions shift by one (run `vm_qcow2_root`).
* `MaxShares <= 24`. Then an index is at most 25, and the guest names it with
  the one letter `_next_drive` assumes. The 25th disk is `vdaa` (run
  `vm_many_disks`).

## 7. Only model-checked

* `DrivesResolveInGuest` outside the theorem's hypotheses. There it fails,
  as the `vm_qcow2_root` and `vm_many_disks` runs show.
* The models avoid `SelectSeq`: `tlapm` 1.4.5 cannot expand it, so no fact
  about a filtered sequence can be proved. The generator's filter is
  `Shown`, a set of indices, and the drive positions count a set of
  indices.
* The refinement with an invalid key. There it fails with the orphan of
  finding 2.
* `SandboxTerminates`. Liveness under fairness, and `ENABLED`, are out of the
  provers' reach.
* The six findings are violations that TLC found, with counterexample
  traces.

## 8. Hazards

`PROJECT.json` lists the hazards of this code at the lines where they bite,
each with the properties that catch it. The main groups:

* **Partial failure.** Storage's finalize and remove; `qemu-img`; each step
  of the sandbox; `render_subvol`'s send-stream.
* **Ordering.** Clearing and restoring `remove`; LIFO exits; the dict's last
  duplicate; drive numbering against the guest's order.
* **Interleaving.** Sessions on one backend; the sandbox's parent against
  its child.
* **Numeric edge.** The drive letter past `z`; the regex's `$`.

Four hazards have no property, each for a stated reason:

* **`qemu-img` failing after its file was put on the exit stack.**
  `NewRootDisk` models the re-raise and the abandoned setup. A property
  would only restate that one conditional, and no other step of `share.py`
  reads the scratch image.

* **The regex's `$` before a trailing newline.** `KeyMatches` models it and
  the namespacing run uses such a key. The resulting ids still round-trip,
  so no property of the code fails on it.

* **A crash between persisting and `__exit__`.** Nothing is recorded, so
  there is no recovery to model.
* **The global counters across several VMs.** Whether a process builds
  several VMs is decided outside `src/`.

## 9. Not modelled, and why

* **The backends and the `Pluggable` registry** are not under `src/`. The
  backend is reduced to the outcomes of finalize and remove.
* **`StorageInput`** only forwards reads.
* **A process crash** in a session leaves a persisted blob. No code records
  pending ids, so there is no recovery to model.
* **`pop_path`, `check_common_rpm_render`, `get_meta_dir_contents`** are test
  assertions over constant renderings. They change no state.
* **Command-line parsing, the text of unit files, and logging** are
  formatting. Unit files are identified by their mount point, since
  `systemd-escape` maps distinct mount points to distinct names.
* **The host's own filesystem effects** inside the package manager are
  reduced to success or failure.
