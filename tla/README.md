# A formal model of ecse_427

The repository holds three assignments of an operating-systems course: small
shells (A1), a key-value store in shared memory (A2) and a container launcher
(A3). This directory models all three. TLC checks the models on small
instances; TLAPS proves their safety properties for every value of the constants.

Paths below are relative to the repository. `a2_lib.c` is
`src/A2/a2_lib.c`; `sr_container*.c` are in `src/A3/part2`.

## The system

| component | state | operations | talks to |
|---|---|---|---|
| store: lock | two named semaphores; `readCount` in shared memory | entry and exit of `kv_store_write`, `kv_store_read`, `kv_store_read_all` | every process that uses the store |
| store: layout | 512 pods of 5 pairs; a pair has a key, 256 rows of values, `readIndex`, `writeIndex`, `numberValues`; a pod has `index` | create, write, read, read_all | the lock |
| store: tests | a barrier semaphore, pids, signal handlers | test1 (one process), test2 (parent and four writers) | the store, `kill`, the names |
| launcher: options | the array `cgroups` and two counters | `getopt` loop of `main` | fills what the next row uses |
| launcher: cgroups | directories under `/sys/fs/cgroup`, the tasks in them | `setup_cgroup_controls`, `free_cgroup_controls` | other launches with the same host name |
| launcher: parent and child | a socket pair, id maps, the child's root, capabilities, filter | `main` after `clone`, `setup_child_uid_map`, `child_function` and all it calls | each other, cgroups |
| shells (A1) | none beyond the process tree; a named pipe between two of them | read a line, fork/vfork/clone, exec, wait | each other through the pipe |

What is hard in this code: steps of several processes between a load and a
store (`readCount++`, `readIndex`); kills, after which semaphores stay down and
data half written; arrays used to the last byte (cut keys and values, the wrap
of `index`, `numberValues <= MAXNUMBERVALUES`); two launches in one cgroup
directory; errors on either side of a blocking exchange; signal handlers that run
in every process of a group; children that go on in the code of their parent
after a failed exec; pointers to literals whose block has ended. `PROJECT.json` lists
each hazard at its line with the properties that cover it.

## Modules

| module | models | built on |
|---|---|---|
| `RWLock` | abstract: a readers-writer lock | |
| `KVLock` | the semaphores and `readCount`, one step per system call, load or store; kills | shown to implement `RWLock` |
| `KVLockProofs` | theorems about `KVLock` | `KVLock`, `TLAPS` |
| `KVPod` | operators: what each call does to the bytes of the segment | |
| `KVPodProofs` | lemmas about these operators | `KVPod`, `TLAPS` |
| `KVRing` | abstract: a ring of values per key | |
| `KVSeq` | one client, one step per call | `KVPod`; shown to implement `KVRing` |
| `KVSeqProofs` | theorems about `KVSeq` | `KVSeq`, `KVPodProofs` |
| `KVStore` | several processes, the calls taken apart | composes `KVLock` and `KVPod` |
| `KVStoreProofs` | theorems about `KVStore` | `KVStore`, `KVLockProofs`, `KVPodProofs` |
| `KVHarness` | the processes, signals and names of the multiprocess test, over several launches | |
| `KVHarnessProofs` | theorems about `KVHarness` | `KVHarness`, `TLAPS` |
| `SROptions` | the option loop of the launcher and `main` up to the groups | |
| `SROptionsProofs` | theorems about `SROptions` | `SROptions`, `TLAPS` |
| `SRCgroups` | the cgroup directories of several launches | |
| `SRContainer` | one launch: `main`, its child, the handshake | extends `SRCgroups`, takes its actions |
| `SRContainerProofs` | theorems about `SRCgroups` and `SRContainer` | `SRContainer`, `TLAPS` |
| `TinyShell` | the shells of A1, the two halves over one pipe | |
| `TinyShellProofs` | theorems about `TinyShell` | `TinyShell`, `TLAPS` |

An `MC` module gives small values to the constants of each; the `.cfg` files
name the properties. Definitions called "Faulty variant" are plausible bugs;
each property is known to fail when the definition that follows is replaced by
its variant. They take no part in any specification.

### The store

*Lock.* `pc[p]` says where process `p` is between two system calls: `w_*` in a
write, `r_*` on the way into a read, `d_*` on the way out. `kv_store_read` and
`kv_store_read_all` have the same entry and exit code and share the labels. The
increment of `readCount` is `EntryLoad` and `EntryStore`. `Kill` changes only
`dead`: the kernel releases neither a semaphore nor a counter.

*Layout.* A key is a sequence of characters because `memcpy(key, strlen(key))`
copies no terminator: the tail of a longer old key stays (`Overlay`). A value is
opaque; a member of `LongValue` fills its row, and its terminator lands on the
byte after it (`StoreStrings`, `SpillTerminator`), which is the next row, the low
byte of `readIndex` of the next pair, or of `index` of the next pod. A string read
without terminator, or from the row past the array, is `Stray`. `PodOf` stands for
`hash(key) % NUMBERPODS` and is any function. Assumed of the inputs: keys and
values are not empty, and a key longer than the array is not equal to a cut key
followed by its first value. A read that matches several slots moves each cursor,
as the loop without `break` does.

*Sequential use* (`KVSeq`). One step per call. `KeepsPromise` says that a step
is a step of `KVRing` as long as no key has had more values than rows (`RingsHaveRoom`)
and no pod as many keys as slots (`PodsHaveRoom`).

*Concurrent use* (`KVStore`). A write is three steps in the section (search and
`numberValues`; the two `memcpy`; `writeIndex` and `index`); a read is two (load
and copy; store of the cursor), so readers interleave. A read_all is one: it
stores nothing, and the proved exclusion of writers makes the split
unobservable. `hist` and `seen` are history variables. The segment may exist
initially, from an earlier create.

### The launcher

*options* (`SROptions`). A step is one option; every order and repetition up to the
bounds is a behaviour. An option is a flag and the number of its use, which
stands for its value. `cgroups`, `settings` and the two counters are those of the
source, with the NULLs of each case. `argv` appears only as word counts until
`-c`; `TakeCommand` then computes `config.argv` from `last_optind` as the code does,
on the array as `getopt` has permuted it.

The limits are stored as pointers to compound literals of the block of their case,
and the block ends at the `break`: what they hold later is undefined. `intact` says
whether the literals of all options still hold their values, and each limit after
the first may end that (`NewLiterals`). Built with gcc 12 and the flags of the
Makefile, all six cases share one place of the frame: a second limit destroys the
first, and `-C 1 -p 2` names the pids controller twice. A property about limits
assumes `intact`, as another build has it. `SRCgroups` takes the array as the source asks for it.

Nothing checks the arrays. The first rate fills the five settings of the first entry
and puts a NULL behind them; `Padding` pointers fit there before the writes reach what
the build has put next (three with gcc, which aligns the array). A second rate writes
past that: it may hit the entry's name or its pointer to the settings (`lost`), and then
`SRCgroups` does not apply. A rate through a lost pointer, and a sixth control, which is
stored past `cgroups`, may do anything (`Overrun`): `main` is then `undefined`, and no
property speaks of it but that it takes a sixth control or a second rate to get there.

*cgroups.* `main` of each launch walks its array twice: `mkdir`, then the
settings of the entry, the last of which, `tasks`, moves main into the group;
afterwards, for each entry, the move back to the root group and a `rmdir`. A
directory is named by controller and host name only. The open and the write of
one setting are one step. The kernel's rules are in the guards: `mkdir` fails if
the directory exists, `rmdir` if it is not there or has tasks, a child starts in
the groups of its parent. Launches in `Faulty` may see any call of the set-up
fail, and any of the clean-up: `free_cgroup_controls` then breaks off where it stands
(`FreeFails`) and `main` ends with `gaveup` instead of `returned`.

*parent and child.* One action per call of `main` after `clone` and per call in
`child_function`, in their order. The child holds both ends of the pair, so its
`read` never sees the end of file; that of `main` does, once the child is gone and
`main` has closed its copy. `PivotRoot` goes on after a failure, as
`switch_child_root` does; `UnmountOld` is enabled only if the root was changed.
A launch without `-H` is one whose `SetHostname` fails: `strlen(NULL)` ends the
child. `Crashing` launches may have either process killed.

### The tests of the store

`KVHarness` is `comp310_a2_test2.c`: process 0 is the parent, process c the c-th
child of a round. The store is reduced to what the test shares with it: the three
names, the semaphore calls of `kv_store_write` and `kv_store_read_all`, and the number of
values under the key of the round. `fork` and the store of its result are two steps, since
both processes see the old entry of `pids` in between. A signal is pending until
`Interrupt`; `intHandler` then is one `kill` at a time (0 is the group, -1 is
everybody), which may end the process that calls it, and `Unlink`. `waitpid(-1)` reaps any
child. Any `fork` may fail, up to `MaxForkFailures` of a launch. When the last one of a round
does, the parent takes the branch of the children (`ParentAsChild`): it waits at the
barrier, or takes a post that an earlier failed fork has left over, writes values, their
number read from past `write_table` (any up to `Writes`), and exits. Its children then wait
for ever (`LeftAsChild`). The program may be launched again in the state the last launch
left, once no process of that is alive. Assumed: the pid of a child that was waited for is not given to another process.

### The shells

`TinyShell` has the processes of each input in slots. `Variant` is fork, vfork or
clone, `PipeEnd` the end of the pipe that the commands of a half open. What a second
shell (a child whose exec failed) shares is the point: a terminal is shared
by all; a file is read as a whole into the buffer of the first shell, which fork
copies and vfork shares (`Sharing`). A parent whose child of vfork has left the
frame they share is followed no further (`undefined`). The pipe is the kernel's: an
open waits for the other end, a writer for room and a reader, a reader for data
or the last writer to leave. A clone child of `fn` returns and exits. At the
end of the input `getline` leaves its new buffer as `malloc` gave it, zeros in practice, and
`main` returns.

## What is checked

The calls are bounded, the program ends, or a kill inside the lock stops everybody,
so every run says `CHECK_DEADLOCK FALSE`; what must not stop is stated by
`NoStandstill`, `EveryCallReturns`, `EveryLaunchEnds`, `LaunchEnds` and `PipeCommandsEnd`.

| run | question | bounds |
|---|---|---|
| `lock` | does the lock exclude, count exactly, and implement `RWLock`; can everyone wait for everyone | 4 processes, endless calls, any of them killed: a writer, a first, a middle and a last reader at once |
| `seq` | does one client see rings while pods have room; what stays true when pods and rings wrap | 3 keys in a pod of 3 slots, 2 rows, 5 writes to one segment |
| `store` | is a write lost, a cursor ahead of the reads, a reader's pair moved | 3 processes, 4 calls in all, 2 keys in one pod (two first writes race for a slot), 3 rows |
| `store_kill` | is a torn value read after a kill; does every call return | 3 processes, 3 calls in all, 2 rows, so that three writes wrap; one process killed at any step |
| `cgroups` | are containers held in their groups; is anything left behind | 3 launches, 2 sharing a host name with different arrays, failures (of the clean-up too) and kills everywhere |
| `container` | is the payload confined; are the maps written for the right child; does one side wait for the other | 1 launch with 2 groups, failures and kills everywhere |
| `options` | where does the array end, which limits arrive, what is the payload | 6 options, so that a sixth control and a second rate come; each limit twice, a stray word; commands with an option and with `--`; padding as gcc has it |
| `harness` | who is alive when the parent reads and cleans up, whom the handlers kill, what a launch leaves | 2 launches of 3 rounds with 2 children, 1 value each, 2 signals, 3 failed forks a launch: an early one and later a last one leave the parent past the barrier |
| `shells` | do second shells compete, which lines run twice, does a command on the pipe end | 8 kinds of input, alone or the halves together; 2 lines, 3 processes each, 2 failures |

Properties that deserve a word:

* `ReadCountExact` and `LockInv`: `readCount` is the number of readers between
  their increment and their decrement at every step, killed ones included.
* `DeadHolderIsNeverReplaced`: the negative side of crash safety; a kill inside
  a section is fail-stop for the store. `NoTornValue` is why that is good.
* `NoWriteIsLost`: what test2 counts, for every interleaving.
* `NoRowIsSkipped`: racing readers may repeat a value but skip none.
* `KeysVanishOnlyByWrap`: a key is lost only by the write that fills its pod.
* `ContainersAreHeld`: no launch can take a directory away from a living
  container, even with the same host name. With a shared host name weaker
  guarantees are really lost: a failed launch may remove a directory that another
  has just made, and a launch that cannot remove its first directory leaves the rest.
* `NothingIsLeft`: of a launch with a name of its own (`Alone`). A clean-up that
  breaks off leaves the group it stands at and all later ones; those before it are gone.
* `ContainersHaveOwnLimits`: also while another launch of the same host name fails and
  takes directories away. Two launches cannot replace each other's settings: to meet a
  directory that is free one of them must be cleaning up, and then it makes none. With
  three it is false: the second takes the directory of the first away, the third makes it again.
* `PayloadIsConfined`: although `switch_child_root` hides errors.
* `MapsOnlyInNamespace`: a failed `unshare` is not an error, so `main` must learn from a
  message of the child whether there is a map to write.
* `LimitsReachTheGroups`: what the option loop does promise, with one rate at most
  and literals that stay. `BlkioIsJoined`: one rate loses nothing of the first entry; with two the
  group is joined only if the writes past the settings hit neither name nor pointer.
* `PayloadIsCommand`: `last_optind` starts one too low; only the later test of `-m` hides it.
* `ParentAlone`: also after failed forks, when `waitpid(-1)` may reap the wrong child first.
* `NoOrphans`: but for the parent that leaves through the branch of its children, which
  takes two failed forks, the later one the last of its round (`LeftAsChild`).
* `OutsidersAreSafe`: the handler of a child has `-1` in its `pids`, but its own `0`
  comes first and `kill(0)` ends it. A signal between `fork` and the store of its
  result, or after a failed fork, does reach every process of the user.
* `NamesAreGone`, `LaunchEnds`: a handler that kills its own group leaves the
  semaphores, and so does the parent that leaves as a child; a launch that finds one down
  never ends. `LaunchEnds` says nothing of a launch whose parent comes to the barrier.
* `LinesAreTakenOnce`: after a failed exec, parent and second shell both run the
  rest of a script; on a terminal no line is run twice.

The runs check the inductive invariants of the proofs as well (`LockInv`, `SeqInv`, `StoreInv`,
`CgroupInv`, `OptionsInv`, `HarnessInv`, `ShellInv`); each contains the type invariant of its
module, and `LockInv` also `ReadCountExact`.

Runs that are expected to fail, each against a statement of the repository:

| run | statement | what the code does |
|---|---|---|
| `seq_last_slot` | test1:31 a read after a write gives a value | the fifth key sets `index` to 0; all keys of the pod become invisible |
| `seq_read_all_end` | test1:184 the array of read_all ends with NULL | `numberValues` reaches 257 and all 257 pointers are set |
| `options_flags` | sr_container.c:59 the flags are to be supported | the second of `-r` and `-w` is stored behind a NULL and out of bounds |

A slot that is taken over after a wrap keeps the cursor and the values of its
old key (`Overlay`, `KeepsPromise` ends there), and the terminator of a value cut to
the length of a row is replaced by the next value. A key cut to 32 characters has
no terminator either and is never found again; `SameKey` models it.

## Fairness

`store_kill`: weak fairness of each process inside a call. The scheduler runs
every process, and calls are bounded, so weak fairness is enough for a process
that waits on a semaphore: with finitely many calls a semaphore that is posted
stays up. With endless readers a writer can starve; nothing here denies that.
Starting a call and kills are not fair. `EveryCallReturns` is conditional on
kills that hit nobody between the first semaphore and the last (`Harmless`).

`container`: weak fairness of both processes. The payload need not end. A blocked
call never fails by itself, so no error hides a deadlock. A kill of `main` is
excluded by the property: the child would wait for ever.

`harness`: weak fairness of the parent, of each child and of each process' handler: the
scheduler runs them all, and a pending signal is delivered. Signals, failed forks
and new launches are not forced.

`shells`: weak fairness of the processes of each input, which take turns. Nobody
needs to type, or a shell to read, another line, and a reader need not leave early.

## What is proved

The proofs hold for every value of the constants that the named assumptions allow:
`ProcAssumption` (finitely many processes), `PodAssumption`, `KeyAssumption` and `HashAssumption`
(arrays have places, keys are not empty, hashes are pods), `CallsAssumption`, `LaunchAssumption`,
`HarnessAssumption`, `ShellAssumption` and `OptionsAssumption` (the bounds are numbers). Every
safety property of the passing runs is the conclusion of a theorem, some of those of the
store under hypotheses about strings and pods that are given below. In each module one
inductive invariant is proved, and the properties follow from it.

*Lock* (`KVLockProofs`).

* `LockInvariant`: `LockSpec => []LockInv`. `MutualExclusion` is not inductive:
  whether a reader that has just loaded `readCount` will wait depends on the
  value loaded. `LockInv` adds who holds each semaphore (`SemReadExact`,
  `SemWriteExact`), that `readCount` is the cardinality of the registered readers,
  and that a loaded copy is still current (`LocalCopyExact`). Each action preserves
  it (one lemma per action); the steps on `readCount` use the cardinality of
  a set with one element added or removed.
* `SomebodyCanGo`: the lock has no deadlock. If all were blocked, `LockInv` puts one
  registered reader at `my_sem_write` and another in the read section, while the
  first has loaded `readCount = 1`.
* `LockTypeCorrect`, `WritersExclude`, `ReadersCounted` follow from it.
* `DeadHolderBlocks`: a dead holder keeps `semWrite` at 0 by the invariant.
* `LockImplementsRWLock`: the refinement, step by step.

*Layout* (`KVPodProofs`, lemmas only). That a bounded set of numbers has a
largest member (the order of numbers is well-founded); how the turns of a ring move (`Kept`, remainders by
`MAXNUMBERVALUES`); which pairs, rows and counters `AfterWrite` and `AfterRead` leave alone.
The two modules that follow cite them.

*One client* (`KVSeqProofs`). `SeqInv` is one conjunct for each regime of the segment,
since less and less is true of it as its arrays overflow:

* always: the types, and that a visible pair has values with its cursor below their
  number (`PodTypeCorrect`);
* while no value fills its row (`LongValue = {}`): `RingsConsistent`. A value that does
  writes its terminator into the cursor of the next pair;
* while every string is shorter than its array (`Short`) and keys have one length
  (`OneLength`): `VisibleKeysDistinct`, pods that wrap included. The last hypothesis
  is needed: after a wrap, a short key laid over a longer one leaves the tail of the old
  key, and the two together may be a third key that has a slot already;
* while also no pod is full (`PodsHaveRoom`): `SlotsAgree`, `RingsAgree`. These give
  `LatestValues`, whatever number of times the rings have wrapped.

`KeysVanish` needs no more than that no value fills its row and no key is cut.
`PromiseIsKept` is the refinement of `KVRing`: under `Short`, each call is the
call of the abstract ring, as long as rings and pods have room.

*Several clients* (`KVStoreProofs`). `StoreKeepsLock`: every step of `KVStore` is a step
of `KVLock` or leaves its variables alone, so the store inherits its theorems (`StoreIsLocked`,
`StoreImplementsRWLock`). On top of that:

* `StoreInvariant`: `StoreInv` holds whatever overflows. It adds to `LockInv` where
  a process in the section stands (`PlaceAgrees`) and that what it has loaded still
  describes the pair (`LocationHolds`, `RowsLoaded`): no other process is between them.
  `StoreTypeCorrect` and `ReadsAreStable` follow.
* `RoomInvariant`: under `Room` (strings shorter than their arrays, fewer keys in a pod than
  slots) the pairs are the rings of `hist`, but for the one a process is halfway through,
  which differs by the stores it has still to make (`HalfwayAgrees`). A process killed
  there stays halfway for ever. `CursorsAgree` relates cursors to the reads that are
  under way. `WritesAreKept`, `AnswersAreNotTorn` and `RowsAreReadInTurn` follow.

*cgroups* (first half of `SRContainerProofs`). That a living container is in its directories
says nothing about the next step until one knows how far the walk of main has come.
`CgroupInv` says it: which groups main is in (`MainIsIn`), which its child was started in
(`ChildIsIn`), where its limits stand (`OwnLimits`), which of its directories exist (`Standing`), and
that tasks are only in groups of their own host name (`TasksKeepToNames`). Where two launches
share a name, `PairsApart` relates them: while neither cleans up, the directory that one has
made is there, and it is none of those the other has made or its container is in.
`ContainersStayHeld`, `NothingStays` and `LimitsAreOwn` follow, with any number of launches,
any sharing of names (for the limits: by two) and a clean-up that breaks off anywhere.

*Parent and child* (second half). The actions of `SRContainer` are those of `SRCgroups`
with what the handshake adds, so `CgroupInv` holds of it too (a lemma). `PayloadStaysConfined`,
`MapsStayInNamespace` and `IdsComeAfterMaps` are proved from `ContainerInv`: what the child has
behind it at each call, and what the two messages on the sockets tell each
side about the other, also after the other is gone.

*options* (`SROptionsProofs`). `OptionsInv` gives the contents of `cgroups` and of the settings
from the counts of the flags (`ControlsAgree`, `RatesAgree`), and what `last_optind` stands for
(`ArgumentsAgree`), as long as `main` is not `undefined`, and what that takes (`OverrunsNeedMore`).
`FirstGroupIsJoined`, `CommandIsRun` and `LimitsArrive` follow, for any number of options, any
commands and any padding of one pointer or more.

*The test of the store* (`KVHarnessProofs`). `HarnessInv` ties the parent's counters, its
array `pids` and each child's copy of it to the processes that are alive, and follows a
handler through its loop of `kill`. It is proved for any number of children, rounds, launches,
signals and failed forks. `PostsAgree` counts the posts that failed forks leave over, and
`BranchAgrees` why the parent passes the barrier only after two of them. `NobodyElseIsAlive`, `ChildrenDoNotOutlive`, `ValuesAreCounted`, `OthersAreSpared` and
`NamesDoNotStay` follow.

*Shells* (`TinyShellProofs`). `ShellInv`: one process of an input is awake and the others
wait in a chain (`OneIsAwake`), and a process reads on behind the line it was
started for (`PastItsLine`, `LinesAgree`). `OneAtATime` and `NoLineTwice` follow.

What only TLC checks: the liveness properties (`EveryCallReturns`, `EveryLaunchEnds`, `LaunchEnds`,
`PipeCommandsEnd`), since the prover knows neither fairness nor ENABLED, and the three
runs that are expected to fail.

## Not modelled

* `memHog.c` allocates in a loop; `sample_system_call_filter.c` is not compiled.
* The hash: every use takes its remainder by the number of pods, and `PodOf` is any function.
* `comp310_a2_test1.c` beyond its use of the store, and the random strings of `a2_helpers.c`.
* The splitting of a line into words in `tinyShell.c`, with its arrays of 50
  words and 20 characters; `my_systemv`, `my_systemc` and `fn` there are never called.
* `kv_store_create` that fails, `mmap`, `malloc` and `sem_open` errors in the store. So
  test2's `continue` after a NULL of read_all, which skips `kv_delete_db`, is not reached.
* What `main` does after a store out of bounds (`undefined` in `SROptions`), and a parent
  whose vfork child has left their frame (`undefined` in `TinyShell`).
* The pairing of commands by the two halves, and a command that waits in open for a
  partner that never comes.
* A reader of a segment that is unlinked while it is mapped.

## Plan

Done: every module above with its runs, and the proofs of its safety properties. What
could follow: the splitting of a line into words in `tinyShell.c`, with its two fixed
arrays, and a run of `KVPod` with keys that are cut and values that fill their rows next
to other clients (`KVStore` proves the lock and the loaded locations for them; nothing is
promised of the values).
