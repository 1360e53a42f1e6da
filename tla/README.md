# hxroot / libfakechroot in TLA+

hxroot is a library that is preloaded into programs and wraps libc: it makes a
directory look like the root of the file system, makes the user look like root,
and emulates what an Android file system lacks (hard links, System V
semaphores). This directory holds TLA+ models of the parts of it that keep
state, TLC configurations that check them, and proofs checked by TLAPS.

Source paths below are relative to the repository; the code lives in
`src/*.c` there, which `PROJECT.json` writes `src/src/*.c`. `src/src/*.c` of the
repository is an older copy of the same files and is not modelled.

## 1. The system and its parts

The library runs inside every guest process. Processes share the file system,
System V semaphore sets in shared memory, and what they inherit through the
environment; threads of a process share the globals of the library.

| part | state | operations | what is hard |
|---|---|---|---|
| hard links (`link.c`, `unlink.c`, `rename.c`, link counts in `stat.c`) | symlinks, storage files `.HxL2s.<name>.XXXXXX`, link files `<storage>.hxlinks` holding a count, locked with `flock()` | `link`, `unlink`, `rename`, `stat` | each operation is many system calls; processes interleave between them, die between them, and single calls fail |
| semaphores (`sysvsem.c`) | a mutex (futex word), a table of sets per process, sets in shared memory | `semget`, `semop`, `semctl` | threads interleave on the mutex; the table grows |
| open as fake root (`open.c`) | the mode of the file on disk | `open`, `openat` | the mode is changed for a moment and put back; another process sees it, or the process is killed in between |
| start-up and exec (`hxroot.c`, `exec.c`, `chroot.c`, `setuid.c`, `getuid.c`) | `HxRoot`, `HxUid`, `HxGid`, `HxL2s`, `environ`, its backup `HxEnviron` | `HxDoInit`, `execve`, `chroot`, `setuid` ... | the same fact is kept in a global, in up to two variables, and in a backup, and the guest may remove any of the variables |
| path translation (`util.c`) | none but `HxRoot` and the bind list | expand, unexpand | a result of one wrapper passed to another is translated twice |
| exec (`exec.c`, `elfutil.c`, `ldlib.c`, `fixup_argv.c`) | the list of libraries, the command line in memory | scripts, linkers, PATH search, the constructor of the new program | long chains of steps that each may fail; boundaries of buffers and vectors |
| `posix_spawn.c` | the child's descriptors | file actions in the child | the parent goes on meanwhile; errors of the child are reported late |
| databases (`passwd.c`, `group.c`, `shadow.c`) | one static `FILE` per database | iterate, look up | a look-up and an iteration share the `FILE` |
| wrappers (`access.c`, `chmod.c`, `mkdir.c`, `symlink.c`, `readlink.c`, `getcwd.c`, `realpath.c`, `glob.c`, `dlopen.c`, ...) | none | expand the path, call libc, unexpand what comes back | each is simple; a sequence of them must look like one file system |
| sockets (`socket.c`) | none | address translation, faked credentials | an expanded path may not fit an address |
| shims (`syscall.c`, `sigsys.c`, `prctl.c`) | none | fixed answers | registers and byte layouts |
| scripts (`fakechroot`, `hxroot.in`, `hxconvert`, `hxunconvert`) | symlinks of the guest tree, the first environment | launch, convert | a conversion run twice |

The parts meet in these places: `link()` calls `rename()` and `symlink()` of the
library, `rename()` calls its `stat()` and `unlink()`; `open()` as root calls its
`stat()` and `chmod()`; `chroot()` calls its `realpath()`; `execve()` hands the
settings of one program to the next.

`PROJECT.json` lists every part with its status, and under "hazards" what can go
wrong in it, line by line, with the properties that cover it.

## 2. Modules

| module | models | extends |
|---|---|---|
| `HardLinks` | what hard links promise: names that name files | |
| `L2s` | `link`, `unlink`, `rename` as they are, one system call per action | |
| `L2sProof` | the inductive invariant of `L2s`, its theorems, those about one process, and those about processes that have names of their own | `L2s`, an instance of `Lemmas` |
| `Futex` | the mutex of `sysvsem.c`, one atomic operation or futex call per action | |
| `SemMap` | `semget`, look-ups, the table and its growth, under the mutex | `Futex` |
| `SemMapProof` | the mutex; the table uses it properly, and its ids are right until it grows | `SemMap` |
| `DacOverride` | `open` and `openat` as fake root | |
| `DacProof` | its types and what overlapping opens leave | `DacOverride` |
| `ExecEnv` | start-up, identity, root and environment through `execve` | |
| `ExecEnvProof` | types, and what the next program starts with | `ExecEnv` |
| `Databases` | iterations and look-ups of `passwd.c`, `group.c`, `shadow.c` | |
| `DatabasesProof` | what they return | `Databases`, `Lemmas` |
| `Paths` | a path as a sequence of tokens, and the names in it | |
| `Translate` | `HxShouldExpand`, `HxExpandPath`, `HxUnexpandPath`, `HxExpandedLen` | `Paths` |
| `Files` | the kernel: look-up and calls on one tree | `Paths` |
| `RootedFs` | what a guest is promised: a tree of its own | `Files` |
| `GuestFs` | the path wrappers on the host's tree | `Files`, `Translate` |
| `GuestFsProof` | what the guest changes, where it is, and what `readlink` tells it | `GuestFs`, `Lemmas` |
| `Cmdline` | the constructor `HxFixupArgv`, on the memory of the command line | `Translate` |
| `Exec` | `execve` and `execvpe`, to the first steps of the new program | `Cmdline` |
| `Spawn` | `posix_spawn`, the file actions, and a caller that goes on | `Exec` |
| `SpawnProof` | translations, the descriptors of a spawned program, the search of PATH, the list of libraries, the arguments of a program, its command line | `Spawn`, `Lemmas` |
| `Lemmas` | induction over sets of naturals, what recursive functions compute, prefixes, and the names and texts of paths | `Paths` |
| `MC...` | the constants of the runs | the module they are named after |

### L2s

The file system is `dirent` (what each path is: nothing, a file, or a symlink to
a path), `lfile` (the inode of each link file), `count` (what is in it; `Empty`
between its creation and the first write) and `held` (who holds `flock()` on an
inode). A link file is an inode of its own because a process keeps its
descriptor, and its lock, when another process removes the file. `pc` names the
system call a process makes next, so that every action is one system call and
other processes run in between. Three pairs are one action: `flock()` with the
read that follows, and a write with the release of the lock that follows it at
the end of `HxL2sIncrement` and `HxL2sCreate`; nothing another process does can
tell them apart, because everybody who reads a count to change it, or writes one,
holds the lock.

`rename()` is called by `link()`, and `unlink()` by `rename()`, so `call[p].op`
says where a return goes (`UnlinkReturn`, `RenameTo`). Storage names are chosen
from `StorOf`: the random suffix may collide with a name in use. `Crash` kills a
process in any state; the kernel then closes its descriptors. `symlink()` and
`rename()` may fail for lack of space (`IOErrors`).

Abstracted: directories other than the one the names are in, files that are
directories, paths given relative to another directory (`linkat` aborts on
them), the other fields of `stat`, the bits of the suffix.

The order of tests in the code is kept, with its consequences: `rename()` tests
`st_mode & S_IFLNK` on the result of `stat()`, which is true of every regular
file, so any existing destination is unlinked first.

### Futex and SemMap

`mtx` and `at` are the futex word and the place of each thread in `FutexLockCore`
and `FutexUnlockCore`. The "fast" compare-and-exchange has expected and desired
value swapped; the model has them as the code does. The wait of the kernel
compares and sleeps in one step; a signal may wake a sleeper. `SemMap` puts
`AddSetToMap` and `RetrieveSetFromMap` inside the lock, as separate steps, and its
`Grow` computes the new table as the code's `memset` does: the offset is in bytes,
`W` of them to an entry. `Len0` (128 in the code) and `W` (8) are parameters.
`nsems` of a set is assigned nowhere, so a semaphore operation that finds its set
returns an error without touching it (section 5): the loop of `semtimedop` behind
that test cannot be reached and has no model.

### DacOverride

`mode` is the set of the owner's bits, `st` what `stat()` reported to a process,
`ent` which file the name is in the working directory and in the directory given
to `openat`. `wanted` (the mode the guest last gave the file) and `mixed` (what
overlapped an open) are history. Abstracted: permission to search a directory,
which the override does not help with, and creation.

### ExecEnv

One process through its programs: the globals `root`, `uid`, `l2s`, `proot`, the
working directory, `environ` and its backup. `Starts` is `HxDoInit`. `Preserve` is
the loop over `PRESERVE_ENV`. The guest may unset, clear and copy its environment,
and pass `environ`, an empty environment or its copy to `execve`. `HxGid` is handled
like `HxUid` and left out, and so are the variables that `Preserve` treats like
the ones kept. An identity goes through the conversions of the code: a `uid_t` is
put into an int (`ToInt`), written with its sign, and read by `simple_atoi`, which
stops at the sign (`Atoi`). A program may also be started without the library: by
bionic's linker (`ExecBionic`), or by proot where there is one (`ExecProot`). Paths are
sequences of components, without binds; one that is relative begins with a dot, as
the name that unexpanding leaves below the root `/` does.

### Databases

An open `FILE` is the tree and the version of the file it was opened on, and a
line in it: a file that is replaced by `rename()`, as `passwd(1)` does, goes on
being read by whoever has it open. `cursor` holds the three static `FILE`s,
`delivered` what an iteration returned so far, `scan` the look-up under way, one
line per step, so that replacements come in between. A line may be longer than
the 256 bytes of the calls without `_r`: it is then an `ERANGE` that the `FILE`
does not move past. `getgrouplist` collects the groups of the lines it can read; its
caller gives room for one group first and, after -1, for as many as it was told.
The three databases share their actions, as the three files share their code, but
for the calls each has (`PasswdCalls`, `GroupCalls`, `ShadowCalls`).

### Paths, Translate, Files, RootedFs, GuestFs

A path is a sequence of tokens, `"/"` and names. A slash is a token of its own, so
that the code's comparisons of characters, what it copies and the lengths it
computes (`ExpandedLen`, the buffers of `readlink` and `sun_path`) stay what they
are; a name is atomic, so `/rx` is not below `/r`, in the model as it should be
and unlike the code (section 5).

`Files` is the kernel, external to the repository: a walk follows links up to
`MaxLinks` and takes up to `MaxSteps` names and links (`ENAMETOOLONG` beyond), goes up at
`..` and remembers each name with the directory it was taken in, and each
call maps a tree to the set of its outcomes. `GuestFs` has one
definition for the functions of each source file of wrappers, which all say what
they pass to the kernel and what they do with its answer: most only expand
(`Simple`), some unexpand what comes back (`Change`), and some differ: `symlink`
expands its target too, `readlink` reads one byte less than it was given and fakes
`/proc/self/exe`, `chown` as fake root only looks, `stat` fakes the owner, `bind` and
`connect` have a limit, `dladdr` rewrites the loader's own text. One call is one
step: the wrappers keep no state, and what several processes do to one tree is in
`L2s` and `DacOverride`.

`View` is the refinement mapping. It cuts the guest's tree out of the host's (places
below the root, and the bound ones), with the targets of its links unexpanded, and
under it `GuestFs` implements `RootedFs`: every wrapper does to that tree what the
plain call does to a tree, and returns the same. What falls short of this by
design is in the head comment of `RootedFs`.

The library translates texts and the kernel knows nothing of a root or of binds, so
there are ways out of the guest's file system. `strayed` records those that the
calls so far have taken, from the names their look-ups went through (`Strays`): up,
by `..`, from the root or from a bind; to what is below the root at a bind's mount
point, by a relative path, `..`, or doubled slashes; and a text of the loader that
would be unexpanded a second time. The properties name these three as exceptions:
`Confined` and `CwdNameable` the first, `CwdNameable` the second for the directory
itself, and `IsRooted` holds up to the first call that takes any of them.

### Cmdline, Exec, Spawn

A host is a tree of programs (scripts, ELF files that have, lack or exceed the
parts that `elfutil.c` reads, texts, directories, files that cannot be opened), its
linkers, `HxLinker`, `HxProot`, `environ` and `HxEnviron`. A step of `Exec` is one
decision of the code: a failing `open`, a shebang that leads to another `execve`,
a failing read of an ELF part (`Reads` has their order), the choice of `proot`, the
environment with the directories of the rpath added one at a time as `HxLdlib`
does with its buffer, the choice of the linker, the next candidate of PATH, the
shell. `Result` gives what `execve` of a path comes to in one step and independently
of the search, which is what `SearchRight` compares with.

`Cmdline` is the memory the kernel lays the arguments out in: the constructor of
the new program moves texts within it and changes the pointers, so pointers are
indices and `Fixup` says what every pointer leads to afterwards and what others
read from `/proc`. Where the code reads or writes out of bounds, or loses the end
of a vector, `pc` is `"undefined"`.

`Spawn` composes `Exec` with the child: `fds` is the child's table, `parent` the
caller's, which the caller goes on changing as soon as `posix_spawn` has returned.

Abstracted: the layout of ELF beyond the order of the parts and their sizes, the
variables that are in `ExecEnv`, and the attributes of the child, which the code
ignores.

## 3. What the runs check

| run | instance | shows |
|---|---|---|
| `L2sSeq` | 1 process, 4 names, 2 storage names, 5 calls | `CountExact`; `ImplementsHardLinks`: the guest sees hard links, by refinement of `HardLinks` |
| `L2sConc` | 2 processes on the same 3 names, crashes, failing calls, 3 calls | `TypeOK`, `CountNotStale`, `LedgerExact`, `NoClobber`, `StorageCovered` |
| `L2sOwned` | 2 processes that link a shared file to names of their own, 4 calls, fair | `NeverUndercounted`, `PinnedKeepsFile`, `CallsReturn` |
| `L2sRename` | 1 process, 3 calls | violation: a failing `rename()` has removed its destination |
| `SemMap` | 3 threads, 3 sets, table of 2 that grows, fair | `MutualExclusion`, `NeverAborts`, `NoLostWakeup`, `LockProgress`, `IdsNameSetsUntilGrowth` |
| `SemGrow` | 2 threads, the same table | violation: growth makes ids lose their sets |
| `Dac` | 2 processes of fake root, 1 user, one foreign file, 3 opens, kills or changes | `ModeRestored`, `OverrideWorks`, `NeverNarrowed` |
| `ExecEnv` | 5 host directories, launches with all settings, ids below, at and above `IntMax`, 4 calls | `StaysLoaded`, `IdentitySurvives`, `RootSurvives` |
| `ExecChroot` | the same, 2 calls | violation: `chroot()` fails in a process that has a root |
| `Guest` | root `/r`, bind `/d` with a directory hidden below it, a host with the same names beside them, 2 working directories, 3 calls of any wrapper, `..` and relative paths among them | `IsRooted`: the guest sees a file system of its own until it strays, by refinement of `RootedFs`; `Confined`, `CwdNameable`, `ReadlinkStart` |
| `Databases` | 3 tables, 2 trees, 1 replaced or removed file, 3 calls | `IterationInOrder`, `LookupsAreRight`, `GroupListComplete`, `GroupListRetry` |
| `Exec` | 7 hosts, a program of every kind, all calls of `MCJobs`, up to 2 file actions, fair | `SearchRight`, `ArgvArrives`, `CmdlineTold`, `LibrariesListed`, `ChildFds`, `CallEnds` |

`SemMap`, `Dac` and `ExecEnv` also check the type invariants of their modules.
Every property has a mutated definition in its module (marked "Mutant", listed
under "mutants") with which TLC finds it violated.

Bounds. The number of calls is bounded (`MaxCalls`) because counts and histories
grow with it. Five calls of one process link a file to three further names and
remove them again, or convert it a second time after its storage has gone; with
two processes three calls suffice for two conversions of one file while a third
call removes one of its names, and each call may die at each of its steps. Two
storage names allow a collision, three inodes a removed link file that is still
open while its name is taken again. Three threads are the least with which one
wake-up can go to the wrong sleeper, three sets the least that make a table of two
grow, and `W = 2` makes the byte offset fall inside the part in use, as 16 of 128
does. Three calls of the wrappers make a link (to the guest's root, a bind, itself,
a relative name, up again, into the directory that the bind hides), go or write
through it, and look at what is there; a path has at
most two names and a walk three links, so `MaxSteps` (16) is never reached. `IntMax` is
7 in `ExecEnv`: 14 is then an id that an int holds as a negative number.
Three calls on the databases are two turns
of an iteration with a look-up or a `chroot()` between them, or a `getgrouplist`, its
second try and one more; a file is replaced, at any moment, at most once, since a
`FILE` either reads the version it was opened on or does not. The buffers of `Exec`
are small so that texts cross them (`LibBuf` 12 and `CmdlineBuf` 24 tokens,
`NameMax` 4), PATH has four directories, one of them a file and one empty, and
scripts run scripts twice (`MaxDepth`); a third time is called a full stack. Four
descriptors, of which two are open, let an `open` find its number taken, free, or
the lowest one. The runs set `CHECK_DEADLOCK FALSE` because the system may stop: the
bound on calls is used up, every process is idle, or a program runs.

Fairness. `L2sOwned` assumes weak fairness of each process's steps inside a call:
the kernel schedules a runnable process and completes a system call, and grants
`flock()` to a waiter when it is free and stays so. Nothing has to start a call.
`SemMap` assumes the same of a thread's steps inside the lock and in its system
calls, not of starting a call and not of signals. The mutex is not fair to one
thread, so `LockProgress` says that some waiting thread gets in. `Spawn` assumes weak
fairness of the process inside `execve` or `posix_spawn` (`Process`): there the
library waits for nothing, so its next step is always enabled and the kernel
schedules it. The new program's first steps and what the caller does after
`posix_spawn` are not in it. `CallEnds` is then a matter of every chain (scripts,
PATH, the shell) being finite; a script that is its own interpreter ends in the
bound on nesting, as undefined.

What these runs do not claim: `NeverUndercounted` and `PinnedKeepsFile` hold for
processes that remove only names of their own. Two `unlink()` calls on one name
both decrement the count and only one name goes. While another process converts a
file, its name does not exist for a moment; `PinnedKeepsFile` follows the file through
that moment (`View`). `IsRooted` says nothing of what follows a call that strays.
Properties of `Exec` name the cases the code gets wrong as exceptions (section 5),
so that they say what it gets right in all others.

## 4. What is proved

TLAPS checks these for every value of the constants that satisfies the named
assumptions (`Distinct` and `Parameters` of `L2s`, `TableAssumption`,
`DacAssumption`, `EnvAssumption`, `DbAssumption`, `TranslateAssumption`, `GuestAssumption`,
`ExecAssumption`, `PlacesAssumption`, `ShellAssumption`, `SpawnAssumption`; none in
`Futex`). A theorem that holds in fewer cases names them in its statement (`Sequential`,
`Apart`, `PlainRoots`, `PlainLaunches`, `PlainHost`, `PlainBinds`, `PathsFit`,
`PlainCalls`, `BindsBeside`, `CwdInside`, `NoneHidden`); the runs of the same property
use constants that satisfy them.

`Lemmas`. The induction theorems of the library range over an operator, which
no prover here can instantiate. `Induct` ranges over a set instead: a statement
about n is proved of all n by way of the set of the n it is true of. From it
follow `Iterates` and `Recurses`, by which a recursive function on the naturals is
what its equation says. The models therefore define by recursive functions what
the proofs have to know (`Walk`, `Content`, `Meanings`, `Results`, `Listed`,
`ListTexts`, `Lines`, the groups). The rest is about paths, for roots and binds of any
names: the text of a place below the root or in a bind, unexpanded and expanded again,
leads to that place, unless a bind hides it (`TextReturns`).

`L2sProof`. The inductive invariant has three layers, and each is proved from
the ones below it, one step per action:

1. `Typed`: types of the file system (`FsType`), of the processes (`ProcType`), and
   what each process holds at each `pc` (`LocalOK`): which of its arguments are
   set and which descriptor is open. Without it neither `fd[p]` nor `tgt[p]` could
   be applied.
2. `Counted`: a process between `flock()` and its release holds the lock and has
   read the current count (`LockOK`); a process that has created a link file and
   not yet written it is the only one whose storage name leads to that inode
   (`CreateOK`); a count that has been written equals its ledger (`LedgerOK`). This
   gives `CountNotStale` and `LedgerExact`. `LedgerExact` alone is not inductive:
   a writer puts back what it read, so the invariant must say that this is still
   current.
3. `Reserved`: a storage name whose link file was created by a process that is
   still converting has no file, and a stored file has a written link file. This
   gives `NoClobber` and `StorageCovered`, also across a `Crash`, which may leave
   a link file without storage and never the other way round.

One process (`Sequential`: no crash, no failing call, and no symlinks of the guest's
own in the directory). `Tidy` says of each `pc` how the links to the storage, their
number, and the count in the link file differ at this system call: the count is
ahead of a name that `link()` is about to make, and behind one that `unlink()` is
about to remove. Idle, they are equal: `CountsExactBetweenCalls`. With it every
system call is either the one at which the guest sees the call happen or a stutter
of `HardLinks`: `HardLinksImplemented`, the refinement that `L2sSeq` checks.

Many processes, of which each creates and removes only names of its own (`Apart`)
and converts files whose names belong to none.
`Due(s)` are the links to storage `s` that a count has to cover: those that are
there, but for the one whose `unlink()` has already been counted, and those for
which a `link()` has already counted. `Covers` says that the count is at least
their number; `Firm`, that no process takes away a storage that a
process between `realpath()` and its last `symlink()` relies on: a name of no
process leads there. `Knows` is what each process still knows of what it read
system calls ago. The proof is by rely and guarantee: each step of one process
keeps what it knows itself, and changes nothing that the others know. Hence
`NamesNeverUndercounted`, and `PinnedNamesKeepTheirFile`: a name that no process
removes is led by chains of links, of any length, to the same file at every system
call, through conversions and second conversions by other processes. The exception
is the moment between the `rename` and the `symlink` of a conversion, when the name
is missing; its file is then at the storage the symlink will lead to.

`SemMapProof`. The mutex first. The word is never `LOCKED`, so the swapped compare-and-exchange
never succeeds, and the word is `CONTENDED` while a thread is inside: that is why
the mutex works. From it follow `MutualExclusion`, `NeverAborts`, `NoLostWakeup`.

Every step of `SemMap` is a step of `Futex` or leaves it alone
(`TableUsesFutex`), so mutual exclusion holds of the table (`TableMutualExclusion`).
`Table` adds what a thread has in hand at each step, which keeps every index inside
the table through growth (`TableTypes`). `Named` gives `IdsNameSetsAtFirst`: while the
table has its first length, a set belongs to one call of `semget` (`OneOwner`), and a
thread that searches for a slot has the mutex (`HasLock`), so by mutual exclusion the
slot it found is still free when it stores its set. It is here that the mutex
matters: without `FutexInv` the step of `Store` does not preserve `Named`.

`DacProof`, for `open` (`Ats = {FALSE}`; with `openat` relative to another directory
the properties are false, see the hazard at `open.c:116`). `DacTypes`. `Granted`: a
process that will put a mode back read it while it included all the guest granted
(`Remembers`), hence `OpensNeverNarrow`, for any overlap of any number of opens.
`Undisturbed`: as long as nothing overlapped an open, at most one process is inside
one, only its file's mode differs from what the guest gave it, and it has the bits
the open needs; hence `OpensRestoreModes` and `OpensOverride`.

`ExecEnvProof`. `Agrees`: the globals are what the variables would give at the next
start, a variable the guest removed is still in the backup, and the library is
always in the backup. Then `LibraryIsPassedOn`, and `IdentityIsPassedOn` for an identity
that is not negative as an int (`AsRead` is what becomes of the others), over any
number of programs and whatever the guest does to its environment between.
`RootIsPassedOn` says the same of the root, in a program that neither called `chroot()`
nor was given a relative root by one that did, where no directory that start-up would
detect as a root holds a `rootfs` or `ROOT` of its own (`PlainRoots`). Without that
it is false: the program that detected the directory has it as its root, and the
programs it executes find it in `FAKECHROOT_BASE` and move into the one inside.
`EnvTypes` has the types, for launches with a whole environment (`PlainLaunches`).

`DatabasesProof`. `Kept` (versions are only added), `Iterations` (an open `FILE`
reads an existing version, and what was delivered is the part of it before the
position) give `IterationsAreInOrder`; `Scanning` (no line before the one a look-up
is at matches, or was too long for it) gives `LookupsAnswerRight`. `GroupsCounted`,
by induction over the lines, says that the groups collected are the caller's and
those that list the user, each line's once; `Listed`, that the caller was told and
given these. Hence `GroupListsAreComplete` and `RetriesSucceed`.

`SpawnProof`. `RoundTrip`: a path that `HxExpandPath` puts below the root comes
back from `HxUnexpandPath` as it was, for any root and binds. The other direction
is not a theorem: a path of the host outside the root that happens to be read as
the guest's is expanded again (`chroot.c:21`, `dlopen.c:43`).

`Meanings` is what each of the file actions means, as POSIX has it, applied to the
table at the `fork()`. `FdInv`: the child's table is what the actions done so far mean
(`DoneMeant`: an `open` to a number that is taken, free, or the one it gets). Hence
`SpawnedFds`, for any list of actions and any descriptors in use, whatever the
caller does to its own meanwhile.

`Results` is what `execve` of each path comes to, by induction over the nesting of
scripts. `Searching`: a search that is at directory i has found in none of those
before it a program that starts or an error that it may not go on after, and has
seen `EACCES` if one of them had; and what `execve` is doing there leads to what
`Result` says. Hence `SearchesAreRight`, for a PATH of any length, any
programs in it, and scripts in scripts.

`LibInv`: while directories are added, `HxLdlib` is the text of those added so far
(`Adding`), behind the caller's own value, and it is neither cut nor written outside
if the whole text fits the buffer. Its front is at the index at which the
environment is then written. Hence `LibrariesArrive`, for any environments and any
number of directories.

`ArgInv` follows the arguments through a call. `Carried`: what an `execve()` is given
ends with the caller's arguments, and inside a script with the script before them.
`Started`: a program is started with that, behind the linker's own arguments
(`Laid`) or the name of its file. `Seen`: so it sees them. The last step is the
constructor's when the library is preloaded. The memory of the command line is
the arguments' texts laid end to end, each with its NUL (`Line`, `Offset`), and where
the linker's and the program's parts are in it is computed by induction over the
arguments (`Spread`). A text that memory `Holds` is what a pointer to it reads (`StrOf`).
From there the constructor is followed write by write: what it finds
(`LinkerFound`, `NameIs`), what it moves and by how much each pointer moves
(`MovingIs`), and what it clears. `FixupNamed` gives the result for a program
that was told its `argv[0]`: the pointers lead to the same arguments as before, their
texts begin the memory (`Packed`), and if the whole command line was read, nothing was
written outside and nothing of the linker is left behind them (`Tidied`). Hence
`ArgumentsArrive`, for arguments of any number and length, however many scripts and
whatever directories led to the program.

Where `argv[0]` is the linker's own path, nothing can be said of the command line: the
constructor takes it for its start (`FixupItself`), and if it is below the root the
test that should stop it there compares with the pointer that was moved. `CmdlineTold`
allows the undefined end in that case alone (`Deceived`), and asserts the rest for
every other `argv[0]`.
`FixupBare` gives the same result for a program without arguments, whose path is the
text that its `argv[0]` points into. `TellInv`: a linker is started with the program of the
call under way, expanded, and that file is there; what the program sees is what the
constructor made of it. With `FixupNamed` and `FixupBare` the part of `CmdlineTold` about
memory follows. The other part is that the path the library keeps of the program
leads to its file: it was expanded for the linker, unexpanded by the constructor,
made a place and a text by `realpath`, and unexpanded again (`ExeReturns`). That needs
four things, which the run has too. `BindsBeside`: no bind is the host's root or
contains the guest's. `CwdInside`: the working directory is in the root or a bind.
`NoneHidden`: no bind hides a file of the host. `PlainCalls`: nobody calls a program
named like the linker's own option without arguments. Hence `CommandLineTold`, for
command lines that were read whole; for longer ones it is false (`fixup_argv.c:98`).

`GuestFsProof`, for any root and binds, any tree of the host, any calls. `Sound`:
inside the root and the binds an absolute link leads inside, on the way to them
there is no link, what exists is in a directory, and the working directory is inside.
A walk that begins inside then ends inside, along any number of links
(`WalkArrives`); every wrapper makes a call that begins inside, since `HxExpandPath`
puts every absolute path there (`NextWent`), and links made by `symlink` have their
targets expanded as well; every call of the kernel keeps `Sound` and all that is
outside (`KernelKeeps`), as long as no look-up has gone up from the root or a bind:
that is recorded in `strayed`, and the invariant (`GuestInv`) and both theorems end
there. Hence `NothingOutsideChanges`. It needs three things, which the
run has too. `PlainHost`: the host is `Sound` at first. `hxconvert` makes it so: it puts
the root before the target of every absolute link in the tree, but for `/etc/mtab`,
which leads to the bind `/proc`. `PlainBinds`: no bind is called `X`, the mark of
a template of `mkstemp`. `[]Stands`: nobody replaces the root or a bind by a link.

`CwdHasItsName` follows from `Sound`: `Names` and `Text` are each other's inverses
(`TextBack`, `TextReturns`), so the name that `getcwd` gives is expanded to where
the process is, and on the way there are directories only. It needs `PathsFit`:
`MaxSteps`, which stands for `PATH_MAX`, is enough for every place. A directory that a
bind hides (`Hidden`), in which a relative path or a relative link can put the guest,
is the exception that `CwdNameable` names: its name leads to the bind.

`ReadlinkNeverMisleads` needs none of these. `Proper`, the types, is enough of an
invariant: the kernel's answer is the start of the target, of the length that was
asked for, and unexpanding the start of a text gives the start of what unexpanding
the text gives.

Only model-checked:

- liveness (`CallsReturn`, `LockProgress`, `CallEnds`), which the prover does not do
  under fairness;
- the refinement `IsRooted`: its mapping cuts a tree out of another, and each of some
  forty calls would have to be shown to commute with it, with texts that are
  translated twice in between.

## 5. Where the code and its words disagree, and what it gets wrong

Three runs end in a violation of what a comment or document says; `PROJECT.json`
("findings") quotes each line: a failing `rename()` destroys its destination
(`rename.c:23`); growing the table of semaphore sets wipes entries in use
(`sysvsem.c:189`); `chroot()` inside a root fails (`chroot.c:21`).

Other behaviour that modelling brought up and no comment speaks of. The models have
it as the code does, and the properties name it as an exception:

- Hard links: `link()` succeeds on a name whose file is being converted
  (`link.c:172`); `stat()` reports 2 links for every hard link (`stat.c:92`); a crash
  or a failing call in the middle leaves a count too high or too low
  (`link.c:162`, `unlink.c:60`).
- Semaphores: `nsems` of a set is never assigned, so `semop` on a set that is found
  fails with `EFBIG` and `semctl` with `EINVAL`.
- `open()` as fake root: overlapping opens leave the mode widened (`open.c:65`), and
  so does a process killed inside (`open.c:61`); `openat()` changes and restores
  relative to the working directory (`open.c:116`).
- Start-up: an identity above `INT_MAX`, or none at all, is a negative int
  (`setuid.c:8`), is passed on with its sign and read as 0, so that the next program
  plays root (`hxroot.c:131`); below the root `/` unexpanding leaves a relative path
  (`util.c:66`), which `chroot()` makes the root; 16 binds fill the list that `util.c:35` reads to its zero (`hxroot.c:114`).
- Paths: names are compared by characters, so the sibling `/rx` of a root `/r` is
  unexpanded (`util.c:66`); `..` leads out of the root (`util.c:57`); a relative path,
  `..` or `//` into a bind's mount point leads to the directory that the bind hides,
  whose name then leads elsewhere; `readlink()` cannot show that it truncated (`readlink.c:28`), and
  counts the terminator of `/proc/self/exe`; a second `dladdr()` unexpands twice
  (`dlopen.c:43`).
- Databases: a line of more than 256 bytes hides all behind it (`passwd.c:21`);
  `lckpwdf()` takes no lock (`shadow.c:40`).
- Exec: an index into the new environment is used on the caller's (`exec.c:187`);
  a path with a slash that fails is looked for in PATH (`exec.c:418`); the shell is
  given `argv[0]` as its script (`exec.c:400`); a directory in PATH with the
  program's name ends the search (`EISDIR`); an empty `argv` leaves a script's or
  `proot`'s vector without an end; `HxLdlib` cuts the text and then writes outside
  (`ldlib.c:33`); the constructor clears beyond a long command line
  (`fixup_argv.c:98`), and behind any whose `argv[0]` is the linker's own path below the
  root (`fixup_argv.c:36`, `:39`), and mangles the program's name without arguments
  (`fixup_argv.c:53`); scripts that are each other's interpreters recurse without
  end.
- `posix_spawn`: `file_actions` may be NULL for the caller and not for the code;
  `O_CLOEXEC` of an opened file is lost when it is moved to its number, and `dup2` of
  a descriptor to itself does not clear its flag (`posix_spawn.c:84`).

## 6. Not modelled, and the plan

Not modelled, and why:

- `semtimedop`, `semctl` and their commands behind the test of `nsems`: unreachable.
- Signal and system call shims (`syscall.c`, `sigsys.c`, `prctl.c`): tables of fixed
  answers to single calls, and writes to the registers of aarch64.
- The credentials in `recvmsg()` and `getsockopt()`, `getuid.c`: each returns a global
  that `ExecEnv` has.
- `linkat` relative to a directory or with flags, `mkostemps`, `execveat`: they abort;
  `unlinkat` relative to a directory or with flags.
- `fork()` failing in `posix_spawn`, and its attributes, which the code ignores.
- Names inside names: a token is atomic (section 2).
- The launch scripts (`fakechroot`, `hxroot.in`) beyond the environments they produce,
  and `hxconvert` and `hxunconvert`, which rewrite the links of a tree once.
- The older copy of the sources in the repository.

Left to do, in this order: the refinement `IsRooted`, one kind of call at a time; the
semaphore operations, should `nsems` be assigned.
