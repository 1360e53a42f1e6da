--------------------------------- MODULE L2s ---------------------------------
(***************************************************************************)
(* Hard links kept as symlinks (HxL2s): link() of link.c, unlink() of      *)
(* unlink.c and rename() of rename.c, run by processes that share one      *)
(* directory, interleave between system calls and may die between two of   *)
(* them.                                                                   *)
(*                                                                         *)
(* A hard-linked file lives at a storage path ".HxL2s.<name>.XXXXXX"; each *)
(* of its names is a symlink to it, and "<storage>.hxlinks" (the link      *)
(* file) holds the number of names.  The first link() of a plain file      *)
(* converts it; every later one increments the count under flock();        *)
(* unlink() decrements it and removes storage and link file at zero.       *)
(*                                                                         *)
(* Each action is one system call of the code.  A read that follows        *)
(* flock() and a write that is followed by its release are one step with   *)
(* them.  pc names the call a process is about to make.                    *)
(***************************************************************************)
EXTENDS Integers, FiniteSets

CONSTANTS
  Procs,      \* processes running under the library
  Names,      \* the guest's names in the directory
  Stor,       \* the names HxL2sName and HxMktemp can make
  Files,      \* file contents, by identity
  Inodes,     \* inodes for link files
  Absent, NoInode, NoProc, NoPath, Empty,
  StorOf,     \* StorOf[p]: the storage names made for real path p
  InitDirs,   \* the directories the processes may start in: a stored file
              \* there is one that earlier calls made, with its names
  Sources,    \* names given to link() as the existing file
  Owned,      \* Owned[p]: names p creates, unlinks and renames
  Ops,        \* which of "link", "unlink", "rename" are called
  Crashes,    \* whether a process may be killed inside a call
  IOErrors,   \* whether symlink() and rename() may fail for lack of space
  MaxCalls    \* bound on the number of calls

Paths   == Names \cup Stor
Entries == {Absent} \cup Files \cup Paths

ASSUME Distinct ==
  /\ IsFiniteSet(Names) /\ IsFiniteSet(Stor)
  /\ Names \cap Stor = {} /\ Files \cap Paths = {}
  /\ Absent \notin Files \cup Paths
  /\ NoPath \notin Paths
  /\ NoInode \notin Inodes
  /\ NoProc \notin Procs
  /\ Empty \notin Int

ASSUME Parameters ==
  /\ StorOf \in [Paths -> SUBSET Stor]
  /\ InitDirs \subseteq [Paths -> Entries]
  /\ \A d \in InitDirs, s \in Stor :
       d[s] # Absent => d[s] \in Files /\ \E n \in Names : d[n] = s
  /\ Sources \subseteq Names
  /\ Owned \in [Procs -> SUBSET Names]
  /\ Ops \subseteq {"link", "unlink", "rename"}
  /\ Crashes \in BOOLEAN /\ IOErrors \in BOOLEAN
  /\ MaxCalls \in Nat

VARIABLES
  dirent,   \* what each path is: Absent, a file, or a symlink to a path
  lfile,    \* the inode of each storage name's link file
  count,    \* the content of a link file: a number, or Empty
  held,     \* the process that holds flock() on an inode
  pc,       \* the system call each process makes next
  call,     \* the call each process is in, with its arguments
  tgt,      \* link(): the real path of old, then the storage path
  lnk,      \* unlink(): the path read from the symlink
  fd,       \* the inode of the link file each process has open
  val,      \* the count a process has read
  res,      \* the result of each process's last call
  calls,    \* the calls made so far
  \* History, read by properties only:
  ledger    \* what the count of an inode should be

fs    == <<dirent, lfile, count, ledger>>
local == <<call, tgt, lnk, res, calls>>
file  == <<held, fd, val>>
vars  == <<dirent, lfile, count, held, pc, call, tgt, lnk, fd, val, res, calls, ledger>>

NoCall == [op |-> "none", old |-> NoPath, new |-> NoPath, was |-> Absent]

-----------------------------------------------------------------------------
(* Path resolution, as the kernel and realpath() do it.                    *)

\* The path of the file a path leads to, or NoPath (dangling, or a loop).
Walk[n \in Nat] ==
  [q \in Paths |-> IF n = 0 \/ dirent[q] \notin Paths THEN q
                    ELSE Walk[n - 1][dirent[q]]]

RealPath(q) ==
  LET end == Walk[Cardinality(Paths)][q]
  IN  IF dirent[q] \in Files THEN q
      ELSE IF dirent[q] \in Paths /\ end \in Paths /\ dirent[end] \in Files THEN end
      ELSE NoPath

Exists(q) == RealPath(q) # NoPath

\* ELOOP.
Looped(q) == dirent[q] \in Paths /\ dirent[Walk[Cardinality(Paths)][q]] \in Paths

Content(q) == IF Exists(q) THEN dirent[RealPath(q)] ELSE Absent

\* access("<q>.hxlinks")
HasLinks(q) == q \in Stor /\ lfile[q] # NoInode

\* HxReadLinkCount: the link count of a hard link's name.  It reads the link
\* file without flock(), and fails on an empty one.
IsHardLink(q) == /\ dirent[q] \in Paths /\ Exists(q)
                 /\ HasLinks(RealPath(q))
ReadLinkCount(q) == count[lfile[RealPath(q)]]

\* An inode no directory names and no process has open.
FreeInode(i) == /\ \A s \in Stor : lfile[s] # i
                /\ \A p \in Procs : fd[p] # i

-----------------------------------------------------------------------------
(* The frame of a call.  Leaving a scope closes its descriptor, which      *)
(* releases the lock (AUTO_CLOSE, AUTO_UNLOCK).                            *)

Goto(p, l) == pc' = [pc EXCEPT ![p] = l]

At(p, l) == pc[p] = l

\* Mutant: a descriptor leaks on return, and its lock with it.
CloseLeaks(p) ==
  /\ fd'   = [fd EXCEPT ![p] = NoInode]
  /\ val'  = [val EXCEPT ![p] = 0]
  /\ UNCHANGED held

Close(p) ==
  /\ fd'   = [fd EXCEPT ![p] = NoInode]
  /\ val'  = [val EXCEPT ![p] = 0]
  /\ held' = [i \in Inodes |-> IF held[i] = p THEN NoProc ELSE held[i]]

Open(p, i) ==
  /\ fd' = [fd EXCEPT ![p] = i]
  /\ UNCHANGED <<val, held>>

Return(p, r) ==
  /\ Goto(p, "idle")
  /\ res'  = [res EXCEPT ![p] = r]
  /\ call' = [call EXCEPT ![p] = NoCall]
  /\ tgt'  = [tgt EXCEPT ![p] = NoPath]
  /\ lnk'  = [lnk EXCEPT ![p] = NoPath]
  /\ Close(p)
  /\ UNCHANGED calls

\* unlink() returns to rename() when rename() called it: a success and
\* ENOENT go on to the rename, every other error is returned.
UnlinkReturn(p, r) ==
  IF call[p].op = "unlink" \/ r \notin {"ok", "ENOENT"}
  THEN Return(p, IF r = "ok" THEN "ok" ELSE "err")
  ELSE /\ Goto(p, "rename")
       /\ Close(p)
       /\ UNCHANGED local

\* The path unlink() works on, and the two paths of rename(): link() calls
\* rename(oldpath, hardlink).
RenameTo(p) == IF call[p].op = "link" THEN tgt[p] ELSE call[p].new
UnlinkPath(p) == IF call[p].op = "unlink" THEN call[p].old ELSE RenameTo(p)

-----------------------------------------------------------------------------
(* Calls.                                                                  *)

Begin(p, o, old, new, l) ==
  /\ At(p, "idle")
  /\ o \in Ops /\ calls < MaxCalls
  /\ calls' = calls + 1
  /\ call'  = [call EXCEPT ![p] = [op |-> o, old |-> old, new |-> new,
                                   was |-> IF new = NoPath THEN Absent ELSE Content(new)]]
  /\ res'   = [res EXCEPT ![p] = "none"]
  /\ Goto(p, l)
  /\ UNCHANGED <<tgt, lnk>> /\ UNCHANGED <<fs, file>>

CallLink(p)   == \E old \in Sources, new \in Owned[p] : Begin(p, "link", old, new, "accessNew")
CallUnlink(p) == \E old \in Owned[p] : Begin(p, "unlink", old, NoPath, "readlink")
CallRename(p) == \E old, new \in Owned[p] : Begin(p, "rename", old, new, "statNew")

-----------------------------------------------------------------------------
(* HxLink2symlink: link(old, new).                                         *)

AccessNew(p) ==
  /\ At(p, "accessNew")
  /\ UNCHANGED fs
  /\ IF Exists(call[p].new) \/ Looped(call[p].new)
     THEN Return(p, "err")
     ELSE Goto(p, "realpath") /\ UNCHANGED <<file, local>>

ResolveOld(p) ==
  /\ At(p, "realpath")
  /\ UNCHANGED fs
  /\ IF Exists(call[p].old)
     THEN /\ tgt' = [tgt EXCEPT ![p] = RealPath(call[p].old)]
          /\ Goto(p, "accessLinks")
          /\ UNCHANGED <<file, call, lnk, res, calls>>
     ELSE Return(p, "err")

\* Mutant: a further name is not counted.
AccessLinksUncounted(p) ==
  /\ At(p, "accessLinks")
  /\ UNCHANGED <<fs, file, call, lnk, res, calls>>
  /\ \/ /\ HasLinks(tgt[p])
        /\ Goto(p, "symlinkNew") /\ UNCHANGED tgt
     \/ /\ ~HasLinks(tgt[p])
        /\ \E s \in StorOf[tgt[p]] : tgt' = [tgt EXCEPT ![p] = s]
        /\ Goto(p, "create")

\* A hard link already, or a file to convert under a name HxMktemp makes.
AccessLinks(p) ==
  /\ At(p, "accessLinks")
  /\ UNCHANGED <<fs, file, call, lnk, res, calls>>
  /\ \/ /\ HasLinks(tgt[p])
        /\ Goto(p, "openIncr") /\ UNCHANGED tgt
     \/ /\ ~HasLinks(tgt[p])
        /\ \E s \in StorOf[tgt[p]] : tgt' = [tgt EXCEPT ![p] = s]
        /\ Goto(p, "create")

\* HxL2sIncrement
OpenIncr(p) ==
  /\ At(p, "openIncr")
  /\ UNCHANGED fs
  /\ IF HasLinks(tgt[p])
     THEN /\ Open(p, lfile[tgt[p]])
          /\ Goto(p, "lockIncr") /\ UNCHANGED local
     ELSE Return(p, "err")

\* Mutant: reads the count without waiting for the lock.
LockIncrNoWait(p) ==
  /\ At(p, "lockIncr")
  /\ UNCHANGED fs
  /\ IF count[fd[p]] = Empty
     THEN Return(p, "err")
     ELSE /\ held' = [held EXCEPT ![fd[p]] = p]
          /\ val'  = [val EXCEPT ![p] = count[fd[p]]]
          /\ Goto(p, "writeIncr") /\ UNCHANGED <<fd, local>>

LockIncr(p) ==
  /\ At(p, "lockIncr")
  /\ held[fd[p]] = NoProc
  /\ UNCHANGED fs
  /\ IF count[fd[p]] = Empty
     THEN Return(p, "err")
     ELSE /\ held' = [held EXCEPT ![fd[p]] = p]
          /\ val'  = [val EXCEPT ![p] = count[fd[p]]]
          /\ Goto(p, "writeIncr") /\ UNCHANGED <<fd, local>>

WriteIncr(p) ==
  /\ At(p, "writeIncr")
  /\ count'  = [count EXCEPT ![fd[p]] = val[p] + 1]
  /\ ledger' = [ledger EXCEPT ![fd[p]] = @ + 1]
  /\ Goto(p, "symlinkNew") /\ Close(p)
  /\ UNCHANGED <<dirent, lfile, local>>

\* Mutant: O_CREAT without O_EXCL opens the link file that is there.
CreateLinksNoExcl(p) ==
  /\ At(p, "create")
  /\ \E i \in IF HasLinks(tgt[p]) THEN {lfile[tgt[p]]} ELSE {j \in Inodes : FreeInode(j)} :
       /\ lfile' = [lfile EXCEPT ![tgt[p]] = i]
       /\ Open(p, i)
  /\ Goto(p, "writeTwo")
  /\ UNCHANGED <<dirent, count, ledger, local>>

\* HxL2sCreate: open(O_CREAT | O_EXCL), then flock() and the write of 2.
CreateLinks(p) ==
  /\ At(p, "create")
  /\ IF HasLinks(tgt[p])
     THEN Return(p, "err") /\ UNCHANGED fs
     ELSE /\ \E i \in {j \in Inodes : FreeInode(j)} :
               /\ lfile'  = [lfile EXCEPT ![tgt[p]] = i]
               /\ count'  = [count EXCEPT ![i] = Empty]
               /\ ledger' = [ledger EXCEPT ![i] = 0]
               /\ Open(p, i)
          /\ Goto(p, "writeTwo")
          /\ UNCHANGED <<dirent, local>>

\* Mutant: counts the new name only.
WriteTwoOne(p) ==
  /\ At(p, "writeTwo")
  /\ held[fd[p]] = NoProc
  /\ count'  = [count EXCEPT ![fd[p]] = 1]
  /\ ledger' = [ledger EXCEPT ![fd[p]] = @ + 2]
  /\ Goto(p, "statNew") /\ Close(p)
  /\ UNCHANGED <<dirent, lfile, local>>

WriteTwo(p) ==
  /\ At(p, "writeTwo")
  /\ held[fd[p]] = NoProc
  /\ count'  = [count EXCEPT ![fd[p]] = 2]
  /\ ledger' = [ledger EXCEPT ![fd[p]] = @ + 2]
  /\ Goto(p, "statNew") /\ Close(p)
  /\ UNCHANGED <<dirent, lfile, local>>

\* The last three steps of a conversion: after rename(old, hardlink), the
\* symlinks hardlink <- old and hardlink <- new.  "symlinkNew" also ends the
\* increment.
SymlinkAt(p, l, path) ==
  /\ At(p, l)
  /\ dirent[path] = Absent
  /\ dirent' = [dirent EXCEPT ![path] = tgt[p]]
  /\ UNCHANGED <<lfile, count, ledger>>

SymlinkOld(p) ==
  /\ SymlinkAt(p, "symlinkOld", call[p].old)
  /\ Goto(p, "symlinkNew")
  /\ UNCHANGED <<file, local>>

SymlinkNew(p) ==
  /\ SymlinkAt(p, "symlinkNew", call[p].new)
  /\ Return(p, "ok")

SymlinkFails(p) ==
  /\ \/ At(p, "symlinkOld") /\ (dirent[call[p].old] # Absent \/ IOErrors)
     \/ At(p, "symlinkNew") /\ (dirent[call[p].new] # Absent \/ IOErrors)
  /\ Return(p, "err") /\ UNCHANGED fs

-----------------------------------------------------------------------------
(* rename(old, new), which link() calls too.                               *)

\* stat(new) follows symlinks.  S_IFLNK shares its top bit with S_IFREG, so
\* the test st_mode & S_IFLNK takes every file, not only symlinks.  Its reads of
\* the directory and of the link file are taken at one moment.
StatNew(p) ==
  /\ At(p, "statNew")
  /\ UNCHANGED fs
  /\ IF \/ Looped(RenameTo(p))
        \/ IsHardLink(RenameTo(p)) /\ ReadLinkCount(RenameTo(p)) = Empty
     THEN Return(p, "err")
     ELSE /\ Goto(p, IF Exists(RenameTo(p)) THEN "readlink" ELSE "rename")
          /\ UNCHANGED <<file, local>>

RenameReal(p) ==
  /\ At(p, "rename")
  /\ dirent[call[p].old] # Absent
  /\ dirent' = IF call[p].old = RenameTo(p) THEN dirent
               ELSE [dirent EXCEPT ![RenameTo(p)] = dirent[call[p].old],
                                   ![call[p].old] = Absent]
  /\ UNCHANGED <<lfile, count, ledger>>
  /\ IF call[p].op = "link"
     THEN Goto(p, "symlinkOld") /\ UNCHANGED <<file, local>>
     ELSE Return(p, "ok")

RenameFails(p) ==
  /\ At(p, "rename")
  /\ dirent[call[p].old] = Absent \/ IOErrors
  /\ Return(p, "err") /\ UNCHANGED fs

-----------------------------------------------------------------------------
(* unlink(path), which rename() calls too.                                 *)

Readlink(p) ==
  /\ At(p, "readlink")
  /\ UNCHANGED fs
  /\ LET e == dirent[UnlinkPath(p)] IN
     \/ /\ e = Absent
        /\ UnlinkReturn(p, "ENOENT")
     \/ /\ e \in Files
        /\ Goto(p, "unlinkPlain") /\ UNCHANGED <<file, local>>
     \/ /\ e \in Paths
        /\ lnk' = [lnk EXCEPT ![p] = e]
        /\ Goto(p, "accessLnk") /\ UNCHANGED <<file, call, tgt, res, calls>>

AccessLnk(p) ==
  /\ At(p, "accessLnk")
  /\ Goto(p, IF HasLinks(lnk[p]) THEN "openDecr" ELSE "unlinkPlain")
  /\ UNCHANGED <<fs, file, local>>

\* HxL2sUnlink holds the lock from here until it returns.
OpenDecr(p) ==
  /\ At(p, "openDecr")
  /\ UNCHANGED fs
  /\ IF HasLinks(lnk[p])
     THEN /\ Open(p, lfile[lnk[p]])
          /\ Goto(p, "lockDecr") /\ UNCHANGED local
     ELSE UnlinkReturn(p, "ENOENT")

\* Mutant: removes the storage while one name is left.
LockDecrEarly(p) ==
  /\ At(p, "lockDecr")
  /\ held[fd[p]] = NoProc
  /\ UNCHANGED fs
  /\ IF count[fd[p]] = Empty
     THEN UnlinkReturn(p, "ENODATA")
     ELSE /\ held' = [held EXCEPT ![fd[p]] = p]
          /\ val'  = [val EXCEPT ![p] = count[fd[p]]]
          /\ Goto(p, IF count[fd[p]] - 1 <= 1 THEN "unlinkStor" ELSE "writeDecr")
          /\ UNCHANGED <<fd, local>>

\* Mutant: writes a zero count.
LockDecrNoZero(p) ==
  /\ At(p, "lockDecr")
  /\ held[fd[p]] = NoProc
  /\ UNCHANGED fs
  /\ IF count[fd[p]] = Empty
     THEN UnlinkReturn(p, "ENODATA")
     ELSE /\ held' = [held EXCEPT ![fd[p]] = p]
          /\ val'  = [val EXCEPT ![p] = count[fd[p]]]
          /\ Goto(p, "writeDecr")
          /\ UNCHANGED <<fd, local>>

\* Mutant: reads the count without waiting for the lock.
LockDecrNoWait(p) ==
  /\ At(p, "lockDecr")
  /\ UNCHANGED fs
  /\ IF count[fd[p]] = Empty
     THEN UnlinkReturn(p, "ENODATA")
     ELSE /\ held' = [held EXCEPT ![fd[p]] = p]
          /\ val'  = [val EXCEPT ![p] = count[fd[p]]]
          /\ Goto(p, IF count[fd[p]] - 1 = 0 THEN "unlinkStor" ELSE "writeDecr")
          /\ UNCHANGED <<fd, local>>

LockDecr(p) ==
  /\ At(p, "lockDecr")
  /\ held[fd[p]] = NoProc
  /\ UNCHANGED fs
  /\ IF count[fd[p]] = Empty
     THEN UnlinkReturn(p, "ENODATA")
     ELSE /\ held' = [held EXCEPT ![fd[p]] = p]
          /\ val'  = [val EXCEPT ![p] = count[fd[p]]]
          /\ Goto(p, IF count[fd[p]] - 1 = 0 THEN "unlinkStor" ELSE "writeDecr")
          /\ UNCHANGED <<fd, local>>

WriteDecr(p) ==
  /\ At(p, "writeDecr")
  /\ count'  = [count EXCEPT ![fd[p]] = val[p] - 1]
  /\ ledger' = [ledger EXCEPT ![fd[p]] = @ - 1]
  /\ Goto(p, "unlinkName")
  /\ UNCHANGED <<dirent, lfile, file, local>>

\* Mutant: removes the link file before the storage.
UnlinkStorLast(p) ==
  /\ At(p, "unlinkStor")
  /\ UNCHANGED <<dirent, count, ledger>>
  /\ lfile' = [lfile EXCEPT ![lnk[p]] = NoInode]
  /\ Goto(p, "unlinkLinks") /\ UNCHANGED <<file, local>>

\* The count reached zero: it is not written; storage and link file go.
UnlinkStor(p) ==
  /\ At(p, "unlinkStor")
  /\ UNCHANGED <<lfile, count, ledger>>
  /\ IF dirent[lnk[p]] = Absent
     THEN UnlinkReturn(p, "ENOENT") /\ UNCHANGED dirent
     ELSE /\ dirent' = [dirent EXCEPT ![lnk[p]] = Absent]
          /\ Goto(p, "unlinkLinks") /\ UNCHANGED <<file, local>>

UnlinkLinks(p) ==
  /\ At(p, "unlinkLinks")
  /\ UNCHANGED <<dirent, count, ledger>>
  /\ IF HasLinks(lnk[p])
     THEN /\ lfile' = [lfile EXCEPT ![lnk[p]] = NoInode]
          /\ Goto(p, "unlinkName") /\ UNCHANGED <<file, local>>
     ELSE UnlinkReturn(p, "ENOENT") /\ UNCHANGED lfile

\* unlinkat_real() at the end of HxL2sUnlink, and unlink_real() on a path
\* that is not a hard link.
UnlinkName(p) ==
  /\ At(p, "unlinkName") \/ At(p, "unlinkPlain")
  /\ UNCHANGED <<lfile, count, ledger>>
  /\ IF dirent[UnlinkPath(p)] = Absent
     THEN UnlinkReturn(p, "ENOENT") /\ UNCHANGED dirent
     ELSE /\ dirent' = [dirent EXCEPT ![UnlinkPath(p)] = Absent]
          /\ UnlinkReturn(p, "ok")

-----------------------------------------------------------------------------
(* A process is killed inside a call.  The kernel closes its descriptors;  *)
(* nothing it did is undone.                                               *)

Crash(p) ==
  /\ Crashes /\ ~At(p, "idle")
  /\ Return(p, "crashed") /\ UNCHANGED fs

-----------------------------------------------------------------------------
\* Each stored file's link file counts its names.
StoredAt(i) == {s \in Stor : lfile[s] = i}
NamesAt(i)  == Cardinality({q \in Paths : dirent[q] \in StoredAt(i)})

Init ==
  /\ dirent \in InitDirs
  /\ lfile \in [Stor -> Inodes \cup {NoInode}]
  /\ \A s \in Stor : lfile[s] = NoInode <=> dirent[s] = Absent
  /\ \A s, t \in Stor : lfile[s] = lfile[t] /\ lfile[s] # NoInode => s = t
  /\ count  = [i \in Inodes |-> IF StoredAt(i) = {} THEN Empty ELSE NamesAt(i)]
  /\ ledger = [i \in Inodes |-> IF StoredAt(i) = {} THEN 0 ELSE NamesAt(i)]
  /\ held   = [i \in Inodes |-> NoProc]
  /\ pc     = [p \in Procs |-> "idle"]
  /\ call   = [p \in Procs |-> NoCall]
  /\ tgt    = [p \in Procs |-> NoPath]
  /\ lnk    = [p \in Procs |-> NoPath]
  /\ fd     = [p \in Procs |-> NoInode]
  /\ val    = [p \in Procs |-> 0]
  /\ res    = [p \in Procs |-> "none"]
  /\ calls  = 0

Link(p)   == \/ AccessNew(p) \/ ResolveOld(p) \/ AccessLinks(p)
             \/ OpenIncr(p) \/ LockIncr(p) \/ WriteIncr(p)
             \/ CreateLinks(p) \/ WriteTwo(p)
             \/ SymlinkOld(p) \/ SymlinkNew(p) \/ SymlinkFails(p)
Rename(p) == StatNew(p) \/ RenameReal(p) \/ RenameFails(p)
Unlink(p) == \/ Readlink(p) \/ AccessLnk(p) \/ OpenDecr(p) \/ LockDecr(p)
             \/ WriteDecr(p) \/ UnlinkStor(p) \/ UnlinkLinks(p) \/ UnlinkName(p)

Start(p) == CallLink(p) \/ CallUnlink(p) \/ CallRename(p)
Step(p)  == Link(p) \/ Rename(p) \/ Unlink(p)

Next == \E p \in Procs : Start(p) \/ Step(p) \/ Crash(p)

Spec == Init /\ [][Next]_vars

\* A process that has entered a call is scheduled until it returns.
FairSpec == Spec /\ \A p \in Procs : WF_vars(Step(p))
-----------------------------------------------------------------------------
(* Properties.                                                             *)

Pcs == {"idle", "accessNew", "realpath", "accessLinks", "openIncr", "lockIncr",
        "writeIncr", "create", "writeTwo", "symlinkOld", "symlinkNew", "statNew",
        "rename", "readlink", "accessLnk", "openDecr", "lockDecr", "writeDecr",
        "unlinkStor", "unlinkLinks", "unlinkName", "unlinkPlain"}

Calls == [op : {"none", "link", "unlink", "rename"}, old : Names \cup {NoPath},
          new : Names \cup {NoPath}, was : Files \cup {Absent}]

\* Every variable has its type.  A link file never holds 0: HxL2sUnlink
\* removes it instead of writing 0 (unlink.c:47-57).
TypeOK ==
  /\ dirent \in [Paths -> Entries]
  /\ lfile  \in [Stor -> Inodes \cup {NoInode}]
  /\ count  \in [Inodes -> (Nat \ {0}) \cup {Empty}]
  /\ ledger \in [Inodes -> Int]
  /\ held   \in [Inodes -> Procs \cup {NoProc}]
  /\ pc     \in [Procs -> Pcs]
  /\ call   \in [Procs -> Calls]
  /\ tgt    \in [Procs -> Paths \cup {NoPath}]
  /\ lnk    \in [Procs -> Paths \cup {NoPath}]
  /\ fd     \in [Procs -> Inodes \cup {NoInode}]
  /\ val    \in [Procs -> Nat]
  /\ res    \in [Procs -> {"none", "ok", "err", "crashed"}]
  /\ calls  \in Nat

\* The steps made between flock() and the release of the lock.
Locked(p) == pc[p] \in {"writeIncr", "writeDecr", "unlinkStor", "unlinkLinks"}

\* A count that a process has read is still the one in the file when the
\* process acts on it, whoever ran in between: the read-modify-write of
\* HxL2sIncrement and HxL2sUnlink is atomic.
CountNotStale == \A p \in Procs : Locked(p) => val[p] = count[fd[p]]

\* No update of a count is lost: a link file holds 2, plus the increments,
\* minus the decrements made on it, also when writers die.
LedgerExact == \A i \in Inodes : count[i] # Empty => count[i] = ledger[i]

\* A process in link() that has created the link file of its storage name
\* and has not yet renamed the file to it.
Converting(p, s) ==
  /\ call[p].op = "link" /\ tgt[p] = s
  /\ pc[p] \in {"writeTwo", "statNew", "rename"}

\* When link() renames the file to its storage name, no other file is there:
\* creating the link file with O_EXCL reserves the storage name, through
\* crashes, removals and reuse of the name.
NoClobber == \A p \in Procs, s \in Stor : Converting(p, s) => dirent[s] = Absent

\* A stored file always has its link file, with a count in it: link() makes
\* the link file first and unlink() removes it last.
StorageCovered ==
  \A s \in Stor : dirent[s] # Absent => /\ lfile[s] # NoInode
                                        /\ count[lfile[s]] # Empty

\* The paths that are symlinks to s, without the ones whose unlink() has
\* already been counted.
Refs(s) == {q \in Paths : dirent[q] = s} \
           {UnlinkPath(p) : p \in {r \in Procs : At(r, "unlinkName") /\ lnk[r] = s}}

\* While processes remove and create only names of their own, a stored file
\* is never counted less often than it is named: unlink() of one name cannot
\* take the file from another.
NeverUndercounted ==
  \A s \in Stor : dirent[s] # Absent => count[lfile[s]] >= Cardinality(Refs(s))

\* The file of a name.  Between the rename and the symlink of a conversion the
\* name does not exist, and View follows its file to the storage, where the
\* name is about to lead again.
View(n) ==
  LET w == {r \in Procs : At(r, "symlinkOld") /\ call[r].old = n}
  IN  IF w = {} THEN Content(n) ELSE Content(tgt[CHOOSE r \in w : TRUE])

\* A name no process removes or renames keeps leading to its file, whatever
\* link() and unlink() do to the file's other names.  While link() converts the
\* file, the name is missing for a moment (link.c:172): its file is then at the
\* storage, unchanged, and the name leads to it as soon as it is there again.
Pinned == Names \ UNION {Owned[p] : p \in Procs}
PinnedKeepsFile == [][\A n \in Pinned : View(n)' = View(n)]_vars

\* Every call returns: no process waits for a lock for ever, also behind one
\* that died or failed.
CallsReturn == \A p \in Procs : ~At(p, "idle") ~> At(p, "idle")

Quiet == \A p \in Procs : At(p, "idle")

\* With one process and no crash, the count of every stored file is the
\* number of its names between calls, and nothing is left over: no link file
\* without its storage, no storage without a name.
CountExact ==
  Quiet => \A s \in Stor :
             IF lfile[s] = NoInode
             THEN dirent[s] = Absent /\ Refs(s) = {}
             ELSE /\ dirent[s] \in Files
                  /\ count[lfile[s]] = Cardinality(Refs(s))
                  /\ Refs(s) # {}

\* With one process and no crash, the three calls implement hard links on
\* the names as the guest sees them.
Hard == INSTANCE HardLinks WITH names <- [n \in Names |-> View(n)]
ImplementsHardLinks == Hard!Spec

\* rename.c:21-22 justifies the removal of the destination: it "would have
\* been overwritten anyway".  So a rename that fails leaves it.
FailedRenameKeepsNew ==
  [][\A p \in Procs, n \in Names :
       (call[p].op = "rename" /\ call[p].new = n /\ At(p, "idle")' /\ res'[p] = "err")
         => Content(n)' = call[p].was]_vars
=============================================================================
