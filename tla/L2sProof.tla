------------------------------ MODULE L2sProof ------------------------------
(***************************************************************************)
(* Safety of the hard link emulation, for any number of processes, names,  *)
(* storage names, files and inodes, with crashes and failing calls.        *)
(*                                                                         *)
(* The inductive invariant has three layers.  Layer 1 (Typed) says where a *)
(* process can be with which locals.  Layer 2 (Counted) is about one inode:*)
(* who holds its lock, and what its readers know.  Layer 3 (Reserved) is   *)
(* about one storage name: at most one process converts it or removes it,  *)
(* only while no file is there, and the link file exists all that time.    *)
(*                                                                         *)
(* The last section is about one process that nothing interrupts, between  *)
(* and during its calls: counts are exact, and L2s implements HardLinks.   *)
(***************************************************************************)
EXTENDS L2s, FiniteSetTheorems, WellFoundedInduction, TLAPS

\* The names of a path are another module's: L2s has names of its own.
Lem == INSTANCE Lemmas

LinkSteps   == {"accessNew", "realpath", "accessLinks", "openIncr", "lockIncr",
                "writeIncr", "create", "writeTwo", "symlinkOld", "symlinkNew"}
UnlinkSteps == {"readlink", "accessLnk", "openDecr", "lockDecr", "writeDecr",
                "unlinkStor", "unlinkLinks", "unlinkName", "unlinkPlain"}
FdSteps     == {"lockIncr", "writeIncr", "writeTwo", "lockDecr", "writeDecr",
                "unlinkStor", "unlinkLinks"}

\* The locals a process has at each of its steps.
LocalOK(p) ==
  /\ pc[p] # "idle" => call[p].op # "none" /\ call[p].old \in Names
  /\ call[p].op \in {"link", "rename"} => call[p].new \in Names
  /\ pc[p] \in LinkSteps => call[p].op = "link"
  /\ pc[p] \in {"statNew", "rename"} => call[p].op # "unlink"
  /\ pc[p] \in {"accessLinks", "openIncr", "symlinkNew"} => tgt[p] \in Paths
  /\ pc[p] \in {"create", "writeTwo", "symlinkOld"} => tgt[p] \in Stor
  /\ pc[p] \in {"lockIncr", "writeIncr"} => tgt[p] \in Stor
  /\ call[p].op = "link" /\ pc[p] \in UnlinkSteps \cup {"statNew", "rename"} => tgt[p] \in Stor
  /\ pc[p] \in {"accessLnk", "openDecr"} => lnk[p] \in Paths
  /\ pc[p] \in {"lockDecr", "writeDecr", "unlinkStor", "unlinkLinks"} => lnk[p] \in Stor
  /\ pc[p] \in FdSteps => fd[p] \in Inodes
  /\ pc[p] \in {"writeIncr", "writeDecr"} => val[p] \in Nat \ {0}
  /\ pc[p] = "writeDecr" => val[p] # 1

Typed == TypeOK /\ \A p \in Procs : LocalOK(p)

\* flock() is exclusive, and a locked count does not change under its holder.
LockOK ==
  /\ \A p \in Procs : Locked(p) => held[fd[p]] = p
  /\ \A p \in Procs : Locked(p) => val[p] = count[fd[p]]

\* A link file that is being created is empty, and nobody else's to fill.
CreateOK ==
  \A p \in Procs : pc[p] = "writeTwo" =>
     /\ count[fd[p]] = Empty
     /\ \A q \in Procs : pc[q] = "writeTwo" /\ fd[q] = fd[p] => q = p

LedgerOK == \A i \in Inodes : ledger[i] = IF count[i] = Empty THEN 0 ELSE count[i]

Counted == LockOK /\ CreateOK /\ LedgerOK

Removing(p, s) == pc[p] = "unlinkLinks" /\ lnk[p] = s
Reserves(p, s) == Converting(p, s) \/ Removing(p, s)

Reserved ==
  /\ StorageCovered
  /\ \A p \in Procs, s \in Stor : Reserves(p, s) =>
        /\ dirent[s] = Absent
        /\ lfile[s] # NoInode
        /\ \A q \in Procs : Reserves(q, s) => q = p
  /\ \A p \in Procs, s \in Stor : Converting(p, s) =>
        IF pc[p] = "writeTwo" THEN lfile[s] = fd[p] ELSE count[lfile[s]] # Empty
  /\ \A p \in Procs : call[p].op = "link" => pc[p] \notin UnlinkSteps
-----------------------------------------------------------------------------
(* Layer 1: types and locals.                                              *)

FsType ==
  /\ dirent \in [Paths -> Entries]
  /\ lfile  \in [Stor -> Inodes \cup {NoInode}]
  /\ count  \in [Inodes -> (Nat \ {0}) \cup {Empty}]
  /\ ledger \in [Inodes -> Int]

ProcType ==
  /\ held   \in [Inodes -> Procs \cup {NoProc}]
  /\ pc     \in [Procs -> Pcs]
  /\ call   \in [Procs -> Calls]
  /\ tgt    \in [Procs -> Paths \cup {NoPath}]
  /\ lnk    \in [Procs -> Paths \cup {NoPath}]
  /\ fd     \in [Procs -> Inodes \cup {NoInode}]
  /\ val    \in [Procs -> Nat]
  /\ res    \in [Procs -> {"none", "ok", "err", "crashed"}]
  /\ calls  \in Nat
  /\ \A p \in Procs : LocalOK(p)

LEMMA TypedSplit == Typed <=> FsType /\ ProcType
  BY DEF Typed, TypeOK, FsType, ProcType

\* What a call leaves behind when it returns: no descriptor, no locals.
LEMMA ReturnTyped ==
  ASSUME ProcType, NEW p \in Procs, NEW r \in {"ok", "err", "crashed"}, Return(p, r)
  PROVE  ProcType'
  BY DEF ProcType, Return, Goto, Close, NoCall, Calls, LocalOK, Pcs,
         LinkSteps, UnlinkSteps, FdSteps

LEMMA UnlinkReturnTyped ==
  ASSUME ProcType, NEW p \in Procs, NEW r \in {"ok", "ENOENT", "ENODATA"},
         pc[p] \in UnlinkSteps, UnlinkReturn(p, r)
  PROVE  ProcType'
  <1>1. CASE call[p].op = "unlink" \/ r \notin {"ok", "ENOENT"}
    BY <1>1, ReturnTyped DEF UnlinkReturn
  <1>2. CASE ~(call[p].op = "unlink" \/ r \notin {"ok", "ENOENT"})
    BY <1>2 DEF UnlinkReturn, ProcType, Goto, Close, local, LocalOK, Pcs,
                LinkSteps, UnlinkSteps, FdSteps
  <1>3. QED
    BY <1>1, <1>2

\* Resolution ends at a file or nowhere; an absent path leads nowhere.
LEMMA RealPathType ==
  ASSUME FsType, NEW q \in Paths
  PROVE  /\ RealPath(q) \in Paths \cup {NoPath}
         /\ Exists(q) => RealPath(q) \in Paths /\ dirent[RealPath(q)] \in Files
         /\ Content(q) \in Files \cup {Absent}
         /\ dirent[q] = Absent => ~Exists(q)
  BY Distinct DEF FsType, RealPath, Exists, Content, Entries, Paths

LEMMA StartTyped ==
  ASSUME FsType, ProcType, NEW p \in Procs, Start(p)
  PROVE  FsType' /\ ProcType'
<1> USE Parameters DEF Paths
<1>1. FsType'
  BY DEF Start, CallLink, CallUnlink, CallRename, Begin, fs, FsType
<1>2. ASSUME NEW o \in {"link", "unlink", "rename"}, NEW old \in Names,
             NEW new \in Names \cup {NoPath},
             NEW l \in {"accessNew", "readlink", "statNew"},
             o \in {"link", "rename"} => new \in Names,
             l = "accessNew" => o = "link",
             l = "statNew" => o = "rename", l = "readlink" => o = "unlink",
             Begin(p, o, old, new, l)
      PROVE  ProcType'
  <2> DEFINE was == IF new = NoPath THEN Absent ELSE Content(new)
  <2>1. was \in Files \cup {Absent}
    BY RealPathType
  <2>2. [op |-> o, old |-> old, new |-> new, was |-> was] \in Calls
    BY <2>1 DEF Calls
  <2>3. /\ call' = [call EXCEPT ![p] = [op |-> o, old |-> old, new |-> new, was |-> was]]
        /\ calls' \in Nat
        /\ res' \in [Procs -> {"none", "ok", "err", "crashed"}]
        /\ pc' = [pc EXCEPT ![p] = l]
        /\ UNCHANGED <<tgt, lnk, held, fd, val>>
    BY <1>2 DEF Begin, ProcType, Goto, file
  <2> HIDE DEF was
  <2>4. QED
    BY <2>2, <2>3, <1>2 DEF ProcType, LocalOK, Pcs, LinkSteps, UnlinkSteps, FdSteps
<1>3. CASE CallLink(p)
  BY <1>1, <1>2, <1>3 DEF CallLink
<1>4. CASE CallUnlink(p)
  BY <1>1, <1>2, <1>4 DEF CallUnlink
<1>5. CASE CallRename(p)
  BY <1>1, <1>2, <1>5 DEF CallRename
<1>6. QED
  BY <1>3, <1>4, <1>5 DEF Start

LEMMA LinkTyped ==
  ASSUME FsType, ProcType, NEW p \in Procs, Link(p)
  PROVE  FsType' /\ ProcType'
<1> USE DEF FsType, fs
<1>1. CASE AccessNew(p)
  BY <1>1, ReturnTyped DEF AccessNew, ProcType, Goto, Close, Open, local, file, LocalOK, Pcs, LinkSteps, UnlinkSteps, FdSteps, At
<1>2. CASE ResolveOld(p)
  <2>1. call[p].old \in Paths
    BY <1>2 DEF ResolveOld, ProcType, LocalOK, Paths, At
  <2>2. CASE Exists(call[p].old)
    BY <1>2, <2>1, <2>2, RealPathType DEF ResolveOld, ProcType, Goto, Close, Open, local, file, LocalOK, Pcs, LinkSteps, UnlinkSteps, FdSteps, At
  <2>3. QED
    BY <1>2, <2>2, ReturnTyped DEF ResolveOld
<1>3. CASE AccessLinks(p)
  BY <1>3, Parameters, Distinct, SMTT(40) DEF AccessLinks, HasLinks, Paths, ProcType, Goto, Close, Open, local, file, LocalOK, Pcs, LinkSteps, UnlinkSteps, FdSteps, At
<1>4. CASE OpenIncr(p)
  BY <1>4, ReturnTyped DEF OpenIncr, HasLinks, ProcType, Goto, Close, Open, local, file, LocalOK, Pcs, LinkSteps, UnlinkSteps, FdSteps, At
<1>5. CASE LockIncr(p)
  BY <1>5, ReturnTyped DEF LockIncr, ProcType, Goto, Close, Open, local, file, LocalOK, Pcs, LinkSteps, UnlinkSteps, FdSteps, At
<1>6. CASE WriteIncr(p)
  BY <1>6 DEF WriteIncr, Paths, ProcType, Goto, Close, Open, local, file, LocalOK, Pcs, LinkSteps, UnlinkSteps, FdSteps, At
<1>7. CASE CreateLinks(p)
  <2>1. CASE HasLinks(tgt[p])
    BY <1>7, <2>1, ReturnTyped DEF CreateLinks
  <2>2. CASE ~HasLinks(tgt[p])
    BY <1>7, <2>2 DEF CreateLinks, ProcType, Goto, Close, Open, local, file, LocalOK, Pcs, LinkSteps, UnlinkSteps, FdSteps, At
  <2>3. QED
    BY <2>1, <2>2
<1>8. CASE WriteTwo(p)
  BY <1>8 DEF WriteTwo, ProcType, Goto, Close, Open, local, file, LocalOK, Pcs, LinkSteps, UnlinkSteps, FdSteps, At
<1>9. CASE SymlinkOld(p)
  BY <1>9 DEF SymlinkOld, SymlinkAt, Paths, Entries, ProcType, Goto, Close, Open, local, file, LocalOK, Pcs, LinkSteps, UnlinkSteps, FdSteps, At
<1>10. CASE SymlinkNew(p)
  BY <1>10, ReturnTyped DEF SymlinkNew, SymlinkAt, Paths, Entries, ProcType, LocalOK, At
<1>11. CASE SymlinkFails(p)
  BY <1>11, ReturnTyped DEF SymlinkFails
<1>12. QED
  BY <1>1, <1>2, <1>3, <1>4, <1>5, <1>6, <1>7, <1>8, <1>9, <1>10, <1>11 DEF Link

LEMMA RenameTyped ==
  ASSUME FsType, ProcType, NEW p \in Procs, Rename(p)
  PROVE  FsType' /\ ProcType'
<1> USE DEF FsType, fs
<1>1. CASE StatNew(p)
  BY <1>1, ReturnTyped DEF StatNew, ProcType, Goto, Close, Open, local, file, LocalOK, Pcs, LinkSteps, UnlinkSteps, FdSteps, At
<1>2. CASE RenameReal(p)
  <2>1. call[p].old \in Paths /\ RenameTo(p) \in Paths
    BY <1>2 DEF RenameReal, ProcType, LocalOK, RenameTo, Paths, At, Calls
  <2>2. FsType'
    BY <1>2, <2>1 DEF RenameReal, Entries
  <2>3. CASE call[p].op = "link"
    BY <1>2, <2>2, <2>3 DEF RenameReal, ProcType, Goto, Close, Open, local, file, LocalOK, Pcs, LinkSteps, UnlinkSteps, FdSteps, At
  <2>4. QED
    BY <1>2, <2>2, <2>3, ReturnTyped DEF RenameReal
<1>3. CASE RenameFails(p)
  BY <1>3, ReturnTyped DEF RenameFails
<1>4. QED
  BY <1>1, <1>2, <1>3 DEF Rename

LEMMA UnlinkTyped ==
  ASSUME FsType, ProcType, NEW p \in Procs, Unlink(p)
  PROVE  FsType' /\ ProcType'
<1> USE DEF FsType, fs
<1>0. pc[p] \in UnlinkSteps /\ UnlinkPath(p) \in Paths
  BY DEF Unlink, Readlink, AccessLnk, OpenDecr, LockDecr, WriteDecr, UnlinkStor,
         UnlinkLinks, UnlinkName, At, UnlinkSteps, UnlinkPath, RenameTo, ProcType,
         LocalOK, Paths, Calls
<1>1. CASE Readlink(p)
  BY <1>0, <1>1, UnlinkReturnTyped DEF Readlink, ProcType, Goto, Close, Open, local, file, LocalOK, Pcs, LinkSteps, UnlinkSteps, FdSteps, At
<1>2. CASE AccessLnk(p)
  BY <1>2 DEF AccessLnk, HasLinks, ProcType, Goto, Close, Open, local, file, LocalOK, Pcs, LinkSteps, UnlinkSteps, FdSteps, At
<1>3. CASE OpenDecr(p)
  BY <1>0, <1>3, UnlinkReturnTyped DEF OpenDecr, HasLinks, ProcType, Goto, Close, Open, local, file, LocalOK, Pcs, LinkSteps, UnlinkSteps, FdSteps, At
<1>4. CASE LockDecr(p)
  BY <1>0, <1>4, UnlinkReturnTyped DEF LockDecr, ProcType, Goto, Close, Open, local, file, LocalOK, Pcs, LinkSteps, UnlinkSteps, FdSteps, At
<1>5. CASE WriteDecr(p)
  <2>1. fd[p] \in Inodes /\ val[p] - 1 \in Nat \ {0} /\ ledger[fd[p]] - 1 \in Int
    <3>1. fd[p] \in Inodes /\ val[p] \in Nat \ {0} /\ val[p] # 1
      BY <1>5 DEF WriteDecr, At, ProcType, LocalOK, FdSteps
    <3>2. ledger[fd[p]] \in Int
      BY <3>1
    <3>3. \A v \in Nat \ {0} : v # 1 => v - 1 \in Nat \ {0}
      OBVIOUS
    <3>4. \A v \in Int : v - 1 \in Int
      OBVIOUS
    <3>5. QED
      BY <3>1, <3>2, <3>3, <3>4
  <2>2. FsType'
    BY <1>5, <2>1 DEF WriteDecr
  <2>3. ProcType'
    BY <1>5 DEF WriteDecr, ProcType, Goto, Close, Open, local, file, LocalOK, Pcs, LinkSteps, UnlinkSteps, FdSteps, At
  <2>4. QED
    BY <2>2, <2>3
<1>6. CASE UnlinkStor(p)
  BY <1>0, <1>6, UnlinkReturnTyped DEF UnlinkStor, Entries, ProcType, Goto, Close, Open, local, file, LocalOK, Pcs, LinkSteps, UnlinkSteps, FdSteps, At
<1>7. CASE UnlinkLinks(p)
  BY <1>0, <1>7, UnlinkReturnTyped DEF UnlinkLinks, ProcType, Goto, Close, Open, local, file, LocalOK, Pcs, LinkSteps, UnlinkSteps, FdSteps, At
<1>8. CASE UnlinkName(p)
  BY <1>0, <1>8, UnlinkReturnTyped DEF UnlinkName, Entries, ProcType, LocalOK, At
<1>9. QED
  BY <1>1, <1>2, <1>3, <1>4, <1>5, <1>6, <1>7, <1>8 DEF Unlink

LEMMA CrashTyped ==
  ASSUME FsType, ProcType, NEW p \in Procs, Crash(p)
  PROVE  FsType' /\ ProcType'
  BY ReturnTyped DEF Crash, FsType, fs

LEMMA NextTyped ==
  ASSUME FsType, ProcType, [Next]_vars
  PROVE  FsType' /\ ProcType'
<1>1. CASE UNCHANGED vars
  BY <1>1 DEF vars, FsType, ProcType, LocalOK
<1>2. QED
  BY <1>1, StartTyped, LinkTyped, RenameTyped, UnlinkTyped, CrashTyped DEF Next, Step

-----------------------------------------------------------------------------
(* Layer 2: locks and counts.                                              *)

LockedSteps == {"writeIncr", "writeDecr", "unlinkStor", "unlinkLinks"}

\* A process that moves on without lock, closing or opening descriptors of
\* its own, disturbs nobody.
LEMMA MoveCounted ==
  ASSUME FsType, ProcType, Counted, NEW p \in Procs, NEW l \in Pcs,
         l \notin LockedSteps, l # "writeTwo",
         pc' = [pc EXCEPT ![p] = l],
         UNCHANGED <<count, ledger>>,
         Close(p) \/ UNCHANGED file \/ \E i \in Inodes : Open(p, i)
  PROVE  Counted'
<1>1. /\ \A q \in Procs \ {p} : pc'[q] = pc[q] /\ fd'[q] = fd[q] /\ val'[q] = val[q]
      /\ \A q \in Procs \ {p}, i \in Inodes : held[i] = q => held'[i] = q
  BY Distinct DEF Close, Open, file, ProcType
<1>2. pc'[p] = l
  BY DEF ProcType
<1>3. \A q \in Procs : Locked(q) => fd[q] \in Inodes
  BY DEF Locked, ProcType, LocalOK, FdSteps
<1>4. QED
  BY <1>1, <1>2, <1>3 DEF Counted, LockOK, CreateOK, LedgerOK, Locked, LockedSteps

LEMMA ReturnCounted ==
  ASSUME FsType, ProcType, Counted, NEW p \in Procs, NEW r, Return(p, r),
         UNCHANGED <<count, ledger>>
  PROVE  Counted'
  BY MoveCounted DEF Return, Goto, Pcs, LockedSteps

LEMMA UnlinkReturnCounted ==
  ASSUME FsType, ProcType, Counted, NEW p \in Procs, NEW r, UnlinkReturn(p, r),
         UNCHANGED <<count, ledger>>
  PROVE  Counted'
<1>1. CASE call[p].op = "unlink" \/ r \notin {"ok", "ENOENT"}
  BY <1>1, ReturnCounted DEF UnlinkReturn
<1>2. CASE ~(call[p].op = "unlink" \/ r \notin {"ok", "ENOENT"})
  BY <1>2, MoveCounted DEF UnlinkReturn, Goto, Pcs, LockedSteps
<1>3. QED
  BY <1>1, <1>2

\* Taking the lock: flock() waits until nobody holds it.
LEMMA TakeCounted ==
  ASSUME FsType, ProcType, Counted, NEW p \in Procs, NEW l \in LockedSteps,
         fd[p] \in Inodes, held[fd[p]] = NoProc,
         held' = [held EXCEPT ![fd[p]] = p],
         val'  = [val EXCEPT ![p] = count[fd[p]]],
         pc'   = [pc EXCEPT ![p] = l],
         UNCHANGED <<count, ledger, fd>>
  PROVE  Counted'
  BY Distinct DEF Counted, LockOK, CreateOK, LedgerOK, Locked, LockedSteps,
                  FsType, ProcType, LocalOK, FdSteps

\* Writing a count under the lock.
LEMMA WriteCounted ==
  ASSUME FsType, ProcType, Counted, NEW p \in Procs,
         Locked(p), NEW k \in {1, -1}, val[p] + k # 0, val[p] \in Nat,
         count'  = [count EXCEPT ![fd[p]] = val[p] + k],
         ledger' = [ledger EXCEPT ![fd[p]] = @ + k],
         NEW l \in Pcs, l \notin LockedSteps, l # "writeTwo",
         pc' = [pc EXCEPT ![p] = l],
         Close(p) \/ UNCHANGED file
  PROVE  Counted'
<1>1. fd[p] \in Inodes /\ held[fd[p]] = p /\ val[p] = count[fd[p]] /\ val[p] + k \in Int
  BY DEF Locked, Counted, LockOK, ProcType, LocalOK, FdSteps
<1>2. /\ count[fd[p]] # Empty /\ val[p] + k # Empty
      /\ count'[fd[p]] = val[p] + k /\ ledger'[fd[p]] = val[p] + k
  BY <1>1, Distinct DEF Counted, LedgerOK, FsType
<1>3. \A i \in Inodes \ {fd[p]} : count'[i] = count[i] /\ ledger'[i] = ledger[i]
  BY DEF FsType
<1>4. /\ \A q \in Procs \ {p} : pc'[q] = pc[q] /\ fd'[q] = fd[q] /\ val'[q] = val[q]
      /\ \A q \in Procs \ {p}, i \in Inodes : held[i] = q => held'[i] = q
      /\ pc'[p] = l
  BY Distinct DEF Close, file, ProcType
<1>5. \A q \in Procs \ {p} : /\ Locked(q) => fd[q] \in Inodes \ {fd[p]}
                             /\ pc[q] = "writeTwo" => fd[q] \in Inodes \ {fd[p]}
  BY <1>1, <1>2 DEF Locked, Counted, LockOK, CreateOK, ProcType, LocalOK, FdSteps
<1>6. LockOK'
  BY <1>3, <1>4, <1>5 DEF Counted, LockOK, Locked, LockedSteps
<1>7. CreateOK'
  BY <1>3, <1>4, <1>5 DEF Counted, CreateOK
<1>8. LedgerOK'
  BY <1>2, <1>3 DEF Counted, LedgerOK
<1>9. QED
  BY <1>6, <1>7, <1>8 DEF Counted

LEMMA CreateCounted ==
  ASSUME FsType, ProcType, Counted, NEW p \in Procs, CreateLinks(p)
  PROVE  Counted'
<1>1. CASE HasLinks(tgt[p])
  BY <1>1, ReturnCounted DEF CreateLinks, fs
<1>2. CASE ~HasLinks(tgt[p])
  <2>1. PICK i \in Inodes : /\ FreeInode(i)
                            /\ count'  = [count EXCEPT ![i] = Empty]
                            /\ ledger' = [ledger EXCEPT ![i] = 0]
                            /\ Open(p, i)
    BY <1>2 DEF CreateLinks
  <2>2. pc' = [pc EXCEPT ![p] = "writeTwo"] /\ UNCHANGED <<held, val>>
    BY <1>2, <2>1 DEF CreateLinks, Goto, Open
  <2>3. \A q \in Procs \ {p} : fd[q] # i /\ fd'[q] = fd[q] /\ pc'[q] = pc[q]
    BY <2>1, <2>2 DEF FreeInode, Open, ProcType
  <2>4. fd'[p] = i /\ pc'[p] = "writeTwo"
    BY <2>1, <2>2 DEF Open, ProcType
  <2>5. LockOK'
    BY <2>1, <2>2, <2>3, <2>4 DEF Counted, LockOK, Locked, ProcType, FsType, LocalOK, FdSteps
  <2>6. CreateOK'
    BY <2>1, <2>3, <2>4 DEF Counted, CreateOK, ProcType, FsType, LocalOK, FdSteps
  <2>7. LedgerOK'
    BY <2>1 DEF Counted, LedgerOK, FsType
  <2>8. QED
    BY <2>5, <2>6, <2>7 DEF Counted
<1>3. QED
  BY <1>1, <1>2

LEMMA WriteTwoCounted ==
  ASSUME FsType, ProcType, Counted, NEW p \in Procs, WriteTwo(p)
  PROVE  Counted'
<1>1. /\ fd[p] \in Inodes /\ pc[p] = "writeTwo" /\ held[fd[p]] = NoProc
      /\ count[fd[p]] = Empty /\ ledger[fd[p]] = 0
  BY DEF WriteTwo, At, ProcType, LocalOK, FdSteps, Counted, CreateOK, LedgerOK
<1>2. /\ count'  = [count EXCEPT ![fd[p]] = 2]
      /\ ledger' = [ledger EXCEPT ![fd[p]] = 2]
  BY <1>1 DEF WriteTwo, FsType
<1>3. /\ \A q \in Procs \ {p} : pc'[q] = pc[q] /\ fd'[q] = fd[q] /\ val'[q] = val[q]
      /\ \A q \in Procs \ {p}, i \in Inodes : held[i] = q => held'[i] = q
      /\ pc'[p] = "statNew"
  BY Distinct DEF WriteTwo, Goto, Close, ProcType
<1>4. \A q \in Procs \ {p} : /\ Locked(q) => fd[q] \in Inodes \ {fd[p]}
                             /\ pc[q] = "writeTwo" => fd[q] \in Inodes \ {fd[p]}
  BY <1>1, Distinct DEF Locked, Counted, LockOK, CreateOK, ProcType, LocalOK, FdSteps
<1>5. LockOK'
  BY <1>2, <1>3, <1>4 DEF Counted, LockOK, Locked, FsType
<1>6. CreateOK'
  BY <1>2, <1>3, <1>4 DEF Counted, CreateOK, FsType
<1>7. LedgerOK'
  BY <1>2, Distinct DEF Counted, LedgerOK, FsType
<1>8. QED
  BY <1>5, <1>6, <1>7 DEF Counted

LEMMA NextCounted ==
  ASSUME FsType, ProcType, Counted, [Next]_vars
  PROVE  Counted'
<1>1. CASE UNCHANGED vars
  BY <1>1 DEF vars, Counted, LockOK, CreateOK, LedgerOK, Locked
<1>2. ASSUME NEW p \in Procs, Start(p)
      PROVE  Counted'
  BY <1>2, MoveCounted DEF Start, CallLink, CallUnlink, CallRename, Begin, Goto, Pcs,
     LockedSteps, fs
<1>3. ASSUME NEW p \in Procs, Link(p)
      PROVE  Counted'
  <2> USE DEF Goto, Pcs, LockedSteps, fs
  <2>1. CASE AccessNew(p)
    BY <2>1, ReturnCounted, MoveCounted DEF AccessNew
  <2>2. CASE ResolveOld(p)
    BY <2>2, ReturnCounted, MoveCounted DEF ResolveOld
  <2>3. CASE AccessLinks(p)
    BY <2>3, MoveCounted DEF AccessLinks
  <2>4. CASE OpenIncr(p)
    BY <2>4, ReturnCounted, MoveCounted DEF OpenIncr, HasLinks, FsType
  <2>5. CASE LockIncr(p)
    <3>1. fd[p] \in Inodes
      BY <2>5 DEF LockIncr, At, ProcType, LocalOK, FdSteps
    <3>2. QED
      BY <2>5, <3>1, ReturnCounted, TakeCounted DEF LockIncr
  <2>6. CASE WriteIncr(p)
    <3>1. Locked(p) /\ val[p] \in Nat \ {0}
      BY <2>6 DEF WriteIncr, Locked, At, ProcType, LocalOK
    <3>2. val[p] + 1 # 0
      BY <3>1
    <3>3. QED
      BY <2>6, <3>1, <3>2, WriteCounted DEF WriteIncr
  <2>7. CASE CreateLinks(p)
    BY <2>7, CreateCounted
  <2>8. CASE WriteTwo(p)
    BY <2>8, WriteTwoCounted
  <2>9. CASE SymlinkOld(p)
    BY <2>9, MoveCounted DEF SymlinkOld, SymlinkAt
  <2>10. CASE SymlinkNew(p)
    BY <2>10, ReturnCounted DEF SymlinkNew, SymlinkAt
  <2>11. CASE SymlinkFails(p)
    BY <2>11, ReturnCounted DEF SymlinkFails
  <2>12. QED
    BY <1>3, <2>1, <2>2, <2>3, <2>4, <2>5, <2>6, <2>7, <2>8, <2>9, <2>10, <2>11 DEF Link
<1>4. ASSUME NEW p \in Procs, Rename(p)
      PROVE  Counted'
  <2> USE DEF Goto, Pcs, LockedSteps, fs
  <2>1. CASE StatNew(p)
    BY <2>1, ReturnCounted, MoveCounted DEF StatNew
  <2>2. CASE RenameReal(p)
    BY <2>2, ReturnCounted, MoveCounted DEF RenameReal
  <2>3. CASE RenameFails(p)
    BY <2>3, ReturnCounted DEF RenameFails
  <2>4. QED
    BY <1>4, <2>1, <2>2, <2>3 DEF Rename
<1>5. ASSUME NEW p \in Procs, Unlink(p)
      PROVE  Counted'
  <2> USE DEF Goto, Pcs, LockedSteps, fs
  <2>1. CASE Readlink(p)
    BY <2>1, UnlinkReturnCounted, MoveCounted DEF Readlink
  <2>2. CASE AccessLnk(p)
    BY <2>2, MoveCounted DEF AccessLnk
  <2>3. CASE OpenDecr(p)
    BY <2>3, UnlinkReturnCounted, MoveCounted DEF OpenDecr, HasLinks, FsType
  <2>4. CASE LockDecr(p)
    <3>1. fd[p] \in Inodes
      BY <2>4 DEF LockDecr, At, ProcType, LocalOK, FdSteps
    <3>2. QED
      BY <2>4, <3>1, UnlinkReturnCounted, TakeCounted DEF LockDecr
  <2>5. CASE WriteDecr(p)
    <3>1. Locked(p) /\ val[p] \in Nat \ {0} /\ val[p] # 1
      BY <2>5 DEF WriteDecr, Locked, At, ProcType, LocalOK
    <3>2. val[p] + (-1) # 0 /\ val[p] - 1 = val[p] + (-1)
      BY <3>1
    <3>3. fd[p] \in Inodes /\ ledger[fd[p]] - 1 = ledger[fd[p]] + (-1)
      BY <2>5 DEF WriteDecr, At, ProcType, LocalOK, FdSteps, FsType
    <3>4. QED
      BY <2>5, <3>1, <3>2, <3>3, WriteCounted DEF WriteDecr
  <2>6. CASE UnlinkStor(p)
    <3>1. CASE dirent[lnk[p]] = Absent
      BY <2>6, <3>1, UnlinkReturnCounted DEF UnlinkStor
    <3>2. CASE dirent[lnk[p]] # Absent
      BY <2>6, <3>2 DEF UnlinkStor, Counted, LockOK, CreateOK, LedgerOK, Locked, At,
                        file, ProcType
    <3>3. QED
      BY <3>1, <3>2
  <2>7. CASE UnlinkLinks(p)
    BY <2>7, UnlinkReturnCounted, MoveCounted DEF UnlinkLinks
  <2>8. CASE UnlinkName(p)
    BY <2>8, UnlinkReturnCounted DEF UnlinkName
  <2>9. QED
    BY <1>5, <2>1, <2>2, <2>3, <2>4, <2>5, <2>6, <2>7, <2>8 DEF Unlink
<1>6. ASSUME NEW p \in Procs, Crash(p)
      PROVE  Counted'
  BY <1>6, ReturnCounted DEF Crash, fs
<1>7. QED
  BY <1>1, <1>2, <1>3, <1>4, <1>5, <1>6 DEF Next, Step

-----------------------------------------------------------------------------
(* Layer 3: storage names.                                                 *)

OthersStay(p) ==
  \A q \in Procs \ {p} : /\ pc'[q] = pc[q] /\ call'[q] = call[q] /\ tgt'[q] = tgt[q]
                         /\ lnk'[q] = lnk[q] /\ fd'[q] = fd[q]

\* A step that leaves the storage alone and starts no conversion or removal.
LEMMA CalmReserved ==
  ASSUME FsType, ProcType, Reserved, NEW p \in Procs, OthersStay(p),
         \A s \in Stor : dirent'[s] = dirent[s],
         lfile' = lfile,
         \A i \in Inodes : count[i] # Empty => count'[i] # Empty,
         \A s \in Stor : Converting(p, s)' =>
            Converting(p, s) /\ pc[p] # "writeTwo" /\ pc'[p] # "writeTwo",
         pc'[p] # "unlinkLinks",
         call'[p].op = "link" => pc'[p] \notin UnlinkSteps
  PROVE  Reserved'
<1>1. \A q \in Procs, s \in Stor :
        /\ Reserves(q, s)' => Reserves(q, s)
        /\ Converting(q, s)' => Converting(q, s)
  BY DEF OthersStay, Reserves, Removing, Converting
<1>2. StorageCovered'
  BY DEF Reserved, StorageCovered, FsType
<1>3. \A q \in Procs, s \in Stor : Converting(q, s)' =>
        IF pc'[q] = "writeTwo" THEN lfile'[s] = fd'[q] ELSE count'[lfile'[s]] # Empty
  <2> SUFFICES ASSUME NEW q \in Procs, NEW s \in Stor, Converting(q, s)'
               PROVE  IF pc'[q] = "writeTwo" THEN lfile'[s] = fd'[q]
                      ELSE count'[lfile'[s]] # Empty
    OBVIOUS
  <2>1. Converting(q, s) /\ lfile[s] \in Inodes
    BY <1>1 DEF Reserved, Reserves, FsType
  <2>2. pc'[q] = "writeTwo" => pc[q] = "writeTwo" /\ fd'[q] = fd[q]
    BY DEF OthersStay
  <2>3. pc'[q] # "writeTwo" => pc[q] # "writeTwo"
    BY DEF OthersStay
  <2>4. QED
    BY <2>1, <2>2, <2>3 DEF Reserved
<1>4. \A q \in Procs : call'[q].op = "link" => pc'[q] \notin UnlinkSteps
  BY DEF OthersStay, Reserved
<1>5. QED
  BY <1>1, <1>2, <1>3, <1>4 DEF Reserved

LEMMA ReturnReserved ==
  ASSUME FsType, ProcType, Reserved, NEW p \in Procs, NEW r, Return(p, r),
         \A s \in Stor : dirent'[s] = dirent[s], UNCHANGED <<lfile, count>>
  PROVE  Reserved'
<1>1. OthersStay(p) /\ pc'[p] = "idle"
  BY DEF OthersStay, Return, Goto, Close, ProcType
<1>2. QED
  BY <1>1, CalmReserved DEF Converting, UnlinkSteps

\* unlink() inside a link() does not happen, so it returns to rename() alone.
LEMMA UnlinkReturnReserved ==
  ASSUME FsType, ProcType, Reserved, NEW p \in Procs, NEW r, UnlinkReturn(p, r),
         pc[p] \in UnlinkSteps,
         \A s \in Stor : dirent'[s] = dirent[s], UNCHANGED <<lfile, count>>
  PROVE  Reserved'
<1>1. CASE Return(p, IF r = "ok" THEN "ok" ELSE "err")
  BY <1>1, ReturnReserved
<1>2. CASE Goto(p, "rename") /\ Close(p) /\ UNCHANGED local
  <2>1. OthersStay(p) /\ pc'[p] = "rename" /\ call'[p].op # "link"
    BY <1>2 DEF OthersStay, Goto, Close, local, ProcType, Reserved
  <2>2. QED
    BY <2>1, CalmReserved DEF Converting
<1>3. QED
  BY <1>1, <1>2 DEF UnlinkReturn

\* O_EXCL finds no link file: nobody reserves the name, no file is there.
LEMMA CreateReserved ==
  ASSUME FsType, ProcType, Reserved, NEW p \in Procs, CreateLinks(p)
  PROVE  Reserved'
<1> DEFINE s == tgt[p]
<1>0. pc[p] = "create" /\ s \in Stor
  BY DEF CreateLinks, At, ProcType, LocalOK
<1>1. CASE HasLinks(s)
  BY <1>1, ReturnReserved DEF CreateLinks, fs
<1>2. CASE ~HasLinks(s)
  <2>1. PICK i \in Inodes : /\ FreeInode(i)
                            /\ lfile' = [lfile EXCEPT ![s] = i]
                            /\ count' = [count EXCEPT ![i] = Empty]
                            /\ Open(p, i)
    BY <1>2 DEF CreateLinks
  <2>2. /\ pc' = [pc EXCEPT ![p] = "writeTwo"] /\ dirent' = dirent
        /\ UNCHANGED <<call, tgt, lnk>>
    BY <1>2, <2>1 DEF CreateLinks, Goto, local
  <2>3. OthersStay(p) /\ pc'[p] = "writeTwo" /\ fd'[p] = i
    BY <2>1, <2>2 DEF OthersStay, Open, ProcType
  <2>4. lfile[s] = NoInode /\ dirent[s] = Absent /\ \A q \in Procs : ~Reserves(q, s)
    BY <1>0, <1>2 DEF HasLinks, Reserved, StorageCovered
  <2>5. \A u \in Stor \ {s} : lfile'[u] = lfile[u] /\ lfile[u] # i
    BY <2>1 DEF FsType, FreeInode
  <2>6. lfile'[s] = i /\ i # NoInode
    BY <1>0, <2>1, Distinct DEF FsType
  <2>7. \A j \in Inodes \ {i} : count'[j] = count[j]
    BY <2>1 DEF FsType
  <2>8. \A q \in Procs \ {p}, u \in Stor :
           /\ Reserves(q, u)' <=> Reserves(q, u)
           /\ Converting(q, u)' <=> Converting(q, u)
    BY <2>3 DEF OthersStay, Reserves, Removing, Converting
  <2>9. \A u \in Stor : Reserves(p, u)' => u = s
    BY <2>2, <2>3 DEF Reserves, Removing, Converting
  <2>10. StorageCovered'
    BY <2>2, <2>4, <2>5, <2>7 DEF Reserved, StorageCovered, FsType
  <2>11. \A q \in Procs, u \in Stor : Reserves(q, u)' =>
           /\ dirent'[u] = Absent
           /\ lfile'[u] # NoInode
           /\ \A v \in Procs : Reserves(v, u)' => v = q
    BY <2>2, <2>4, <2>5, <2>6, <2>8, <2>9 DEF Reserved
  <2>12. \A q \in Procs, u \in Stor : Converting(q, u)' =>
           IF pc'[q] = "writeTwo" THEN lfile'[u] = fd'[q] ELSE count'[lfile'[u]] # Empty
    <3> SUFFICES ASSUME NEW q \in Procs, NEW u \in Stor, Converting(q, u)'
                 PROVE  IF pc'[q] = "writeTwo" THEN lfile'[u] = fd'[q]
                        ELSE count'[lfile'[u]] # Empty
      OBVIOUS
    <3>1. CASE q = p
      BY <2>3, <2>6, <2>9, <3>1 DEF Reserves
    <3>2. CASE q # p
      <4>1. Converting(q, u) /\ u # s
        BY <2>4, <2>8, <3>2 DEF Reserves
      <4>2. lfile[u] \in Inodes \ {i} /\ lfile'[u] = lfile[u]
        BY <2>5, <4>1 DEF Reserved, Reserves, FsType
      <4>3. pc'[q] = pc[q] /\ fd'[q] = fd[q]
        BY <2>3, <3>2 DEF OthersStay
      <4>4. QED
        BY <2>7, <4>1, <4>2, <4>3 DEF Reserved
    <3>3. QED
      BY <3>1, <3>2
  <2>13. \A q \in Procs : call'[q].op = "link" => pc'[q] \notin UnlinkSteps
    BY <2>2, <2>3 DEF OthersStay, Reserved, UnlinkSteps
  <2>14. QED
    BY <2>10, <2>11, <2>12, <2>13 DEF Reserved
<1>3. QED
  BY <1>1, <1>2

\* The count is written: the reserved link file is no longer empty.
LEMMA WriteTwoReserved ==
  ASSUME FsType, ProcType, Reserved, NEW p \in Procs, WriteTwo(p)
  PROVE  Reserved'
<1> DEFINE s == tgt[p]
<1>1. s \in Stor /\ fd[p] \in Inodes /\ pc[p] = "writeTwo"
  BY DEF WriteTwo, At, ProcType, LocalOK, FdSteps
<1>2. Converting(p, s) /\ lfile[s] = fd[p]
  BY <1>1 DEF Converting, ProcType, LocalOK, LinkSteps, Reserved
<1>3. /\ UNCHANGED <<dirent, lfile, call, tgt, lnk>>
      /\ OthersStay(p) /\ pc'[p] = "statNew"
  BY DEF WriteTwo, Goto, Close, local, OthersStay, ProcType
<1>4. /\ \A i \in Inodes : count[i] # Empty => count'[i] # Empty
      /\ count'[fd[p]] # Empty
  BY <1>1, Distinct DEF WriteTwo, FsType
<1>5. \A q \in Procs, u \in Stor : /\ Reserves(q, u)' => Reserves(q, u)
                                   /\ Converting(q, u)' => Converting(q, u)
                                   /\ Converting(p, u)' => u = s
  BY <1>1, <1>3 DEF OthersStay, Reserves, Removing, Converting
<1>6. StorageCovered'
  BY <1>3, <1>4 DEF Reserved, StorageCovered, FsType
<1>7. \A q \in Procs, u \in Stor : Converting(q, u)' =>
        IF pc'[q] = "writeTwo" THEN lfile'[u] = fd'[q] ELSE count'[lfile'[u]] # Empty
  <2> SUFFICES ASSUME NEW q \in Procs, NEW u \in Stor, Converting(q, u)'
               PROVE  IF pc'[q] = "writeTwo" THEN lfile'[u] = fd'[q]
                      ELSE count'[lfile'[u]] # Empty
    OBVIOUS
  <2>1. CASE q = p
    BY <1>2, <1>3, <1>4, <1>5, <2>1
  <2>2. CASE q # p
    <3>1. Converting(q, u) /\ lfile[u] \in Inodes
      BY <1>5 DEF Reserved, Reserves, FsType
    <3>2. pc'[q] = pc[q] /\ fd'[q] = fd[q]
      BY <1>3, <2>2 DEF OthersStay
    <3>3. QED
      BY <1>3, <1>4, <3>1, <3>2 DEF Reserved
  <2>3. QED
    BY <2>1, <2>2
<1>8. \A q \in Procs : call'[q].op = "link" => pc'[q] \notin UnlinkSteps
  BY <1>3 DEF OthersStay, Reserved, UnlinkSteps
<1>9. QED
  BY <1>3, <1>5, <1>6, <1>7, <1>8 DEF Reserved

\* The storage goes: its name is reserved until the link file is gone too.
LEMMA UnlinkStorReserved ==
  ASSUME FsType, ProcType, Reserved, NEW p \in Procs, UnlinkStor(p)
  PROVE  Reserved'
<1> DEFINE s == lnk[p]
<1>0. s \in Stor /\ pc[p] = "unlinkStor" /\ pc[p] \in UnlinkSteps
  BY DEF UnlinkStor, At, ProcType, LocalOK, UnlinkSteps
<1>1. CASE dirent[s] = Absent
  BY <1>0, <1>1, UnlinkReturnReserved DEF UnlinkStor
<1>2. CASE dirent[s] # Absent
  <2>1. /\ dirent' = [dirent EXCEPT ![s] = Absent]
        /\ UNCHANGED <<lfile, count, call, tgt, lnk, fd>>
        /\ OthersStay(p) /\ pc'[p] = "unlinkLinks"
    BY <1>2 DEF UnlinkStor, Goto, file, local, OthersStay, ProcType
  <2>2. lfile[s] # NoInode /\ \A q \in Procs : ~Reserves(q, s)
    BY <1>0, <1>2 DEF Reserved, StorageCovered
  <2>3. dirent'[s] = Absent /\ \A u \in Stor \ {s} : dirent'[u] = dirent[u]
    BY <1>0, <2>1 DEF FsType, Paths
  <2>4. \A q \in Procs, u \in Stor :
           /\ q # p => (Reserves(q, u)' <=> Reserves(q, u))
           /\ Converting(q, u)' => Converting(q, u) /\ q # p
           /\ Reserves(p, u)' => u = s
    BY <2>1 DEF OthersStay, Reserves, Removing, Converting
  <2>5. StorageCovered'
    BY <2>1, <2>3 DEF Reserved, StorageCovered
  <2>6. \A q \in Procs, u \in Stor : Reserves(q, u)' =>
           /\ dirent'[u] = Absent
           /\ lfile'[u] # NoInode
           /\ \A v \in Procs : Reserves(v, u)' => v = q
    BY <2>1, <2>2, <2>3, <2>4 DEF Reserved
  <2>7. \A q \in Procs, u \in Stor : Converting(q, u)' =>
           IF pc'[q] = "writeTwo" THEN lfile'[u] = fd'[q] ELSE count'[lfile'[u]] # Empty
    BY <2>1, <2>4 DEF Reserved, OthersStay
  <2>8. \A q \in Procs : call'[q].op = "link" => pc'[q] \notin UnlinkSteps
    BY <1>0, <2>1 DEF OthersStay, Reserved
  <2>9. QED
    BY <2>5, <2>6, <2>7, <2>8 DEF Reserved
<1>3. QED
  BY <1>1, <1>2

LEMMA UnlinkLinksReserved ==
  ASSUME FsType, ProcType, Reserved, NEW p \in Procs, UnlinkLinks(p)
  PROVE  Reserved'
<1> DEFINE s == lnk[p]
<1>1. s \in Stor /\ pc[p] = "unlinkLinks" /\ Removing(p, s)
  BY DEF UnlinkLinks, At, ProcType, LocalOK, Removing
<1>2. HasLinks(s) /\ dirent[s] = Absent /\ \A q \in Procs \ {p} : ~Reserves(q, s)
  BY <1>1 DEF Reserved, Reserves, HasLinks
<1>3. /\ lfile' = [lfile EXCEPT ![s] = NoInode]
      /\ UNCHANGED <<dirent, count, call, tgt, lnk, fd>>
      /\ OthersStay(p) /\ pc'[p] = "unlinkName"
  BY <1>2 DEF UnlinkLinks, Goto, file, local, OthersStay, ProcType
<1>4. \A u \in Stor \ {s} : lfile'[u] = lfile[u]
  BY <1>3 DEF FsType
<1>5. \A q \in Procs, u \in Stor :
         /\ Reserves(q, u)' => Reserves(q, u) /\ q # p
         /\ Converting(q, u)' => Converting(q, u) /\ q # p
  BY <1>1, <1>3 DEF OthersStay, Reserves, Removing, Converting
<1>6. StorageCovered'
  BY <1>2, <1>3, <1>4 DEF Reserved, StorageCovered
<1>7. \A q \in Procs, u \in Stor : Reserves(q, u)' => u # s
  BY <1>2, <1>5
<1>8. \A q \in Procs, u \in Stor : Converting(q, u)' => u # s
  BY <1>2, <1>5 DEF Reserves
<1>9. \A q \in Procs, u \in Stor : Reserves(q, u)' =>
         /\ dirent'[u] = Absent
         /\ lfile'[u] # NoInode
         /\ \A v \in Procs : Reserves(v, u)' => v = q
  BY <1>3, <1>4, <1>5, <1>7 DEF Reserved
<1>10. \A q \in Procs, u \in Stor : Converting(q, u)' =>
         IF pc'[q] = "writeTwo" THEN lfile'[u] = fd'[q] ELSE count'[lfile'[u]] # Empty
  BY <1>3, <1>4, <1>5, <1>8 DEF Reserved, OthersStay
<1>11. \A q \in Procs : call'[q].op = "link" => pc'[q] \notin UnlinkSteps
  BY <1>1, <1>3 DEF OthersStay, Reserved, UnlinkSteps
<1>12. QED
  BY <1>6, <1>9, <1>10, <1>11 DEF Reserved

\* The file moves to its storage name: the reservation ends, and the storage
\* is covered by the link file that reserved it.
LEMMA RenameRealReserved ==
  ASSUME FsType, ProcType, Reserved, NEW p \in Procs, RenameReal(p)
  PROVE  Reserved'
<1>1. pc[p] = "rename" /\ call[p].old \in Names
  BY DEF RenameReal, At, ProcType, LocalOK
<1>2. CASE call[p].op = "link"
  <2> DEFINE s == tgt[p]
  <2>1. s \in Stor /\ Converting(p, s)
    BY <1>1, <1>2 DEF Converting, ProcType, LocalOK
  <2>2. /\ UNCHANGED <<lfile, count, call, tgt, lnk, fd>>
        /\ OthersStay(p) /\ pc'[p] = "symlinkOld"
    BY <1>2 DEF RenameReal, Goto, file, local, OthersStay, ProcType
  <2>3. lfile[s] # NoInode /\ count[lfile[s]] # Empty
        /\ \A q \in Procs \ {p} : ~Reserves(q, s)
    BY <1>1, <2>1 DEF Reserved, Reserves
  <2>4. \A u \in Stor \ {s} : dirent'[u] = dirent[u]
    BY <1>1, <1>2, <2>1, Distinct DEF RenameReal, RenameTo, FsType, Paths
  <2>5. \A q \in Procs, u \in Stor :
           /\ Reserves(q, u)' => Reserves(q, u) /\ q # p
           /\ Converting(q, u)' => Converting(q, u) /\ q # p
    BY <1>1, <2>2 DEF OthersStay, Reserves, Removing, Converting
  <2>6. \A q \in Procs, u \in Stor : Reserves(q, u)' => u # s
    BY <2>3, <2>5
  <2>7. StorageCovered'
    BY <2>2, <2>3, <2>4 DEF Reserved, StorageCovered
  <2>8. \A q \in Procs, u \in Stor : Reserves(q, u)' =>
           /\ dirent'[u] = Absent
           /\ lfile'[u] # NoInode
           /\ \A v \in Procs : Reserves(v, u)' => v = q
    BY <2>2, <2>4, <2>5, <2>6 DEF Reserved
  <2>9. \A q \in Procs, u \in Stor : Converting(q, u)' =>
           IF pc'[q] = "writeTwo" THEN lfile'[u] = fd'[q] ELSE count'[lfile'[u]] # Empty
    BY <2>2, <2>5 DEF Reserved, OthersStay
  <2>10. \A q \in Procs : call'[q].op = "link" => pc'[q] \notin UnlinkSteps
    BY <2>2 DEF OthersStay, Reserved, UnlinkSteps
  <2>11. QED
    BY <2>7, <2>8, <2>9, <2>10 DEF Reserved
<1>3. CASE call[p].op # "link"
  <2>1. RenameTo(p) \in Names
    BY <1>1, <1>3 DEF RenameTo, ProcType, LocalOK, Calls
  <2>2. \A s \in Stor : dirent'[s] = dirent[s]
    BY <1>1, <2>1, Distinct DEF RenameReal, FsType, Paths
  <2>3. QED
    BY <1>3, <2>2, ReturnReserved DEF RenameReal
<1>4. QED
  BY <1>2, <1>3

LEMMA StartReserved ==
  ASSUME FsType, ProcType, Reserved, NEW p \in Procs, Start(p)
  PROVE  Reserved'
<1> USE DEF OthersStay, Goto, fs, file, ProcType, Converting, UnlinkSteps, Begin
<1>1. CASE CallLink(p)
  BY <1>1, CalmReserved DEF CallLink
<1>2. CASE CallUnlink(p)
  BY <1>2, CalmReserved DEF CallUnlink
<1>3. CASE CallRename(p)
  BY <1>3, CalmReserved DEF CallRename
<1>4. QED
  BY <1>1, <1>2, <1>3 DEF Start

LEMMA LinkReserved ==
  ASSUME FsType, ProcType, Reserved, NEW p \in Procs, Link(p)
  PROVE  Reserved'
<1> USE DEF OthersStay, Goto, Close, Open, fs, file, local, At, Converting, UnlinkSteps
<1>1. CASE AccessNew(p)
  BY <1>1, ReturnReserved, CalmReserved DEF AccessNew, ProcType
<1>2. CASE ResolveOld(p)
  BY <1>2, ReturnReserved, CalmReserved DEF ResolveOld, ProcType
<1>3. CASE AccessLinks(p)
  BY <1>3, CalmReserved DEF AccessLinks, ProcType
<1>4. CASE OpenIncr(p)
  BY <1>4, ReturnReserved, CalmReserved DEF OpenIncr, ProcType
<1>5. CASE LockIncr(p)
  BY <1>5, ReturnReserved, CalmReserved DEF LockIncr, ProcType
<1>6. CASE WriteIncr(p)
  <2>1. fd[p] \in Inodes /\ val[p] + 1 # Empty
    BY <1>6, Distinct DEF WriteIncr, ProcType, LocalOK, FdSteps
  <2>2. \A i \in Inodes : count[i] # Empty => count'[i] # Empty
    BY <1>6, <2>1 DEF WriteIncr, FsType
  <2>3. QED
    BY <1>6, <2>2, CalmReserved DEF WriteIncr, ProcType
<1>7. CASE CreateLinks(p)
  BY <1>7, CreateReserved
<1>8. CASE WriteTwo(p)
  BY <1>8, WriteTwoReserved
<1>9. CASE SymlinkOld(p)
  <2>1. \A s \in Stor : dirent'[s] = dirent[s]
    BY <1>9, Distinct DEF SymlinkOld, SymlinkAt, ProcType, LocalOK, FsType, Paths
  <2>2. QED
    BY <1>9, <2>1, CalmReserved DEF SymlinkOld, SymlinkAt, ProcType
<1>10. CASE SymlinkNew(p)
  <2>1. \A s \in Stor : dirent'[s] = dirent[s]
    BY <1>10, Distinct DEF SymlinkNew, SymlinkAt, ProcType, LocalOK, LinkSteps, FsType, Paths
  <2>2. QED
    BY <1>10, <2>1, ReturnReserved DEF SymlinkNew, SymlinkAt
<1>11. CASE SymlinkFails(p)
  BY <1>11, ReturnReserved DEF SymlinkFails
<1>12. QED
  BY <1>1, <1>2, <1>3, <1>4, <1>5, <1>6, <1>7, <1>8, <1>9, <1>10, <1>11 DEF Link

\* The storage name of a conversion holds no file, so the rename() in link()
\* has no destination to unlink.
LEMMA RenameReserved ==
  ASSUME FsType, ProcType, Reserved, NEW p \in Procs, Rename(p)
  PROVE  Reserved'
<1>1. CASE StatNew(p)
  <2>1. CASE Return(p, "err")
    BY <1>1, <2>1, ReturnReserved DEF StatNew, fs
  <2>2. CASE /\ Goto(p, IF Exists(RenameTo(p)) THEN "readlink" ELSE "rename")
             /\ UNCHANGED <<file, local>>
    <3>1. /\ OthersStay(p) /\ call'[p] = call[p] /\ tgt'[p] = tgt[p]
          /\ pc'[p] \in {"readlink", "rename"}
      BY <2>2 DEF OthersStay, Goto, file, local, ProcType
    <3>2. ASSUME call[p].op = "link"
          PROVE  pc'[p] = "rename"
      <4>1. tgt[p] \in Stor /\ Converting(p, tgt[p])
        BY <1>1, <3>2 DEF StatNew, At, Converting, ProcType, LocalOK
      <4>2. ~Exists(tgt[p])
        BY <4>1, RealPathType DEF Reserved, Reserves, Paths
      <4>3. QED
        BY <2>2, <3>2, <4>2 DEF RenameTo, Goto, ProcType
    <3>3. QED
      BY <1>1, <2>2, <3>1, <3>2, CalmReserved DEF StatNew, fs, At, Converting, UnlinkSteps
  <2>3. QED
    BY <1>1, <2>1, <2>2 DEF StatNew
<1>2. CASE RenameReal(p)
  BY <1>2, RenameRealReserved
<1>3. CASE RenameFails(p)
  BY <1>3, ReturnReserved DEF RenameFails, fs
<1>4. QED
  BY <1>1, <1>2, <1>3 DEF Rename

LEMMA UnlinkReserved ==
  ASSUME FsType, ProcType, Reserved, NEW p \in Procs, Unlink(p)
  PROVE  Reserved'
<1> USE DEF OthersStay, Goto, Open, fs, file, local, Converting
<1>0. pc[p] \in UnlinkSteps /\ call[p].op # "link"
  BY DEF Unlink, Readlink, AccessLnk, OpenDecr, LockDecr, WriteDecr, UnlinkStor,
         UnlinkLinks, UnlinkName, At, UnlinkSteps, Reserved
<1>1. CASE Readlink(p)
  BY <1>0, <1>1, UnlinkReturnReserved, CalmReserved DEF Readlink, ProcType
<1>2. CASE AccessLnk(p)
  BY <1>0, <1>2, CalmReserved DEF AccessLnk, ProcType
<1>3. CASE OpenDecr(p)
  BY <1>0, <1>3, UnlinkReturnReserved, CalmReserved DEF OpenDecr, ProcType
<1>4. CASE LockDecr(p)
  BY <1>0, <1>4, UnlinkReturnReserved, CalmReserved DEF LockDecr, ProcType
<1>5. CASE WriteDecr(p)
  <2>1. fd[p] \in Inodes /\ val[p] - 1 # Empty
    BY <1>5, Distinct DEF WriteDecr, At, ProcType, LocalOK, FdSteps
  <2>2. \A i \in Inodes : count[i] # Empty => count'[i] # Empty
    BY <1>5, <2>1 DEF WriteDecr, FsType
  <2>3. QED
    BY <1>0, <1>5, <2>2, CalmReserved DEF WriteDecr, ProcType
<1>6. CASE UnlinkStor(p)
  BY <1>6, UnlinkStorReserved
<1>7. CASE UnlinkLinks(p)
  BY <1>7, UnlinkLinksReserved
<1>8. CASE UnlinkName(p)
  <2>1. UnlinkPath(p) \in Names
    BY <1>0, <1>8 DEF UnlinkName, At, UnlinkPath, RenameTo, ProcType, LocalOK, Calls
  <2>2. \A s \in Stor : dirent'[s] = dirent[s]
    BY <1>8, <2>1, Distinct DEF UnlinkName, FsType, Paths
  <2>3. QED
    BY <1>0, <1>8, <2>2, UnlinkReturnReserved DEF UnlinkName
<1>9. QED
  BY <1>1, <1>2, <1>3, <1>4, <1>5, <1>6, <1>7, <1>8 DEF Unlink

LEMMA NextReserved ==
  ASSUME FsType, ProcType, Reserved, [Next]_vars
  PROVE  Reserved'
<1>1. CASE UNCHANGED vars
  BY <1>1 DEF vars, Reserved, StorageCovered, Reserves, Removing, Converting
<1>2. ASSUME NEW p \in Procs, Crash(p)
      PROVE  Reserved'
  BY <1>2, ReturnReserved DEF Crash, fs
<1>3. QED
  BY <1>1, <1>2, StartReserved, LinkReserved, RenameReserved, UnlinkReserved DEF Next, Step

-----------------------------------------------------------------------------
(* The initial state, and the theorems.                                    *)

IInv == FsType /\ ProcType /\ Counted /\ Reserved

LEMMA PathsFinite == IsFiniteSet(Paths)
  BY Distinct, FS_Union DEF Paths

\* A count that is there at the start is positive: the stored file has a name.
LEMMA InitCount ==
  ASSUME Init, NEW i \in Inodes, StoredAt(i) # {}
  PROVE  NamesAt(i) \in Nat \ {0}
<1> DEFINE N == {q \in Paths : dirent[q] \in StoredAt(i)}
<1>1. PICK s \in Stor : s \in StoredAt(i)
  BY DEF StoredAt
<1>2. dirent[s] # Absent
  BY <1>1, Distinct DEF Init, StoredAt
<1>3. PICK n \in Names : dirent[n] = s
  BY <1>2, Parameters DEF Init
<1>4. N # {}
  BY <1>1, <1>3 DEF Paths
<1>5. IsFiniteSet(N)
  BY PathsFinite, FS_Subset
<1>6. QED
  BY <1>4, <1>5, FS_CardinalityType, FS_EmptySet DEF NamesAt

LEMMA InitIInv == Init => IInv
<1> SUFFICES ASSUME Init PROVE IInv
  OBVIOUS
<1>1. FsType
  BY InitCount, Parameters DEF Init, FsType
<1>2. ProcType
  BY DEF Init, ProcType, LocalOK, Pcs, NoCall, Calls, LinkSteps, UnlinkSteps, FdSteps
<1>3. Counted
  <2>1. \A i \in Inodes : StoredAt(i) # {} => NamesAt(i) # Empty
    BY InitCount, Distinct
  <2>2. QED
    BY <2>1 DEF Init, Counted, LockOK, CreateOK, LedgerOK, Locked
<1>4. Reserved
  <2>1. StorageCovered
    <3> SUFFICES ASSUME NEW s \in Stor, dirent[s] # Absent
                 PROVE  lfile[s] # NoInode /\ count[lfile[s]] # Empty
      BY DEF StorageCovered
    <3>1. lfile[s] \in Inodes /\ s \in StoredAt(lfile[s])
      BY DEF Init, StoredAt
    <3>2. count[lfile[s]] = NamesAt(lfile[s])
      BY <3>1 DEF Init
    <3>3. QED
      BY <3>1, <3>2, InitCount, Distinct
  <2>2. QED
    BY <2>1 DEF Init, Reserved, Reserves, Converting, Removing, NoCall, UnlinkSteps
<1>5. QED
  BY <1>1, <1>2, <1>3, <1>4 DEF IInv

LEMMA Invariance == Spec => []IInv
<1>1. IInv /\ [Next]_vars => IInv'
  BY NextTyped, NextCounted, NextReserved DEF IInv
<1>2. QED
  BY InitIInv, <1>1, PTL DEF Spec

\* Every variable keeps its type: no link file ever holds a zero count
\* (HxL2sUnlink, unlink.c:47-57).
THEOREM TypeCorrect == Spec => []TypeOK
<1>1. IInv => TypeOK
  BY TypedSplit DEF IInv, Typed
<1>2. QED
  BY Invariance, <1>1, PTL

\* The read-modify-write of a count under flock() is atomic (link.c:89-103,
\* unlink.c:34-60): what a process read is what it overwrites.
THEOREM CountsNotStale == Spec => []CountNotStale
<1>1. IInv => CountNotStale
  BY DEF IInv, Counted, LockOK, CountNotStale
<1>2. QED
  BY Invariance, <1>1, PTL

\* No increment and no decrement of a count is lost, whoever dies when.
THEOREM CountsExact == Spec => []LedgerExact
<1>1. IInv => LedgerExact
  BY DEF IInv, Counted, LedgerOK, LedgerExact
<1>2. QED
  BY Invariance, <1>1, PTL

\* O_EXCL on the link file reserves the storage name: the rename() in
\* HxLink2symlink (link.c:171-172) never replaces a stored file.
THEOREM ConversionNeverClobbers == Spec => []NoClobber
<1>1. IInv => NoClobber
  BY DEF IInv, Reserved, Reserves, NoClobber
<1>2. QED
  BY Invariance, <1>1, PTL

\* A stored file is never without its link file and a count in it.
THEOREM StorageIsCovered == Spec => []StorageCovered
<1>1. IInv => StorageCovered
  BY DEF IInv, Reserved
<1>2. QED
  BY Invariance, <1>1, PTL

-----------------------------------------------------------------------------
(* One process.                                                            *)

\* One process, no crash, no failing call; a directory without symlinks of
\* the guest's own.
Sequential ==
  /\ \E p \in Procs : Procs = {p}
  /\ ~Crashes /\ ~IOErrors
  /\ \A d \in InitDirs, q \in Paths :
       d[q] \in Paths => q \in Names /\ d[q] \in Stor /\ d[d[q]] # Absent

\* Only names are symlinks, and they lead to storage paths; no two storage
\* paths share a link file.
Flat ==
  /\ \A q \in Paths : dirent[q] \in Paths => q \in Names /\ dirent[q] \in Stor
  /\ \A s, u \in Stor : lfile[s] = lfile[u] /\ lfile[s] # NoInode => s = u

Links(s) == {n \in Names : dirent[n] = s}

\* Nothing is there; a link file that reserves the name; a file whose count
\* is k more than its names.
Void(s)      == dirent[s] = Absent /\ lfile[s] = NoInode
Made(s)      == dirent[s] = Absent /\ lfile[s] # NoInode
Stored(s, k) == /\ dirent[s] \in Files /\ lfile[s] # NoInode
                /\ count[lfile[s]] = Cardinality(Links(s)) + k

Whole(s) == \/ Void(s) /\ Links(s) = {}
            \/ Stored(s, 0) /\ Links(s) # {}

\* The storage path a process is changing.
InHand(p) ==
  IF pc[p] \in {"unlinkLinks", "unlinkName"} THEN {lnk[p]}
  ELSE IF \/ pc[p] \in {"writeTwo", "symlinkOld", "symlinkNew"}
          \/ call[p].op = "link" /\ pc[p] \in {"statNew", "rename"}
       THEN {tgt[p]}
  ELSE {}

\* What link() has established at each of its steps ...
LinkKnows(p) ==
  LET old == call[p].old
      new == call[p].new
      s   == tgt[p]
      converts == pc[p] \in {"statNew", "rename"} /\ call[p].op = "link"
  IN
  /\ call[p].op = "link" /\ pc[p] # "accessNew" => dirent[new] = Absent
  /\ pc[p] = "accessLinks" =>
       \/ dirent[old] \in Files /\ s = old
       \/ dirent[old] = s /\ s \in Stor
  /\ pc[p] \in {"openIncr", "lockIncr", "writeIncr", "symlinkNew"} => dirent[old] = s /\ s \in Stor
  /\ pc[p] \in {"lockIncr", "writeIncr"} => fd[p] = lfile[s]
  /\ pc[p] \in {"create", "writeTwo"} \/ converts => dirent[old] \in Files
  /\ pc[p] = "writeTwo" => Made(s) /\ Links(s) = {} /\ fd[p] = lfile[s]
  /\ converts => Made(s) /\ Links(s) = {} /\ count[lfile[s]] = 2
  /\ pc[p] = "symlinkOld" =>
       dirent[old] = Absent /\ old # new /\ Stored(s, 2) /\ Links(s) = {}
  /\ pc[p] = "symlinkNew" => Stored(s, 1)

\* ... and what unlink() has.
UnlinkKnows(p) ==
  LET u == UnlinkPath(p)
      s == lnk[p]
  IN
  /\ pc[p] \in {"accessLnk", "openDecr", "lockDecr", "writeDecr",
                "unlinkStor", "unlinkLinks", "unlinkName"} => dirent[u] = s /\ s \in Stor
  /\ pc[p] \in {"lockDecr", "writeDecr", "unlinkStor"} => fd[p] = lfile[s]
  /\ pc[p] = "unlinkStor" => val[p] = 1
  /\ pc[p] = "unlinkLinks" => Made(s) /\ Links(s) = {u}
  /\ pc[p] = "unlinkName" => \/ Void(s) /\ Links(s) = {u}
                             \/ Stored(s, -1) /\ Links(s) # {u}
  /\ pc[p] = "unlinkPlain" => dirent[u] \in Files
  /\ pc[p] = "rename" /\ call[p].op = "rename" => dirent[call[p].new] = Absent

Tidy(p) ==
  /\ Flat
  /\ \A s \in Stor \ InHand(p) : Whole(s)
  /\ LinkKnows(p) /\ UnlinkKnows(p)

-----------------------------------------------------------------------------
(* Path resolution in a flat directory.                                    *)

Leads(q) == IF dirent[q] \in Paths THEN dirent[dirent[q]] ELSE dirent[q]

LEMMA WalkFlat ==
  ASSUME FsType, Flat, NEW n \in Nat, n # 0, NEW q \in Paths
  PROVE  Walk[n][q] = IF dirent[q] \in Paths THEN dirent[q] ELSE q
<1> DEFINE G(W, k, x) == IF k = 0 \/ dirent[x] \notin Paths THEN x ELSE W[k - 1][dirent[x]]
           Eq(W) == W = [k \in Nat |-> [x \in Paths |-> G(W, k, x)]]
           W0 == [k \in Nat |-> [x \in Paths |->
                    IF k = 0 \/ dirent[x] \notin Paths THEN x ELSE dirent[x]]]
<1>1. \A k \in Nat, x \in Paths : G(W0, k, x) =
         IF k = 0 \/ dirent[x] \notin Paths THEN x ELSE dirent[x]
  <2> SUFFICES ASSUME NEW k \in Nat, NEW x \in Paths, k # 0, dirent[x] \in Paths
               PROVE  W0[k - 1][dirent[x]] = dirent[x]
    OBVIOUS
  <2>1. k - 1 \in Nat /\ dirent[dirent[x]] \notin Paths
    BY Distinct DEF Flat, Paths
  <2>2. QED
    BY <2>1
<1>2. Eq(W0)
  <2> HIDE DEF G
  <2>1. [k \in Nat |-> [x \in Paths |-> G(W0, k, x)]] = W0
    BY <1>1
  <2>2. QED
    BY <2>1
<1>3. Walk = CHOOSE W : Eq(W)
  BY DEF Walk
<1>4. Eq(Walk)
  <2> HIDE DEF Eq
  <2>1. QED
    BY <1>2, <1>3
<1>5. \A k \in Nat, x \in Paths : Walk[k][x] = G(Walk, k, x)
  <2> HIDE DEF G
  <2>1. QED
    BY <1>4
<1>6. CASE dirent[q] \notin Paths
  BY <1>5, <1>6
<1>7. CASE dirent[q] \in Paths
  <2>1. n - 1 \in Nat /\ dirent[dirent[q]] \notin Paths
    BY <1>7, Distinct DEF Flat, Paths
  <2>2. Walk[n][q] = Walk[n - 1][dirent[q]]
    BY <1>5, <1>7
  <2>3. Walk[n - 1][dirent[q]] = dirent[q]
    BY <1>5, <1>7, <2>1
  <2>4. QED
    BY <1>7, <2>2, <2>3
<1>8. QED
  BY <1>6, <1>7

\* Every name leads to its file in at most one step.
LEMMA RealPathFlat ==
  ASSUME FsType, Flat, NEW q \in Paths
  PROVE  /\ Content(q) = Leads(q)
         /\ Exists(q) <=> Leads(q) # Absent
         /\ dirent[q] \in Files => RealPath(q) = q
         /\ dirent[q] \in Paths /\ Exists(q) => RealPath(q) = dirent[q] /\ dirent[dirent[q]] \in Files
<1>1. Cardinality(Paths) \in Nat /\ Cardinality(Paths) # 0
  BY PathsFinite, FS_CardinalityType, FS_EmptySet
<1>2. Walk[Cardinality(Paths)][q] = IF dirent[q] \in Paths THEN dirent[q] ELSE q
  BY <1>1, WalkFlat
<1>3. dirent[q] \in Paths => dirent[dirent[q]] \in Files \cup {Absent}
  BY Distinct DEF Flat, FsType, Paths, Entries
<1>4. RealPath(q) = IF dirent[q] \in Files THEN q
                    ELSE IF dirent[q] \in Paths /\ dirent[dirent[q]] \in Files THEN dirent[q]
                    ELSE NoPath
  BY <1>2, Distinct DEF RealPath
<1>5. QED
  BY <1>3, <1>4, Distinct DEF Content, Exists, Leads, FsType, Entries

-----------------------------------------------------------------------------
(* Links added to and removed from a storage path.                         *)

LEMMA LinksFinite ==
  ASSUME NEW s PROVE IsFiniteSet(Links(s)) /\ Cardinality(Links(s)) \in Nat
<1>1. IsFiniteSet(Links(s))
  BY Distinct, FS_Subset DEF Links
<1>2. QED
  BY <1>1, FS_CardinalityType

\* A name that was no link to s becomes one.
LEMMA LinkAdded ==
  ASSUME FsType, NEW n \in Names, NEW s \in Stor, dirent[n] # s,
         dirent' = [dirent EXCEPT ![n] = s]
  PROVE  /\ Links(s)' = Links(s) \cup {n}
         /\ Cardinality(Links(s)') = Cardinality(Links(s)) + 1
         /\ \A x \in Stor : x # s /\ x # dirent[n] => Links(x)' = Links(x)
         /\ \A q \in Paths \ {n} : dirent'[q] = dirent[q]
         /\ dirent'[n] = s
<1>1. Links(s)' = Links(s) \cup {n} /\ n \notin Links(s)
  BY DEF Links, FsType, Paths
<1>2. Cardinality(Links(s)') = Cardinality(Links(s)) + 1
  BY <1>1, LinksFinite, FS_AddElement
<1>3. QED
  BY <1>1, <1>2 DEF Links, FsType, Paths

\* A link to s becomes something else that is no storage path.
LEMMA LinkRemoved ==
  ASSUME FsType, NEW n \in Names, NEW e, e \notin Stor,
         dirent' = [dirent EXCEPT ![n] = e]
  PROVE  /\ \A x \in Stor : Links(x)' = Links(x) \ {n}
         /\ \A x \in Stor : dirent[n] # x => Links(x)' = Links(x)
         /\ \A x \in Stor : dirent[n] = x =>
              n \in Links(x) /\ Cardinality(Links(x)') = Cardinality(Links(x)) - 1
         /\ \A q \in Paths \ {n} : dirent'[q] = dirent[q]
         /\ dirent'[n] = e
<1>1. \A x \in Stor : /\ Links(x)' = Links(x) \ {n}
                      /\ dirent[n] # x => Links(x)' = Links(x)
                      /\ dirent[n] = x => n \in Links(x)
  BY DEF Links, FsType, Paths
<1>2. \A x \in Stor : dirent[n] = x => Cardinality(Links(x)') = Cardinality(Links(x)) - 1
  BY <1>1, LinksFinite, FS_RemoveElement
<1>3. QED
  BY <1>1, <1>2 DEF FsType, Paths

\* A link moves to another name, as rename() does it.
LEMMA LinkMoved ==
  ASSUME FsType, NEW o \in Names, NEW n \in Names, o # n, dirent[n] = Absent,
         dirent' = [dirent EXCEPT ![n] = dirent[o], ![o] = Absent]
  PROVE  /\ \A x \in Stor : Cardinality(Links(x)') = Cardinality(Links(x))
         /\ \A x \in Stor : Links(x)' = {} <=> Links(x) = {}
         /\ \A q \in Paths \ {n, o} : dirent'[q] = dirent[q]
         /\ dirent'[n] = dirent[o] /\ dirent'[o] = Absent
<1>1. \A x \in Stor : x = dirent[o] => Links(x)' = (Links(x) \ {o}) \cup {n} /\ o \in Links(x) /\ n \notin Links(x)
  BY Distinct DEF Links, FsType, Paths
<1>2. \A x \in Stor : x # dirent[o] => Links(x)' = Links(x)
  BY Distinct DEF Links, FsType, Paths
<1>3. ASSUME NEW x \in Stor, x = dirent[o]
      PROVE  Cardinality(Links(x)') = Cardinality(Links(x))
  <2> DEFINE L == Links(x) \ {o}
  <2>1. IsFiniteSet(L) /\ Cardinality(L) = Cardinality(Links(x)) - 1
    BY <1>1, <1>3, LinksFinite, FS_RemoveElement
  <2>2. n \notin L /\ Links(x)' = L \cup {n}
    BY <1>1, <1>3
  <2> HIDE DEF L
  <2>3. Cardinality(Links(x)') = Cardinality(L) + 1
    BY <2>1, <2>2, FS_AddElement
  <2>4. QED
    BY <2>1, <2>3, LinksFinite
<1>4. QED
  BY <1>1, <1>2, <1>3 DEF FsType, Paths
-----------------------------------------------------------------------------
(* One process keeps the directory tidy.                                   *)

\* A step that changes neither the directory nor a link file.
LEMMA ReadTidy ==
  UNCHANGED <<dirent, lfile, count>> =>
    /\ Flat' <=> Flat
    /\ \A s \in Stor : /\ Links(s)' = Links(s)
                       /\ Void(s)' <=> Void(s)
                       /\ Made(s)' <=> Made(s)
                       /\ Whole(s)' <=> Whole(s)
                       /\ \A k \in Int : Stored(s, k)' <=> Stored(s, k)
  BY DEF Flat, Links, Void, Made, Stored, Whole

LEMMA ReturnTidy ==
  ASSUME FsType, ProcType, NEW p \in Procs, NEW r, Return(p, r), Flat', \A s \in Stor : Whole(s)'
  PROVE  Tidy(p)'
<1>1. pc'[p] = "idle" /\ call'[p] = NoCall
  BY DEF Return, Goto, ProcType
<1>2. QED
  BY <1>1 DEF Tidy, InHand, LinkKnows, UnlinkKnows, NoCall

LEMMA UnlinkReturnTidy ==
  ASSUME FsType, ProcType, NEW p \in Procs, NEW r, UnlinkReturn(p, r), call[p].op # "link",
         Flat', \A s \in Stor : Whole(s)',
         call[p].op = "rename" => r \notin {"ok", "ENOENT"} \/ dirent'[call[p].new] = Absent
  PROVE  Tidy(p)'
<1>1. CASE Return(p, IF r = "ok" THEN "ok" ELSE "err")
  BY <1>1, ReturnTidy
<1>2. CASE r \in {"ok", "ENOENT"} /\ call[p].op # "unlink" /\ Goto(p, "rename") /\ Close(p) /\ UNCHANGED local
  <2>1. pc'[p] = "rename" /\ call'[p] = call[p]
    BY <1>2 DEF Goto, local, ProcType
  <2>2. QED
    BY <1>2, <2>1 DEF Tidy, InHand, LinkKnows, UnlinkKnows
<1>3. QED
  BY <1>1, <1>2 DEF UnlinkReturn

LEMMA StartOne ==
  ASSUME FsType, ProcType, NEW p \in Procs, Tidy(p), Start(p)
  PROVE  Tidy(p)'
<1>2. UNCHANGED <<dirent, lfile, count>> /\ pc[p] = "idle" /\ InHand(p) = {}
  BY DEF Start, CallLink, CallUnlink, CallRename, Begin, fs, At, InHand
<1>3. \/ pc'[p] = "accessNew" /\ call'[p].op = "link"
      \/ pc'[p] = "readlink" /\ call'[p].op = "unlink"
      \/ pc'[p] = "statNew" /\ call'[p].op = "rename"
  BY DEF Start, CallLink, CallUnlink, CallRename, Begin, Goto, ProcType
<1>4. InHand(p)' = {}
  BY <1>3 DEF InHand
<1>5. QED
  BY <1>2, <1>3, <1>4, ReadTidy DEF Tidy, LinkKnows, UnlinkKnows

\* The storage path that link() of a second name found is a stored file.
LEMMA OneWhole ==
  ASSUME FsType, NEW p \in Procs, Tidy(p), NEW s \in Stor \ InHand(p), NEW n \in Names, dirent[n] = s
  PROVE  Stored(s, 0) /\ n \in Links(s)
  BY DEF Tidy, Whole, Links

\* Outside a removal every symlink leads to a file.
LEMMA OneLeads ==
  ASSUME FsType, NEW p \in Procs, Tidy(p), InHand(p) = {}, NEW n \in Names, dirent[n] # Absent
  PROVE  Exists(n) /\ (dirent[n] \in Paths => dirent[n] \in Stor /\ RealPath(n) = dirent[n])
<1>1. n \in Paths /\ Flat
  BY DEF Paths, Tidy
<1>2. CASE dirent[n] \in Files
  BY <1>1, <1>2, RealPathFlat, Distinct DEF Leads
<1>3. CASE dirent[n] \in Paths
  <2>1. dirent[n] \in Stor
    BY <1>1, <1>3 DEF Flat
  <2>2. dirent[dirent[n]] \in Files
    BY <2>1, OneWhole DEF Stored
  <2>3. QED
    BY <1>1, <1>3, <2>1, <2>2, RealPathFlat, Distinct DEF Leads
<1>4. QED
  BY <1>1, <1>2, <1>3 DEF FsType, Entries

LEMMA LinkOne ==
  ASSUME FsType, ProcType, Counted, NEW p \in Procs, Tidy(p), Link(p),
         ~IOErrors, \A q \in Procs : q = p
  PROVE  Tidy(p)'
<1> DEFINE old == call[p].old
           new == call[p].new
           s   == tgt[p]
<1>1. /\ pc[p] \in LinkSteps /\ call[p].op = "link"
      /\ old \in Names /\ new \in Names /\ Flat
  BY DEF Link, AccessNew, ResolveOld, AccessLinks, OpenIncr, LockIncr, WriteIncr, CreateLinks,
         WriteTwo, SymlinkOld, SymlinkNew, SymlinkAt, SymlinkFails, At, LinkSteps, ProcType, LocalOK, Tidy
<1>2. /\ pc[p] # "accessNew" => dirent[new] = Absent
      /\ dirent[old] # Absent => new # old \/ pc[p] = "accessNew"
  BY <1>1 DEF Tidy, LinkKnows
<1>3. ASSUME UNCHANGED <<dirent, lfile, count>>, InHand(p) = {}, NEW r, Return(p, r)
      PROVE  Tidy(p)'
  BY <1>3, ReadTidy, ReturnTidy DEF Tidy
<1>4. CASE AccessNew(p)
  <2>1. CASE Exists(new) \/ Looped(new)
    BY <1>4, <2>1, <1>3 DEF AccessNew, fs, At, InHand
  <2>2. CASE ~(Exists(new) \/ Looped(new))
    <3>1. /\ UNCHANGED <<dirent, lfile, count>> /\ InHand(p) = {} /\ InHand(p)' = {}
          /\ pc'[p] = "realpath" /\ call' = call
      BY <1>4, <2>2 DEF AccessNew, fs, At, InHand, Goto, local, ProcType
    <3>2. dirent[new] = Absent
      BY <1>1, <2>2, <3>1, OneLeads
    <3>3. QED
      BY <1>1, <3>1, <3>2, ReadTidy DEF Tidy, LinkKnows, UnlinkKnows
  <2>3. QED
    BY <2>1, <2>2
<1>5. CASE ResolveOld(p)
  <2>1. CASE ~Exists(old)
    BY <1>5, <2>1, <1>3 DEF ResolveOld, fs, At, InHand
  <2>2. CASE Exists(old)
    <3>1. /\ UNCHANGED <<dirent, lfile, count>> /\ InHand(p) = {} /\ InHand(p)' = {}
          /\ pc[p] = "realpath" /\ pc'[p] = "accessLinks" /\ call' = call /\ tgt'[p] = RealPath(old)
      BY <1>5, <2>2 DEF ResolveOld, fs, At, InHand, Goto, ProcType
    <3>2. old \in Paths /\ dirent[old] # Absent
      BY <1>1, <2>2, RealPathType DEF Paths
    <3>3. \/ dirent[old] \in Files /\ RealPath(old) = old
          \/ dirent[old] = RealPath(old) /\ RealPath(old) \in Stor
      BY <1>1, <3>1, <3>2, OneLeads, RealPathFlat DEF FsType, Entries
    <3>4. QED
      BY <1>1, <1>2, <3>1, <3>3, ReadTidy DEF Tidy, LinkKnows, UnlinkKnows
  <2>3. QED
    BY <2>1, <2>2
<1>6. CASE AccessLinks(p)
  <2>1. /\ UNCHANGED <<dirent, lfile, count, call>> /\ InHand(p) = {} /\ pc[p] = "accessLinks"
    BY <1>6 DEF AccessLinks, fs, At, InHand
  <2>2. \/ dirent[old] \in Files /\ s = old
        \/ dirent[old] = s /\ s \in Stor
    BY <2>1 DEF Tidy, LinkKnows
  <2>3. CASE HasLinks(s)
    <3>1. pc'[p] = "openIncr" /\ tgt' = tgt /\ InHand(p)' = {}
      BY <1>6, <2>3 DEF AccessLinks, Goto, ProcType, InHand
    <3>2. dirent[old] = s /\ s \in Stor
      BY <1>1, <2>2, <2>3, Distinct DEF HasLinks
    <3>3. QED
      BY <1>1, <1>2, <2>1, <3>1, <3>2, ReadTidy DEF Tidy, LinkKnows, UnlinkKnows
  <2>4. CASE ~HasLinks(s)
    <3>1. pc'[p] = "create" /\ InHand(p)' = {}
      BY <1>6, <2>4, <1>1, <2>1 DEF AccessLinks, Goto, ProcType, InHand
    <3>2. dirent[old] \in Files
      BY <1>1, <2>1, <2>2, <2>4, OneWhole DEF HasLinks, Stored
    <3>3. QED
      BY <1>1, <1>2, <2>1, <3>1, <3>2, ReadTidy DEF Tidy, LinkKnows, UnlinkKnows
  <2>5. QED
    BY <2>3, <2>4
<1>7. CASE OpenIncr(p)
  <2>1. CASE ~HasLinks(s)
    BY <1>7, <2>1, <1>3 DEF OpenIncr, fs, At, InHand
  <2>2. CASE HasLinks(s)
    <3>1. /\ UNCHANGED <<dirent, lfile, count, call, tgt>> /\ InHand(p) = {} /\ InHand(p)' = {}
          /\ pc[p] = "openIncr" /\ pc'[p] = "lockIncr" /\ fd'[p] = lfile[s]
      BY <1>7, <2>2 DEF OpenIncr, fs, At, InHand, Goto, ProcType, local, Open
    <3>2. QED
      BY <1>1, <1>2, <3>1, ReadTidy DEF Tidy, LinkKnows, UnlinkKnows
  <2>3. QED
    BY <2>1, <2>2
<1>8. CASE LockIncr(p)
  <2>1. CASE count[fd[p]] = Empty
    BY <1>8, <2>1, <1>3 DEF LockIncr, fs, At, InHand
  <2>2. CASE count[fd[p]] # Empty
    <3>1. /\ UNCHANGED <<dirent, lfile, count, call, tgt, fd>> /\ InHand(p) = {} /\ InHand(p)' = {}
          /\ pc[p] = "lockIncr" /\ pc'[p] = "writeIncr"
      BY <1>8, <2>2 DEF LockIncr, fs, At, InHand, Goto, ProcType, local
    <3>2. QED
      BY <1>1, <1>2, <3>1, ReadTidy DEF Tidy, LinkKnows, UnlinkKnows
  <2>3. QED
    BY <2>1, <2>2
<1>9. CASE WriteIncr(p)
  <2>1. /\ UNCHANGED <<dirent, lfile, call, tgt>> /\ InHand(p) = {} /\ InHand(p)' = {s}
        /\ pc[p] = "writeIncr" /\ pc'[p] = "symlinkNew" /\ fd[p] \in Inodes
        /\ count' = [count EXCEPT ![fd[p]] = val[p] + 1]
    BY <1>9 DEF WriteIncr, At, InHand, Goto, ProcType, local, LocalOK, FdSteps
  <2>2. fd[p] = lfile[s] /\ s \in Stor /\ dirent[old] = s /\ val[p] = count[fd[p]]
    BY <2>1 DEF Tidy, LinkKnows, Counted, LockOK, Locked
  <2>3. Stored(s, 0)
    BY <1>1, <2>1, <2>2, OneWhole
  <2>4. \A x \in Stor : Links(x)' = Links(x)
    BY <2>1 DEF Links
  <2>5. Stored(s, 1)'
    BY <2>1, <2>2, <2>3, <2>4, LinksFinite DEF Stored, FsType
  <2>6. \A x \in Stor \ {s} : Whole(x)'
    BY <1>1, <2>1, <2>2, <2>4 DEF Tidy, Whole, Void, Stored, FsType, Flat
  <2>7. QED
    BY <1>1, <1>2, <2>1, <2>2, <2>5, <2>6 DEF Tidy, LinkKnows, UnlinkKnows, Flat
<1>10. CASE CreateLinks(p)
  <2>1. CASE HasLinks(s)
    BY <1>10, <2>1, <1>1, <1>3 DEF CreateLinks, fs, At, InHand
  <2>2. CASE ~HasLinks(s)
    <3>1. PICK i \in Inodes : /\ FreeInode(i)
                              /\ lfile' = [lfile EXCEPT ![s] = i]
                              /\ count' = [count EXCEPT ![i] = Empty]
                              /\ Open(p, i)
      BY <1>10, <2>2 DEF CreateLinks
    <3>2. /\ UNCHANGED <<dirent, call, tgt>> /\ InHand(p) = {} /\ InHand(p)' = {s} /\ s \in Stor
          /\ pc[p] = "create" /\ pc'[p] = "writeTwo" /\ fd'[p] = i /\ i # NoInode
      BY <1>10, <2>2, <3>1, Distinct DEF CreateLinks, Open, At, InHand, Goto, ProcType, local, LocalOK
    <3>3. \A x \in Stor : Links(x)' = Links(x)
      BY <3>2 DEF Links
    <3>4. Made(s)' /\ Links(s)' = {} /\ fd'[p] = lfile'[s]
      BY <2>2, <3>1, <3>2, <3>3 DEF Tidy, Whole, Void, Stored, Made, HasLinks, FsType
    <3>5. \A x \in Stor \ {s} : Whole(x)'
      BY <3>1, <3>2, <3>3 DEF Tidy, Whole, Void, Stored, FsType, FreeInode
    <3>6. Flat'
      BY <1>1, <3>1, <3>2 DEF Flat, FsType, FreeInode
    <3>7. QED
      BY <1>1, <1>2, <3>2, <3>4, <3>5, <3>6 DEF Tidy, LinkKnows, UnlinkKnows
  <2>3. QED
    BY <2>1, <2>2
<1>11. CASE WriteTwo(p)
  <2>1. /\ UNCHANGED <<dirent, lfile, call, tgt>> /\ InHand(p) = {s} /\ InHand(p)' = {s} /\ s \in Stor
        /\ pc[p] = "writeTwo" /\ pc'[p] = "statNew" /\ fd[p] \in Inodes
        /\ count' = [count EXCEPT ![fd[p]] = 2]
    BY <1>11, <1>1 DEF WriteTwo, At, InHand, Goto, ProcType, local, LocalOK, FdSteps
  <2>2. fd[p] = lfile[s] /\ Made(s) /\ Links(s) = {} /\ dirent[old] \in Files
    BY <2>1 DEF Tidy, LinkKnows
  <2>3. \A x \in Stor : Links(x)' = Links(x)
    BY <2>1 DEF Links
  <2>4. Made(s)' /\ Links(s)' = {} /\ count'[lfile'[s]] = 2
    BY <2>1, <2>2, <2>3 DEF Made, FsType
  <2>5. \A x \in Stor \ {s} : Whole(x)'
    BY <1>1, <2>1, <2>2, <2>3 DEF Tidy, Whole, Void, Stored, FsType, Flat
  <2>6. QED
    BY <1>1, <1>2, <2>1, <2>2, <2>4, <2>5 DEF Tidy, LinkKnows, UnlinkKnows, Flat
<1>12. CASE SymlinkOld(p)
  <2>1. /\ UNCHANGED <<lfile, count, call, tgt>> /\ InHand(p) = {s} /\ InHand(p)' = {s} /\ s \in Stor
        /\ pc[p] = "symlinkOld" /\ pc'[p] = "symlinkNew"
        /\ dirent' = [dirent EXCEPT ![old] = s]
    BY <1>12, <1>1 DEF SymlinkOld, SymlinkAt, At, InHand, Goto, ProcType, local, LocalOK
  <2> PICK t \in Stor : t = s
    BY <2>1
  <2>2. dirent[old] = Absent /\ old # new /\ Stored(t, 2) /\ Links(t) = {}
    BY <2>1 DEF Tidy, LinkKnows
  <2>3. /\ Cardinality(Links(t)') = Cardinality(Links(t)) + 1
        /\ \A x \in Stor \ {t} : Links(x)' = Links(x)
        /\ \A q \in Paths \ {old} : dirent'[q] = dirent[q]
        /\ dirent'[old] = t
    <3>1. dirent[old] \notin Stor /\ old \in Names /\ dirent' = [dirent EXCEPT ![old] = t]
      BY <1>1, <2>1, <2>2, Distinct DEF Paths
    <3>2. dirent[old] # t
      BY <3>1
    <3> HIDE DEF old
    <3>3. QED
      BY <3>1, <3>2, LinkAdded
  <2>4. old \notin Stor /\ old \in Paths /\ new \in Paths /\ Stor \subseteq Paths
    BY <1>1, Distinct DEF Paths
  <2>5. Stored(t, 1)'
    <3>1. dirent'[t] = dirent[t]
      BY <2>3, <2>4
    <3>2. count[lfile[t]] = Cardinality(Links(t)') + 1
      <4>1. count[lfile[t]] = Cardinality(Links(t)) + 2
        BY <2>2 DEF Stored
      <4>2. \A k \in Nat : k + 2 = (k + 1) + 1
        OBVIOUS
      <4>3. QED
        BY <2>3, <4>1, <4>2, LinksFinite
    <3>3. QED
      BY <2>1, <2>2, <3>1, <3>2 DEF Stored
  <2>6. \A x \in Stor \ {t} : Whole(x)'
    BY <2>1, <2>3, <2>4 DEF Tidy, Whole, Void, Stored
  <2>7. Flat'
    BY <1>1, <2>1, <2>3, <2>4 DEF Flat
  <2>8. QED
    BY <1>1, <1>2, <2>1, <2>2, <2>3, <2>4, <2>5, <2>6, <2>7 DEF Tidy, LinkKnows, UnlinkKnows
<1>13. CASE SymlinkNew(p)
  <2>1. /\ UNCHANGED <<lfile, count>> /\ InHand(p) = {s} /\ pc[p] = "symlinkNew"
        /\ dirent' = [dirent EXCEPT ![new] = s] /\ Return(p, "ok")
    BY <1>13 DEF SymlinkNew, SymlinkAt, At, InHand
  <2> PICK t \in Stor : t = s
    BY <2>1 DEF Tidy, LinkKnows
  <2>2. dirent[new] = Absent /\ dirent[old] = t /\ Stored(t, 1)
    BY <1>2, <2>1 DEF Tidy, LinkKnows
  <2>3. /\ Cardinality(Links(t)') = Cardinality(Links(t)) + 1
        /\ Links(t)' = Links(t) \cup {new}
        /\ \A x \in Stor \ {t} : Links(x)' = Links(x)
        /\ \A q \in Paths \ {new} : dirent'[q] = dirent[q]
        /\ dirent'[new] = t
    <3>1. dirent[new] \notin Stor /\ dirent[new] # t /\ new \in Names /\ dirent' = [dirent EXCEPT ![new] = t]
      BY <1>1, <2>1, <2>2, Distinct DEF Paths
    <3> HIDE DEF new
    <3>2. QED
      BY <3>1, LinkAdded
  <2>4. new \notin Stor /\ new \in Paths /\ Stor \subseteq Paths
    BY <1>1, Distinct DEF Paths
  <2>5. Whole(t)'
    <3>1. dirent'[t] = dirent[t]
      BY <2>3, <2>4
    <3>2. Cardinality(Links(t)') = count[lfile[t]]
      BY <2>2, <2>3, LinksFinite DEF Stored
    <3>3. Links(t)' # {}
      BY <2>3
    <3>4. Cardinality(Links(t)') + 0 = Cardinality(Links(t)')
      BY <2>3, LinksFinite
    <3>5. QED
      BY <2>1, <2>2, <3>1, <3>2, <3>3, <3>4 DEF Stored, Whole
  <2>6. \A x \in Stor \ {t} : Whole(x)'
    BY <2>1, <2>3, <2>4 DEF Tidy, Whole, Void, Stored
  <2>7. Flat'
    BY <1>1, <2>1, <2>3, <2>4 DEF Flat
  <2>8. QED
    BY <2>1, <2>5, <2>6, <2>7, ReturnTidy
<1>14. CASE SymlinkFails(p)
  <2>1. \/ pc[p] = "symlinkOld" /\ dirent[old] # Absent
        \/ pc[p] = "symlinkNew" /\ dirent[new] # Absent
    BY <1>14 DEF SymlinkFails, At
  <2>2. QED
    BY <1>2, <2>1 DEF Tidy, LinkKnows
<1>15. QED
  BY <1>4, <1>5, <1>6, <1>7, <1>8, <1>9, <1>10, <1>11, <1>12, <1>13, <1>14 DEF Link

LEMMA RenameOne ==
  ASSUME FsType, ProcType, Counted, Reserved, NEW p \in Procs, Tidy(p), Rename(p), ~IOErrors
  PROVE  Tidy(p)'
<1> DEFINE old == call[p].old
           new == call[p].new
           s   == tgt[p]
<1>1. /\ pc[p] \in {"statNew", "rename"} /\ call[p].op \in {"link", "rename"}
      /\ old \in Names /\ new \in Names /\ Flat
      /\ call[p].op = "link" => s \in Stor
  BY DEF Rename, StatNew, RenameReal, RenameFails, At, ProcType, LocalOK, Calls, Tidy
<1>2. call[p].op = "link" => /\ InHand(p) = {s} /\ RenameTo(p) = s
                             /\ dirent[new] = Absent /\ dirent[old] \in Files
                             /\ Made(s) /\ Links(s) = {} /\ count[lfile[s]] = 2
  BY <1>1 DEF Tidy, LinkKnows, InHand, RenameTo
<1>3. call[p].op = "rename" => InHand(p) = {} /\ RenameTo(p) = new
  BY <1>1 DEF InHand, RenameTo
<1>4. CASE StatNew(p)
  <2>1. UNCHANGED <<dirent, lfile, count>> /\ pc[p] = "statNew"
    BY <1>4 DEF StatNew, fs, At
  <2>2. CASE Looped(RenameTo(p)) \/ (IsHardLink(RenameTo(p)) /\ ReadLinkCount(RenameTo(p)) = Empty)
    <3>1. call[p].op # "link"
      BY <1>1, <1>2, <2>2, Distinct DEF IsHardLink, Looped, Made, Paths
    <3>2. QED
      BY <1>1, <1>3, <1>4, <2>1, <2>2, <3>1, ReadTidy, ReturnTidy DEF StatNew, Tidy
  <2>3. CASE ~(Looped(RenameTo(p)) \/ (IsHardLink(RenameTo(p)) /\ ReadLinkCount(RenameTo(p)) = Empty))
    <3>1. pc'[p] = (IF Exists(RenameTo(p)) THEN "readlink" ELSE "rename") /\ call' = call /\ tgt' = tgt
      BY <1>4, <2>3 DEF StatNew, Goto, local, ProcType
    <3>2. CASE call[p].op = "link"
      <4>1. ~Exists(s)
        BY <1>1, <1>2, <3>2, RealPathType DEF Made, Paths
      <4>2. pc'[p] = "rename" /\ InHand(p)' = {s}
        BY <1>2, <3>1, <3>2, <4>1 DEF InHand
      <4>3. QED
        BY <1>1, <1>2, <2>1, <3>1, <3>2, <4>2, ReadTidy DEF Tidy, LinkKnows, UnlinkKnows
    <3>3. CASE call[p].op = "rename"
      <4>1. InHand(p)' = {}
        BY <3>1, <3>3 DEF InHand
      <4>2. pc'[p] = "rename" => dirent[new] = Absent
        BY <1>1, <1>3, <3>1, <3>3, OneLeads
      <4>3. QED
        BY <1>1, <1>3, <2>1, <3>1, <3>3, <4>1, <4>2, ReadTidy DEF Tidy, LinkKnows, UnlinkKnows
    <3>4. QED
      BY <1>1, <3>2, <3>3
  <2>4. QED
    BY <2>2, <2>3
<1>5. CASE RenameReal(p) /\ call[p].op = "link"
  <2> PICK t \in Stor : t = s
    BY <1>1, <1>5
  <2>1. UNCHANGED <<lfile, count, call, tgt>> /\ pc'[p] = "symlinkOld" /\ InHand(p)' = {t}
    BY <1>1, <1>2, <1>5, Distinct DEF RenameReal, Goto, local, ProcType, InHand
  <2>0. dirent' = [dirent EXCEPT ![t] = dirent[old], ![old] = Absent]
    BY <1>1, <1>2, <1>5, Distinct DEF RenameReal
  <2>2. /\ dirent'[t] \in Files /\ dirent'[old] = Absent
        /\ \A q \in Paths \ {t, old} : dirent'[q] = dirent[q]
        /\ \A x \in Stor \ {t} : dirent'[x] = dirent[x]
        /\ old # new /\ old \notin Stor /\ new \notin Stor /\ Stor \subseteq Paths /\ new \in Paths
    BY <1>1, <1>2, <1>5, <2>0, Distinct DEF FsType, Paths
  <2>3. \A x \in Stor : Links(x)' = Links(x)
    BY <1>1, <1>2, <1>5, <2>0, Distinct DEF Links, FsType, Paths
  <2>4. Stored(t, 2)'
    <3>1. lfile'[t] # NoInode /\ count'[lfile'[t]] = 2
      BY <1>2, <1>5, <2>1 DEF Made
    <3>2. Cardinality(Links(t)') = 0
      BY <1>2, <1>5, <2>3, FS_EmptySet
    <3>3. QED
      BY <2>2, <3>1, <3>2 DEF Stored
  <2>5. \A x \in Stor \ {t} : Whole(x)'
    <3>1. \A x \in Stor \ {t} : Whole(x)
      BY <1>2, <1>5 DEF Tidy
    <3>2. QED
      BY <2>1, <2>2, <2>3, <3>1 DEF Whole, Void, Stored
  <2>6. Flat'
    <3>1. dirent'[t] \notin Paths /\ dirent'[old] \notin Paths
      BY <2>2, Distinct
    <3>2. QED
      BY <1>1, <2>1, <2>2, <3>1 DEF Flat
  <2>7. QED
    BY <1>2, <1>5, <2>1, <2>2, <2>3, <2>4, <2>5, <2>6 DEF Tidy, LinkKnows, UnlinkKnows
<1>6. CASE RenameReal(p) /\ call[p].op = "rename"
  <2>1. UNCHANGED <<lfile, count>> /\ dirent[old] # Absent /\ pc[p] = "rename" /\ Return(p, "ok")
    BY <1>6 DEF RenameReal, At
  <2>2. dirent[new] = Absent /\ old # new
    BY <1>6, <2>1 DEF Tidy, UnlinkKnows
  <2>3. dirent' = [dirent EXCEPT ![new] = dirent[old], ![old] = Absent]
    BY <1>3, <1>6, <2>2 DEF RenameReal
  <2>4. /\ \A x \in Stor : Cardinality(Links(x)') = Cardinality(Links(x))
        /\ \A x \in Stor : Links(x)' = {} <=> Links(x) = {}
        /\ \A q \in Paths \ {new, old} : dirent'[q] = dirent[q]
        /\ dirent'[new] = dirent[old] /\ dirent'[old] = Absent
    <3> HIDE DEF new, old
    <3>1. QED
      BY <1>1, <2>2, <2>3, LinkMoved
  <2>5. \A x \in Stor : dirent'[x] = dirent[x]
    BY <1>1, <2>4, Distinct DEF Paths
  <2>6. \A x \in Stor : Whole(x)'
    BY <1>3, <1>6, <2>1, <2>4, <2>5 DEF Tidy, Whole, Void, Stored
  <2>7. Flat'
    BY <1>1, <2>1, <2>4, Distinct DEF Flat, Paths
  <2>8. QED
    BY <2>1, <2>6, <2>7, ReturnTidy
<1>7. CASE RenameFails(p)
  <2>1. dirent[old] = Absent /\ UNCHANGED <<dirent, lfile, count>> /\ Return(p, "err")
    BY <1>7 DEF RenameFails, fs
  <2>2. call[p].op = "rename"
    BY <1>1, <1>2, <2>1, Distinct
  <2>3. QED
    BY <1>3, <2>1, <2>2, ReadTidy, ReturnTidy DEF Tidy
<1>8. QED
  BY <1>1, <1>4, <1>5, <1>6, <1>7 DEF Rename

LEMMA UnlinkOne ==
  ASSUME FsType, ProcType, Counted, Reserved, NEW p \in Procs, Tidy(p), Unlink(p)
  PROVE  Tidy(p)'
<1> DEFINE u == UnlinkPath(p)
           s == lnk[p]
           Before == {"accessLnk", "openDecr", "lockDecr", "writeDecr", "unlinkStor"}
<1>1. /\ pc[p] \in UnlinkSteps /\ call[p].op \in {"unlink", "rename"}
      /\ u \in Names /\ Flat
      /\ call[p].op = "rename" => u = call[p].new
  BY DEF Unlink, Readlink, AccessLnk, OpenDecr, LockDecr, WriteDecr, UnlinkStor, UnlinkLinks,
         UnlinkName, At, UnlinkSteps, ProcType, LocalOK, Calls, Tidy, Reserved, UnlinkPath, RenameTo
<1>2. pc[p] \in Before => dirent[u] = s /\ s \in Stor /\ InHand(p) = {} /\ Stored(s, 0) /\ u \in Links(s)
  <2>1. pc[p] \in Before => dirent[u] = s /\ s \in Stor /\ InHand(p) = {}
    BY <1>1 DEF Tidy, UnlinkKnows, InHand
  <2>2. QED
    BY <1>1, <2>1, OneWhole
<1>3. ASSUME UNCHANGED <<call, tgt>> PROVE UnlinkPath(p)' = u
  BY <1>3 DEF UnlinkPath, RenameTo
<1>4. ASSUME UNCHANGED <<dirent, lfile, count>>, InHand(p) = {}, UnlinkReturn(p, "ENODATA")
      PROVE  Tidy(p)'
  BY <1>1, <1>4, ReadTidy, UnlinkReturnTidy DEF Tidy
<1>5. CASE Readlink(p)
  <2>1. UNCHANGED <<dirent, lfile, count>> /\ pc[p] = "readlink" /\ InHand(p) = {}
    BY <1>1, <1>5 DEF Readlink, fs, At, InHand
  <2>2. CASE dirent[u] = Absent
    <3>1. UnlinkReturn(p, "ENOENT")
      BY <1>5, <2>2, Distinct DEF Readlink
    <3>2. call[p].op = "rename" => dirent'[call[p].new] = Absent
      BY <1>1, <2>1, <2>2
    <3>3. QED
      BY <1>1, <2>1, <3>1, <3>2, ReadTidy, UnlinkReturnTidy DEF Tidy
  <2>3. CASE dirent[u] \in Files
    <3>1. pc'[p] = "unlinkPlain" /\ UNCHANGED <<call, tgt>> /\ InHand(p)' = {}
      BY <1>1, <1>5, <2>3, Distinct DEF Readlink, Goto, local, ProcType, InHand
    <3>2. QED
      BY <1>1, <1>3, <2>1, <2>3, <3>1, ReadTidy DEF Tidy, LinkKnows, UnlinkKnows
  <2>4. CASE dirent[u] \in Paths
    <3>1. /\ pc'[p] = "accessLnk" /\ UNCHANGED <<call, tgt>> /\ InHand(p)' = {}
          /\ lnk'[p] = dirent[u]
      BY <1>1, <1>5, <2>4, Distinct DEF Readlink, Goto, local, ProcType, InHand
    <3>2. dirent[u] \in Stor
      BY <1>1, <2>4 DEF Flat, Paths
    <3>3. QED
      BY <1>1, <1>3, <2>1, <3>1, <3>2, ReadTidy DEF Tidy, LinkKnows, UnlinkKnows
  <2>5. QED
    BY <1>1, <2>2, <2>3, <2>4 DEF FsType, Entries, Paths
<1>6. CASE AccessLnk(p)
  <2>1. UNCHANGED <<dirent, lfile, count, call, tgt, lnk>> /\ pc[p] = "accessLnk"
    BY <1>6 DEF AccessLnk, fs, At, local
  <2>2. pc'[p] = "openDecr" /\ InHand(p)' = {}
    BY <1>1, <1>2, <1>6, <2>1 DEF AccessLnk, HasLinks, Stored, Goto, ProcType, InHand
  <2>3. QED
    BY <1>1, <1>2, <1>3, <2>1, <2>2, ReadTidy DEF Tidy, LinkKnows, UnlinkKnows
<1>7. CASE OpenDecr(p)
  <2>1. HasLinks(s) /\ pc[p] = "openDecr"
    BY <1>2, <1>7 DEF OpenDecr, At, HasLinks, Stored
  <2>2. /\ UNCHANGED <<dirent, lfile, count, call, tgt, lnk>> /\ pc'[p] = "lockDecr"
        /\ InHand(p)' = {} /\ fd'[p] = lfile[s]
    BY <1>1, <1>7, <2>1 DEF OpenDecr, fs, Goto, local, Open, ProcType, InHand
  <2>3. QED
    BY <1>1, <1>2, <1>3, <2>1, <2>2, ReadTidy DEF Tidy, LinkKnows, UnlinkKnows
<1>8. CASE LockDecr(p)
  <2>1. UNCHANGED <<dirent, lfile, count>> /\ pc[p] = "lockDecr" /\ fd[p] = lfile[s] /\ fd[p] \in Inodes
    BY <1>8 DEF LockDecr, fs, At, Tidy, UnlinkKnows, ProcType, LocalOK, FdSteps
  <2>2. CASE count[fd[p]] = Empty
    BY <1>2, <1>4, <1>8, <2>1, <2>2 DEF LockDecr
  <2>3. CASE count[fd[p]] # Empty
    <3>1. /\ UNCHANGED <<call, tgt, lnk, fd>> /\ val'[p] = count[fd[p]]
          /\ pc'[p] = IF count[fd[p]] - 1 = 0 THEN "unlinkStor" ELSE "writeDecr"
          /\ InHand(p)' = {}
      BY <1>1, <1>8, <2>3 DEF LockDecr, Goto, local, ProcType, InHand
    <3>2. count[fd[p]] \in Nat
      BY <2>1, <2>3 DEF FsType
    <3>3. pc'[p] = "unlinkStor" => val'[p] = 1
      BY <3>1, <3>2
    <3>4. QED
      BY <1>1, <1>2, <1>3, <2>1, <3>1, <3>3, ReadTidy DEF Tidy, LinkKnows, UnlinkKnows
  <2>4. QED
    BY <2>2, <2>3
<1>9. CASE WriteDecr(p)
  <2>1. /\ UNCHANGED <<dirent, lfile, call, tgt, lnk>> /\ pc[p] = "writeDecr" /\ pc'[p] = "unlinkName"
        /\ InHand(p)' = {s} /\ fd[p] = lfile[s] /\ fd[p] \in Inodes
        /\ val[p] = count[fd[p]] /\ val[p] \in Nat \ {0, 1}
        /\ count' = [count EXCEPT ![fd[p]] = val[p] - 1]
    BY <1>9 DEF WriteDecr, At, Goto, local, ProcType, InHand, Tidy, UnlinkKnows, LocalOK, FdSteps,
                Counted, LockOK, Locked
  <2>2. \A x \in Stor : Links(x)' = Links(x)
    BY <2>1 DEF Links
  <2>3. Stored(s, -1)' /\ Links(s)' # {u}
    <3>1. count[lfile[s]] = Cardinality(Links(s)) + 0 /\ Cardinality(Links(s)) \in Nat
      BY <1>2, <2>1, LinksFinite DEF Stored
    <3>2. count[lfile[s]] = Cardinality(Links(s))
      BY <3>1
    <3>3. Cardinality(Links(s)) # 1
      BY <2>1, <3>2
    <3>4. Links(s) # {u}
      BY <3>3, FS_Singleton
    <3>5. count'[lfile[s]] = Cardinality(Links(s)) + (-1)
      BY <2>1, <3>1, <3>2 DEF FsType
    <3>6. QED
      BY <1>2, <2>1, <2>2, <3>4, <3>5 DEF Stored
  <2>4. \A x \in Stor \ {s} : Whole(x)'
    BY <1>1, <1>2, <2>1, <2>2 DEF Tidy, Whole, Void, Stored, FsType, Flat
  <2>5. QED
    BY <1>1, <1>2, <1>3, <2>1, <2>3, <2>4 DEF Tidy, LinkKnows, UnlinkKnows, Flat
<1>10. CASE UnlinkStor(p)
  <2>1. pc[p] = "unlinkStor" /\ fd[p] = lfile[s] /\ val[p] = count[fd[p]] /\ val[p] = 1
    BY <1>10 DEF UnlinkStor, At, Tidy, UnlinkKnows, Counted, LockOK, Locked
  <2>2. Stored(s, 0) /\ u \in Links(s) /\ dirent[s] # Absent /\ s \in Stor /\ dirent[u] = s /\ InHand(p) = {}
    BY <1>2, <2>1, Distinct DEF Stored
  <2>3. Links(s) = {u}
    <3>1. Cardinality(Links(s)) = 1
      <4>1. Cardinality(Links(s)) + 0 = 1
        BY <2>1, <2>2 DEF Stored
      <4>2. QED
        BY <4>1, LinksFinite
    <3>2. QED
      BY <2>2, <3>1, LinksFinite, FS_Singleton
  <2>4. /\ UNCHANGED <<lfile, count, call, tgt, lnk>> /\ pc'[p] = "unlinkLinks" /\ InHand(p)' = {s}
        /\ dirent' = [dirent EXCEPT ![s] = Absent]
    BY <1>1, <1>10, <2>2 DEF UnlinkStor, Goto, local, ProcType, InHand
  <2>5. /\ \A x \in Stor : Links(x)' = Links(x)
        /\ \A q \in Paths \ {s} : dirent'[q] = dirent[q]
        /\ dirent'[s] = Absent /\ u \in Paths \ {s} /\ Stor \subseteq Paths
    BY <1>1, <2>2, <2>4, Distinct DEF Links, FsType, Paths
  <2>6. \A x \in Stor \ {s} : Whole(x)'
    <3>1. \A x \in Stor \ {s} : Whole(x)
      BY <2>2 DEF Tidy
    <3>2. QED
      BY <2>4, <2>5, <3>1 DEF Whole, Void, Stored
  <2>7. Flat'
    BY <1>1, <2>4, <2>5, Distinct DEF Flat
  <2>8. Made(s)' /\ Links(s)' = {u} /\ dirent'[u] = s
    BY <2>2, <2>3, <2>4, <2>5 DEF Made, Stored
  <2>9. QED
    BY <1>1, <1>3, <2>2, <2>4, <2>6, <2>7, <2>8 DEF Tidy, LinkKnows, UnlinkKnows
<1>11. CASE UnlinkLinks(p)
  <2>1. pc[p] = "unlinkLinks" /\ InHand(p) = {s} /\ s \in Stor /\ dirent[u] = s /\ Made(s) /\ Links(s) = {u}
    BY <1>11 DEF UnlinkLinks, At, InHand, Tidy, UnlinkKnows
  <2>2. /\ UNCHANGED <<dirent, count, call, tgt, lnk>> /\ pc'[p] = "unlinkName" /\ InHand(p)' = {s}
        /\ lfile' = [lfile EXCEPT ![s] = NoInode]
    BY <1>11, <2>1 DEF UnlinkLinks, HasLinks, Made, Goto, local, ProcType, InHand
  <2>3. /\ \A x \in Stor : Links(x)' = Links(x)
        /\ \A x \in Stor \ {s} : lfile'[x] = lfile[x]
        /\ lfile'[s] = NoInode
    BY <2>1, <2>2 DEF Links, FsType
  <2>4. \A x \in Stor \ {s} : Whole(x)'
    BY <2>1, <2>2, <2>3 DEF Tidy, Whole, Void, Stored
  <2>5. Flat' /\ Void(s)' /\ Links(s)' = {u}
    BY <1>1, <2>1, <2>2, <2>3 DEF Flat, Void, Made
  <2>6. QED
    BY <1>1, <1>3, <2>1, <2>2, <2>4, <2>5 DEF Tidy, LinkKnows, UnlinkKnows
<1>12. CASE UnlinkName(p)
  <2>1. \/ /\ pc[p] = "unlinkName" /\ InHand(p) = {s} /\ s \in Stor /\ dirent[u] = s
           /\ \/ Void(s) /\ Links(s) = {u}
              \/ Stored(s, -1) /\ Links(s) # {u}
        \/ pc[p] = "unlinkPlain" /\ InHand(p) = {} /\ dirent[u] \in Files
    BY <1>1, <1>12 DEF UnlinkName, At, InHand, Tidy, UnlinkKnows
  <2>2. dirent[u] # Absent
    BY <2>1, Distinct DEF Paths
  <2>3. dirent' = [dirent EXCEPT ![u] = Absent] /\ UNCHANGED <<lfile, count>> /\ UnlinkReturn(p, "ok")
    BY <1>12, <2>2 DEF UnlinkName
  <2>4. /\ \A x \in Stor : Links(x)' = Links(x) \ {u}
        /\ \A x \in Stor : dirent[u] # x => Links(x)' = Links(x)
        /\ \A x \in Stor : dirent[u] = x =>
             u \in Links(x) /\ Cardinality(Links(x)') = Cardinality(Links(x)) - 1
        /\ \A q \in Paths \ {u} : dirent'[q] = dirent[q]
        /\ dirent'[u] = Absent
    <3>1. Absent \notin Stor
      BY Distinct DEF Paths
    <3> HIDE DEF u
    <3>2. QED
      BY <1>1, <2>3, <3>1, LinkRemoved
  <2>5. u \notin Stor /\ Stor \subseteq Paths /\ \A x \in Stor : dirent'[x] = dirent[x]
    BY <1>1, <2>4, Distinct DEF Paths
  <2>6. \A x \in Stor : dirent[u] # x => Whole(x)'
    <3>1. \A x \in Stor : dirent[u] # x => Whole(x)
      BY <2>1 DEF Tidy
    <3>2. QED
      BY <2>3, <2>4, <2>5, <3>1 DEF Whole, Void, Stored
  <2>7. ASSUME NEW x \in Stor, dirent[u] = x
        PROVE  Whole(x)'
    <3>1. \/ Void(x) /\ Links(x) = {u}
          \/ Stored(x, -1) /\ Links(x) # {u}
      BY <2>1, <2>7, Distinct DEF Paths
    <3>2. CASE Void(x) /\ Links(x) = {u}
      BY <2>3, <2>4, <2>5, <3>2 DEF Whole, Void
    <3>3. CASE Stored(x, -1) /\ Links(x) # {u}
      <4>1. count[lfile[x]] = Cardinality(Links(x)) + (-1)
        BY <3>3 DEF Stored
      <4>2. \A k \in Nat : k + (-1) = (k - 1) + 0
        OBVIOUS
      <4>3. count[lfile[x]] = Cardinality(Links(x)') + 0
        BY <2>4, <2>7, <4>1, <4>2, LinksFinite
      <4>4. Links(x)' # {}
        BY <2>4, <2>7, <3>3
      <4>5. QED
        BY <2>3, <2>5, <3>3, <4>3, <4>4 DEF Whole, Stored
    <3>4. QED
      BY <3>1, <3>2, <3>3
  <2>8. Flat'
    BY <1>1, <2>3, <2>4, Distinct DEF Flat
  <2>9. call[p].op = "rename" => dirent'[call[p].new] = Absent
    BY <1>1, <2>4
  <2>10. QED
    BY <1>1, <2>3, <2>6, <2>7, <2>8, <2>9, UnlinkReturnTidy
<1>13. QED
  BY <1>5, <1>6, <1>7, <1>8, <1>9, <1>10, <1>11, <1>12 DEF Unlink

OneInv == IInv /\ \A p \in Procs : Tidy(p)

LEMMA InitOne ==
  ASSUME Sequential
  PROVE  Init => OneInv
<1> SUFFICES ASSUME Init, NEW p \in Procs PROVE Tidy(p)
  BY InitIInv DEF OneInv
<1>1. pc[p] = "idle" /\ call[p] = NoCall
  BY DEF Init
<1>2. FsType
  BY InitIInv DEF IInv
<1>3. \A q \in Paths : dirent[q] \in Paths => q \in Names /\ dirent[q] \in Stor /\ dirent[dirent[q]] # Absent
  BY DEF Init, Sequential
<1>4. Flat
  BY <1>3 DEF Flat, Init
<1>5. ASSUME NEW s \in Stor PROVE Whole(s)
  <2>1. CASE dirent[s] = Absent
    <3>1. lfile[s] = NoInode
      BY <2>1 DEF Init
    <3>2. Links(s) = {}
      BY <1>3, <2>1 DEF Links, Paths
    <3>3. QED
      BY <2>1, <3>1, <3>2 DEF Whole, Void
  <2>2. CASE dirent[s] # Absent
    <3>1. dirent[s] \in Files /\ lfile[s] # NoInode /\ Links(s) # {} /\ lfile[s] \in Inodes
      <4>1. dirent \in InitDirs
        BY DEF Init
      <4>2. dirent[s] \in Files /\ \E n \in Names : dirent[n] = s
        BY <2>2, <4>1, Parameters
      <4>3. QED
        BY <2>2, <4>2, <1>2 DEF Init, Links, FsType
    <3>2. StoredAt(lfile[s]) = {s}
      BY <3>1 DEF StoredAt, Init
    <3>3. {q \in Paths : dirent[q] \in StoredAt(lfile[s])} = Links(s)
      BY <1>3, <3>2 DEF Links, Paths
    <3>4. count[lfile[s]] = Cardinality(Links(s))
      BY <3>1, <3>2, <3>3 DEF Init, NamesAt
    <3>5. count[lfile[s]] = Cardinality(Links(s)) + 0
      BY <3>4, LinksFinite
    <3>6. QED
      BY <3>1, <3>5 DEF Whole, Stored
  <2>3. QED
    BY <2>1, <2>2
<1>6. QED
  BY <1>1, <1>4, <1>5 DEF Tidy, InHand, LinkKnows, UnlinkKnows, NoCall

LEMMA NextOne ==
  ASSUME Sequential
  PROVE  OneInv /\ [Next]_vars => OneInv'
<1> SUFFICES ASSUME OneInv, [Next]_vars PROVE OneInv'
  OBVIOUS
<1>1. IInv'
  BY NextTyped, NextCounted, NextReserved DEF OneInv, IInv
<1>2. SUFFICES ASSUME NEW p \in Procs PROVE Tidy(p)'
  BY <1>1 DEF OneInv
<1>3. CASE UNCHANGED vars
  <2>1. UNCHANGED <<dirent, lfile, count>> /\ InHand(p)' = InHand(p)
    BY <1>3 DEF vars, InHand
  <2>2. (LinkKnows(p) <=> LinkKnows(p)') /\ (UnlinkKnows(p) <=> UnlinkKnows(p)')
    BY <1>3 DEF vars, LinkKnows, UnlinkKnows, UnlinkPath, RenameTo, Made, Void, Stored, Links
  <2>3. QED
    BY <2>1, <2>2, ReadTidy DEF OneInv, Tidy
<1>4. CASE Next
  <2>1. Start(p) \/ Step(p) \/ Crash(p)
    BY <1>4 DEF Next, Sequential
  <2>2. ~Crash(p) /\ ~IOErrors /\ \A q \in Procs : q = p
    BY DEF Crash, Sequential
  <2>3. QED
    BY <2>1, <2>2, StartOne, LinkOne, RenameOne, UnlinkOne DEF Step, OneInv, IInv
<1>5. QED
  BY <1>3, <1>4

LEMMA InvarianceOne ==
  ASSUME Sequential
  PROVE  Spec => []OneInv
  BY InitOne, NextOne, PTL DEF Spec

\* Nothing is left over between the calls of one process: a count is the
\* number of names, a stored file has a name, a link file has its storage
\* (HxLink2symlink, HxL2sUnlink).
THEOREM CountsExactBetweenCalls ==
  ASSUME Sequential
  PROVE  Spec => []CountExact
<1>1. OneInv => CountExact
  <2> SUFFICES ASSUME OneInv, Quiet, NEW s \in Stor
               PROVE  IF lfile[s] = NoInode
                      THEN dirent[s] = Absent /\ Refs(s) = {}
                      ELSE /\ dirent[s] \in Files
                           /\ count[lfile[s]] = Cardinality(Refs(s))
                           /\ Refs(s) # {}
    BY DEF CountExact
  <2>1. PICK p \in Procs : Tidy(p) /\ InHand(p) = {}
    BY DEF Sequential, OneInv, Quiet, At, IInv, ProcType, LocalOK, InHand
  <2>2. Refs(s) = Links(s)
    BY <2>1 DEF Refs, Links, Quiet, At, Tidy, Flat, Paths
  <2>3. Cardinality(Links(s)) + 0 = Cardinality(Links(s))
    BY LinksFinite
  <2>4. Whole(s)
    BY <2>1 DEF Tidy
  <2>5. QED
    BY <2>2, <2>3, <2>4, Distinct DEF Whole, Void, Stored
<1>2. QED
  BY InvarianceOne, <1>1, PTL

-----------------------------------------------------------------------------
(* One process implements hard links.                                      *)

\* What a name shows, read off the directory.
Seen(p, n) == IF pc[p] = "symlinkOld" /\ call[p].old = n THEN dirent[tgt[p]] ELSE Leads(n)

LEMMA ViewSeen ==
  ASSUME Sequential
  PROVE  OneInv => \A p \in Procs, n \in Names : View(n) = Seen(p, n) /\ View(n) \in Files \cup {Absent}
<1> SUFFICES ASSUME OneInv, NEW p \in Procs, NEW n \in Names
             PROVE  View(n) = Seen(p, n) /\ View(n) \in Files \cup {Absent}
  OBVIOUS
<1>1. FsType /\ ProcType /\ Flat /\ n \in Paths
  BY DEF OneInv, IInv, Tidy, Paths
<1>2. Procs = {p}
  BY DEF Sequential
<1>3. CASE pc[p] = "symlinkOld" /\ call[p].old = n
  <2>1. tgt[p] \in Stor /\ dirent[tgt[p]] \in Files
    BY <1>3 DEF OneInv, Tidy, LinkKnows, Stored, IInv, ProcType, LocalOK
  <2>2. Content(tgt[p]) = dirent[tgt[p]]
    BY <1>1, <2>1, RealPathFlat, Distinct DEF Leads, Paths
  <2>3. View(n) = Content(tgt[p])
    <3>1. {r \in Procs : At(r, "symlinkOld") /\ call[r].old = n} = {p}
      BY <1>2, <1>3 DEF At
    <3>2. (CHOOSE r \in {p} : TRUE) = p
      OBVIOUS
    <3>3. QED
      BY <3>1, <3>2 DEF View
  <2>4. QED
    BY <1>3, <2>1, <2>2, <2>3 DEF Seen
<1>4. CASE ~(pc[p] = "symlinkOld" /\ call[p].old = n)
  <2>1. {r \in Procs : At(r, "symlinkOld") /\ call[r].old = n} = {}
    BY <1>2, <1>4 DEF At
  <2>2. View(n) = Content(n)
    BY <2>1 DEF View
  <2>3. QED
    BY <1>1, <1>4, <2>2, RealPathFlat, RealPathType DEF Seen
<1>5. QED
  BY <1>3, <1>4

\* A step that leaves the directory alone shows the guest nothing new.
LEMMA SameSeen ==
  ASSUME NEW p \in Procs, UNCHANGED dirent, pc[p] # "symlinkOld", pc'[p] # "symlinkOld"
  PROVE  \A n \in Names : Seen(p, n)' = Seen(p, n)
  BY DEF Seen, Leads

\* What the guest sees of a step of the process: a stutter, or one of the
\* steps of HardLinks.
SeenStep(p) ==
  \/ \A n \in Names : Seen(p, n)' = Seen(p, n)
  \/ \E o, n \in Names :
       /\ Seen(p, o) # Absent /\ Seen(p, n) = Absent
       /\ Seen(p, n)' = Seen(p, o)
       /\ \A m \in Names \ {n} : Seen(p, m)' = Seen(p, m)
  \/ \E o, n \in Names :
       /\ o # n /\ Seen(p, o) # Absent /\ Seen(p, n) = Absent
       /\ Seen(p, n)' = Seen(p, o) /\ Seen(p, o)' = Absent
       /\ \A m \in Names \ {o, n} : Seen(p, m)' = Seen(p, m)
  \/ \E n \in Names :
       /\ Seen(p, n) # Absent /\ Seen(p, n)' = Absent
       /\ \A m \in Names \ {n} : Seen(p, m)' = Seen(p, m)

LEMMA StartSeen ==
  ASSUME FsType, ProcType, NEW p \in Procs, Tidy(p), Start(p)
  PROVE  SeenStep(p)
<1>1. UNCHANGED dirent /\ pc[p] = "idle" /\ pc'[p] \in {"accessNew", "readlink", "statNew"}
  BY DEF Start, CallLink, CallUnlink, CallRename, Begin, fs, At, Goto, ProcType
<1>2. QED
  BY <1>1, SameSeen DEF SeenStep

LEMMA LinkSeen ==
  ASSUME FsType, ProcType, NEW p \in Procs, Tidy(p), Link(p), ~IOErrors
  PROVE  SeenStep(p)
<1>0. call[p].op = "link" /\ call[p].old \in Names /\ call[p].new \in Names /\ Flat /\ pc[p] # "idle"
  BY DEF Link, AccessNew, ResolveOld, AccessLinks, OpenIncr, LockIncr, WriteIncr, CreateLinks,
         WriteTwo, SymlinkOld, SymlinkNew, SymlinkAt, SymlinkFails, At, LinkSteps, ProcType, LocalOK, Tidy
<1> PICK old \in Names, new \in Names : old = call[p].old /\ new = call[p].new
  BY <1>0
<1>1. call[p].op = "link" /\ old = call[p].old /\ new = call[p].new /\ Flat
  BY <1>0
<1>2. CASE \/ AccessNew(p) \/ ResolveOld(p) \/ AccessLinks(p) \/ OpenIncr(p) \/ LockIncr(p)
           \/ WriteIncr(p) \/ CreateLinks(p) \/ WriteTwo(p)
  <2>1. UNCHANGED dirent /\ pc[p] # "symlinkOld" /\ pc'[p] # "symlinkOld"
    BY <1>2 DEF AccessNew, ResolveOld, AccessLinks, OpenIncr, LockIncr, WriteIncr, CreateLinks,
                WriteTwo, At, Goto, Return, fs, ProcType
  <2>2. QED
    BY <2>1, SameSeen DEF SeenStep
<1>3. CASE SymlinkOld(p)
  <2>1. /\ pc[p] = "symlinkOld" /\ pc'[p] = "symlinkNew" /\ UNCHANGED <<call, tgt>>
        /\ dirent' = [dirent EXCEPT ![old] = tgt[p]] /\ tgt[p] \in Stor
    BY <1>1, <1>3 DEF SymlinkOld, SymlinkAt, At, Goto, local, ProcType, LocalOK
  <2> PICK s \in Stor : s = tgt[p]
    BY <2>1
  <2>2. dirent[old] = Absent /\ old # new /\ Links(s) = {} /\ dirent[s] \in Files
    BY <1>1, <2>1 DEF Tidy, LinkKnows, Stored
  <2>3. dirent'[old] = s /\ \A q \in Paths \ {old} : dirent'[q] = dirent[q]
    BY <1>1, <2>1 DEF FsType, Paths
  <2>4. old \notin Stor /\ Stor \subseteq Paths /\ Names \subseteq Paths
    BY <1>1, Distinct DEF Paths
  <2>5. ASSUME NEW n \in Names PROVE Seen(p, n)' = Seen(p, n)
    <3>1. CASE n = old
      BY <2>1, <2>3, <2>4, <3>1 DEF Seen, Leads
    <3>2. CASE n # old
      BY <1>1, <2>1, <2>3, <2>4, <3>2 DEF Seen, Leads, Flat
    <3>3. QED
      BY <3>1, <3>2
  <2>6. QED
    BY <2>5 DEF SeenStep
<1>4. CASE SymlinkNew(p)
  <2>1. /\ pc[p] = "symlinkNew" /\ pc'[p] = "idle" /\ dirent' = [dirent EXCEPT ![new] = tgt[p]]
    BY <1>1, <1>4 DEF SymlinkNew, SymlinkAt, At, Return, Goto, ProcType
  <2> PICK s \in Stor : s = tgt[p]
    BY <2>1 DEF Tidy, LinkKnows
  <2>2. dirent[new] = Absent /\ dirent[old] = s /\ dirent[s] \in Files /\ old # new
    BY <1>1, <2>1, Distinct DEF Tidy, LinkKnows, Stored, Paths
  <2>3. dirent'[new] = s /\ \A q \in Paths \ {new} : dirent'[q] = dirent[q]
    BY <1>1, <2>1 DEF FsType, Paths
  <2>4. new \notin Stor /\ Stor \subseteq Paths /\ Names \subseteq Paths
    BY <1>1, Distinct DEF Paths
  <2>5. Seen(p, old) = dirent[s] /\ Seen(p, new) = Absent /\ Seen(p, new)' = dirent[s]
    BY <1>1, <2>1, <2>2, <2>3, <2>4, Distinct DEF Seen, Leads
  <2>6. \A m \in Names \ {new} : Seen(p, m)' = Seen(p, m)
    BY <1>1, <2>1, <2>3, <2>4 DEF Seen, Leads, Flat
  <2>7. dirent[s] # Absent
    BY <2>2, Distinct
  <2>8. QED
    BY <1>1, <2>5, <2>6, <2>7 DEF SeenStep
<1>5. CASE SymlinkFails(p)
  BY <1>1, <1>5, Distinct DEF SymlinkFails, At, Tidy, LinkKnows
<1>6. QED
  BY <1>2, <1>3, <1>4, <1>5 DEF Link

LEMMA RenameSeen ==
  ASSUME FsType, ProcType, NEW p \in Procs, Tidy(p), Rename(p)
  PROVE  SeenStep(p)
<1>0. /\ pc[p] \in {"statNew", "rename"} /\ call[p].op \in {"link", "rename"}
      /\ call[p].old \in Names /\ call[p].new \in Names /\ Flat
  BY DEF Rename, StatNew, RenameReal, RenameFails, At, ProcType, LocalOK, Calls, Tidy
<1> PICK old \in Names, new \in Names : old = call[p].old /\ new = call[p].new
  BY <1>0
<1>1. /\ pc[p] \in {"statNew", "rename"} /\ call[p].op \in {"link", "rename"}
      /\ old = call[p].old /\ new = call[p].new /\ Flat
  BY <1>0
<1>2. CASE StatNew(p) \/ RenameFails(p)
  <2>1. UNCHANGED dirent /\ pc'[p] # "symlinkOld"
    BY <1>1, <1>2 DEF StatNew, RenameFails, Goto, Return, fs, ProcType
  <2>2. QED
    BY <1>1, <2>1, SameSeen DEF SeenStep
<1>3. CASE RenameReal(p) /\ call[p].op = "link"
  <2> PICK s \in Stor : s = tgt[p]
    BY <1>1, <1>3 DEF RenameReal, At, ProcType, LocalOK
  <2>1. dirent[old] \in Files /\ Links(s) = {} /\ s = tgt[p] /\ pc[p] = "rename"
    BY <1>1, <1>3 DEF RenameReal, At, Tidy, LinkKnows
  <2>2. /\ dirent' = [dirent EXCEPT ![s] = dirent[old], ![old] = Absent] /\ UNCHANGED <<call, tgt>>
        /\ pc'[p] = "symlinkOld"
    BY <1>1, <1>3, <2>1, Distinct DEF RenameReal, RenameTo, Goto, local, ProcType
  <2>3. /\ dirent'[s] = dirent[old] /\ old \notin Stor
        /\ \A q \in Paths \ {s, old} : dirent'[q] = dirent[q]
        /\ Stor \subseteq Paths /\ Names \subseteq Paths /\ s \notin Names /\ dirent[old] \notin Paths
    BY <1>1, <2>1, <2>2, Distinct DEF FsType, Paths
  <2>4. \A n \in Names : dirent[n] # s
    BY <2>1 DEF Links
  <2>5. ASSUME NEW n \in Names PROVE Seen(p, n)' = Seen(p, n)
    <3>1. CASE n = old
      BY <2>1, <2>2, <2>3, <3>1 DEF Seen, Leads
    <3>2. CASE n # old
      <4>1. dirent'[n] = dirent[n] /\ (dirent[n] \in Paths => dirent'[dirent[n]] = dirent[dirent[n]])
        BY <1>1, <2>3, <2>4, <3>2 DEF Flat
      <4>2. QED
        BY <2>1, <2>2, <3>2, <4>1 DEF Seen, Leads
    <3>3. QED
      BY <3>1, <3>2
  <2>6. QED
    BY <2>5 DEF SeenStep
<1>4. CASE RenameReal(p) /\ call[p].op = "rename"
  <2>1. /\ dirent[old] # Absent /\ pc[p] = "rename" /\ pc'[p] = "idle"
        /\ dirent[new] = Absent /\ InHand(p) = {}
    BY <1>1, <1>4 DEF RenameReal, At, Tidy, UnlinkKnows, InHand, Return, Goto, ProcType
  <2>2. dirent' = [dirent EXCEPT ![new] = dirent[old], ![old] = Absent] /\ old # new
    BY <1>1, <1>4, <2>1 DEF RenameReal, RenameTo
  <2>3. /\ dirent'[new] = dirent[old] /\ dirent'[old] = Absent
        /\ \A q \in Paths \ {new, old} : dirent'[q] = dirent[q]
        /\ Stor \subseteq Paths /\ Names \subseteq Paths /\ new \notin Stor /\ old \notin Stor
    BY <1>1, <2>2, Distinct DEF FsType, Paths
  <2>4. Leads(old) # Absent
    BY <1>1, <2>1, <2>3, OneLeads, RealPathFlat
  <2>5. Seen(p, old) = Leads(old) /\ Seen(p, new) = Absent
    BY <2>1, Distinct DEF Seen, Leads
  <2>6. Seen(p, new)' = Leads(old) /\ Seen(p, old)' = Absent
    <3>1. dirent[old] \in Paths => dirent'[dirent[old]] = dirent[dirent[old]]
      BY <1>1, <2>3 DEF Flat
    <3>2. QED
      BY <2>1, <2>3, <3>1, Distinct DEF Seen, Leads
  <2>7. \A m \in Names \ {new, old} : Seen(p, m)' = Seen(p, m)
    BY <1>1, <2>1, <2>3 DEF Seen, Leads, Flat
  <2>8. QED
    BY <1>1, <2>2, <2>4, <2>5, <2>6, <2>7 DEF SeenStep
<1>5. QED
  BY <1>1, <1>2, <1>3, <1>4 DEF Rename

LEMMA UnlinkSeen ==
  ASSUME FsType, ProcType, Counted, Reserved, NEW p \in Procs, Tidy(p), Unlink(p)
  PROVE  SeenStep(p)
<1>0. UnlinkPath(p) \in Names
  BY DEF Unlink, Readlink, AccessLnk, OpenDecr, LockDecr, WriteDecr, UnlinkStor, UnlinkLinks,
         UnlinkName, At, UnlinkSteps, ProcType, LocalOK, Calls, Reserved, UnlinkPath, RenameTo
<1> PICK u \in Names : u = UnlinkPath(p)
  BY <1>0
<1>1. /\ pc[p] \in UnlinkSteps /\ u = UnlinkPath(p) /\ Flat
      /\ Stor \subseteq Paths /\ Names \subseteq Paths /\ u \notin Stor
  BY Distinct DEF Unlink, Readlink, AccessLnk, OpenDecr, LockDecr, WriteDecr, UnlinkStor, UnlinkLinks,
         UnlinkName, At, UnlinkSteps, Tidy, Paths
<1>2. pc[p] # "symlinkOld" /\ pc'[p] # "symlinkOld"
  BY <1>1 DEF Unlink, Readlink, AccessLnk, OpenDecr, LockDecr, WriteDecr, UnlinkStor, UnlinkLinks,
         UnlinkName, UnlinkReturn, Return, Goto, UnlinkSteps, ProcType
<1>3. \A n \in Names : Seen(p, n) = Leads(n) /\ Seen(p, n)' = Leads(n)'
  BY <1>2 DEF Seen
<1>4. CASE \/ Readlink(p) \/ AccessLnk(p) \/ OpenDecr(p) \/ LockDecr(p) \/ WriteDecr(p) \/ UnlinkLinks(p)
  <2>1. UNCHANGED dirent
    BY <1>4 DEF Readlink, AccessLnk, OpenDecr, LockDecr, WriteDecr, UnlinkLinks, fs
  <2>2. QED
    BY <1>2, <2>1, SameSeen DEF SeenStep
<1>5. CASE UnlinkStor(p)
  <2> PICK s \in Stor : s = lnk[p]
    BY <1>5 DEF UnlinkStor, At, Tidy, UnlinkKnows
  <2>1. /\ pc[p] = "unlinkStor" /\ dirent[u] = s /\ s = lnk[p] /\ InHand(p) = {}
        /\ fd[p] = lfile[s] /\ val[p] = 1 /\ val[p] = count[fd[p]]
    BY <1>1, <1>5 DEF UnlinkStor, At, Tidy, UnlinkKnows, InHand, Counted, LockOK, Locked
  <2>2. Stored(s, 0) /\ u \in Links(s)
    BY <1>1, <2>1, OneWhole
  <2>3. Links(s) = {u}
    <3>1. Cardinality(Links(s)) + 0 = 1
      BY <2>1, <2>2 DEF Stored
    <3>2. QED
      BY <2>2, <3>1, LinksFinite, FS_Singleton
  <2>4. dirent[s] \in Files /\ dirent[s] # Absent
    BY <2>2, Distinct DEF Stored
  <2>5. dirent'[s] = Absent /\ \A q \in Paths \ {s} : dirent'[q] = dirent[q]
    BY <1>5, <2>1, <2>4 DEF UnlinkStor, FsType, Paths
  <2>6. Leads(u) # Absent /\ Leads(u)' = Absent
    BY <1>1, <2>1, <2>4, <2>5 DEF Leads
  <2>7. ASSUME NEW m \in Names \ {u} PROVE Leads(m)' = Leads(m)
    <3>1. dirent[m] # s /\ m # s
      BY <2>3, <1>1, <2>1, Distinct DEF Links
    <3>2. QED
      BY <1>1, <2>5, <3>1 DEF Leads
  <2>8. QED
    BY <1>1, <1>3, <2>6, <2>7 DEF SeenStep
<1>6. CASE UnlinkName(p)
  <2>1. dirent[u] \in Stor \cup Files
    BY <1>1, <1>6 DEF UnlinkName, At, Tidy, UnlinkKnows
  <2>2. dirent[u] # Absent
    BY <2>1, Distinct DEF Paths
  <2>3. dirent'[u] = Absent /\ \A q \in Paths \ {u} : dirent'[q] = dirent[q]
    BY <1>1, <1>6, <2>2 DEF UnlinkName, FsType
  <2>4. \A m \in Names \ {u} : Leads(m)' = Leads(m)
    BY <1>1, <2>3 DEF Leads, Flat
  <2>5. Leads(u)' = Absent
    BY <2>3, Distinct DEF Leads
  <2>6. CASE Leads(u) = Absent
    <3>1. \A m \in Names : Leads(m)' = Leads(m)
      BY <2>4, <2>5, <2>6
    <3>2. QED
      BY <1>3, <3>1 DEF SeenStep
  <2>7. CASE Leads(u) # Absent
    BY <1>1, <1>3, <2>4, <2>5, <2>7 DEF SeenStep
  <2>8. QED
    BY <2>6, <2>7
<1>7. QED
  BY <1>4, <1>5, <1>6 DEF Unlink

\* The three calls of one process implement hard links on the names as the
\* guest sees them, through every intermediate state of a conversion and of
\* a removal.
THEOREM HardLinksImplemented ==
  ASSUME Sequential
  PROVE  Spec => ImplementsHardLinks
<1> DEFINE Sees == \A p \in Procs, n \in Names : View(n) = Seen(p, n) /\ View(n) \in Files \cup {Absent}
<1>1. Init => Hard!Init
  BY InitOne, ViewSeen DEF Hard!Init, Hard!Type, Sequential
<1>2. OneInv => Sees
  BY ViewSeen
<1>3. OneInv /\ Sees /\ Sees' /\ [Next]_vars => [Hard!Next]_([n \in Names |-> View(n)])
  <2> SUFFICES ASSUME OneInv, Sees, Sees', [Next]_vars
               PROVE  Hard!Next \/ [n \in Names |-> View(n)]' = [n \in Names |-> View(n)]
    OBVIOUS
  <2> PICK p \in Procs : Procs = {p}
    BY DEF Sequential
  <2>1. \A n \in Names : View(n) = Seen(p, n) /\ View(n)' = Seen(p, n)'
    OBVIOUS
  <2>2. SeenStep(p)
    <3>1. CASE UNCHANGED vars
      BY <3>1 DEF vars, SeenStep, Seen, Leads
    <3>2. CASE Next
      <4>1. Start(p) \/ Step(p) \/ Crash(p)
        BY <3>2 DEF Next
      <4>2. ~Crash(p) /\ ~IOErrors
        BY DEF Crash, Sequential
      <4>3. QED
        BY <4>1, <4>2, StartSeen, LinkSeen, RenameSeen, UnlinkSeen DEF Step, OneInv, IInv
    <3>3. QED
      BY <3>1, <3>2
  <2> HIDE DEF Sees
  <2> DEFINE shown == [n \in Names |-> View(n)]
  <2>3. CASE \A n \in Names : Seen(p, n)' = Seen(p, n)
    BY <2>1, <2>3
  <2>4. ASSUME NEW o \in Names, NEW n \in Names,
               Seen(p, o) # Absent, Seen(p, n) = Absent, Seen(p, n)' = Seen(p, o),
               \A m \in Names \ {n} : Seen(p, m)' = Seen(p, m)
        PROVE  Hard!Link(o, n)
    <3>1. shown' = [shown EXCEPT ![n] = shown[o]]
      BY <2>1, <2>4
    <3>2. shown[o] # Absent /\ shown[n] = Absent
      BY <2>1, <2>4
    <3>3. QED
      BY <3>1, <3>2 DEF Hard!Link
  <2>5. ASSUME NEW o \in Names, NEW n \in Names, o # n,
               Seen(p, o) # Absent, Seen(p, n) = Absent,
               Seen(p, n)' = Seen(p, o), Seen(p, o)' = Absent,
               \A m \in Names \ {o, n} : Seen(p, m)' = Seen(p, m)
        PROVE  Hard!Move(o, n)
    <3>1. shown' = [shown EXCEPT ![n] = shown[o], ![o] = Absent]
      BY <2>1, <2>5
    <3>2. shown[o] # Absent /\ shown[n] = Absent
      BY <2>1, <2>5
    <3>3. QED
      BY <2>5, <3>1, <3>2 DEF Hard!Move
  <2>6. ASSUME NEW n \in Names, Seen(p, n) # Absent, Seen(p, n)' = Absent,
               \A m \in Names \ {n} : Seen(p, m)' = Seen(p, m)
        PROVE  Hard!Unlink(n)
    <3>1. shown' = [shown EXCEPT ![n] = Absent]
      BY <2>1, <2>6
    <3>2. shown[n] # Absent
      BY <2>1, <2>6
    <3>3. QED
      BY <3>1, <3>2 DEF Hard!Unlink
  <2>7. QED
    BY <2>2, <2>3, <2>4, <2>5, <2>6 DEF SeenStep, Hard!Next
<1> HIDE DEF Sees
<1>4. QED
  BY InvarianceOne, <1>1, <1>2, <1>3, PTL DEF Spec, ImplementsHardLinks, Hard!Spec

-----------------------------------------------------------------------------
(***************************************************************************)
(* The hard link emulation while every process removes and creates only    *)
(* names of its own, for any number of processes, and of names that they   *)
(* share as the source of a link: no stored file is counted less often     *)
(* than it is named, and a name that nobody removes keeps its file.        *)
(*                                                                         *)
(* The inductive invariant adds to the one above which links to a          *)
(* storage path are due (they are there, or are about to be, and are       *)
(* counted), that a link file counts them all, that a link no process may  *)
(* remove leads to a file, and what each process knows at each system call.*)
(* It is proved by rely and guarantee: a step of a process guarantees what *)
(* the others know (Guarantee), and needs only what its process knows.     *)
(***************************************************************************)
-----------------------------------------------------------------------------
(* Path resolution: the equation of Walk.                                  *)

LEMMA WalkStep ==
  \A n \in Nat, q \in Paths :
     Walk[n][q] = IF n = 0 \/ dirent[q] \notin Paths THEN q ELSE Walk[n - 1][dirent[q]]
<1> DEFINE X == [Paths -> Paths]
           x0 == [q \in Paths |-> q]
           F == [w \in X |-> [q \in Paths |-> IF dirent[q] \notin Paths THEN q ELSE w[dirent[q]]]]
           G(W, k, x) == IF k = 0 \/ dirent[x] \notin Paths THEN x ELSE W[k - 1][dirent[x]]
           Eq(W) == W = [k \in Nat |-> [x \in Paths |-> G(W, k, x)]]
<1>1. x0 \in X /\ F \in [X -> X]
  OBVIOUS
<1>2. PICK W : Lem!Iterated(W, X, x0, F)
  <2> HIDE DEF X, x0, F
  <2>1. QED
    BY <1>1, Lem!Iterates
<1> USE <1>2 DEF Lem!Iterated
<1>3. ASSUME NEW k \in Nat, NEW x \in Paths PROVE W[k][x] = G(W, k, x)
  <2>1. CASE k = 0
    BY <1>2, <2>1
  <2>2. CASE k # 0
    <3>1. k - 1 \in Nat /\ (k - 1) + 1 = k
      BY <2>2
    <3>2. W[k] = F[W[k - 1]] /\ W[k - 1] \in X
      BY <1>2, <3>1
    <3>3. QED
      BY <2>2, <3>2
  <2>3. QED
    BY <2>1, <2>2
<1>4. Eq(W)
  <2> HIDE DEF G
  <2>1. [k \in Nat |-> [x \in Paths |-> G(W, k, x)]] = W
    BY <1>3
  <2>2. QED
    BY <2>1
<1>5. Walk = CHOOSE V : Eq(V)
  BY DEF Walk
<1>6. Eq(Walk)
  <2> HIDE DEF Eq
  <2>1. QED
    BY <1>4, <1>5
<1>7. QED
  <2> HIDE DEF G
  <2>1. \A k \in Nat, x \in Paths : Walk[k][x] = G(Walk, k, x)
    BY <1>6
  <2>2. QED
    BY <2>1 DEF G

-----------------------------------------------------------------------------
(* Sizes of sets.                                                          *)

LEMMA OneMore ==
  ASSUME NEW D, IsFiniteSet(D), NEW n, NEW E, E \subseteq D \cup {n}
  PROVE  Cardinality(E) \in Nat /\ Cardinality(E) <= Cardinality(D) + 1
<1> DEFINE F == D \cup {n}
<1>1. IsFiniteSet(F) /\ Cardinality(F) = IF n \in D THEN Cardinality(D) ELSE Cardinality(D) + 1
  BY FS_AddElement
<1>2. Cardinality(D) \in Nat
  BY FS_CardinalityType
<1> HIDE DEF F
<1>3. Cardinality(E) \in Nat /\ Cardinality(E) <= Cardinality(F) /\ Cardinality(F) \in Nat
  BY <1>1, FS_Subset, FS_CardinalityType DEF F
<1>4. \A d, e, f \in Nat : e <= f /\ (f = d \/ f = d + 1) => e <= d + 1
  OBVIOUS
<1>5. QED
  BY <1>1, <1>2, <1>3, <1>4

LEMMA OneLess ==
  ASSUME NEW D, IsFiniteSet(D), NEW n \in D, NEW E, E \subseteq D \ {n}
  PROVE  Cardinality(E) \in Nat /\ Cardinality(E) <= Cardinality(D) - 1
<1> DEFINE F == D \ {n}
<1>1. IsFiniteSet(F) /\ Cardinality(F) = Cardinality(D) - 1
  BY FS_RemoveElement
<1> HIDE DEF F
<1>2. QED
  BY <1>1, FS_Subset, FS_CardinalityType DEF F

LEMMA OneMoved ==
  ASSUME NEW D, IsFiniteSet(D), NEW o \in D, NEW n, NEW E, E \subseteq (D \ {o}) \cup {n}
  PROVE  Cardinality(E) \in Nat /\ Cardinality(E) <= Cardinality(D)
<1> DEFINE F == D \ {o}
<1>1. IsFiniteSet(F) /\ Cardinality(F) = Cardinality(D) - 1 /\ Cardinality(D) \in Nat
  BY FS_RemoveElement, FS_CardinalityType
<1> HIDE DEF F
<1>2. Cardinality(E) \in Nat /\ Cardinality(E) <= Cardinality(F) + 1
  BY <1>1, OneMore DEF F
<1>3. \A d \in Nat : (d - 1) + 1 = d
  OBVIOUS
<1>4. QED
  BY <1>1, <1>2, <1>3

-----------------------------------------------------------------------------
(* The invariant.                                                          *)

\* Every process has names of its own; what is given to link() as the
\* existing file belongs to none.  No crash, no failing call, and a
\* directory without symlinks of the guest's own.
Apart ==
  /\ ~Crashes /\ ~IOErrors
  /\ \A p, q \in Procs : p # q => Owned[p] \cap Owned[q] = {}
  /\ Sources \subseteq Pinned
  /\ \A d \in InitDirs, q \in Paths :
       d[q] \in Paths => q \in Names /\ d[q] \in Stor /\ d[d[q]] # Absent

Makes == {"statNew", "rename", "symlinkOld"}

\* q is, or is about to be, a counted link to s ...
Owes(p, s, q) ==
  /\ call[p].op = "link" /\ tgt[p] = s
  /\ \/ pc[p] \in Makes \cup {"symlinkNew"} /\ q = call[p].new
     \/ pc[p] \in Makes /\ q = call[p].old
\* ... or still is one, and no longer counted.
Drops(p, s, q) == pc[p] = "unlinkName" /\ lnk[p] = s /\ UnlinkPath(p) = q

Due(s) ==
  {q \in Paths : \/ dirent[q] = s /\ \A p \in Procs : ~Drops(p, s, q)
                 \/ \E p \in Procs : Owes(p, s, q)}

\* A link file counts every link that is due.
Covers(s) ==
  IF lfile[s] = NoInode \/ count[lfile[s]] = Empty
  THEN Due(s) = {}
  ELSE count[lfile[s]] >= Cardinality(Due(s))

\* A link to s that no process removes: a pinned name's, or a storage
\* path's (a name that was converted twice).
Firm(s) == \/ \E n \in Pinned \cup Stor : dirent[n] = s
           \/ \E p \in Procs : pc[p] = "symlinkOld" /\ tgt[p] = s

Linked ==
  /\ \A q \in Paths : dirent[q] \in Paths => dirent[q] \in Stor
  /\ \A s, u \in Stor : lfile[s] = lfile[u] /\ lfile[s] # NoInode => s = u
  /\ \A s \in Stor : dirent[s] \in Stor => Firm(s)
  /\ \A s \in Stor : Firm(s) => dirent[s] # Absent
  /\ \A s \in Stor : Covers(s)

Owns(p) ==
  /\ call[p].op \in {"link", "rename"} => call[p].new \in Owned[p]
  /\ call[p].op \in {"unlink", "rename"} => call[p].old \in Owned[p]
  /\ call[p].op = "link" => call[p].old \in Pinned

Removes == {"accessLnk", "openDecr", "lockDecr", "writeDecr", "unlinkStor", "unlinkLinks"}

Knows(p) ==
  /\ pc[p] = "accessLinks" => tgt[p] = call[p].old \/ (tgt[p] \in Stor /\ Firm(tgt[p]))
  /\ pc[p] \in {"openIncr", "lockIncr", "writeIncr", "symlinkNew"} => tgt[p] \in Stor /\ Firm(tgt[p])
  /\ pc[p] \in {"lockIncr", "writeIncr"} => fd[p] = lfile[tgt[p]]
  /\ pc[p] = "symlinkOld" => dirent[call[p].old] = Absent
  /\ pc[p] \in Removes => dirent[UnlinkPath(p)] = lnk[p] /\ lnk[p] \in Stor
  /\ pc[p] \in {"lockDecr", "writeDecr", "unlinkStor"} => fd[p] = lfile[lnk[p]]
  /\ pc[p] = "unlinkStor" => val[p] = 1
  /\ pc[p] = "unlinkLinks" => \A s \in Stor : s = lnk[p] => Due(s) \subseteq {UnlinkPath(p)}

OneConverter ==
  \A p, q \in Procs : (/\ pc[p] = "symlinkOld" /\ pc[q] = "symlinkOld"
                       /\ call[p].old = call[q].old) => p = q

OwnedInv == IInv /\ Linked /\ OneConverter /\ \A p \in Procs : Owns(p) /\ Knows(p)

-----------------------------------------------------------------------------
(* Facts of one state.                                                     *)

LEMMA DueFinite ==
  ASSUME NEW s PROVE IsFiniteSet(Due(s)) /\ Cardinality(Due(s)) \in Nat
<1>1. IsFiniteSet(Due(s))
  BY PathsFinite, FS_Subset DEF Due
<1>2. QED
  BY <1>1, FS_CardinalityType

LEMMA FileIsCovered ==
  ASSUME IInv, NEW s \in Stor, dirent[s] # Absent
  PROVE  /\ lfile[s] \in Inodes /\ lfile[s] # NoInode /\ count[lfile[s]] # Empty
         /\ \A p \in Procs : ~Converting(p, s) /\ ~Removing(p, s)
  BY DEF IInv, Reserved, StorageCovered, FsType, Reserves

\* What a process unlinks is its own.
LEMMA UnlinkOwned ==
  ASSUME IInv, NEW p \in Procs, Owns(p), pc[p] \in UnlinkSteps
  PROVE  UnlinkPath(p) \in Owned[p] /\ UnlinkPath(p) \in Names /\ call[p].op \in {"unlink", "rename"}
<1>1. call[p].op \in {"unlink", "rename"}
  BY DEF IInv, Reserved, ProcType, LocalOK, Calls, UnlinkSteps
<1>2. UnlinkPath(p) \in Owned[p]
  BY <1>1 DEF Owns, UnlinkPath, RenameTo
<1>3. QED
  BY <1>1, <1>2, Parameters

LEMMA Ownership ==
  ASSUME Apart, NEW p \in Procs
  PROVE  /\ Owned[p] \subseteq Names /\ Owned[p] \cap Pinned = {} /\ Owned[p] \cap Stor = {}
         /\ \A q \in Procs \ {p} : Owned[p] \cap Owned[q] = {}
         /\ Pinned \subseteq Names /\ Names \subseteq Paths /\ Stor \subseteq Paths
         /\ Pinned \cap Stor = {}
  BY Parameters, Distinct DEF Apart, Pinned, Paths

\* A process owes links of its own and of pinned names, and drops links of
\* its own.
LEMMA OwesDrops ==
  ASSUME Apart, OwnedInv, NEW p \in Procs, NEW s, NEW q
  PROVE  /\ Owes(p, s, q) => q \in Owned[p] \cup Pinned
         /\ Owes(p, s, q) /\ q \in Pinned => q = call[p].old /\ pc[p] \in Makes
         /\ Drops(p, s, q) => q \in Owned[p]
<1>1. Owns(p) /\ IInv
  BY DEF OwnedInv
<1>2. Owes(p, s, q) => call[p].new \in Owned[p] /\ call[p].old \in Pinned
  BY <1>1 DEF Owes, Owns
<1>3. Drops(p, s, q) => q \in Owned[p]
  BY <1>1, UnlinkOwned DEF Drops, UnlinkSteps
<1>4. QED
  BY <1>2, <1>3, Ownership DEF Owes

\* A link of its own that a process has not begun to drop is due.
LEMMA OwnDue ==
  ASSUME Apart, OwnedInv, NEW p \in Procs, NEW s \in Stor, NEW q \in Owned[p],
         dirent[q] = s, ~Drops(p, s, q)
  PROVE  q \in Due(s)
<1>1. \A r \in Procs \ {p} : ~Drops(r, s, q)
  BY OwesDrops, Ownership
<1>2. QED
  BY <1>1, Ownership DEF Due

\* Nobody else owes a link of a process's own.
LEMMA OwnOwes ==
  ASSUME Apart, OwnedInv, NEW p \in Procs, NEW r \in Procs, NEW s, NEW q \in Owned[p], Owes(r, s, q)
  PROVE  r = p
  BY OwesDrops, Ownership

\* Something that leads firmly to s is due, and no process can remove it.
LEMMA FirmDue ==
  ASSUME Apart, OwnedInv, NEW s \in Stor, Firm(s)
  PROVE  \E q \in Due(s) : \A p \in Procs : q \notin Owned[p]
<1>1. CASE \E n \in Pinned \cup Stor : dirent[n] = s
  <2>1. PICK n \in Pinned \cup Stor : dirent[n] = s
    BY <1>1
  <2>2. \A p \in Procs : n \notin Owned[p]
    BY Ownership DEF Pinned
  <2>3. \A p \in Procs : ~Drops(p, s, n)
    BY <2>2, OwesDrops
  <2>4. n \in Paths
    BY <2>1 DEF Pinned, Paths
  <2>5. QED
    BY <2>1, <2>2, <2>3, <2>4 DEF Due
<1>2. CASE \E p \in Procs : pc[p] = "symlinkOld" /\ tgt[p] = s
  <2>1. PICK p \in Procs : pc[p] = "symlinkOld" /\ tgt[p] = s
    BY <1>2
  <2>2. call[p].op = "link"
    BY <2>1 DEF OwnedInv, IInv, ProcType, LocalOK, LinkSteps
  <2>3. Owes(p, s, call[p].old)
    BY <2>1, <2>2 DEF Owes, Makes
  <2>4. call[p].old \in Pinned
    BY <2>2 DEF OwnedInv, Owns
  <2>5. call[p].old \in Due(s)
    BY <2>3, <2>4, Ownership DEF Due, Pinned, Paths
  <2>6. QED
    BY <2>4, <2>5, Ownership DEF Pinned
<1>3. QED
  BY <1>1, <1>2 DEF Firm

\* A pinned name leads to a file of its own or to firm storage.
LEMMA RealPathFirm ==
  ASSUME Apart, OwnedInv, NEW n \in Pinned, Exists(n)
  PROVE  RealPath(n) = n \/ (RealPath(n) \in Stor /\ Firm(RealPath(n)))
<1> DEFINE OK(q) == q \in Stor /\ Firm(q)
           S == {k \in Nat : \A q \in Paths : OK(q) => OK(Walk[k][q])}
<1>1. 0 \in S
  BY WalkStep
<1>2. ASSUME NEW k \in Nat, k \in S PROVE k + 1 \in S
  <2> SUFFICES ASSUME NEW q \in Paths, OK(q) PROVE OK(Walk[k + 1][q])
    OBVIOUS
  <2>1. (k + 1) - 1 = k /\ k + 1 # 0
    OBVIOUS
  <2>2. CASE dirent[q] \notin Paths
    BY <2>2, WalkStep
  <2>3. CASE dirent[q] \in Paths
    <3>1. OK(dirent[q])
      BY <2>3 DEF OwnedInv, Linked, Firm
    <3>2. Walk[k + 1][q] = Walk[k][dirent[q]]
      BY <2>1, <2>3, WalkStep
    <3>3. QED
      BY <1>2, <2>3, <3>1, <3>2
  <2>4. QED
    BY <2>2, <2>3
<1>3. \A k \in Nat : k \in S
  <2> HIDE DEF S
  <2>1. QED
    BY <1>1, <1>2, Lem!Induct
<1>4. n \in Paths
  BY DEF Pinned, Paths
<1>5. ASSUME NEW k \in Nat PROVE Walk[k][n] = n \/ OK(Walk[k][n])
  <2>1. CASE k = 0 \/ dirent[n] \notin Paths
    BY <1>4, <2>1, WalkStep
  <2>2. CASE k # 0 /\ dirent[n] \in Paths
    <3>1. OK(dirent[n])
      BY <1>4, <2>2 DEF OwnedInv, Linked, Firm
    <3>2. k - 1 \in Nat
      BY <2>2
    <3>3. Walk[k][n] = Walk[k - 1][dirent[n]]
      BY <1>4, <2>2, WalkStep
    <3>4. QED
      BY <1>3, <2>2, <3>1, <3>2, <3>3
  <2>3. QED
    BY <2>1, <2>2
<1>6. Cardinality(Paths) \in Nat
  BY PathsFinite, FS_CardinalityType
<1> HIDE DEF OK, S
<1>7. Walk[Cardinality(Paths)][n] = n \/ OK(Walk[Cardinality(Paths)][n])
  BY <1>5, <1>6
<1>8. RealPath(n) = n \/ RealPath(n) = Walk[Cardinality(Paths)][n]
  BY DEF RealPath, Exists
<1>9. QED
  BY <1>7, <1>8 DEF OK

-----------------------------------------------------------------------------
(* What a step of p does to the state, and to what others rely on.         *)

\* The values others have, and what a step of p leaves of what they know.
Guarantee(p) ==
  /\ OthersStay(p) /\ \A r \in Procs \ {p} : val'[r] = val[r]
  /\ \A s \in Stor : Firm(s) => Firm(s)'
  /\ \A s \in Stor : (\E q \in Due(s) : q \notin Owned[p]) => lfile'[s] = lfile[s]
  /\ \A r \in Procs \ {p} : \A q \in Owned[r] : dirent'[q] = dirent[q]
  /\ \A n \in Pinned : dirent[n] = Absent =>
        dirent'[n] = Absent \/ (pc[p] = "symlinkOld" /\ call[p].old = n)
  /\ \A s \in Stor : (/\ dirent[s] = Absent /\ ~Converting(p, s)
                      /\ \A q \in Due(s) : q \notin Owned[p]) => Due(s)' \subseteq Due(s)

\* How a path comes to be due for s by a step of p.
LEMMA NewlyDue ==
  ASSUME NEW p \in Procs, OthersStay(p), NEW s \in Stor, NEW q \in Due(s)', q \notin Due(s)
  PROVE  \/ dirent'[q] = s /\ dirent[q] # s
         \/ dirent'[q] = s /\ Drops(p, s, q) /\ ~Drops(p, s, q)'
         \/ Owes(p, s, q)' /\ ~Owes(p, s, q)
<1>1. \A r \in Procs \ {p} : (Owes(r, s, q)' <=> Owes(r, s, q)) /\ (Drops(r, s, q)' <=> Drops(r, s, q))
  BY DEF OthersStay, Owes, Drops, UnlinkPath, RenameTo
<1>2. q \in Paths
  BY DEF Due
<1>3. CASE \E r \in Procs : Owes(r, s, q)'
  BY <1>1, <1>2, <1>3 DEF Due
<1>4. CASE dirent'[q] = s /\ \A r \in Procs : ~Drops(r, s, q)'
  BY <1>1, <1>2, <1>4 DEF Due
<1>5. QED
  BY <1>3, <1>4 DEF Due

\* A count covers fewer links, too.
LEMMA CoversFewer ==
  ASSUME FsType, NEW s \in Stor, Covers(s), Due(s)' \subseteq Due(s),
         lfile'[s] = lfile[s],
         lfile[s] # NoInode => count'[lfile[s]] = count[lfile[s]]
  PROVE  Covers(s)'
<1>1. Cardinality(Due(s)') <= Cardinality(Due(s)) /\ Cardinality(Due(s)') \in Nat
  BY DueFinite, FS_Subset, FS_CardinalityType
<1>2. ASSUME lfile[s] # NoInode, count[lfile[s]] # Empty
      PROVE  count[lfile[s]] >= Cardinality(Due(s)')
  <2>1. count[lfile[s]] \in Nat /\ count[lfile[s]] >= Cardinality(Due(s))
    BY <1>2 DEF Covers, FsType
  <2>2. \A c, j, k \in Nat : c >= k /\ j <= k => c >= j
    OBVIOUS
  <2>3. QED
    BY <1>1, <2>1, <2>2, DueFinite
<1>3. QED
  BY <1>2 DEF Covers

\* A step that moves no storage and no count.
LEMMA CalmLinked ==
  ASSUME OwnedInv, NEW p \in Procs, UNCHANGED <<lfile, count>>,
         \A s \in Stor : dirent'[s] = dirent[s],
         \A q \in Paths : dirent'[q] \in Paths => dirent'[q] \in Stor,
         \A s \in Stor : Firm(s)' <=> Firm(s),
         \A s \in Stor : Covers(s)'
  PROVE  Linked'
  BY DEF OwnedInv, Linked

\* A step that changes no file, owes no more and drops no less.
LEMMA QuietStep ==
  ASSUME Apart, OwnedInv, NEW p \in Procs, OthersStay(p),
         \A r \in Procs \ {p} : val'[r] = val[r],
         UNCHANGED <<dirent, lfile, count>>,
         pc[p] # "symlinkOld" /\ pc'[p] # "symlinkOld",
         \A s \in Stor, q \in Paths : Owes(p, s, q)' => Owes(p, s, q),
         \A s \in Stor, q \in Paths : dirent[q] = s /\ Drops(p, s, q) => Drops(p, s, q)'
  PROVE  Guarantee(p) /\ Linked'
<1>1. \A s \in Stor : Due(s)' \subseteq Due(s)
  <2> SUFFICES ASSUME NEW s \in Stor, NEW q \in Due(s)', q \notin Due(s) PROVE FALSE
    OBVIOUS
  <2>1. q \in Paths
    BY DEF Due
  <2>2. QED
    BY <2>1, NewlyDue
<1>2. \A s \in Stor : Firm(s)' <=> Firm(s)
  BY DEF Firm, OthersStay
<1>3. Guarantee(p)
  BY <1>1, <1>2 DEF Guarantee
<1>4. \A s \in Stor : Covers(s)'
  BY <1>1, CoversFewer DEF OwnedInv, Linked, IInv
<1>5. Linked'
  BY <1>2, <1>4, CalmLinked DEF OwnedInv, Linked
<1>6. QED
  BY <1>3, <1>5

\* What others know stays true.
LEMMA OthersKnow ==
  ASSUME Apart, OwnedInv, IInv', NEW p \in Procs, Guarantee(p), NEW r \in Procs \ {p}
  PROVE  Knows(r)'
<1>1. /\ pc'[r] = pc[r] /\ call'[r] = call[r] /\ tgt'[r] = tgt[r]
      /\ lnk'[r] = lnk[r] /\ fd'[r] = fd[r] /\ val'[r] = val[r]
      /\ UnlinkPath(r)' = UnlinkPath(r)
  BY DEF Guarantee, OthersStay, UnlinkPath, RenameTo
<1>2. Knows(r) /\ Owns(r) /\ IInv /\ LocalOK(r)
  BY DEF OwnedInv, IInv, ProcType
<1>3. \A s \in Stor : Firm(s) => Firm(s)' /\ lfile'[s] = lfile[s]
  BY FirmDue DEF Guarantee
<1>4. ASSUME pc[r] = "symlinkOld" PROVE dirent'[call[r].old] = Absent
  <2>1. call[r].old \in Pinned /\ dirent[call[r].old] = Absent
    BY <1>2, <1>4 DEF Owns, Knows, LocalOK, LinkSteps
  <2>2. ~(pc[p] = "symlinkOld" /\ call[p].old = call[r].old)
    BY <1>4 DEF OwnedInv, OneConverter
  <2>3. QED
    BY <2>1, <2>2 DEF Guarantee
<1>5. ASSUME pc[r] \in Removes
      PROVE  /\ dirent'[UnlinkPath(r)] = lnk[r] /\ lnk[r] \in Stor
             /\ UnlinkPath(r) \in Owned[r] /\ UnlinkPath(r) \notin Owned[p]
             /\ UnlinkPath(r) \in Due(lnk[r])
  <2>1. UnlinkPath(r) \in Owned[r]
    BY <1>2, <1>5, UnlinkOwned DEF Removes, UnlinkSteps
  <2>2. dirent[UnlinkPath(r)] = lnk[r] /\ lnk[r] \in Stor
    BY <1>2, <1>5 DEF Knows
  <2>3. UnlinkPath(r) \in Due(lnk[r])
    BY <1>5, <2>1, <2>2, OwnDue DEF Drops, Removes
  <2>4. QED
    BY <2>1, <2>2, <2>3, Ownership DEF Guarantee
<1>6. ASSUME pc[r] \in {"lockDecr", "writeDecr", "unlinkStor"}
      PROVE  fd[r] = lfile'[lnk[r]]
  <2>1. lfile'[lnk[r]] = lfile[lnk[r]]
    BY <1>5, <1>6 DEF Guarantee, Removes
  <2>2. QED
    BY <1>2, <1>6, <2>1 DEF Knows
<1>7. ASSUME pc[r] = "unlinkLinks", NEW s \in Stor, s = lnk[r]
      PROVE  Due(s)' \subseteq {UnlinkPath(r)}
  <2>1. Due(s) \subseteq {UnlinkPath(r)}
    BY <1>2, <1>7 DEF Knows
  <2>2. dirent[s] = Absent /\ ~Converting(p, s)
    <3>1. Reserves(r, s)
      BY <1>7 DEF Reserves, Removing
    <3>2. QED
      BY <1>2, <3>1 DEF IInv, Reserved, Reserves
  <2>3. Due(s)' \subseteq Due(s)
    BY <1>5, <1>7, <2>1, <2>2 DEF Guarantee, Removes
  <2>4. QED
    BY <2>1, <2>3
<1>8. QED
  BY <1>1, <1>2, <1>3, <1>4, <1>5, <1>6, <1>7 DEF Knows

-----------------------------------------------------------------------------
(* The steps that change no file.                                          *)

\* What a step of p establishes.
Kept(p) == Guarantee(p) /\ Linked' /\ Knows(p)'

LEMMA ReturnKept ==
  ASSUME Apart, OwnedInv, NEW p \in Procs, NEW r, Return(p, r), UNCHANGED <<dirent, lfile, count>>,
         pc[p] # "symlinkOld",
         pc[p] = "unlinkName" => dirent[UnlinkPath(p)] = Absent
  PROVE  Kept(p)
<1>1. /\ OthersStay(p) /\ \A q \in Procs \ {p} : val'[q] = val[q]
      /\ pc'[p] = "idle" /\ call'[p] = NoCall
  BY DEF Return, OthersStay, Goto, Close, OwnedInv, IInv, ProcType
<1>2. Guarantee(p) /\ Linked'
  BY <1>1, QuietStep, Distinct DEF Owes, Drops, NoCall, Paths
<1>3. Knows(p)'
  BY <1>1 DEF Knows, Removes
<1>4. QED
  BY <1>2, <1>3 DEF Kept

LEMMA UnlinkReturnKept ==
  ASSUME Apart, OwnedInv, NEW p \in Procs, NEW r, UnlinkReturn(p, r), UNCHANGED <<dirent, lfile, count>>,
         pc[p] \in UnlinkSteps,
         pc[p] = "unlinkName" => dirent[UnlinkPath(p)] = Absent
  PROVE  Kept(p)
<1>1. CASE call[p].op = "unlink" \/ r \notin {"ok", "ENOENT"}
  BY <1>1, ReturnKept DEF UnlinkReturn, UnlinkSteps
<1>2. CASE ~(call[p].op = "unlink" \/ r \notin {"ok", "ENOENT"})
  <2>1. /\ OthersStay(p) /\ \A q \in Procs \ {p} : val'[q] = val[q]
        /\ pc'[p] = "rename" /\ call'[p] = call[p]
    BY <1>2 DEF UnlinkReturn, OthersStay, Goto, Close, local, OwnedInv, IInv, ProcType
  <2>2. call[p].op # "link"
    BY DEF OwnedInv, IInv, Reserved
  <2>3. Guarantee(p) /\ Linked'
    BY <2>1, <2>2, QuietStep, Distinct DEF Owes, Drops, UnlinkSteps, Paths
  <2>4. Knows(p)'
    BY <2>1 DEF Knows, Removes
  <2>5. QED
    BY <2>3, <2>4 DEF Kept
<1>3. QED
  BY <1>1, <1>2

LEMMA StartKept ==
  ASSUME Apart, OwnedInv, NEW p \in Procs, Start(p)
  PROVE  Kept(p)
<1>1. /\ OthersStay(p) /\ \A q \in Procs \ {p} : val'[q] = val[q]
      /\ UNCHANGED <<dirent, lfile, count>> /\ pc[p] = "idle"
      /\ pc'[p] \in {"accessNew", "readlink", "statNew"}
      /\ pc'[p] = "statNew" => call'[p].op = "rename"
  BY DEF Start, CallLink, CallUnlink, CallRename, Begin, OthersStay, Goto, fs, file, At, OwnedInv, IInv, ProcType
<1>2. Guarantee(p) /\ Linked'
  BY <1>1, QuietStep DEF Owes, Drops, Makes
<1>3. Knows(p)'
  BY <1>1 DEF Knows, Removes
<1>4. QED
  BY <1>2, <1>3 DEF Kept

LEMMA ReadKept ==
  ASSUME Apart, OwnedInv, NEW p \in Procs,
         AccessNew(p) \/ ResolveOld(p) \/ AccessLinks(p) \/ OpenIncr(p) \/ LockIncr(p)
  PROVE  Kept(p)
<1> USE DEF OthersStay, Goto, At, fs, file, local
<1>0. ProcType /\ FsType /\ LocalOK(p) /\ Knows(p) /\ Owns(p)
  BY DEF OwnedInv, IInv, ProcType
<1>1. CASE AccessNew(p)
  <2>1. CASE Return(p, "err")
    BY <1>1, <2>1, ReturnKept DEF AccessNew
  <2>2. CASE Goto(p, "realpath") /\ UNCHANGED <<file, local>>
    <3>1. OthersStay(p) /\ pc'[p] = "realpath" /\ pc[p] = "accessNew"
      BY <1>0, <1>1, <2>2 DEF AccessNew, ProcType
    <3>2. Guarantee(p) /\ Linked'
      BY <1>1, <2>2, <3>1, QuietStep DEF AccessNew, Owes, Drops, Makes
    <3>3. Knows(p)'
      BY <3>1 DEF Knows, Removes
    <3>4. QED
      BY <3>2, <3>3 DEF Kept
  <2>3. QED
    BY <1>1, <2>1, <2>2 DEF AccessNew
<1>2. CASE ResolveOld(p)
  <2>1. CASE Return(p, "err")
    BY <1>2, <2>1, ReturnKept DEF ResolveOld
  <2>2. CASE ~Return(p, "err")
    <3>1. /\ OthersStay(p) /\ pc'[p] = "accessLinks" /\ pc[p] = "realpath"
          /\ tgt'[p] = RealPath(call[p].old) /\ call' = call /\ Exists(call[p].old)
      BY <1>0, <1>2, <2>2 DEF ResolveOld, ProcType
    <3>2. Guarantee(p) /\ Linked'
      BY <1>2, <2>2, <3>1, QuietStep DEF ResolveOld, Owes, Drops, Makes
    <3>3. call[p].old \in Pinned
      BY <1>0, <3>1 DEF LocalOK, LinkSteps, Owns
    <3>4. RealPath(call[p].old) = call[p].old
           \/ (RealPath(call[p].old) \in Stor /\ Firm(RealPath(call[p].old)))
      BY <3>1, <3>3, RealPathFirm
    <3>5. tgt'[p] = call'[p].old \/ (tgt'[p] \in Stor /\ \A s \in Stor : s = tgt'[p] => Firm(s)')
      BY <3>1, <3>2, <3>4 DEF Guarantee
    <3>6. Knows(p)'
      BY <3>1, <3>5 DEF Knows, Removes
    <3>7. QED
      BY <3>2, <3>6 DEF Kept
  <2>3. QED
    BY <2>1, <2>2
<1>3. CASE AccessLinks(p)
  <2>1. /\ OthersStay(p) /\ pc'[p] \in {"openIncr", "create"} /\ pc[p] = "accessLinks"
        /\ pc'[p] = "openIncr" => HasLinks(tgt[p]) /\ tgt' = tgt
        /\ call' = call /\ UNCHANGED <<dirent, lfile, count, val>>
    BY <1>0, <1>3 DEF AccessLinks, ProcType
  <2>2. Guarantee(p) /\ Linked'
    BY <2>1, QuietStep DEF Owes, Drops, Makes
  <2>3. pc'[p] = "openIncr" => tgt[p] \in Stor /\ Firm(tgt[p])
    <3>1. call[p].old \in Names
      BY <1>0, <2>1 DEF LocalOK
    <3>2. QED
      BY <1>0, <2>1, <3>1, Distinct DEF Knows, HasLinks
  <2>4. pc'[p] = "openIncr" => tgt'[p] \in Stor /\ \A s \in Stor : s = tgt'[p] => Firm(s)'
    BY <2>1, <2>2, <2>3 DEF Guarantee
  <2>5. Knows(p)'
    BY <2>1, <2>4 DEF Knows, Removes
  <2>6. QED
    BY <2>2, <2>5 DEF Kept
<1>4. CASE OpenIncr(p) \/ LockIncr(p)
  <2>1. CASE Return(p, "err")
    BY <1>4, <2>1, ReturnKept DEF OpenIncr, LockIncr
  <2>2. CASE ~Return(p, "err")
    <3>1. /\ OthersStay(p) /\ \A r \in Procs \ {p} : val'[r] = val[r]
          /\ \/ pc'[p] = "lockIncr" /\ pc[p] = "openIncr" /\ fd'[p] = lfile[tgt[p]]
             \/ pc'[p] = "writeIncr" /\ pc[p] = "lockIncr" /\ fd' = fd
          /\ tgt' = tgt /\ call' = call /\ UNCHANGED <<dirent, lfile, count>>
      BY <1>0, <1>4, <2>2 DEF OpenIncr, LockIncr, Open, ProcType
    <3>2. Guarantee(p) /\ Linked'
      BY <3>1, QuietStep DEF Owes, Drops, Makes
    <3>3. tgt[p] \in Stor /\ Firm(tgt[p]) /\ fd'[p] = lfile[tgt[p]]
      BY <1>0, <3>1 DEF Knows
    <3>4. tgt'[p] \in Stor /\ \A s \in Stor : s = tgt'[p] => Firm(s)'
      BY <3>1, <3>2, <3>3 DEF Guarantee
    <3>5. Knows(p)'
      BY <3>1, <3>3, <3>4 DEF Knows, Removes
    <3>6. QED
      BY <3>2, <3>5 DEF Kept
  <2>3. QED
    BY <2>1, <2>2
<1>5. QED
  BY <1>1, <1>2, <1>3, <1>4

LEMMA RenameReadKept ==
  ASSUME Apart, OwnedInv, NEW p \in Procs, StatNew(p) \/ RenameFails(p) \/ SymlinkFails(p)
  PROVE  Kept(p)
<1>0. ProcType /\ LocalOK(p) /\ Knows(p)
  BY DEF OwnedInv, IInv, ProcType
<1>1. CASE Return(p, "err")
  <2>1. pc[p] \in {"statNew", "rename", "symlinkNew"}
    BY <1>0 DEF StatNew, RenameFails, SymlinkFails, At, Apart, Knows
  <2>2. QED
    BY <1>1, <2>1, ReturnKept DEF StatNew, RenameFails, SymlinkFails, fs
<1>2. CASE ~Return(p, "err")
  <2>1. /\ OthersStay(p) /\ pc'[p] \in {"readlink", "rename"} /\ pc[p] = "statNew"
        /\ UNCHANGED <<dirent, lfile, count, val, call, tgt>>
    BY <1>0, <1>2 DEF StatNew, RenameFails, SymlinkFails, At, Goto, OthersStay, fs, file, local, ProcType
  <2>2. Guarantee(p) /\ Linked'
    BY <2>1, QuietStep DEF Owes, Drops, Makes
  <2>3. Knows(p)'
    BY <2>1 DEF Knows, Removes
  <2>4. QED
    BY <2>2, <2>3 DEF Kept
<1>3. QED
  BY <1>1, <1>2

LEMMA UnlinkReadKept ==
  ASSUME Apart, OwnedInv, NEW p \in Procs,
         Readlink(p) \/ AccessLnk(p) \/ OpenDecr(p) \/ LockDecr(p)
  PROVE  Kept(p)
<1> USE DEF OthersStay, Goto, At, fs, file, local
<1>0. /\ ProcType /\ FsType /\ LocalOK(p) /\ Knows(p) /\ Owns(p)
      /\ pc[p] \in UnlinkSteps /\ pc[p] # "unlinkName"
      /\ UnlinkPath(p) \in Paths /\ UNCHANGED <<dirent, lfile, count>>
  <2>1. pc[p] \in UnlinkSteps /\ pc[p] # "unlinkName"
    BY DEF Readlink, AccessLnk, OpenDecr, LockDecr, UnlinkSteps
  <2>2. UnlinkPath(p) \in Paths
    BY <2>1, UnlinkOwned DEF OwnedInv, Paths
  <2>3. QED
    BY <2>1, <2>2 DEF OwnedInv, IInv, ProcType, Readlink, AccessLnk, OpenDecr, LockDecr
<1>1. CASE \E r : UnlinkReturn(p, r)
  BY <1>0, <1>1, UnlinkReturnKept
<1>2. CASE ~\E r : UnlinkReturn(p, r)
  <2>1. /\ OthersStay(p) /\ \A r \in Procs \ {p} : val'[r] = val[r]
        /\ call' = call /\ tgt' = tgt
        /\ \/ pc'[p] = "unlinkPlain"
           \/ /\ pc'[p] = "accessLnk" /\ pc[p] = "readlink"
              /\ dirent[UnlinkPath(p)] \in Paths /\ lnk'[p] = dirent[UnlinkPath(p)]
           \/ pc'[p] = "openDecr" /\ pc[p] = "accessLnk" /\ lnk' = lnk
           \/ pc'[p] = "lockDecr" /\ pc[p] = "openDecr" /\ lnk' = lnk /\ fd'[p] = lfile[lnk[p]]
           \/ /\ pc'[p] \in {"unlinkStor", "writeDecr"} /\ pc[p] = "lockDecr" /\ lnk' = lnk /\ fd' = fd
              /\ val'[p] = count[fd[p]] /\ count[fd[p]] # Empty
              /\ pc'[p] = "unlinkStor" => count[fd[p]] - 1 = 0
    <3>1. CASE Readlink(p)
      BY <1>0, <1>2, <3>1 DEF Readlink, ProcType
    <3>2. CASE AccessLnk(p)
      BY <1>0, <1>2, <3>2 DEF AccessLnk, ProcType
    <3>3. CASE OpenDecr(p)
      BY <1>0, <1>2, <3>3 DEF OpenDecr, Open, ProcType
    <3>4. CASE LockDecr(p)
      BY <1>0, <1>2, <3>4 DEF LockDecr, ProcType
    <3>5. QED
      BY <3>1, <3>2, <3>3, <3>4
  <2>2. Guarantee(p) /\ Linked'
    BY <1>0, <2>1, QuietStep DEF Owes, Drops, Makes, UnlinkSteps
  <2>3. UnlinkPath(p)' = UnlinkPath(p)
    BY <2>1 DEF UnlinkPath, RenameTo
  <2>4. pc'[p] \in Removes => dirent'[UnlinkPath(p)] = lnk'[p] /\ lnk'[p] \in Stor
    BY <1>0, <2>1 DEF Knows, Removes, OwnedInv, Linked
  <2>5. pc'[p] \in {"lockDecr", "writeDecr", "unlinkStor"} => fd'[p] = lfile'[lnk'[p]]
    BY <1>0, <2>1 DEF Knows
  <2>6. pc'[p] = "unlinkStor" => val'[p] = 1
    <3>1. pc'[p] = "unlinkStor" => fd[p] \in Inodes
      BY <1>0, <2>1 DEF LocalOK, FdSteps
    <3>2. pc'[p] = "unlinkStor" => count[fd[p]] \in Nat
      BY <1>0, <2>1, <3>1 DEF FsType
    <3>3. \A k \in Nat : k - 1 = 0 => k = 1
      OBVIOUS
    <3>4. QED
      BY <2>1, <3>2, <3>3
  <2>7. Knows(p)'
    BY <2>1, <2>3, <2>4, <2>5, <2>6 DEF Knows
  <2>8. QED
    BY <2>2, <2>7 DEF Kept
<1>3. QED
  BY <1>1, <1>2

-----------------------------------------------------------------------------
(* The steps that write a count or make a link file.                       *)

LEMMA CreateKept ==
  ASSUME Apart, OwnedInv, NEW p \in Procs, CreateLinks(p)
  PROVE  Kept(p)
<1>0. /\ ProcType /\ FsType /\ IInv /\ LocalOK(p) /\ Knows(p) /\ Linked
      /\ pc[p] = "create" /\ tgt[p] \in Stor
  BY DEF OwnedInv, IInv, ProcType, CreateLinks, At, LocalOK
<1>1. CASE HasLinks(tgt[p])
  BY <1>0, <1>1, ReturnKept DEF CreateLinks, fs
<1>2. CASE ~HasLinks(tgt[p])
  <2>1. PICK s \in Stor : s = tgt[p]
    BY <1>0
  <2>2. PICK i \in Inodes : /\ FreeInode(i)
                            /\ lfile' = [lfile EXCEPT ![s] = i]
                            /\ count' = [count EXCEPT ![i] = Empty]
                            /\ Open(p, i)
    BY <1>2, <2>1 DEF CreateLinks
  <2>3. /\ OthersStay(p) /\ pc'[p] = "writeTwo"
        /\ UNCHANGED <<dirent, val, call, tgt>>
    BY <1>0, <1>2, <2>2 DEF CreateLinks, OthersStay, Goto, local, Open, ProcType
  <2>4. lfile[s] = NoInode /\ Due(s) = {}
    BY <1>0, <1>2, <2>1 DEF HasLinks, Linked, Covers
  <2>5. \A u \in Stor : Due(u)' \subseteq Due(u)
    <3> SUFFICES ASSUME NEW u \in Stor, NEW q \in Due(u)', q \notin Due(u) PROVE FALSE
      OBVIOUS
    <3>1. QED
      BY <1>0, <2>3, NewlyDue DEF Owes, Drops, Makes
  <2>6. /\ lfile'[s] = i /\ count'[i] = Empty
        /\ \A u \in Stor \ {s} : lfile'[u] = lfile[u] /\ lfile[u] # i
        /\ \A j \in Inodes \ {i} : count'[j] = count[j]
    BY <1>0, <2>2 DEF FsType, FreeInode
  <2>7. \A u \in Stor : Firm(u)' <=> Firm(u)
    BY <1>0, <2>3 DEF Firm, OthersStay
  <2>8. Guarantee(p)
    BY <1>0, <2>3, <2>4, <2>5, <2>6, <2>7 DEF Guarantee
  <2>9. ASSUME NEW u \in Stor PROVE Covers(u)'
    <3>1. CASE u = s
      BY <2>4, <2>5, <2>6, <3>1 DEF Covers
    <3>2. CASE u # s
      BY <1>0, <2>5, <2>6, <3>2, CoversFewer DEF Linked, FsType
    <3>3. QED
      BY <3>1, <3>2
  <2>10. Linked'
    BY <1>0, <2>3, <2>6, <2>7, <2>9 DEF Linked
  <2>11. Knows(p)'
    BY <2>3 DEF Knows, Removes
  <2>12. QED
    BY <2>8, <2>10, <2>11 DEF Kept
<1>3. QED
  BY <1>1, <1>2

LEMMA WriteIncrKept ==
  ASSUME Apart, OwnedInv, NEW p \in Procs, WriteIncr(p)
  PROVE  Kept(p)
<1>0. /\ ProcType /\ FsType /\ IInv /\ LocalOK(p) /\ Knows(p) /\ Linked
      /\ pc[p] = "writeIncr" /\ fd[p] \in Inodes /\ val[p] = count[fd[p]]
  BY DEF OwnedInv, IInv, ProcType, WriteIncr, At, LocalOK, FdSteps, Counted, LockOK, Locked
<1>1. PICK s \in Stor : s = tgt[p] /\ Firm(s) /\ lfile[s] = fd[p]
  BY <1>0 DEF Knows
<1>2. /\ OthersStay(p) /\ pc'[p] = "symlinkNew" /\ \A r \in Procs \ {p} : val'[r] = val[r]
      /\ UNCHANGED <<dirent, lfile, call, tgt>>
      /\ count' = [count EXCEPT ![fd[p]] = val[p] + 1]
  BY <1>0 DEF WriteIncr, OthersStay, Goto, Close, local, ProcType
<1>3. dirent[s] # Absent /\ lfile[s] # NoInode /\ count[lfile[s]] # Empty
  BY <1>0, <1>1, FileIsCovered DEF Linked
<1>4. \A u \in Stor : Due(u)' \subseteq Due(u) \cup (IF u = s THEN {call[p].new} ELSE {})
  <2> SUFFICES ASSUME NEW u \in Stor, NEW q \in Due(u)', q \notin Due(u)
               PROVE  u = s /\ q = call[p].new
    OBVIOUS
  <2>1. QED
    BY <1>0, <1>1, <1>2, NewlyDue DEF Owes, Drops, Makes
<1>5. \A u \in Stor : Firm(u)' <=> Firm(u)
  BY <1>0, <1>2 DEF Firm, OthersStay
<1>6. Guarantee(p)
  BY <1>0, <1>1, <1>2, <1>3, <1>4, <1>5 DEF Guarantee
<1>7. count[lfile[s]] \in Nat /\ count'[lfile[s]] = count[lfile[s]] + 1
  BY <1>0, <1>1, <1>2, <1>3 DEF FsType
<1>8. ASSUME NEW u \in Stor PROVE Covers(u)'
  <2>1. CASE u = s
    <3>1. Cardinality(Due(s)') \in Nat /\ Cardinality(Due(s)') <= Cardinality(Due(s)) + 1
      BY <1>4, DueFinite, OneMore
    <3>2. count[lfile[s]] >= Cardinality(Due(s))
      BY <1>0, <1>3 DEF Linked, Covers
    <3>3. \A c, d, e \in Nat : c >= d /\ e <= d + 1 => c + 1 >= e /\ c + 1 \in Nat
      OBVIOUS
    <3>4. count'[lfile[s]] >= Cardinality(Due(s)') /\ count'[lfile[s]] \in Nat
      BY <1>7, <3>1, <3>2, <3>3, DueFinite
    <3>5. QED
      BY <1>2, <1>3, <2>1, <3>4, Distinct DEF Covers
  <2>2. CASE u # s
    <3>1. lfile[u] # NoInode => lfile[u] # fd[p]
      BY <1>0, <1>1, <2>2 DEF Linked
    <3>2. lfile[u] # NoInode => count'[lfile[u]] = count[lfile[u]]
      BY <1>0, <1>2, <3>1 DEF FsType
    <3>3. QED
      BY <1>0, <1>2, <1>4, <2>2, <3>2, CoversFewer DEF Linked
  <2>3. QED
    BY <2>1, <2>2
<1>9. Linked'
  BY <1>0, <1>2, <1>5, <1>8 DEF Linked
<1>10. tgt'[p] \in Stor /\ \A u \in Stor : u = tgt'[p] => Firm(u)'
  BY <1>1, <1>2, <1>5
<1>11. Knows(p)'
  BY <1>2, <1>10 DEF Knows, Removes
<1>12. QED
  BY <1>6, <1>9, <1>11 DEF Kept

LEMMA WriteTwoKept ==
  ASSUME Apart, OwnedInv, NEW p \in Procs, WriteTwo(p)
  PROVE  Kept(p)
<1>0. /\ ProcType /\ FsType /\ IInv /\ LocalOK(p) /\ Linked
      /\ pc[p] = "writeTwo" /\ fd[p] \in Inodes /\ count[fd[p]] = Empty
      /\ call[p].op = "link"
  BY DEF OwnedInv, IInv, ProcType, WriteTwo, At, LocalOK, FdSteps, Counted, CreateOK, LinkSteps
<1>1. PICK s \in Stor : s = tgt[p] /\ lfile[s] = fd[p] /\ Converting(p, s)
  <2>1. tgt[p] \in Stor /\ Converting(p, tgt[p])
    BY <1>0 DEF LocalOK, Converting
  <2>2. lfile[tgt[p]] = fd[p]
    BY <1>0, <2>1 DEF IInv, Reserved
  <2>3. QED
    BY <2>1, <2>2
<1>2. /\ OthersStay(p) /\ pc'[p] = "statNew" /\ \A r \in Procs \ {p} : val'[r] = val[r]
      /\ UNCHANGED <<dirent, lfile, call, tgt>>
      /\ count' = [count EXCEPT ![fd[p]] = 2]
  BY <1>0 DEF WriteTwo, OthersStay, Goto, Close, local, ProcType
<1>3. Due(s) = {}
  BY <1>0, <1>1 DEF Linked, Covers
<1>4. \A u \in Stor : Due(u)' \subseteq Due(u) \cup (IF u = s THEN {call[p].old, call[p].new} ELSE {})
  <2> SUFFICES ASSUME NEW u \in Stor, NEW q \in Due(u)', q \notin Due(u)
               PROVE  u = s /\ q \in {call[p].old, call[p].new}
    OBVIOUS
  <2>1. QED
    BY <1>0, <1>1, <1>2, NewlyDue DEF Owes, Drops, Makes
<1>5. \A u \in Stor : Firm(u)' <=> Firm(u)
  BY <1>0, <1>2 DEF Firm, OthersStay
<1>6. Guarantee(p)
  BY <1>0, <1>1, <1>2, <1>4, <1>5 DEF Guarantee
<1>7. count'[lfile[s]] = 2
  BY <1>0, <1>1, <1>2 DEF FsType
<1>8. ASSUME NEW u \in Stor PROVE Covers(u)'
  <2>1. CASE u = s
    <3>1. Due(s)' \subseteq {call[p].old} \cup {call[p].new}
      BY <1>3, <1>4
    <3>2. IsFiniteSet({call[p].old}) /\ Cardinality({call[p].old}) = 1
      BY FS_Singleton
    <3>3. Cardinality(Due(s)') \in Nat /\ Cardinality(Due(s)') <= 1 + 1
      BY <3>1, <3>2, OneMore
    <3>4. 2 >= Cardinality(Due(s)')
      BY <3>3
    <3>5. QED
      BY <1>0, <1>1, <1>2, <1>7, <2>1, <3>4, Distinct DEF Covers
  <2>2. CASE u # s
    <3>1. lfile[u] # NoInode => lfile[u] # fd[p]
      BY <1>0, <1>1, <2>2 DEF Linked
    <3>2. lfile[u] # NoInode => count'[lfile[u]] = count[lfile[u]]
      BY <1>0, <1>2, <3>1 DEF FsType
    <3>3. QED
      BY <1>0, <1>2, <1>4, <2>2, <3>2, CoversFewer DEF Linked
  <2>3. QED
    BY <2>1, <2>2
<1>9. Linked'
  BY <1>0, <1>2, <1>5, <1>8 DEF Linked
<1>10. Knows(p)'
  BY <1>2 DEF Knows, Removes
<1>11. QED
  BY <1>6, <1>9, <1>10 DEF Kept

-----------------------------------------------------------------------------
(* The steps of unlink() that change a file.                               *)

\* Before its name is dropped, the name is due, and whatever else is due
\* for the storage is not the process's own.
LEMMA RemoverDue ==
  ASSUME Apart, OwnedInv, NEW p \in Procs, pc[p] \in Removes
  PROVE  /\ UnlinkPath(p) \in Owned[p] /\ UnlinkPath(p) \in Names
         /\ call[p].op \in {"unlink", "rename"}
         /\ lnk[p] \in Stor /\ dirent[UnlinkPath(p)] = lnk[p]
         /\ \A s \in Stor : s = lnk[p] => UnlinkPath(p) \in Due(s)
<1>1. /\ UnlinkPath(p) \in Owned[p] /\ UnlinkPath(p) \in Names
      /\ call[p].op \in {"unlink", "rename"}
  BY UnlinkOwned DEF OwnedInv, Removes, UnlinkSteps
<1>2. lnk[p] \in Stor /\ dirent[UnlinkPath(p)] = lnk[p]
  BY DEF OwnedInv, Knows
<1>3. \A s \in Stor : s = lnk[p] => UnlinkPath(p) \in Due(s)
  BY <1>1, <1>2, OwnDue DEF Drops, Removes
<1>4. QED
  BY <1>1, <1>2, <1>3

LEMMA WriteDecrKept ==
  ASSUME Apart, OwnedInv, NEW p \in Procs, WriteDecr(p)
  PROVE  Kept(p)
<1>0. /\ ProcType /\ FsType /\ IInv /\ LocalOK(p) /\ Knows(p) /\ Linked
      /\ pc[p] = "writeDecr" /\ fd[p] \in Inodes /\ val[p] = count[fd[p]]
      /\ val[p] \in Nat \ {0} /\ val[p] # 1
  BY DEF OwnedInv, IInv, ProcType, WriteDecr, At, LocalOK, FdSteps, Counted, LockOK, Locked
<1>1. PICK s \in Stor : s = lnk[p]
  BY <1>0, RemoverDue DEF Removes
<1>2. PICK u \in Paths : u = UnlinkPath(p) /\ u \in Owned[p] /\ u \in Due(s) /\ dirent[u] = s
  BY <1>0, <1>1, RemoverDue DEF Removes, Paths
<1>3. call[p].op # "link" /\ lfile[s] = fd[p]
  BY <1>0, <1>1, RemoverDue DEF Removes, Knows
<1>4. /\ OthersStay(p) /\ pc'[p] = "unlinkName" /\ \A r \in Procs \ {p} : val'[r] = val[r]
      /\ UNCHANGED <<dirent, lfile, call, tgt, lnk>>
      /\ count' = [count EXCEPT ![fd[p]] = val[p] - 1]
  BY <1>0 DEF WriteDecr, OthersStay, Goto, file, local, ProcType
<1>5. Drops(p, s, u)'
  BY <1>1, <1>2, <1>4 DEF Drops, UnlinkPath, RenameTo
<1>6. \A w \in Stor : Due(w)' \subseteq Due(w)
  <2> SUFFICES ASSUME NEW w \in Stor, NEW q \in Due(w)', q \notin Due(w) PROVE FALSE
    OBVIOUS
  <2>1. QED
    BY <1>0, <1>3, <1>4, NewlyDue DEF Owes, Drops
<1>7. u \notin Due(s)'
  <2>1. \A r \in Procs : ~Owes(r, s, u)
    BY <1>2, <1>3, OwnOwes DEF Owes
  <2>2. \A r \in Procs : ~Owes(r, s, u)'
    BY <1>3, <1>4, <2>1 DEF Owes, OthersStay
  <2>3. QED
    BY <1>5, <2>2 DEF Due
<1>8. \A w \in Stor : Firm(w)' <=> Firm(w)
  BY <1>0, <1>4 DEF Firm, OthersStay
<1>9. Guarantee(p)
  BY <1>0, <1>4, <1>6, <1>8 DEF Guarantee
<1>10. count'[lfile[s]] = count[lfile[s]] - 1 /\ count[lfile[s]] \in Nat
  BY <1>0, <1>3, <1>4 DEF FsType
<1>11. ASSUME NEW w \in Stor PROVE Covers(w)'
  <2>1. CASE w = s
    <3>1. Cardinality(Due(s)') \in Nat /\ Cardinality(Due(s)') <= Cardinality(Due(s)) - 1
      BY <1>2, <1>6, <1>7, DueFinite, OneLess
    <3>2. count[lfile[s]] >= Cardinality(Due(s)) /\ lfile[s] # NoInode
      BY <1>0, <1>3, <1>10, Distinct DEF Linked, Covers
    <3>3. \A c, d, e \in Nat : c >= d /\ e <= d - 1 => c - 1 >= e /\ c - 1 \in Int
      OBVIOUS
    <3>4. count'[lfile[s]] >= Cardinality(Due(s)') /\ count'[lfile[s]] \in Int
      BY <1>10, <3>1, <3>2, <3>3, DueFinite
    <3>5. QED
      BY <1>4, <2>1, <3>2, <3>4, Distinct DEF Covers
  <2>2. CASE w # s
    <3>1. lfile[w] # NoInode => lfile[w] # fd[p]
      BY <1>0, <1>3, <2>2 DEF Linked
    <3>2. lfile[w] # NoInode => count'[lfile[w]] = count[lfile[w]]
      BY <1>0, <1>4, <3>1 DEF FsType
    <3>3. QED
      BY <1>0, <1>4, <1>6, <3>2, CoversFewer DEF Linked
  <2>3. QED
    BY <2>1, <2>2
<1>12. Linked'
  BY <1>0, <1>4, <1>8, <1>11 DEF Linked
<1>13. Knows(p)'
  BY <1>4 DEF Knows, Removes
<1>14. QED
  BY <1>9, <1>12, <1>13 DEF Kept

\* Storage goes only when one link is due for it: the one being removed.
LEMMA UnlinkStorKept ==
  ASSUME Apart, OwnedInv, NEW p \in Procs, UnlinkStor(p)
  PROVE  Kept(p)
<1>0. /\ ProcType /\ FsType /\ IInv /\ LocalOK(p) /\ Knows(p) /\ Linked
      /\ pc[p] = "unlinkStor" /\ fd[p] \in Inodes /\ count[fd[p]] = 1
      /\ UNCHANGED <<lfile, count>>
  BY DEF OwnedInv, IInv, ProcType, UnlinkStor, At, LocalOK, FdSteps, Counted, LockOK, Locked, Knows
<1>1. PICK s \in Stor : s = lnk[p]
  BY <1>0, RemoverDue DEF Removes
<1>2. PICK u \in Paths : u = UnlinkPath(p) /\ u \in Owned[p] /\ u \in Due(s) /\ dirent[u] = s /\ u \in Names
  BY <1>0, <1>1, RemoverDue DEF Removes, Paths
<1>3. call[p].op # "link" /\ lfile[s] = fd[p]
  BY <1>0, <1>1, RemoverDue DEF Removes, Knows
<1>4. CASE dirent[s] = Absent
  <2>1. UnlinkReturn(p, "ENOENT") /\ UNCHANGED dirent
    BY <1>1, <1>4 DEF UnlinkStor
  <2>2. QED
    BY <1>0, <2>1, UnlinkReturnKept DEF UnlinkSteps
<1>5. CASE dirent[s] # Absent
  <2>1. /\ OthersStay(p) /\ pc'[p] = "unlinkLinks" /\ \A r \in Procs \ {p} : val'[r] = val[r]
        /\ UNCHANGED <<call, tgt, lnk>>
        /\ dirent' = [dirent EXCEPT ![s] = Absent]
    BY <1>0, <1>1, <1>5 DEF UnlinkStor, OthersStay, Goto, file, local, ProcType
  <2>2. dirent'[s] = Absent /\ \A q \in Paths \ {s} : dirent'[q] = dirent[q]
    BY <1>0, <2>1 DEF FsType, Paths
  <2>3. \A q \in Due(s) : q = u
    <3>1. Covers(s) /\ lfile[s] # NoInode /\ count[lfile[s]] = 1
      BY <1>0, <1>3, Distinct DEF Linked
    <3>2. Cardinality(Due(s)) <= 1
      BY <3>1, Distinct, DueFinite DEF Covers
    <3>3. ASSUME NEW q \in Due(s), q # u PROVE FALSE
      <4> DEFINE F == Due(s) \ {u}
      <4>1. Cardinality(F) = Cardinality(Due(s)) - 1 /\ IsFiniteSet(F) /\ q \in F
        BY <1>2, <3>3, DueFinite, FS_RemoveElement
      <4> HIDE DEF F
      <4>2. Cardinality(F) \in Nat /\ Cardinality(F) # 0
        BY <4>1, FS_CardinalityType, FS_EmptySet
      <4>3. QED
        BY <3>2, <4>1, <4>2, DueFinite
    <3>4. QED
      BY <3>3
  <2>4. ~Firm(s) /\ dirent[s] \notin Stor
    BY <1>0, <1>2, <2>3, FirmDue DEF Linked
  <2>5. \A w \in Stor : Firm(w)' <=> Firm(w)
    <3>1. \A n \in Pinned \cup Stor : n \in Paths
      BY DEF Pinned, Paths
    <3>2. \A w \in Stor : w # Absent
      BY Distinct DEF Paths
    <3>3. QED
      BY <1>0, <2>1, <2>2, <2>4, <3>1, <3>2 DEF Firm, OthersStay
  <2>6. \A w \in Stor : Due(w)' \subseteq Due(w)
    <3> SUFFICES ASSUME NEW w \in Stor, NEW q \in Due(w)', q \notin Due(w) PROVE FALSE
      OBVIOUS
    <3>1. q \in Paths /\ w # Absent
      BY Distinct DEF Due, Paths
    <3>2. QED
      BY <1>0, <1>3, <2>1, <2>2, <3>1, NewlyDue DEF Owes, Drops
  <2>7. Guarantee(p)
    <3>1. \A r \in Procs \ {p} : \A q \in Owned[r] : dirent'[q] = dirent[q]
      BY <2>2, Ownership
    <3>2. \A n \in Pinned : dirent'[n] = dirent[n]
      BY <2>2, Ownership
    <3>3. QED
      BY <1>0, <2>1, <2>5, <2>6, <3>1, <3>2 DEF Guarantee
  <2>8. \A w \in Stor : Covers(w)'
    BY <1>0, <2>6, CoversFewer DEF Linked
  <2>9. Linked'
    <3>1. \A q \in Paths : dirent'[q] \in Paths => dirent'[q] \in Stor
      BY <1>0, <2>2, Distinct DEF Linked, Paths
    <3>2. \A w \in Stor : dirent'[w] \in Stor => Firm(w)'
      BY <1>0, <2>2, <2>5, Distinct DEF Linked, Paths
    <3>3. \A w \in Stor : Firm(w)' => dirent'[w] # Absent
      BY <1>0, <2>2, <2>4, <2>5 DEF Linked, Paths
    <3>4. QED
      BY <1>0, <2>8, <3>1, <3>2, <3>3 DEF Linked
  <2>10. UnlinkPath(p)' = u /\ lnk'[p] = s
    BY <1>1, <1>2, <2>1 DEF UnlinkPath, RenameTo
  <2>11. dirent'[u] = s /\ Due(s)' \subseteq {u}
    BY <1>2, <2>2, <2>3, <2>6, Distinct
  <2>12. Knows(p)'
    BY <2>1, <2>10, <2>11 DEF Knows
  <2>13. QED
    BY <2>7, <2>9, <2>12 DEF Kept
<1>6. QED
  BY <1>4, <1>5

LEMMA UnlinkLinksKept ==
  ASSUME Apart, OwnedInv, NEW p \in Procs, UnlinkLinks(p)
  PROVE  Kept(p)
<1>0. /\ ProcType /\ FsType /\ IInv /\ LocalOK(p) /\ Knows(p) /\ Linked
      /\ pc[p] = "unlinkLinks" /\ UNCHANGED <<dirent, count>>
  BY DEF OwnedInv, IInv, ProcType, UnlinkLinks, At
<1>1. PICK s \in Stor : s = lnk[p]
  BY <1>0, RemoverDue DEF Removes
<1>2. PICK u \in Paths : u = UnlinkPath(p) /\ u \in Owned[p] /\ u \in Due(s) /\ dirent[u] = s
  BY <1>0, <1>1, RemoverDue DEF Removes, Paths
<1>3. call[p].op # "link" /\ Due(s) \subseteq {u}
  BY <1>0, <1>1, <1>2, RemoverDue DEF Removes, Knows
<1>4. HasLinks(s)
  <2>1. Reserves(p, s)
    BY <1>0, <1>1 DEF Reserves, Removing
  <2>2. QED
    BY <1>0, <2>1 DEF IInv, Reserved, HasLinks
<1>5. /\ OthersStay(p) /\ pc'[p] = "unlinkName" /\ \A r \in Procs \ {p} : val'[r] = val[r]
      /\ UNCHANGED <<call, tgt, lnk>>
      /\ lfile' = [lfile EXCEPT ![s] = NoInode]
  BY <1>0, <1>1, <1>4 DEF UnlinkLinks, OthersStay, Goto, file, local, ProcType
<1>6. lfile'[s] = NoInode /\ \A w \in Stor \ {s} : lfile'[w] = lfile[w]
  BY <1>0, <1>5 DEF FsType
<1>7. Drops(p, s, u)'
  BY <1>1, <1>2, <1>5 DEF Drops, UnlinkPath, RenameTo
<1>8. \A w \in Stor : Due(w)' \subseteq Due(w)
  <2> SUFFICES ASSUME NEW w \in Stor, NEW q \in Due(w)', q \notin Due(w) PROVE FALSE
    OBVIOUS
  <2>1. QED
    BY <1>0, <1>3, <1>5, NewlyDue DEF Owes, Drops
<1>9. Due(s)' = {}
  <2>1. \A r \in Procs : ~Owes(r, s, u)
    BY <1>2, <1>3, OwnOwes DEF Owes
  <2>2. \A r \in Procs : ~Owes(r, s, u)'
    BY <1>3, <1>5, <2>1 DEF Owes, OthersStay
  <2>3. u \notin Due(s)'
    BY <1>7, <2>2 DEF Due
  <2>4. QED
    BY <1>3, <1>8, <2>3
<1>10. \A w \in Stor : Firm(w)' <=> Firm(w)
  BY <1>0, <1>5 DEF Firm, OthersStay
<1>11. Guarantee(p)
  BY <1>0, <1>2, <1>3, <1>5, <1>6, <1>8, <1>10 DEF Guarantee
<1>12. ASSUME NEW w \in Stor PROVE Covers(w)'
  <2>1. CASE w = s
    BY <1>6, <1>9, <2>1 DEF Covers
  <2>2. CASE w # s
    BY <1>0, <1>6, <1>8, <2>2, CoversFewer DEF Linked
  <2>3. QED
    BY <2>1, <2>2
<1>13. Linked'
  BY <1>0, <1>6, <1>10, <1>12 DEF Linked
<1>14. Knows(p)'
  BY <1>5 DEF Knows, Removes
<1>15. QED
  BY <1>11, <1>13, <1>14 DEF Kept

\* A process's own name changes; no storage does.
LEMMA OwnNameStep ==
  ASSUME Apart, OwnedInv, NEW p \in Procs, NEW D, D \subseteq Owned[p],
         OthersStay(p), \A r \in Procs \ {p} : val'[r] = val[r],
         UNCHANGED <<lfile, count>>,
         \A q \in Paths \ D : dirent'[q] = dirent[q],
         pc[p] # "symlinkOld" /\ pc'[p] # "symlinkOld"
  PROVE  /\ \A w \in Stor : (Firm(w)' <=> Firm(w)) /\ dirent'[w] = dirent[w]
         /\ \A r \in Procs \ {p} : \A q \in Owned[r] : dirent'[q] = dirent[q]
         /\ \A n \in Pinned : dirent'[n] = dirent[n]
<1>1. \A n \in Pinned \cup Stor : n \in Paths /\ n \notin D
  BY Ownership
<1>2. \A w \in Stor : (Firm(w)' <=> Firm(w)) /\ dirent'[w] = dirent[w]
  BY <1>1 DEF Firm, OthersStay
<1>3. QED
  BY <1>1, <1>2, Ownership

LEMMA UnlinkNameKept ==
  ASSUME Apart, OwnedInv, NEW p \in Procs, UnlinkName(p)
  PROVE  Kept(p)
<1>0. /\ ProcType /\ FsType /\ IInv /\ LocalOK(p) /\ Linked
      /\ pc[p] \in {"unlinkName", "unlinkPlain"} /\ pc[p] \in UnlinkSteps
      /\ UNCHANGED <<lfile, count>>
  BY DEF OwnedInv, IInv, ProcType, UnlinkName, At, UnlinkSteps
<1>1. PICK u \in Paths : u = UnlinkPath(p) /\ u \in Owned[p]
  BY <1>0, UnlinkOwned DEF OwnedInv, Paths
<1>2. CASE dirent[u] = Absent
  BY <1>0, <1>1, <1>2, UnlinkReturnKept DEF UnlinkName
<1>3. CASE dirent[u] # Absent
  <2>1. dirent' = [dirent EXCEPT ![u] = Absent] /\ UnlinkReturn(p, "ok")
    BY <1>1, <1>3 DEF UnlinkName
  <2>2. /\ OthersStay(p) /\ \A r \in Procs \ {p} : val'[r] = val[r]
        /\ pc'[p] \in {"idle", "rename"}
        /\ call'[p].op # "link"
    <3>1. CASE Return(p, "ok")
      BY <1>0, <3>1 DEF Return, OthersStay, Goto, Close, ProcType, NoCall
    <3>2. CASE Goto(p, "rename") /\ Close(p) /\ UNCHANGED local
      BY <1>0, <3>2 DEF OthersStay, Goto, Close, local, ProcType, IInv, Reserved
    <3>3. QED
      BY <2>1, <3>1, <3>2 DEF UnlinkReturn
  <2>3. dirent'[u] = Absent /\ \A q \in Paths \ {u} : dirent'[q] = dirent[q]
    BY <1>0, <2>1 DEF FsType
  <2>4. /\ \A w \in Stor : (Firm(w)' <=> Firm(w)) /\ dirent'[w] = dirent[w]
        /\ \A r \in Procs \ {p} : \A q \in Owned[r] : dirent'[q] = dirent[q]
        /\ \A n \in Pinned : dirent'[n] = dirent[n]
    <3>1. {u} \subseteq Owned[p] /\ pc[p] # "symlinkOld" /\ pc'[p] # "symlinkOld"
      BY <1>0, <1>1, <2>2
    <3>2. QED
      BY <1>0, <2>2, <2>3, <3>1, OwnNameStep
  <2>5. \A w \in Stor : Due(w)' \subseteq Due(w)
    <3> SUFFICES ASSUME NEW w \in Stor, NEW q \in Due(w)', q \notin Due(w) PROVE FALSE
      OBVIOUS
    <3>1. q \in Paths /\ w # Absent
      BY Distinct DEF Due, Paths
    <3>2. QED
      BY <1>1, <2>2, <2>3, <3>1, NewlyDue DEF Owes, Drops
  <2>6. Guarantee(p)
    BY <1>0, <2>2, <2>4, <2>5 DEF Guarantee
  <2>7. \A w \in Stor : Covers(w)'
    BY <1>0, <2>5, CoversFewer DEF Linked
  <2>8. Linked'
    <3>1. \A q \in Paths : dirent'[q] \in Paths => dirent'[q] \in Stor
      BY <1>0, <2>3, Distinct DEF Linked, Paths
    <3>2. QED
      BY <1>0, <2>4, <2>7, <3>1, CalmLinked
  <2>9. Knows(p)'
    BY <2>2 DEF Knows, Removes
  <2>10. QED
    BY <2>6, <2>8, <2>9 DEF Kept
<1>4. QED
  BY <1>2, <1>3

-----------------------------------------------------------------------------
(* The steps that make and move links.                                     *)

LEMMA SymlinkOldKept ==
  ASSUME Apart, OwnedInv, NEW p \in Procs, SymlinkOld(p)
  PROVE  Kept(p)
<1>0. /\ ProcType /\ FsType /\ IInv /\ LocalOK(p) /\ Linked /\ Owns(p)
      /\ pc[p] = "symlinkOld" /\ call[p].op = "link" /\ tgt[p] \in Stor
      /\ UNCHANGED <<lfile, count, val>>
  BY DEF OwnedInv, IInv, ProcType, SymlinkOld, SymlinkAt, At, LocalOK, LinkSteps, file
<1>1. PICK s \in Stor : s = tgt[p]
  BY <1>0
<1>2. PICK n \in Pinned : n = call[p].old /\ n \in Paths /\ dirent[n] = Absent /\ dirent' = [dirent EXCEPT ![n] = s]
  BY <1>0, <1>1 DEF SymlinkOld, SymlinkAt, Owns, Pinned, Paths
<1>3. OthersStay(p) /\ pc'[p] = "symlinkNew" /\ UNCHANGED <<call, tgt>>
  BY <1>0 DEF SymlinkOld, OthersStay, Goto, file, local, ProcType
<1>4. dirent'[n] = s /\ \A q \in Paths \ {n} : dirent'[q] = dirent[q]
  BY <1>0, <1>2 DEF FsType
<1>5. Firm(s) /\ Firm(s)'
  BY <1>0, <1>1, <1>4 DEF Firm
<1>6. \A w \in Stor : (Firm(w)' <=> Firm(w)) /\ dirent'[w] = dirent[w]
  <2>1. \A m \in Pinned \cup Stor : m \in Paths
    BY DEF Pinned, Paths
  <2>2. \A w \in Stor : w \in Paths /\ w # n /\ w # Absent
    BY Ownership, Distinct
  <2>3. ASSUME NEW w \in Stor, w # s PROVE Firm(w)' <=> Firm(w)
    BY <1>0, <1>1, <1>2, <1>3, <1>4, <2>1, <2>2, <2>3 DEF Firm, OthersStay
  <2>4. QED
    BY <1>4, <1>5, <2>2, <2>3
<1>7. \A w \in Stor : Due(w)' \subseteq Due(w)
  <2> SUFFICES ASSUME NEW w \in Stor, NEW q \in Due(w)', q \notin Due(w) PROVE FALSE
    OBVIOUS
  <2>1. q \in Paths
    BY DEF Due
  <2>2. w = s => n \in Due(s)
    BY <1>0, <1>1, <1>2 DEF Due, Owes, Makes
  <2>3. QED
    BY <1>0, <1>3, <1>4, <2>1, <2>2, NewlyDue DEF Owes, Drops, Makes
<1>8. Guarantee(p)
  <2>1. \A r \in Procs \ {p} : \A q \in Owned[r] : dirent'[q] = dirent[q]
    BY <1>2, <1>4, Ownership
  <2>2. \A m \in Pinned \ {n} : dirent'[m] = dirent[m]
    BY <1>4, Ownership
  <2>3. QED
    BY <1>0, <1>2, <1>3, <1>6, <1>7, <2>1, <2>2 DEF Guarantee
<1>9. \A w \in Stor : Covers(w)'
  BY <1>0, <1>7, CoversFewer DEF Linked
<1>10. Linked'
  <2>1. \A q \in Paths : dirent'[q] \in Paths => dirent'[q] \in Stor
    BY <1>0, <1>4 DEF Linked
  <2>2. QED
    BY <1>0, <1>6, <1>9, <2>1, CalmLinked
<1>11. Knows(p)'
  BY <1>1, <1>3, <1>5 DEF Knows, Removes
<1>12. QED
  BY <1>8, <1>10, <1>11 DEF Kept

LEMMA SymlinkNewKept ==
  ASSUME Apart, OwnedInv, NEW p \in Procs, SymlinkNew(p)
  PROVE  Kept(p)
<1>0. /\ ProcType /\ FsType /\ IInv /\ LocalOK(p) /\ Linked /\ Owns(p) /\ Knows(p)
      /\ pc[p] = "symlinkNew" /\ call[p].op = "link"
      /\ UNCHANGED <<lfile, count>>
  BY DEF OwnedInv, IInv, ProcType, SymlinkNew, SymlinkAt, At, LocalOK, LinkSteps
<1>1. PICK s \in Stor : s = tgt[p]
  BY <1>0 DEF Knows
<1>2. PICK n \in Paths : n = call[p].new /\ n \in Owned[p] /\ dirent' = [dirent EXCEPT ![n] = s]
  BY <1>0, <1>1, Ownership DEF SymlinkNew, SymlinkAt, Owns
<1>3. /\ OthersStay(p) /\ \A r \in Procs \ {p} : val'[r] = val[r]
      /\ pc'[p] = "idle"
  BY <1>0 DEF SymlinkNew, OthersStay, Return, Goto, Close, ProcType
<1>4. dirent'[n] = s /\ \A q \in Paths \ {n} : dirent'[q] = dirent[q]
  BY <1>0, <1>2 DEF FsType
<1>5. /\ \A w \in Stor : (Firm(w)' <=> Firm(w)) /\ dirent'[w] = dirent[w]
      /\ \A r \in Procs \ {p} : \A q \in Owned[r] : dirent'[q] = dirent[q]
      /\ \A m \in Pinned : dirent'[m] = dirent[m]
  <2>1. {n} \subseteq Owned[p] /\ pc[p] # "symlinkOld" /\ pc'[p] # "symlinkOld"
    BY <1>0, <1>2, <1>3
  <2>2. QED
    BY <1>0, <1>3, <1>4, <2>1, OwnNameStep
<1>6. \A w \in Stor : Due(w)' \subseteq Due(w)
  <2> SUFFICES ASSUME NEW w \in Stor, NEW q \in Due(w)', q \notin Due(w) PROVE FALSE
    OBVIOUS
  <2>1. q \in Paths
    BY DEF Due
  <2>2. w = s => n \in Due(s)
    BY <1>0, <1>1, <1>2 DEF Due, Owes
  <2>3. QED
    BY <1>0, <1>3, <1>4, <2>1, <2>2, NewlyDue DEF Owes, Drops, Makes
<1>7. Guarantee(p)
  BY <1>0, <1>3, <1>5, <1>6 DEF Guarantee
<1>8. \A w \in Stor : Covers(w)'
  BY <1>0, <1>6, CoversFewer DEF Linked
<1>9. Linked'
  <2>1. \A q \in Paths : dirent'[q] \in Paths => dirent'[q] \in Stor
    BY <1>0, <1>4 DEF Linked
  <2>2. QED
    BY <1>0, <1>5, <1>8, <2>1, CalmLinked
<1>10. Knows(p)'
  BY <1>3 DEF Knows, Removes
<1>11. QED
  BY <1>7, <1>9, <1>10 DEF Kept

\* A count covers as many links, one of them another.
LEMMA CoversMoved ==
  ASSUME FsType, NEW s \in Stor, Covers(s), NEW o \in Due(s), NEW n,
         Due(s)' \subseteq (Due(s) \ {o}) \cup {n}, UNCHANGED <<lfile, count>>
  PROVE  Covers(s)'
<1>1. /\ Cardinality(Due(s)') \in Nat /\ Cardinality(Due(s)') <= Cardinality(Due(s))
      /\ Cardinality(Due(s)) \in Nat
  BY DueFinite, OneMoved
<1>2. /\ lfile[s] # NoInode /\ count[lfile[s]] # Empty
      /\ count[lfile[s]] \in Nat /\ count[lfile[s]] >= Cardinality(Due(s))
  BY DEF Covers, FsType
<1>3. \A c, d, e \in Nat : c >= d /\ e <= d => c >= e
  OBVIOUS
<1>4. count[lfile[s]] >= Cardinality(Due(s)')
  BY <1>1, <1>2, <1>3
<1>5. QED
  BY <1>2, <1>4 DEF Covers

\* rename() of the guest: one of its names takes the place of another.
LEMMA GuestRenameKept ==
  ASSUME Apart, OwnedInv, NEW p \in Procs, RenameReal(p), call[p].op = "rename"
  PROVE  Kept(p)
<1>0. /\ ProcType /\ FsType /\ IInv /\ LocalOK(p) /\ Linked /\ Owns(p)
      /\ pc[p] = "rename" /\ UNCHANGED <<lfile, count>> /\ Return(p, "ok")
  BY DEF OwnedInv, IInv, ProcType, RenameReal, At
<1>1. PICK o \in Paths : o = call[p].old /\ o \in Owned[p]
  BY <1>0, Ownership DEF Owns
<1>2. PICK n \in Paths : n = RenameTo(p) /\ n \in Owned[p]
  BY <1>0, Ownership DEF Owns, RenameTo
<1>3. /\ OthersStay(p) /\ \A r \in Procs \ {p} : val'[r] = val[r]
      /\ pc'[p] = "idle"
  BY <1>0 DEF OthersStay, Return, Goto, Close, ProcType
<1>4. CASE o = n
  <2>1. dirent' = dirent
    BY <1>1, <1>2, <1>4 DEF RenameReal
  <2>2. QED
    BY <1>0, <2>1, ReturnKept
<1>5. CASE o # n
  <2>1. dirent' = [dirent EXCEPT ![n] = dirent[o], ![o] = Absent]
    BY <1>1, <1>2, <1>5 DEF RenameReal
  <2>2. /\ dirent'[n] = dirent[o] /\ dirent'[o] = Absent
        /\ \A q \in Paths \ {o, n} : dirent'[q] = dirent[q]
    BY <1>0, <1>5, <2>1 DEF FsType
  <2>3. /\ \A w \in Stor : (Firm(w)' <=> Firm(w)) /\ dirent'[w] = dirent[w]
        /\ \A r \in Procs \ {p} : \A q \in Owned[r] : dirent'[q] = dirent[q]
        /\ \A m \in Pinned : dirent'[m] = dirent[m]
    <3>1. {o, n} \subseteq Owned[p] /\ pc[p] # "symlinkOld" /\ pc'[p] # "symlinkOld"
      BY <1>0, <1>1, <1>2, <1>3
    <3>2. QED
      BY <1>0, <1>3, <2>2, <3>1, OwnNameStep
  <2>4. \A w \in Stor : w # dirent[o] => Due(w)' \subseteq Due(w)
    <3> SUFFICES ASSUME NEW w \in Stor, w # dirent[o], NEW q \in Due(w)', q \notin Due(w) PROVE FALSE
      OBVIOUS
    <3>1. q \in Paths /\ w # Absent
      BY Distinct DEF Due, Paths
    <3>2. QED
      BY <1>0, <1>3, <2>2, <3>1, NewlyDue DEF Owes, Drops, Makes
  <2>5. ASSUME NEW w \in Stor, w = dirent[o]
        PROVE  o \in Due(w) /\ Due(w)' \subseteq (Due(w) \ {o}) \cup {n}
    <3>1. o \in Due(w)
      BY <1>0, <1>1, <2>5, OwnDue DEF Drops
    <3>2. \A r \in Procs : ~Owes(r, w, o)
      BY <1>1, OwnOwes DEF Owes
    <3>3. \A r \in Procs : ~Owes(r, w, o)'
      BY <1>3, <3>2 DEF Owes, OthersStay, Makes
    <3>4. o \notin Due(w)'
      BY <2>2, <3>3, Distinct DEF Due, Paths
    <3>5. ASSUME NEW q \in Due(w)', q \notin Due(w), q # n PROVE FALSE
      <4>1. q \in Paths /\ q # o
        BY <3>4, <3>5 DEF Due
      <4>2. QED
        BY <1>0, <1>3, <2>2, <3>5, <4>1, NewlyDue DEF Owes, Drops, Makes
    <3>6. QED
      BY <3>1, <3>4, <3>5
  <2>6. Guarantee(p)
    <3>1. ASSUME NEW w \in Stor, \A q \in Due(w) : q \notin Owned[p]
          PROVE  Due(w)' \subseteq Due(w)
      BY <1>1, <2>4, <2>5, <3>1
    <3>2. QED
      BY <1>0, <1>3, <2>3, <3>1 DEF Guarantee
  <2>7. ASSUME NEW w \in Stor PROVE Covers(w)'
    <3>1. CASE w # dirent[o]
      BY <1>0, <2>4, <3>1, CoversFewer DEF Linked
    <3>2. CASE w = dirent[o]
      BY <1>0, <2>5, <3>2, CoversMoved DEF Linked
    <3>3. QED
      BY <3>1, <3>2
  <2>8. Linked'
    <3>1. \A q \in Paths : dirent'[q] \in Paths => dirent'[q] \in Stor
      BY <1>0, <2>2, Distinct DEF Linked, Paths
    <3>2. QED
      BY <1>0, <2>3, <2>7, <3>1, CalmLinked
  <2>9. Knows(p)'
    BY <1>3 DEF Knows, Removes
  <2>10. QED
    BY <2>6, <2>8, <2>9 DEF Kept
<1>6. QED
  BY <1>4, <1>5

\* rename() of link(): the file, or the link, that is converted becomes the
\* storage.  When it is a link to x, the storage takes its place as one.
LEMMA ConvertKept ==
  ASSUME Apart, OwnedInv, NEW p \in Procs, RenameReal(p), call[p].op = "link"
  PROVE  Kept(p)
<1>0. /\ ProcType /\ FsType /\ IInv /\ LocalOK(p) /\ Linked /\ Owns(p)
      /\ pc[p] = "rename" /\ UNCHANGED <<lfile, count, val>> /\ tgt[p] \in Stor
      /\ RenameTo(p) = tgt[p]
  BY DEF OwnedInv, IInv, ProcType, RenameReal, At, LocalOK, file, RenameTo
<1>1. PICK t \in Stor : t = tgt[p] /\ dirent[t] = Absent
  BY <1>0 DEF IInv, Reserved, Reserves, Converting
<1>2. PICK o \in Pinned : o = call[p].old
  BY <1>0 DEF Owns
<1>3. o \in Paths /\ t \in Paths /\ o # t /\ dirent[o] # Absent
  BY <1>0, <1>2, Ownership DEF RenameReal
<1>4. OthersStay(p) /\ pc'[p] = "symlinkOld" /\ UNCHANGED <<call, tgt>>
  BY <1>0 DEF RenameReal, OthersStay, Goto, file, local, ProcType
<1>5. dirent' = [dirent EXCEPT ![t] = dirent[o], ![o] = Absent]
  BY <1>0, <1>1, <1>2, <1>3 DEF RenameReal
<1>6. /\ dirent'[t] = dirent[o] /\ dirent'[o] = Absent
      /\ \A q \in Paths \ {o, t} : dirent'[q] = dirent[q]
  BY <1>0, <1>3, <1>5 DEF FsType
<1>7. ~Firm(t)
  BY <1>0, <1>1 DEF Linked
<1>8. \A w \in Stor : Firm(w)' <=> (Firm(w) \/ w = t)
  <2>1. Firm(t)'
    BY <1>1, <1>4 DEF Firm
  <2>2. ASSUME NEW w \in Stor, Firm(w) PROVE Firm(w)'
    <3>1. CASE \E m \in Pinned \cup Stor : dirent[m] = w
      <4>1. PICK m \in Pinned \cup Stor : dirent[m] = w
        BY <3>1
      <4>2. m \in Paths /\ m # t
        BY <1>1, <4>1, Ownership, Distinct
      <4>3. CASE m = o
        BY <1>6, <4>1, <4>3 DEF Firm
      <4>4. CASE m # o
        BY <1>6, <4>1, <4>2, <4>4 DEF Firm
      <4>5. QED
        BY <4>3, <4>4
    <3>2. CASE \E r \in Procs : pc[r] = "symlinkOld" /\ tgt[r] = w
      BY <1>0, <1>4, <3>2 DEF Firm, OthersStay
    <3>3. QED
      BY <2>2, <3>1, <3>2 DEF Firm
  <2>3. ASSUME NEW w \in Stor, Firm(w)', w # t PROVE Firm(w)
    <3>1. CASE \E m \in Pinned \cup Stor : dirent'[m] = w
      <4>1. PICK m \in Pinned \cup Stor : dirent'[m] = w
        BY <3>1
      <4>2. m \in Paths /\ m # o
        BY <1>6, <4>1, Ownership, Distinct
      <4>3. CASE m = t
        BY <1>6, <4>1, <4>3 DEF Firm
      <4>4. CASE m # t
        BY <1>6, <4>1, <4>2, <4>4 DEF Firm
      <4>5. QED
        BY <4>3, <4>4
    <3>2. CASE \E r \in Procs : pc'[r] = "symlinkOld" /\ tgt'[r] = w
      BY <1>1, <1>4, <2>3, <3>2 DEF Firm, OthersStay
    <3>3. QED
      BY <2>3, <3>1, <3>2 DEF Firm
  <2>4. QED
    BY <2>1, <2>2, <2>3
<1>9. \A w \in Stor : w # dirent[o] => Due(w)' \subseteq Due(w)
  <2> SUFFICES ASSUME NEW w \in Stor, w # dirent[o], NEW q \in Due(w)', q \notin Due(w) PROVE FALSE
    OBVIOUS
  <2>1. q \in Paths /\ w # Absent
    BY Distinct DEF Due, Paths
  <2>2. QED
    BY <1>0, <1>4, <1>6, <2>1, NewlyDue DEF Owes, Drops, Makes
<1>10. ASSUME NEW x \in Stor, x = dirent[o]
       PROVE  o \in Due(x) /\ Due(x)' \subseteq (Due(x) \ {o}) \cup {t}
  <2>1. Firm(x) /\ dirent[x] # Absent
    BY <1>0, <1>2, <1>10 DEF Firm, Linked
  <2>2. x # t
    BY <1>1, <2>1
  <2>3. \A r \in Procs : ~Drops(r, x, o)
    BY <1>2, OwesDrops, Ownership
  <2>4. o \in Due(x)
    BY <1>3, <1>10, <2>3 DEF Due
  <2>5. ASSUME NEW r \in Procs, Owes(r, x, o)' PROVE FALSE
    <3>1. r # p
      BY <1>1, <1>4, <2>2, <2>5 DEF Owes
    <3>2. Owes(r, x, o)
      BY <1>4, <2>5, <3>1 DEF Owes, OthersStay
    <3>3. o = call[r].old /\ pc[r] \in Makes /\ call[r].op = "link" /\ tgt[r] = x
      BY <1>2, <3>2, OwesDrops DEF Owes
    <3>4. pc[r] # "symlinkOld"
      BY <1>3, <3>3 DEF OwnedInv, Knows
    <3>5. Converting(r, x)
      BY <3>3, <3>4 DEF Converting, Makes
    <3>6. QED
      BY <1>0, <2>1, <3>5 DEF IInv, Reserved, Reserves
  <2>6. o \notin Due(x)'
    BY <1>6, <2>5, Distinct DEF Due, Paths
  <2>7. ASSUME NEW q \in Due(x)', q \notin Due(x), q # t PROVE FALSE
    <3>1. q \in Paths /\ q # o
      BY <2>6, <2>7 DEF Due
    <3>2. QED
      BY <1>0, <1>4, <1>6, <2>7, <3>1, NewlyDue DEF Owes, Drops, Makes
  <2>8. QED
    BY <2>4, <2>6, <2>7
<1>11. Guarantee(p)
  <2>1. \A r \in Procs \ {p} : \A q \in Owned[r] : dirent'[q] = dirent[q]
    BY <1>2, <1>6, Ownership
  <2>2. \A m \in Pinned : dirent[m] = Absent => dirent'[m] = Absent
    BY <1>6, Ownership
  <2>3. ASSUME NEW w \in Stor, dirent[w] = Absent PROVE Due(w)' \subseteq Due(w)
    <3>1. w # dirent[o]
      BY <1>0, <1>2, <2>3 DEF Linked, Firm
    <3>2. QED
      BY <1>9, <3>1
  <2>4. QED
    BY <1>0, <1>4, <1>8, <2>1, <2>2, <2>3 DEF Guarantee
<1>12. ASSUME NEW w \in Stor PROVE Covers(w)'
  <2>1. CASE w # dirent[o]
    BY <1>0, <1>9, <2>1, CoversFewer DEF Linked
  <2>2. CASE w = dirent[o]
    BY <1>0, <1>10, <2>2, CoversMoved DEF Linked
  <2>3. QED
    BY <2>1, <2>2
<1>13. Linked'
  <2>1. \A q \in Paths : dirent'[q] \in Paths => dirent'[q] \in Stor
    BY <1>0, <1>3, <1>6, Distinct DEF Linked, Paths
  <2>2. ASSUME NEW w \in Stor, dirent'[w] \in Stor PROVE Firm(w)'
    BY <1>0, <1>2, <1>6, <1>8, <2>2, Ownership DEF Linked
  <2>3. ASSUME NEW w \in Stor, Firm(w)' PROVE dirent'[w] # Absent
    BY <1>0, <1>2, <1>3, <1>6, <1>8, <2>3, Ownership DEF Linked
  <2>4. QED
    BY <1>0, <1>12, <2>1, <2>2, <2>3 DEF Linked
<1>14. Knows(p)'
  BY <1>2, <1>4, <1>6 DEF Knows, Removes
<1>15. QED
  BY <1>11, <1>13, <1>14 DEF Kept

-----------------------------------------------------------------------------
(* The invariant holds, and the theorem.                                   *)

LEMMA StepKept ==
  ASSUME Apart, OwnedInv, NEW p \in Procs, Start(p) \/ Step(p)
  PROVE  Kept(p)
<1>1. RenameReal(p) => call[p].op \in {"link", "rename"}
  BY DEF OwnedInv, IInv, ProcType, LocalOK, RenameReal, At, Calls
<1>2. QED
  BY <1>1, StartKept, ReadKept, RenameReadKept, UnlinkReadKept, CreateKept, WriteIncrKept,
     WriteTwoKept, WriteDecrKept, UnlinkStorKept, UnlinkLinksKept, UnlinkNameKept,
     SymlinkOldKept, SymlinkNewKept, GuestRenameKept, ConvertKept
  DEF Step, Link, Rename, Unlink

\* The arguments of a call do not change, and are a process's own.
LEMMA StepOwns ==
  ASSUME Apart, OwnedInv, NEW p \in Procs, Start(p) \/ Step(p)
  PROVE  Owns(p)'
<1>0. ProcType /\ Owns(p)
  BY DEF OwnedInv, IInv
<1>1. CASE Start(p)
  <2>1. \/ \E old \in Sources, new \in Owned[p] : call'[p].op = "link" /\ call'[p].old = old /\ call'[p].new = new
        \/ \E old \in Owned[p] : call'[p].op = "unlink" /\ call'[p].old = old
        \/ \E old, new \in Owned[p] : call'[p].op = "rename" /\ call'[p].old = old /\ call'[p].new = new
    BY <1>0, <1>1 DEF Start, CallLink, CallUnlink, CallRename, Begin, ProcType
  <2>2. QED
    BY <2>1 DEF Owns, Apart
<1>2. CASE Step(p)
  <2>1. call'[p] = call[p] \/ call'[p] = NoCall
    BY <1>0, <1>2 DEF ProcType, Step, Link, Rename, Unlink, AccessNew, ResolveOld, AccessLinks,
       OpenIncr, LockIncr, WriteIncr, CreateLinks, WriteTwo, SymlinkOld, SymlinkNew, SymlinkFails,
       StatNew, RenameReal, RenameFails, Readlink, AccessLnk, OpenDecr, LockDecr, WriteDecr,
       UnlinkStor, UnlinkLinks, UnlinkName, UnlinkReturn, Return, local
  <2>2. QED
    BY <1>0, <2>1 DEF Owns, NoCall
<1>3. QED
  BY <1>1, <1>2

\* Two processes do not convert one name: the second finds it gone.
LEMMA StepOneConverter ==
  ASSUME Apart, OwnedInv, NEW p \in Procs, Start(p) \/ Step(p), OthersStay(p)
  PROVE  OneConverter'
<1>0. ProcType /\ OneConverter
  BY DEF OwnedInv, IInv
<1>1. ASSUME pc'[p] = "symlinkOld"
      PROVE  call'[p].old = call[p].old /\ dirent[call[p].old] # Absent
  BY <1>0, <1>1 DEF ProcType, Step, Link, Rename, Unlink, AccessNew, ResolveOld, AccessLinks,
       OpenIncr, LockIncr, WriteIncr, CreateLinks, WriteTwo, SymlinkOld, SymlinkNew, SymlinkFails,
       StatNew, RenameReal, RenameFails, Readlink, AccessLnk, OpenDecr, LockDecr, WriteDecr,
       UnlinkStor, UnlinkLinks, UnlinkName, UnlinkReturn, Return, local, Goto,
       Start, CallLink, CallUnlink, CallRename, Begin
<1>2. \A r \in Procs \ {p} : pc[r] = "symlinkOld" => dirent[call[r].old] = Absent
  BY DEF OwnedInv, Knows
<1>3. QED
  BY <1>0, <1>1, <1>2 DEF OneConverter, OthersStay

LEMMA InitOwned ==
  ASSUME Apart PROVE Init => OwnedInv
<1> SUFFICES ASSUME Init PROVE OwnedInv
  OBVIOUS
<1>1. IInv
  BY InitIInv
<1>2. /\ \A q \in Paths : dirent[q] \in Paths => q \in Names /\ dirent[q] \in Stor /\ dirent[dirent[q]] # Absent
      /\ \A p \in Procs : pc[p] = "idle" /\ call[p] = NoCall
      /\ \A s \in Stor : lfile[s] = NoInode <=> dirent[s] = Absent
      /\ \A s, t \in Stor : lfile[s] = lfile[t] /\ lfile[s] # NoInode => s = t
  BY DEF Init, Apart
<1>3. \A s \in Stor : Due(s) = {q \in Paths : dirent[q] = s}
  BY <1>2 DEF Due, Owes, Drops, NoCall
<1>4. \A s \in Stor : dirent[s] \notin Stor /\ (Firm(s) => dirent[s] # Absent)
  <2>1. \A s \in Stor : s \in Paths /\ s \notin Names
    BY Distinct DEF Paths
  <2>2. \A n \in Pinned \cup Stor : n \in Paths
    BY DEF Pinned, Paths
  <2>3. QED
    BY <1>2, <2>1, <2>2 DEF Firm
<1>5. ASSUME NEW s \in Stor PROVE Covers(s)
  <2>1. CASE lfile[s] = NoInode
    <3>1. dirent[s] = Absent
      BY <1>2, <2>1
    <3>2. Due(s) = {}
      BY <1>2, <1>3, <3>1 DEF Paths
    <3>3. QED
      BY <2>1, <3>2 DEF Covers
  <2>2. CASE lfile[s] # NoInode
    <3>1. PICK i \in Inodes : i = lfile[s]
      BY <2>2 DEF Init
    <3>2. StoredAt(i) = {s}
      BY <1>2, <2>2, <3>1 DEF StoredAt
    <3>3. count[i] = NamesAt(i)
      BY <3>1, <3>2 DEF Init
    <3>4. {q \in Paths : dirent[q] \in {s}} = {q \in Paths : dirent[q] = s}
      OBVIOUS
    <3>5. count[i] = Cardinality(Due(s))
      BY <1>3, <3>2, <3>3, <3>4 DEF NamesAt
    <3>6. \A k \in Nat : k >= k
      OBVIOUS
    <3>7. count[i] \in Nat /\ count[i] >= Cardinality(Due(s))
      BY <3>5, <3>6, DueFinite
    <3>8. QED
      BY <2>2, <3>1, <3>7, Distinct DEF Covers
  <2>3. QED
    BY <2>1, <2>2
<1>6. Linked
  BY <1>2, <1>4, <1>5 DEF Linked
<1>7. OneConverter /\ \A p \in Procs : Owns(p) /\ Knows(p)
  BY <1>2 DEF OneConverter, Owns, Knows, Removes, NoCall
<1>8. QED
  BY <1>1, <1>6, <1>7 DEF OwnedInv

LEMMA NextOwned ==
  ASSUME Apart, OwnedInv, [Next]_vars PROVE OwnedInv'
<1>1. IInv'
  BY NextTyped, NextCounted, NextReserved DEF IInv, OwnedInv
<1>2. CASE UNCHANGED vars
  <2>1. \A s \in Stor : (Firm(s)' <=> Firm(s)) /\ Due(s)' = Due(s)
    BY <1>2 DEF vars, Firm, Due, Owes, Drops, UnlinkPath, RenameTo
  <2>2. \A s \in Stor : Covers(s)' <=> Covers(s)
    BY <1>2, <2>1 DEF vars, Covers
  <2>3. Linked' /\ OneConverter'
    BY <1>2, <2>1, <2>2 DEF vars, OwnedInv, Linked, OneConverter
  <2>4. \A p \in Procs : Owns(p)' /\ Knows(p)'
    BY <1>2, <2>1 DEF vars, OwnedInv, Owns, Knows, UnlinkPath, RenameTo
  <2>5. QED
    BY <1>1, <2>3, <2>4 DEF OwnedInv
<1>3. ASSUME NEW p \in Procs, Start(p) \/ Step(p) PROVE OwnedInv'
  <2>1. Guarantee(p) /\ Linked' /\ Knows(p)' /\ OthersStay(p)
    BY <1>3, StepKept DEF Kept, Guarantee
  <2>2. \A r \in Procs : Knows(r)'
    BY <1>1, <2>1, OthersKnow
  <2>3. \A r \in Procs : Owns(r)'
    BY <1>3, <2>1, StepOwns DEF Owns, OthersStay, OwnedInv
  <2>4. OneConverter'
    BY <1>3, <2>1, StepOneConverter
  <2>5. QED
    BY <1>1, <2>1, <2>2, <2>3, <2>4 DEF OwnedInv
<1>4. QED
  BY <1>2, <1>3 DEF Next, Crash, Apart

LEMMA InvarianceOwned ==
  ASSUME Apart PROVE Spec => []OwnedInv
<1>1. OwnedInv /\ [Next]_vars => OwnedInv'
  BY NextOwned
<1>2. QED
  BY InitOwned, <1>1, PTL DEF Spec

\* While processes remove and create only names of their own, a stored file
\* is never counted less often than it is named (link.c:89-103,
\* unlink.c:34-60): unlink() of one name cannot take the file from another.
THEOREM NamesNeverUndercounted ==
  ASSUME Apart PROVE Spec => []NeverUndercounted
<1>1. OwnedInv => NeverUndercounted
  <2> SUFFICES ASSUME OwnedInv, NEW s \in Stor, dirent[s] # Absent
               PROVE  count[lfile[s]] >= Cardinality(Refs(s))
    BY DEF NeverUndercounted
  <2>1. /\ lfile[s] # NoInode /\ count[lfile[s]] # Empty /\ Covers(s)
        /\ count[lfile[s]] \in Nat
    BY FileIsCovered DEF OwnedInv, IInv, FsType, Linked
  <2>2. count[lfile[s]] >= Cardinality(Due(s))
    BY <2>1 DEF Covers
  <2>3. Refs(s) \subseteq Due(s)
    BY DEF Refs, Due, Drops, At
  <2>4. Cardinality(Refs(s)) \in Nat /\ Cardinality(Refs(s)) <= Cardinality(Due(s))
    BY <2>3, DueFinite, FS_Subset, FS_CardinalityType
  <2>5. \A c, d, e \in Nat : c >= d /\ e <= d => c >= e
    OBVIOUS
  <2>6. QED
    BY <2>1, <2>2, <2>4, <2>5, DueFinite
<1>2. QED
  BY InvarianceOwned, <1>1, PTL

-----------------------------------------------------------------------------
(* Pinned names keep their file.  Where a path leads depends on the chain  *)
(* of symlinks from it, which has no more links than there are storages.   *)

WalkEquation ==
  \A n \in Nat, q \in Paths :
     Walk[n][q] = IF n = 0 \/ dirent[q] \notin Paths THEN q ELSE Walk[n - 1][dirent[q]]

LEMMA WalkStepNext == WalkEquation'
<1>1. WalkEquation
  BY WalkStep DEF WalkEquation
<1>2. QED
  BY <1>1, PTL

\* A set of paths that symlinks do not leave, and a step does not change:
\* what its paths lead to stays.
LEMMA SameWalk ==
  ASSUME NEW S \in SUBSET Paths, \A q \in S : dirent[q] \in Paths => dirent[q] \in S,
         \A q \in S : dirent'[q] = dirent[q]
  PROVE  \A k \in Nat, q \in S : Walk'[k][q] = Walk[k][q] /\ Walk[k][q] \in S
<1> DEFINE Same == {k \in Nat : \A q \in S : Walk'[k][q] = Walk[k][q] /\ Walk[k][q] \in S}
<1>1. 0 \in Same
  BY WalkStep, WalkStepNext DEF WalkEquation
<1>2. ASSUME NEW k \in Nat, k \in Same PROVE k + 1 \in Same
  <2> SUFFICES ASSUME NEW q \in S PROVE Walk'[k + 1][q] = Walk[k + 1][q] /\ Walk[k + 1][q] \in S
    OBVIOUS
  <2>1. (k + 1) - 1 = k /\ k + 1 # 0 /\ k + 1 \in Nat /\ q \in Paths
    OBVIOUS
  <2>2. Walk[k + 1][q] = IF dirent[q] \notin Paths THEN q ELSE Walk[k][dirent[q]]
    BY <2>1, WalkStep
  <2>3. Walk'[k + 1][q] = IF dirent[q] \notin Paths THEN q ELSE Walk'[k][dirent[q]]
    BY <2>1, WalkStepNext DEF WalkEquation
  <2>4. QED
    BY <1>2, <2>2, <2>3
<1>3. \A k \in Nat : k \in Same
  <2> HIDE DEF Same
  <2>1. QED
    BY <1>1, <1>2, Lem!Induct
<1>4. QED
  BY <1>3

LEMMA PathsCount == Cardinality(Paths) \in Nat
  BY PathsFinite, FS_CardinalityType

\* Walk follows the links one by one.
LEMMA WalkLast ==
  ASSUME NEW S \in SUBSET Paths, \A q \in S : dirent[q] \in Paths => dirent[q] \in S
  PROVE  \A k \in Nat, q \in S :
           /\ Walk[k][q] \in S
           /\ Walk[k + 1][q] = IF dirent[Walk[k][q]] \in Paths THEN dirent[Walk[k][q]] ELSE Walk[k][q]
<1> DEFINE Last(k, q) == IF dirent[Walk[k][q]] \in Paths THEN dirent[Walk[k][q]] ELSE Walk[k][q]
           Ok == {k \in Nat : \A q \in S : Walk[k][q] \in S /\ Walk[k + 1][q] = Last(k, q)}
<1>1. 0 \in Ok
  <2> SUFFICES ASSUME NEW q \in S PROVE Walk[0][q] \in S /\ Walk[0 + 1][q] = Last(0, q)
    OBVIOUS
  <2>1. Walk[0][q] = q
    BY WalkStep
  <2>2. Walk[1][q] = IF dirent[q] \notin Paths THEN q ELSE Walk[0][dirent[q]]
    <3>1. 1 \in Nat /\ 1 # 0 /\ 1 - 1 = 0
      OBVIOUS
    <3>2. QED
      BY <3>1, WalkStep
  <2>3. dirent[q] \in Paths => Walk[0][dirent[q]] = dirent[q]
    BY WalkStep
  <2>4. QED
    BY <2>1, <2>2, <2>3
<1>2. ASSUME NEW k \in Nat, k \in Ok PROVE k + 1 \in Ok
  <2> SUFFICES ASSUME NEW q \in S
               PROVE  Walk[k + 1][q] \in S /\ Walk[(k + 1) + 1][q] = Last(k + 1, q)
    OBVIOUS
  <2>1. (k + 1) - 1 = k /\ k + 1 # 0 /\ k + 1 \in Nat
        /\ ((k + 1) + 1) - 1 = k + 1 /\ (k + 1) + 1 # 0 /\ (k + 1) + 1 \in Nat
    OBVIOUS
  <2>2. Walk[k + 1][q] = IF dirent[q] \notin Paths THEN q ELSE Walk[k][dirent[q]]
    BY <2>1, WalkStep
  <2>3. Walk[(k + 1) + 1][q] = IF dirent[q] \notin Paths THEN q ELSE Walk[k + 1][dirent[q]]
    BY <2>1, WalkStep
  <2>4. dirent[q] \in Paths => dirent[q] \in S /\ Walk[k][dirent[q]] \in S /\ Walk[k + 1][dirent[q]] = Last(k, dirent[q])
    BY <1>2
  <2>5. QED
    BY <2>2, <2>3, <2>4
<1>3. \A k \in Nat : k \in Ok
  <2> HIDE DEF Ok
  <2>1. QED
    BY <1>1, <1>2, Lem!Induct
<1>4. QED
  BY <1>3

\* What a path leads to: what is at the end of its chain.
ContentEquation ==
  \A q \in Paths :
     Content(q) = IF dirent[Walk[Cardinality(Paths)][q]] \in Files
                  THEN dirent[Walk[Cardinality(Paths)][q]] ELSE Absent

LEMMA ContentStep == ContentEquation
<1> SUFFICES ASSUME NEW q \in Paths
             PROVE  Content(q) = IF dirent[Walk[Cardinality(Paths)][q]] \in Files
                                 THEN dirent[Walk[Cardinality(Paths)][q]] ELSE Absent
  BY DEF ContentEquation
<1>1. PICK N \in Nat : N = Cardinality(Paths)
  BY PathsCount
<1>2. Walk[N][q] \in Paths
  BY WalkLast
<1>3. dirent[q] \notin Paths => Walk[N][q] = q
  BY WalkStep
<1>4. QED
  BY <1>1, <1>2, <1>3, Distinct DEF Content, Exists, RealPath

LEMMA ContentStepNext == ContentEquation'
  BY ContentStep, PTL

LEMMA SameContent ==
  ASSUME NEW S \in SUBSET Paths, \A q \in S : dirent[q] \in Paths => dirent[q] \in S,
         \A q \in S : dirent'[q] = dirent[q]
  PROVE  \A q \in S : Content(q)' = Content(q)
<1> SUFFICES ASSUME NEW q \in S PROVE Content(q)' = Content(q)
  OBVIOUS
<1>1. PICK N \in Nat : N = Cardinality(Paths)
  BY PathsCount
<1>2. Walk'[N][q] = Walk[N][q] /\ dirent'[Walk[N][q]] = dirent[Walk[N][q]]
  BY SameWalk
<1>3. QED
  BY <1>1, <1>2, ContentStep, ContentStepNext DEF ContentEquation

\* The paths whose links no step removes.
Solid == Pinned \cup {s \in Stor : Firm(s)}

LEMMA SolidClosed ==
  ASSUME OwnedInv
  PROVE  /\ Solid \in SUBSET Paths
         /\ \A q \in Solid : dirent[q] \in Paths => dirent[q] \in Stor /\ Firm(dirent[q])
         /\ \A q \in Solid : dirent[q] \in Paths => dirent[q] \in Solid
<1>1. Solid \in SUBSET Paths
  BY DEF Solid, Pinned, Paths
<1>2. \A q \in Solid : dirent[q] \in Paths => dirent[q] \in Stor /\ Firm(dirent[q])
  BY <1>1 DEF OwnedInv, Linked, Firm, Solid
<1>3. QED
  BY <1>1, <1>2 DEF Solid

\* Two parts of a chain.
LEMMA WalkSum ==
  ASSUME NEW S \in SUBSET Paths, \A x \in S : dirent[x] \in Paths => dirent[x] \in S,
         NEW q \in S, NEW a \in Nat
  PROVE  \A b \in Nat : Walk[a + b][q] = Walk[b][Walk[a][q]]
<1> DEFINE Ok == {b \in Nat : Walk[a + b][q] = Walk[b][Walk[a][q]]}
<1>1. 0 \in Ok
  <2>1. a + 0 = a /\ Walk[a][q] \in S
    BY WalkLast
  <2>2. QED
    BY <2>1, WalkStep
<1>2. ASSUME NEW b \in Nat, b \in Ok PROVE b + 1 \in Ok
  <2>1. a + (b + 1) = (a + b) + 1 /\ a + b \in Nat /\ b + 1 \in Nat
    OBVIOUS
  <2>2. PICK e \in S : e = Walk[a][q]
    BY WalkLast
  <2>3. Walk[a + b][q] = Walk[b][e]
    BY <1>2, <2>2
  <2>4. Walk[(a + b) + 1][q] = Walk[b + 1][e]
    <3>1. \A x \in S, i \in Nat : Walk[i + 1][x] = IF dirent[Walk[i][x]] \in Paths THEN dirent[Walk[i][x]] ELSE Walk[i][x]
      BY WalkLast
    <3>2. Walk[b + 1][e] = IF dirent[Walk[b][e]] \in Paths THEN dirent[Walk[b][e]] ELSE Walk[b][e]
      BY <3>1
    <3>3. PICK c \in Nat : c = a + b
      BY <2>1
    <3>4. Walk[c + 1][q] = IF dirent[Walk[c][q]] \in Paths THEN dirent[Walk[c][q]] ELSE Walk[c][q]
      BY <3>1
    <3>5. QED
      BY <2>3, <3>2, <3>3, <3>4
  <2>5. QED
    BY <2>1, <2>2, <2>4
<1>3. QED
  <2> HIDE DEF Ok
  <2>1. \A b \in Nat : b \in Ok
    BY <1>1, <1>2, Lem!Induct
  <2>2. QED
    BY <2>1 DEF Ok

\* A chain that ends has no more links than there are paths on it.
LEMMA ChainEnds ==
  ASSUME NEW S \in SUBSET Paths, NEW k \in Nat, NEW q \in S,
         \A x \in S : dirent[x] \in Paths => dirent[x] \in S,
         dirent[Walk[k][q]] \notin Paths
  PROVE  \A m \in Nat : m + 1 >= Cardinality(S) => Walk[m][q] = Walk[k][q]
<1> DEFINE End == {m \in Nat : dirent[Walk[m][q]] \notin Paths}
<1>1. PICK l \in End : \A m \in End : l <= m
  <2>1. k \in End /\ End \subseteq Nat
    OBVIOUS
  <2> HIDE DEF End
  <2>2. QED
    BY <2>1, Lem!LeastElement
<1>2. l \in Nat /\ dirent[Walk[l][q]] \notin Paths /\ \A m \in Nat : dirent[Walk[m][q]] \notin Paths => l <= m
  BY <1>1
<1> HIDE DEF End
<1>3. \A m \in Nat : Walk[l + m][q] = Walk[l][q]
  <2>1. PICK e \in S : e = Walk[l][q]
    BY <1>2, WalkLast
  <2>2. \A m \in Nat : Walk[l + m][q] = Walk[m][e]
    BY <1>2, <2>1, WalkSum
  <2>3. \A m \in Nat : Walk[m][e] = e
    BY <1>2, <2>1, WalkStep
  <2>4. QED
    BY <2>1, <2>2, <2>3
<1>4. \A m \in Nat : l <= m => Walk[m][q] = Walk[l][q]
  <2> SUFFICES ASSUME NEW m \in Nat, l <= m PROVE Walk[m][q] = Walk[l][q]
    OBVIOUS
  <2>1. m - l \in Nat /\ l + (m - l) = m
    BY <1>2
  <2>2. QED
    BY <1>3, <2>1
<1>5. IsFiniteSet(S) /\ Cardinality(S) \in Nat
  BY PathsFinite, FS_Subset, FS_CardinalityType
<1>6. l + 1 <= Cardinality(S)
  <2> SUFFICES ASSUME Cardinality(S) < l + 1 PROVE FALSE
    BY <1>2, <1>5
  <2> DEFINE f == [i \in 0..l |-> Walk[i][q]]
  <2>1. f \in [0..l -> S]
    BY <1>2, WalkLast
  <2>2. IsFiniteSet(0..l) /\ Cardinality(0..l) = l + 1
    <3>1. 0 \in Int /\ l \in Int /\ ~(0 > l) /\ (l - 0) + 1 = l + 1
      BY <1>2
    <3>2. \A a, b \in Int : /\ IsFiniteSet(a..b)
                            /\ Cardinality(a..b) = IF a > b THEN 0 ELSE (b - a) + 1
      BY FS_Interval
    <3>3. QED
      BY <3>1, <3>2
  <2>3. PICK i, j \in 0..l : i # j /\ f[i] = f[j]
    <3> HIDE DEF f
    <3>1. QED
      BY <1>5, <2>1, <2>2, FS_PigeonHole
  <2>4. \A a, b \in 0..l : ~(a < b /\ Walk[a][q] = Walk[b][q])
    <3> SUFFICES ASSUME NEW a \in 0..l, NEW b \in 0..l, a < b, Walk[a][q] = Walk[b][q] PROVE FALSE
      OBVIOUS
    <3>1. a \in Nat /\ b \in Nat /\ l - b \in Nat /\ b + (l - b) = l /\ a + (l - b) \in Nat /\ ~(l <= a + (l - b))
      BY <1>2
    <3>2. Walk[a + (l - b)][q] = Walk[l - b][Walk[a][q]]
      BY <3>1, WalkSum
    <3>3. Walk[b + (l - b)][q] = Walk[l - b][Walk[b][q]]
      BY <3>1, WalkSum
    <3>4. Walk[a + (l - b)][q] = Walk[l][q]
      BY <3>1, <3>2, <3>3
    <3>5. QED
      BY <1>2, <3>1, <3>4
  <2>5. Walk[i][q] = Walk[j][q] /\ (i < j \/ j < i)
    BY <1>2, <2>3
  <2>6. QED
    BY <2>4, <2>5
<1>7. l <= k
  BY <1>2
<1>8. ASSUME NEW m \in Nat, m + 1 >= Cardinality(S) PROVE Walk[m][q] = Walk[k][q]
  <2>1. l <= m
    BY <1>2, <1>5, <1>6, <1>8
  <2>2. QED
    BY <1>4, <1>7, <2>1
<1>9. QED
  BY <1>8

\* What the guest sees at a name: what it leads to, or what the storage it is
\* being converted to leads to.
ViewEquation ==
  \A n \in Names :
    /\ (\A r \in Procs : ~(pc[r] = "symlinkOld" /\ call[r].old = n)) => View(n) = Content(n)
    /\ \A r \in Procs, s \in Stor :
         pc[r] = "symlinkOld" /\ call[r].old = n /\ s = tgt[r] => View(n) = Content(s)

LEMMA ViewOwned == OwnedInv => ViewEquation
<1> SUFFICES ASSUME OwnedInv, NEW n \in Names
             PROVE  /\ (\A r \in Procs : ~(pc[r] = "symlinkOld" /\ call[r].old = n)) => View(n) = Content(n)
                    /\ \A r \in Procs, s \in Stor :
                         pc[r] = "symlinkOld" /\ call[r].old = n /\ s = tgt[r] => View(n) = Content(s)
  BY DEF ViewEquation
<1> DEFINE w == {r \in Procs : At(r, "symlinkOld") /\ call[r].old = n}
<1>1. View(n) = IF w = {} THEN Content(n) ELSE Content(tgt[CHOOSE r \in w : TRUE])
  BY DEF View
<1>2. \A r \in Procs : r \in w <=> pc[r] = "symlinkOld" /\ call[r].old = n
  BY DEF At
<1>3. ASSUME NEW r \in w PROVE w = {r}
  BY DEF OwnedInv, OneConverter, At
<1>4. \A r : (CHOOSE x \in {r} : TRUE) = r
  OBVIOUS
<1> HIDE DEF w
<1>5. ASSUME NEW r \in Procs, NEW s \in Stor, pc[r] = "symlinkOld", call[r].old = n, s = tgt[r]
      PROVE  View(n) = Content(s)
  <2>1. r \in w
    BY <1>2, <1>5
  <2>2. w = {r}
    BY <1>3, <2>1
  <2>3. (CHOOSE x \in w : TRUE) = r /\ w # {}
    BY <1>4, <2>2
  <2>4. QED
    BY <1>1, <1>5, <2>3
<1>6. (\A r \in Procs : ~(pc[r] = "symlinkOld" /\ call[r].old = n)) => w = {}
  BY DEF w, At
<1>7. QED
  BY <1>1, <1>5, <1>6

LEMMA ViewOwnedNext == OwnedInv' => ViewEquation'
  BY ViewOwned, PTL

\* Only a conversion moves a link that others may follow.
LEMMA SolidStays ==
  ASSUME Apart, OwnedInv, OwnedInv', NEW p \in Procs, Start(p) \/ Step(p), Guarantee(p),
         ~SymlinkOld(p), ~(RenameReal(p) /\ call[p].op = "link")
  PROVE  /\ \A q \in Solid : dirent'[q] = dirent[q]
         /\ pc[p] # "symlinkOld" /\ pc'[p] # "symlinkOld"
<1>0. ProcType /\ FsType /\ LocalOK(p) /\ Owns(p) /\ Knows(p) /\ Solid \in SUBSET Paths
  BY SolidClosed DEF OwnedInv, IInv, ProcType
<1>1. pc[p] # "symlinkOld"
  BY <1>0 DEF Apart, Knows, Step, Link, Rename, Unlink, AccessNew, ResolveOld, AccessLinks,
       OpenIncr, LockIncr, WriteIncr, CreateLinks, WriteTwo, SymlinkNew, SymlinkFails, SymlinkAt,
       StatNew, RenameReal, RenameFails, Readlink, AccessLnk, OpenDecr, LockDecr, WriteDecr,
       UnlinkStor, UnlinkLinks, UnlinkName, At,
       Start, CallLink, CallUnlink, CallRename, Begin
<1>2. pc'[p] # "symlinkOld"
  BY <1>0 DEF ProcType, Step, Link, Rename, Unlink, AccessNew, ResolveOld, AccessLinks,
       OpenIncr, LockIncr, WriteIncr, CreateLinks, WriteTwo, SymlinkNew, SymlinkFails,
       StatNew, RenameReal, RenameFails, Readlink, AccessLnk, OpenDecr, LockDecr, WriteDecr,
       UnlinkStor, UnlinkLinks, UnlinkName, UnlinkReturn, Return, local, Goto, At,
       Start, CallLink, CallUnlink, CallRename, Begin
<1>3. Owned[p] \cap Solid = {}
  BY Ownership DEF Solid
<1>4. CASE SymlinkNew(p)
  <2>1. call[p].new \in Owned[p] /\ dirent' = [dirent EXCEPT ![call[p].new] = tgt[p]]
    BY <1>0, <1>4 DEF SymlinkNew, SymlinkAt, At, LocalOK, LinkSteps, Owns
  <2>2. QED
    BY <1>0, <1>1, <1>2, <1>3, <2>1 DEF FsType
<1>5. CASE RenameReal(p)
  <2>1. call[p].op = "rename"
    BY <1>0, <1>5 DEF RenameReal, At, LocalOK, ProcType, Calls
  <2>2. call[p].old \in Owned[p] /\ RenameTo(p) \in Owned[p]
    BY <1>0, <2>1 DEF Owns, RenameTo
  <2>3. QED
    BY <1>0, <1>1, <1>2, <1>3, <1>5, <2>2 DEF RenameReal, FsType
<1>6. CASE UnlinkStor(p)
  <2>1. dirent' = dirent \/ dirent' = [dirent EXCEPT ![lnk[p]] = Absent]
    BY <1>6 DEF UnlinkStor
  <2>2. lnk[p] \in Stor /\ pc[p] = "unlinkStor"
    BY <1>0, <1>6 DEF UnlinkStor, At, LocalOK
  <2>3. lnk[p] \in Paths
    BY <2>2 DEF Paths
  <2>4. ASSUME lnk[p] \in Solid, dirent' = [dirent EXCEPT ![lnk[p]] = Absent] PROVE FALSE
    <3>1. PICK s \in Stor : s = lnk[p] /\ Firm(s)
      BY <2>2, <2>4, Ownership DEF Solid
    <3>2. dirent'[s] # Absent
      BY <3>1 DEF Guarantee, OwnedInv, Linked
    <3>3. QED
      BY <1>0, <2>3, <2>4, <3>1, <3>2 DEF FsType
  <2>5. QED
    BY <1>0, <1>1, <1>2, <2>1, <2>4 DEF FsType
<1>7. CASE UnlinkName(p)
  <2>1. UnlinkPath(p) \in Owned[p]
    BY <1>0, <1>7, UnlinkOwned DEF UnlinkName, At, UnlinkSteps, OwnedInv
  <2>2. dirent' = dirent \/ dirent' = [dirent EXCEPT ![UnlinkPath(p)] = Absent]
    BY <1>7 DEF UnlinkName
  <2>3. QED
    BY <1>0, <1>1, <1>2, <1>3, <2>1, <2>2 DEF FsType
<1>8. CASE ~(SymlinkNew(p) \/ RenameReal(p) \/ UnlinkStor(p) \/ UnlinkName(p))
  <2>1. dirent' = dirent
    BY <1>8 DEF Step, Link, Rename, Unlink, AccessNew, ResolveOld, AccessLinks, fs,
       OpenIncr, LockIncr, WriteIncr, CreateLinks, WriteTwo, SymlinkFails,
       StatNew, RenameFails, Readlink, AccessLnk, OpenDecr, LockDecr, WriteDecr,
       UnlinkLinks, Start, CallLink, CallUnlink, CallRename, Begin
  <2>2. QED
    BY <1>1, <1>2, <2>1
<1>9. QED
  BY <1>4, <1>5, <1>6, <1>7, <1>8

\* A view stays when nothing solid changes but, maybe, at o.
LEMMA ViewStays ==
  ASSUME Apart, OwnedInv, OwnedInv', NEW p \in Procs, OthersStay(p), NEW o,
         \A q \in Solid \ {o} : dirent'[q] = dirent[q], o \notin Stor,
         pc[p] = "symlinkOld" => call[p].old = o,
         pc'[p] = "symlinkOld" => call'[p].old = o,
         NEW n \in Pinned, n # o
  PROVE  View(n)' = View(n)
<1> DEFINE S == Solid \ {o}
<1>1. \A q \in S : Content(q)' = Content(q)
  <2>1. S \in SUBSET Paths /\ \A q \in S : dirent[q] \in Paths => dirent[q] \in S
    BY SolidClosed
  <2> HIDE DEF S
  <2>2. \A q \in S : dirent'[q] = dirent[q]
    BY DEF S
  <2>3. QED
    BY <2>1, <2>2, SameContent
<1>2. n \in S /\ n \in Names
  BY DEF Solid, Pinned
<1>3. CASE \E r \in Procs : pc[r] = "symlinkOld" /\ call[r].old = n
  <2>1. PICK r \in Procs : pc[r] = "symlinkOld" /\ call[r].old = n
    BY <1>3
  <2>2. r # p
    BY <2>1
  <2>3. PICK s \in Stor : s = tgt[r]
    BY <2>1 DEF OwnedInv, IInv, ProcType, LocalOK
  <2>4. s \in S
    BY <2>1, <2>3 DEF Solid, Firm
  <2>5. View(n) = Content(s)
    BY <1>2, <2>1, <2>3, ViewOwned DEF ViewEquation
  <2>6. View(n)' = Content(s)'
    BY <1>2, <2>1, <2>2, <2>3, ViewOwnedNext DEF ViewEquation, OthersStay
  <2>7. QED
    BY <1>1, <2>4, <2>5, <2>6
<1>4. CASE \A r \in Procs : ~(pc[r] = "symlinkOld" /\ call[r].old = n)
  <2>1. View(n) = Content(n)
    BY <1>2, <1>4, ViewOwned DEF ViewEquation
  <2>2. \A r \in Procs : ~(pc'[r] = "symlinkOld" /\ call'[r].old = n)
    BY <1>4 DEF OthersStay
  <2>3. View(n)' = Content(n)'
    BY <1>2, <2>2, ViewOwnedNext DEF ViewEquation
  <2>4. QED
    BY <1>1, <1>2, <2>1, <2>3
<1>5. QED
  BY <1>3, <1>4

\* link() puts the symlink where the file was: the name leads on to the
\* storage that stood for it.
LEMMA SymlinkOldView ==
  ASSUME Apart, OwnedInv, OwnedInv', NEW p \in Procs, OthersStay(p), SymlinkOld(p)
  PROVE  \A n \in Pinned : View(n)' = View(n)
<1>0. /\ FsType /\ ProcType /\ LocalOK(p) /\ Owns(p) /\ pc[p] = "symlinkOld" /\ call[p].op = "link"
      /\ pc'[p] = "symlinkNew"
  BY DEF OwnedInv, IInv, ProcType, SymlinkOld, SymlinkAt, At, LocalOK, LinkSteps, Goto
<1>1. PICK t \in Stor : t = tgt[p]
  BY <1>0 DEF LocalOK
<1>2. PICK o \in Pinned : o = call[p].old /\ dirent' = [dirent EXCEPT ![o] = t]
  BY <1>0, <1>1 DEF SymlinkOld, SymlinkAt, Owns
<1>3. o \in Paths /\ t \in Paths /\ o \in Names /\ o \notin Stor
  BY Ownership
<1>4. dirent'[o] = t /\ \A q \in Paths \ {o} : dirent'[q] = dirent[q]
  BY <1>0, <1>2, <1>3 DEF FsType
<1>5. Firm(t) /\ t \in Solid
  BY <1>0, <1>1 DEF Firm, Solid
<1>6. \A n \in Pinned : n # o => View(n)' = View(n)
  <2>1. \A q \in Solid \ {o} : dirent'[q] = dirent[q]
    BY <1>4, SolidClosed
  <2>2. QED
    BY <1>0, <1>2, <1>3, <2>1, ViewStays
<1>7. View(o) = Content(t)
  BY <1>0, <1>1, <1>2, <1>3, ViewOwned DEF ViewEquation
<1>8. View(o)' = Content(o)'
  <2>1. \A r \in Procs \ {p} : ~(pc[r] = "symlinkOld" /\ call[r].old = o)
    BY <1>0, <1>2 DEF OwnedInv, OneConverter
  <2>2. \A r \in Procs : ~(pc'[r] = "symlinkOld" /\ call'[r].old = o)
    BY <1>0, <2>1 DEF OthersStay
  <2>3. QED
    BY <1>3, <2>2, ViewOwnedNext DEF ViewEquation
<1>9. Content(o)' = Content(t)
  <2> DEFINE S == Solid \ {o}
  <2>1. S \in SUBSET Paths /\ t \in S /\ \A q \in S : dirent[q] \in Paths => dirent[q] \in S
    BY <1>3, <1>5, SolidClosed
  <2> HIDE DEF S
  <2>2. \A q \in S : dirent'[q] = dirent[q]
    BY <1>4, <2>1 DEF S
  <2>3. PICK N \in Nat : N = Cardinality(Paths)
    BY PathsCount
  <2>4. Cardinality(S) <= N - 1 /\ N # 0 /\ Cardinality(S) \in Nat
    <3>1. IsFiniteSet(Paths) /\ S \subseteq Paths \ {o}
      BY <2>1, PathsFinite DEF S
    <3>2. Cardinality(S) \in Nat /\ Cardinality(S) <= N - 1
      BY <1>3, <2>3, <3>1, OneLess
    <3>3. QED
      BY <3>2
  <2>5. N - 1 \in Nat /\ (N - 1) + 1 >= Cardinality(S) /\ N + 1 >= Cardinality(S)
    BY <2>4
  <2>6. Walk[N][t] \in S /\ Walk[N - 1][t] \in S /\ Walk'[N - 1][t] = Walk[N - 1][t]
    BY <2>1, <2>2, <2>5, SameWalk
  <2>7. Walk'[N][o] = Walk[N - 1][t]
    BY <1>3, <1>4, <2>4, <2>6, WalkStepNext DEF WalkEquation
  <2>8. dirent'[Walk[N - 1][t]] = dirent[Walk[N - 1][t]]
    BY <2>2, <2>6
  <2>9. Content(o)' = IF dirent[Walk[N - 1][t]] \in Files THEN dirent[Walk[N - 1][t]] ELSE Absent
    BY <1>3, <2>3, <2>7, <2>8, ContentStepNext DEF ContentEquation
  <2>10. Content(t) = IF dirent[Walk[N][t]] \in Files THEN dirent[Walk[N][t]] ELSE Absent
    BY <1>3, <2>3, ContentStep DEF ContentEquation
  <2>11. dirent[Walk[N][t]] \in Files => Walk[N - 1][t] = Walk[N][t]
    BY <2>1, <2>5, ChainEnds, Distinct
  <2>12. dirent[Walk[N - 1][t]] \in Files => Walk[N][t] = Walk[N - 1][t]
    BY <2>1, <2>5, ChainEnds, Distinct
  <2>13. QED
    BY <2>9, <2>10, <2>11, <2>12
<1>10. QED
  BY <1>6, <1>7, <1>8, <1>9

\* link() moves the file to its storage: the storage leads to what the name
\* led to.
LEMMA ConvertView ==
  ASSUME Apart, OwnedInv, OwnedInv', NEW p \in Procs, OthersStay(p), RenameReal(p), call[p].op = "link"
  PROVE  \A n \in Pinned : View(n)' = View(n)
<1>0. /\ ProcType /\ FsType /\ IInv /\ LocalOK(p) /\ Linked /\ Owns(p)
      /\ pc[p] = "rename" /\ tgt[p] \in Stor
      /\ RenameTo(p) = tgt[p]
  BY DEF OwnedInv, IInv, ProcType, RenameReal, At, LocalOK, RenameTo
<1>1. PICK t \in Stor : t = tgt[p] /\ dirent[t] = Absent
  BY <1>0 DEF IInv, Reserved, Reserves, Converting
<1>2. PICK o \in Pinned : o = call[p].old
  BY <1>0 DEF Owns
<1>3. /\ o \in Paths /\ t \in Paths /\ o # t /\ dirent[o] # Absent
      /\ o \in Names /\ o \notin Stor
  BY <1>0, <1>2, Ownership DEF RenameReal
<1>4. pc'[p] = "symlinkOld" /\ UNCHANGED <<call, tgt>>
  BY <1>0 DEF RenameReal, Goto, file, local, ProcType
<1>5. dirent' = [dirent EXCEPT ![t] = dirent[o], ![o] = Absent]
  BY <1>0, <1>1, <1>2, <1>3 DEF RenameReal
<1>6. dirent'[t] = dirent[o] /\ \A q \in Paths \ {o, t} : dirent'[q] = dirent[q]
  BY <1>0, <1>3, <1>5 DEF FsType
<1>7. t \notin Solid
  BY <1>0, <1>1, Ownership DEF Linked, Solid
<1>8. \A q \in Solid \ {o} : dirent'[q] = dirent[q]
  BY <1>6, <1>7, SolidClosed
<1>9. \A n \in Pinned : n # o => View(n)' = View(n)
  BY <1>0, <1>2, <1>3, <1>4, <1>8, ViewStays
<1>10. View(o) = Content(o)
  <2>1. \A r \in Procs : ~(pc[r] = "symlinkOld" /\ call[r].old = o)
    BY <1>3 DEF OwnedInv, Knows
  <2>2. QED
    BY <1>3, <2>1, ViewOwned DEF ViewEquation
<1>11. View(o)' = Content(t)'
  BY <1>1, <1>2, <1>3, <1>4, ViewOwnedNext DEF ViewEquation
<1>12. Content(t)' = Content(o)
  <2> DEFINE S == Solid \ {o}
  <2>1. S \in SUBSET Paths /\ \A q \in S : dirent[q] \in Paths => dirent[q] \in S
    BY <1>3, SolidClosed
  <2>2. dirent[o] \in Paths => dirent[o] \in S
    BY <1>2, <1>3, SolidClosed DEF Solid
  <2>3. \A q \in S : dirent'[q] = dirent[q]
    BY <1>8
  <2> HIDE DEF S
  <2>4. PICK N \in Nat : N = Cardinality(Paths)
    BY PathsCount
  <2>5. N # 0 /\ N - 1 \in Nat
    BY <1>3, <2>4, PathsFinite, FS_EmptySet
  <2>6. Content(t)' = IF dirent'[Walk'[N][t]] \in Files THEN dirent'[Walk'[N][t]] ELSE Absent
    BY <1>3, <2>4, ContentStepNext DEF ContentEquation
  <2>7. Content(o) = IF dirent[Walk[N][o]] \in Files THEN dirent[Walk[N][o]] ELSE Absent
    BY <1>3, <2>4, ContentStep DEF ContentEquation
  <2>8. CASE dirent[o] \notin Paths
    <3>1. Walk'[N][t] = t /\ Walk[N][o] = o
      BY <1>3, <1>6, <2>8, WalkStep, WalkStepNext DEF WalkEquation
    <3>2. QED
      BY <1>6, <2>6, <2>7, <3>1
  <2>9. CASE dirent[o] \in Paths
    <3>1. PICK x \in S : x = dirent[o]
      BY <2>2, <2>9
    <3>2. Walk'[N][t] = Walk'[N - 1][x] /\ Walk[N][o] = Walk[N - 1][x]
      BY <1>3, <1>6, <2>5, <2>9, <3>1, WalkStep, WalkStepNext DEF WalkEquation
    <3>3. Walk'[N - 1][x] = Walk[N - 1][x] /\ Walk[N - 1][x] \in S
      BY <2>1, <2>3, <2>5, SameWalk
    <3>4. QED
      BY <2>3, <2>6, <2>7, <3>2, <3>3
  <2>10. QED
    BY <2>8, <2>9
<1>13. QED
  BY <1>9, <1>10, <1>11, <1>12

\* A name no process removes or renames keeps leading to its file, whatever
\* link() (link.c:142-180) and unlink() (unlink.c:17-108) do to the file's
\* other names, at every system call of theirs; but between the rename and the
\* symlink of a conversion (link.c:172-173) the name is missing, and its file at
\* the storage that the symlink will lead to.
THEOREM PinnedNamesKeepTheirFile ==
  ASSUME Apart PROVE Spec => PinnedKeepsFile
<1>1. OwnedInv /\ OwnedInv' /\ [Next]_vars => [\A n \in Pinned : View(n)' = View(n)]_vars
  <2> SUFFICES ASSUME OwnedInv, OwnedInv', Next PROVE \A n \in Pinned : View(n)' = View(n)
    OBVIOUS
  <2>1. PICK p \in Procs : Start(p) \/ Step(p)
    BY DEF Next, Crash, Apart
  <2>2. Guarantee(p) /\ OthersStay(p)
    BY <2>1, StepKept DEF Kept, Guarantee
  <2>3. CASE SymlinkOld(p)
    BY <2>2, <2>3, SymlinkOldView
  <2>4. CASE RenameReal(p) /\ call[p].op = "link"
    BY <2>2, <2>4, ConvertView
  <2>5. CASE ~SymlinkOld(p) /\ ~(RenameReal(p) /\ call[p].op = "link")
    <3>1. /\ \A q \in Solid : dirent'[q] = dirent[q]
          /\ pc[p] # "symlinkOld" /\ pc'[p] # "symlinkOld"
      BY <2>1, <2>2, <2>5, SolidStays
    <3>2. Absent \notin Stor /\ Absent \notin Pinned
      BY Distinct DEF Paths, Pinned
    <3>3. QED
      BY <2>2, <3>1, <3>2, ViewStays
  <2>6. QED
    BY <2>3, <2>4, <2>5
<1>2. QED
  BY InvarianceOwned, <1>1, PTL DEF Spec, PinnedKeepsFile

=============================================================================
