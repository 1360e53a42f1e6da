----------------------------- MODULE DacOverride -----------------------------
(***************************************************************************)
(* open() and openat() of open.c for a process that plays root: when the   *)
(* kernel answers EACCES, the owner's permission bits of the file are      *)
(* widened by a first chmod(), the file is opened again, and a second      *)
(* chmod() puts the bits back ("Simulate CAP_DAC_OVERRIDE").               *)
(*                                                                         *)
(* Several processes of one guest open the same name in two directories,   *)
(* may be killed between two system calls, and meanwhile change modes and  *)
(* rename files.  Each action is one system call.  A mode is the set of    *)
(* the owner's bits; the other bits are carried along unchanged.           *)
(***************************************************************************)
EXTENDS Integers, FiniteSets

CONSTANTS
  Procs,
  Files,        \* the files that have, or get, the name
  Foreign,      \* the files owned by another user, where chmod() fails
  FakeRoot,     \* the processes with HxUid = 0 and HxGid = 0
  Absent, NoFile,
  Ats,          \* whether openat() is given a directory: subset of BOOLEAN
  MaxCalls      \* bound on the number of opens, kills and changes

Dirs  == {"cwd", "dir"}     \* the working directory, and openat()'s dirfd
Modes == SUBSET {"r", "w"}
Accs  == {"rdonly", "wronly", "rdwr"}

ASSUME DacAssumption ==
  /\ Foreign \subseteq Files /\ FakeRoot \subseteq Procs
  /\ Absent \notin Files /\ NoFile \notin Files
  /\ Ats \subseteq BOOLEAN /\ MaxCalls \in Nat

VARIABLES
  ent,      \* the file the name is in each directory, or Absent
  mode,     \* the owner's bits of each file
  pc,       \* the system call each process makes next
  job,      \* the open a process is in: its directory and access mode
  st,       \* the mode stat() reported to each process
  fd,       \* the file each process got open, or NoFile
  res,      \* what each process's last open returned
  \* History, read by properties only:
  wanted,   \* the mode each file was last given by chmod() of the guest
  mixed,    \* what overlapped an open: other opens, or other changes
  calls

vars == <<ent, mode, pc, job, st, fd, res, wanted, mixed, calls>>
hist == <<wanted, mixed, calls>>

At(p, l)   == pc[p] = l
Goto(p, l) == pc' = [pc EXCEPT ![p] = l]
Quiet      == \A p \in Procs : At(p, "idle")

\* The bits open() needs, and the bits it adds: O_WRONLY adds the write bit,
\* O_RDWR both, everything else the read bit.
Needs(a) == CASE a = "rdonly" -> {"r"} [] a = "wronly" -> {"w"} [] a = "rdwr" -> {"r", "w"}

\* Mutant: O_RDWR is taken for O_RDONLY.
WidenRead(a) == IF a = "wronly" THEN {"w"} ELSE {"r"}

Widened(a) == CASE a = "wronly" -> {"w"} [] a = "rdwr" -> {"r", "w"} [] OTHER -> {"r"}

\* openat() opens and widens relative to dirfd; its stat() and its second
\* chmod() resolve the path in the working directory.
OpenDir(p) == job[p].dir
PathDir    == "cwd"

Allowed(f, a) == f \notin Foreign /\ Needs(a) \subseteq mode[f]

Return(p, f, r) ==
  /\ Goto(p, "idle")
  /\ fd'  = [fd EXCEPT ![p] = f]
  /\ res' = [res EXCEPT ![p] = r]
  /\ st'  = [st EXCEPT ![p] = {}]

-----------------------------------------------------------------------------
Begin(p) ==
  /\ At(p, "idle") /\ calls < MaxCalls
  /\ calls' = calls + 1
  /\ \E a \in Accs, b \in Ats : job' = [job EXCEPT ![p] = [dir |-> IF b THEN "dir" ELSE "cwd", acc |-> a]]
  /\ mixed' = IF Quiet THEN mixed ELSE mixed \cup {"open"}
  /\ Goto(p, "open")
  /\ fd' = [fd EXCEPT ![p] = NoFile] /\ res' = [res EXCEPT ![p] = "none"]
  /\ UNCHANGED <<ent, mode, st, wanted>>

\* The first open_real().
OpenFirst(p) ==
  /\ At(p, "open")
  /\ LET f == ent[OpenDir(p)] IN
       \/ /\ f # Absent /\ Allowed(f, job[p].acc)
          /\ Return(p, f, "ok")
       \/ /\ f = Absent
          /\ Return(p, NoFile, "ENOENT")
       \/ /\ f # Absent /\ ~Allowed(f, job[p].acc)
          /\ IF p \in FakeRoot
             THEN Goto(p, "stat") /\ UNCHANGED <<st, fd, res>>
             ELSE Return(p, NoFile, "EACCES")
  /\ UNCHANGED <<ent, mode, job, hist>>

Stat(p) ==
  /\ At(p, "stat")
  /\ LET f == ent[PathDir] IN
       IF f = Absent THEN Return(p, NoFile, "ENOENT")
       ELSE /\ st' = [st EXCEPT ![p] = mode[f]]
            /\ Goto(p, "widen") /\ UNCHANGED <<fd, res>>
  /\ UNCHANGED <<ent, mode, job, hist>>

\* The first chmod() (fchmodat() of openat()).
Widen(p) ==
  /\ At(p, "widen")
  /\ LET f == ent[OpenDir(p)] IN
       IF f = Absent \/ f \in Foreign
       THEN Return(p, NoFile, "err") /\ UNCHANGED mode
       ELSE /\ mode' = [mode EXCEPT ![f] = st[p] \cup Widened(job[p].acc)]
            /\ Goto(p, "reopen") /\ UNCHANGED <<st, fd, res>>
  /\ UNCHANGED <<ent, job, hist>>

\* Mutant: the second open_real() is not checked for an error.
ReopenUnchecked(p) ==
  /\ At(p, "reopen")
  /\ fd' = [fd EXCEPT ![p] = ent[OpenDir(p)]]
  /\ Goto(p, "restore")
  /\ UNCHANGED <<ent, mode, job, st, res, hist>>

\* The second open_real(); its error is returned after the second chmod().
Reopen(p) ==
  /\ At(p, "reopen")
  /\ LET f == ent[OpenDir(p)] IN
       fd' = [fd EXCEPT ![p] = IF f # Absent /\ Allowed(f, job[p].acc) THEN f ELSE NoFile]
  /\ Goto(p, "restore")
  /\ UNCHANGED <<ent, mode, job, st, res, hist>>

\* Mutant: the second chmod() is given the widened mode.
RestoreWidened(p) ==
  /\ At(p, "restore")
  /\ LET f == ent[PathDir] IN
       IF f = Absent \/ f \in Foreign
       THEN Return(p, NoFile, "err") /\ UNCHANGED mode
       ELSE /\ mode' = [mode EXCEPT ![f] = st[p] \cup Widened(job[p].acc)]
            /\ Return(p, fd[p], IF fd[p] = NoFile THEN "err" ELSE "ok")
  /\ UNCHANGED <<ent, job, hist>>

\* Mutant: the widened mode is put back without the bits that were added.
RestoreStripped(p) ==
  /\ At(p, "restore")
  /\ LET f == ent[PathDir] IN
       IF f = Absent \/ f \in Foreign
       THEN Return(p, NoFile, "err") /\ UNCHANGED mode
       ELSE /\ mode' = [mode EXCEPT ![f] = st[p] \ Widened(job[p].acc)]
            /\ Return(p, fd[p], IF fd[p] = NoFile THEN "err" ELSE "ok")
  /\ UNCHANGED <<ent, job, hist>>

\* The second chmod().  When it fails, open() returns -1 and the descriptor it
\* got stays open, unknown to the guest.
Restore(p) ==
  /\ At(p, "restore")
  /\ LET f == ent[PathDir] IN
       IF f = Absent \/ f \in Foreign
       THEN Return(p, NoFile, "err") /\ UNCHANGED mode
       ELSE /\ mode' = [mode EXCEPT ![f] = st[p]]
            /\ Return(p, fd[p], IF fd[p] = NoFile THEN "err" ELSE "ok")
  /\ UNCHANGED <<ent, job, hist>>

-----------------------------------------------------------------------------
(* What else happens.                                                      *)

Disturb ==
  /\ calls < MaxCalls /\ calls' = calls + 1
  /\ mixed' = IF Quiet THEN mixed ELSE mixed \cup {"change"}

\* The process is killed inside open().
Crash(p) ==
  /\ ~At(p, "idle") /\ Disturb
  /\ Return(p, NoFile, "killed")
  /\ UNCHANGED <<ent, mode, job, wanted>>

\* The guest gives a file of its own another mode.
Chmod ==
  /\ Disturb
  /\ \E d \in Dirs, m \in Modes :
       /\ ent[d] \in Files \ Foreign
       /\ mode'   = [mode EXCEPT ![ent[d]] = m]
       /\ wanted' = [wanted EXCEPT ![ent[d]] = m]
  /\ UNCHANGED <<ent, pc, job, st, fd, res>>

\* The guest renames another file to the name, or unlinks it.
Replace ==
  /\ Disturb
  /\ \E d \in Dirs, f \in Files \cup {Absent} :
       /\ f = Absent \/ \A e \in Dirs : ent[e] # f
       /\ ent' = [ent EXCEPT ![d] = f]
  /\ UNCHANGED <<mode, pc, job, st, fd, res, wanted>>

-----------------------------------------------------------------------------
Init ==
  /\ ent \in [Dirs -> Files \cup {Absent}]
  /\ ent["cwd"] # ent["dir"] \/ ent["cwd"] = Absent
  /\ mode \in [Files -> Modes] /\ wanted = mode
  /\ pc  = [p \in Procs |-> "idle"]
  /\ job = [p \in Procs |-> [dir |-> "cwd", acc |-> "rdonly"]]
  /\ st  = [p \in Procs |-> {}]
  /\ fd  = [p \in Procs |-> NoFile]
  /\ res = [p \in Procs |-> "none"]
  /\ mixed = {} /\ calls = 0

Open(p) == OpenFirst(p) \/ Stat(p) \/ Widen(p) \/ Reopen(p) \/ Restore(p)

Next == (\E p \in Procs : Begin(p) \/ Open(p) \/ Crash(p)) \/ Chmod \/ Replace

Spec == Init /\ [][Next]_vars

-----------------------------------------------------------------------------
\* Every variable has its type.
DacTypeOK ==
  /\ ent  \in [Dirs -> Files \cup {Absent}]
  /\ mode \in [Files -> Modes] /\ wanted \in [Files -> Modes]
  /\ pc   \in [Procs -> {"idle", "open", "stat", "widen", "reopen", "restore"}]
  /\ job  \in [Procs -> [dir : Dirs, acc : Accs]]
  /\ st   \in [Procs -> Modes]
  /\ fd   \in [Procs -> Files \cup {NoFile}]
  /\ res  \in [Procs -> {"none", "ok", "ENOENT", "EACCES", "err", "killed"}]
  /\ mixed \subseteq {"open", "change"} /\ calls \in Nat

\* Between opens that nothing overlapped every file has the mode the guest
\* gave it: the override leaves no trace.
ModeRestored == Quiet /\ mixed = {} => mode = wanted

\* When nothing overlaps, the second open_real() succeeds: the bits added for
\* an access mode are enough for it, whatever mode the file had.
OverrideWorks == mixed = {} => \A p \in Procs : At(p, "restore") => fd[p] # NoFile

\* Overlapping opens take no permission away: whatever mode a concurrent
\* open saw and puts back, the bits the guest granted stay.
NeverNarrowed == "change" \notin mixed => \A f \in Files : wanted[f] \subseteq mode[f]
=============================================================================
