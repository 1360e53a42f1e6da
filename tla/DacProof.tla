------------------------------ MODULE DacProof ------------------------------
(***************************************************************************)
(* Theorems about DacOverride, for any number of processes and files: its  *)
(* type invariant, and of open() (Ats = {FALSE}) that overlapping opens    *)
(* take no permission away that the guest granted, and that an open nothing*)
(* overlaps succeeds and leaves no trace.                                  *)
(***************************************************************************)
EXTENDS DacOverride, TLAPS

LEMMA NeedsWidenedTypes ==
  ASSUME NEW a \in Accs
  PROVE  Needs(a) \in Modes /\ Widened(a) \in Modes
  BY DEF Accs, Needs, Widened, Modes

LEMMA TypesAtFirst == Init => DacTypeOK
  BY DEF Init, DacTypeOK, Dirs, Accs, Modes

\* What a process keeps, with its types.
PlaceTyped ==
  /\ pc  \in [Procs -> {"idle", "open", "stat", "widen", "reopen", "restore"}]
  /\ st  \in [Procs -> Modes]
  /\ fd  \in [Procs -> Files \cup {NoFile}]
  /\ res \in [Procs -> {"none", "ok", "ENOENT", "EACCES", "err", "killed"}]

LEMMA ReturnTyped ==
  ASSUME PlaceTyped, NEW p \in Procs, NEW f \in Files \cup {NoFile},
         NEW r \in {"ok", "ENOENT", "EACCES", "err", "killed"}, Return(p, f, r)
  PROVE  PlaceTyped'
  BY DEF PlaceTyped, Return, Goto, Modes

LEMMA TypesKept == DacTypeOK /\ [Next]_vars => DacTypeOK'
<1> SUFFICES ASSUME DacTypeOK, [Next]_vars PROVE DacTypeOK'
  OBVIOUS
<1> USE DEF DacTypeOK
<1>0. PlaceTyped /\ NoFile \in Files \cup {NoFile} /\ PathDir \in Dirs
  BY DEF PlaceTyped, PathDir, Dirs
<1>1. ASSUME NEW p \in Procs, Begin(p) PROVE DacTypeOK'
  BY <1>1 DEF Begin, Goto, Dirs, hist, Accs
<1>2. ASSUME NEW p \in Procs, OpenFirst(p) PROVE DacTypeOK'
  <2>1. ent[OpenDir(p)] \in Files \cup {Absent}
    BY DEF OpenDir
  <2>2. CASE Goto(p, "stat") /\ UNCHANGED <<st, fd, res>>
    BY <1>2, <2>2 DEF OpenFirst, Goto, hist
  <2>3. CASE \E f \in Files \cup {NoFile}, r \in {"ok", "ENOENT", "EACCES"} : Return(p, f, r)
    <3>1. PlaceTyped'
      BY <1>0, <2>3, ReturnTyped
    <3> QED
      BY <1>2, <3>1 DEF OpenFirst, hist, PlaceTyped
  <2> QED
    BY <1>2, <2>1, <2>2, <2>3 DEF OpenFirst
<1>3. ASSUME NEW p \in Procs, Stat(p) PROVE DacTypeOK'
  <2>1. CASE ent[PathDir] = Absent
    <3>1. PlaceTyped'
      BY <1>0, <1>3, <2>1, ReturnTyped DEF Stat
    <3> QED
      BY <1>3, <3>1 DEF Stat, hist, PlaceTyped
  <2>2. CASE ent[PathDir] # Absent
    <3>1. mode[ent[PathDir]] \in Modes
      BY <1>0, <2>2
    <3> QED
      BY <1>3, <2>2, <3>1 DEF Stat, Goto, hist
  <2> QED
    BY <2>1, <2>2
<1>4. ASSUME NEW p \in Procs, Widen(p) PROVE DacTypeOK'
  <2>1. CASE ent[OpenDir(p)] = Absent \/ ent[OpenDir(p)] \in Foreign
    <3>1. PlaceTyped'
      BY <1>0, <1>4, <2>1, ReturnTyped DEF Widen
    <3> QED
      BY <1>4, <2>1, <3>1 DEF Widen, hist, PlaceTyped
  <2>2. CASE ~(ent[OpenDir(p)] = Absent \/ ent[OpenDir(p)] \in Foreign)
    <3>1. st[p] \cup Widened(job[p].acc) \in Modes
      BY NeedsWidenedTypes DEF Modes
    <3> QED
      BY <1>4, <2>2, <3>1, ZenonT(40) DEF Widen, Goto, hist
  <2> QED
    BY <2>1, <2>2
<1>5. ASSUME NEW p \in Procs, Reopen(p) PROVE DacTypeOK'
  <2>1. ent[OpenDir(p)] \in Files \cup {Absent}
    BY DEF OpenDir
  <2> QED
    BY <1>5, <2>1 DEF Reopen, Goto, hist
<1>6. ASSUME NEW p \in Procs, Restore(p) PROVE DacTypeOK'
  <2>1. PlaceTyped'
    BY <1>0, <1>6, ReturnTyped DEF Restore
  <2>2. mode' \in [Files -> Modes]
    BY <1>6 DEF Restore
  <2> QED
    BY <1>6, <2>1, <2>2 DEF Restore, hist, PlaceTyped
<1>7. ASSUME NEW p \in Procs, Crash(p) PROVE DacTypeOK'
  <2>1. PlaceTyped'
    BY <1>0, <1>7, ReturnTyped DEF Crash
  <2> QED
    BY <1>7, <2>1 DEF Crash, Disturb, PlaceTyped
<1>8. CASE Chmod
  BY <1>8 DEF Chmod, Disturb
<1>9. CASE Replace
  BY <1>9 DEF Replace, Disturb
<1>10. CASE UNCHANGED vars
  BY <1>10 DEF vars
<1> QED
  BY <1>1, <1>2, <1>3, <1>4, <1>5, <1>6, <1>7, <1>8, <1>9, <1>10 DEF Next, Open

\* Whatever processes open, are killed, or change files, the state of
\* open() and openat() keeps its types.
THEOREM DacTypes == Spec => []DacTypeOK
  BY TypesAtFirst, TypesKept, PTL DEF Spec

-----------------------------------------------------------------------------
\* What makes NeverNarrowed inductive: a process that will put a mode back
\* read it while it had all the guest granted.
Remembers ==
  \A p \in Procs : pc[p] \in {"widen", "reopen", "restore"} =>
    /\ ent[PathDir] # Absent
    /\ wanted[ent[PathDir]] \subseteq st[p]

Granted ==
  /\ \A p \in Procs : job[p].dir = PathDir
  /\ "change" \notin mixed => Remembers /\ NeverNarrowed

LEMMA GrantedAtFirst == Init => Granted
  BY DEF Init, Granted, Remembers, NeverNarrowed, PathDir

\* A change by others that meets a process inside open() is recorded.
LEMMA DisturbsQuietly ==
  ASSUME DacTypeOK, Disturb, "change" \notin mixed'
  PROVE  Quiet /\ "change" \notin mixed
  BY DEF Disturb, DacTypeOK

LEMMA GrantedKept ==
  ASSUME Ats = {FALSE}, DacTypeOK, Granted, [Next]_vars
  PROVE  Granted'
<1> USE DEF Granted, DacTypeOK
<1> DEFINE Cwd == ent[PathDir]
<1>0. Cwd \in Files \cup {Absent} /\ PathDir \in Dirs /\ Absent \notin Files
  BY DacAssumption DEF PathDir, Dirs
<1>1. ASSUME NEW p \in Procs, Begin(p) PROVE Granted'
  <2>1. \A q \in Procs : job'[q].dir = PathDir
    BY <1>1 DEF Begin, PathDir
  <2>2. "change" \notin mixed' => "change" \notin mixed
    BY <1>1 DEF Begin
  <2>3. Remembers => Remembers'
    BY <1>1 DEF Begin, Goto, Remembers, At, PathDir
  <2>4. NeverNarrowed /\ "change" \notin mixed => NeverNarrowed'
    BY <1>1 DEF Begin, NeverNarrowed
  <2> QED
    BY <2>1, <2>2, <2>3, <2>4 DEF NeverNarrowed
<1>2. ASSUME NEW p \in Procs, OpenFirst(p) PROVE Granted'
  BY <1>2 DEF OpenFirst, Return, Goto, Remembers, NeverNarrowed, hist, PathDir, At
<1>3. ASSUME NEW p \in Procs, Stat(p) PROVE Granted'
  BY <1>0, <1>3 DEF Stat, Return, Goto, Remembers, NeverNarrowed, hist, PathDir, At
<1>4. ASSUME NEW p \in Procs, Widen(p) PROVE Granted'
  <2>1. OpenDir(p) = PathDir /\ job' = job /\ ent' = ent /\ wanted' = wanted /\ mixed' = mixed
    BY <1>4 DEF Widen, OpenDir, hist
  <2>2. Remembers => Remembers'
    BY <1>4, <2>1 DEF Widen, Return, Goto, Remembers, PathDir, At
  <2>3. Remembers /\ "change" \notin mixed => NeverNarrowed'
    BY <1>0, <1>4, <2>1 DEF Widen, Remembers, NeverNarrowed, At
  <2> QED
    BY <2>1, <2>2, <2>3 DEF PathDir
<1>5. ASSUME NEW p \in Procs, Reopen(p) PROVE Granted'
  BY <1>5 DEF Reopen, Goto, Remembers, NeverNarrowed, hist, PathDir, At
<1>6. ASSUME NEW p \in Procs, Restore(p) PROVE Granted'
  <2>1. job' = job /\ ent' = ent /\ wanted' = wanted /\ mixed' = mixed
    BY <1>6 DEF Restore, hist
  <2>2. Remembers => Remembers'
    BY <1>6, <2>1 DEF Restore, Return, Goto, Remembers, PathDir, At
  <2>3. Remembers /\ "change" \notin mixed => NeverNarrowed'
    BY <1>0, <1>6, <2>1 DEF Restore, Remembers, NeverNarrowed, At
  <2> QED
    BY <2>1, <2>2, <2>3 DEF PathDir
<1>7. ASSUME NEW p \in Procs, Crash(p) PROVE Granted'
  <2>1. "change" \in mixed'
    BY <1>7 DEF Crash, Disturb, Quiet, At
  <2> QED
    BY <1>7, <2>1 DEF Crash, PathDir
<1>8. CASE Chmod
  <2>1. CASE "change" \in mixed'
    BY <1>8, <2>1 DEF Chmod, PathDir
  <2>2. CASE "change" \notin mixed'
    <3>1. Quiet /\ "change" \notin mixed
      BY <1>8, <2>2, DisturbsQuietly DEF Chmod
    <3>2. Remembers'
      BY <1>8, <3>1 DEF Chmod, Quiet, At, Remembers
    <3>3. NeverNarrowed'
      BY <1>8, <2>2, <3>1 DEF Chmod, NeverNarrowed
    <3> QED
      BY <1>8, <3>2, <3>3 DEF Chmod, PathDir
  <2> QED
    BY <2>1, <2>2
<1>9. CASE Replace
  <2>1. CASE "change" \in mixed'
    BY <1>9, <2>1 DEF Replace, PathDir
  <2>2. CASE "change" \notin mixed'
    <3>1. Quiet /\ "change" \notin mixed
      BY <1>9, <2>2, DisturbsQuietly DEF Replace
    <3>2. Remembers'
      BY <1>9, <3>1 DEF Replace, Quiet, At, Remembers
    <3>3. NeverNarrowed'
      BY <1>9, <2>2, <3>1 DEF Replace, NeverNarrowed
    <3> QED
      BY <1>9, <3>2, <3>3 DEF Replace, PathDir
  <2> QED
    BY <2>1, <2>2
<1>10. CASE UNCHANGED vars
  BY <1>10 DEF vars, Remembers, NeverNarrowed, PathDir
<1> QED
  BY <1>1, <1>2, <1>3, <1>4, <1>5, <1>6, <1>7, <1>8, <1>9, <1>10 DEF Next, Open

\* Of opens that overlap in any order, each of which puts back the mode it
\* saw, none takes away a permission the guest granted.
THEOREM OpensNeverNarrow == Ats = {FALSE} /\ Spec => []NeverNarrowed
<1>1. CASE Ats = {FALSE}
  <2>1. DacTypeOK /\ Granted /\ [Next]_vars => Granted'
    BY <1>1, GrantedKept
  <2>2. Granted => NeverNarrowed
    BY DEF Granted, NeverNarrowed
  <2> QED
    BY <2>1, <2>2, GrantedAtFirst, DacTypes, PTL DEF Spec
<1>2. CASE Ats # {FALSE}
  BY <1>2
<1> QED
  BY <1>1, <1>2

-----------------------------------------------------------------------------
\* While nothing has overlapped an open, at most one process is inside one,
\* it knows the mode the guest gave the file, and only that file's mode may
\* differ from it, and then has the bits the open needs.
Busy(p) == pc[p] # "idle"

OneAtATime == \A p, q \in Procs : Busy(p) /\ Busy(q) => p = q

Knows ==
  \A p \in Procs : pc[p] \in {"widen", "reopen", "restore"} =>
    /\ ent[PathDir] \in Files
    /\ st[p] = wanted[ent[PathDir]]

OneFileOff ==
  \A p \in Procs : pc[p] \in {"reopen", "restore"} =>
    /\ ent[PathDir] \notin Foreign
    /\ \A f \in Files : f # ent[PathDir] => mode[f] = wanted[f]

Untouched == (\A p \in Procs : pc[p] \notin {"reopen", "restore"}) => mode = wanted

Opens ==
  \A p \in Procs :
    /\ pc[p] = "reopen" => Widened(job[p].acc) \subseteq mode[ent[PathDir]]
    /\ pc[p] = "restore" => fd[p] # NoFile

Alone == OneAtATime /\ Knows /\ OneFileOff /\ Untouched /\ Opens

Undisturbed ==
  /\ \A p \in Procs : job[p].dir = PathDir
  /\ mixed = {} => Alone

LEMMA UndisturbedAtFirst == Init => Undisturbed
  BY DEF Init, Undisturbed, Alone, OneAtATime, Knows, OneFileOff, Untouched, Opens, Busy, PathDir

\* A file's mode is put back by writing the mode the guest gave it.
LEMMA PutBack ==
  ASSUME DacTypeOK, NEW f \in Files,
         \A g \in Files : g # f => mode[g] = wanted[g]
  PROVE  [mode EXCEPT ![f] = wanted[f]] = wanted
  BY DEF DacTypeOK

LEMMA UndisturbedKept ==
  ASSUME Ats = {FALSE}, DacTypeOK, Undisturbed, [Next]_vars
  PROVE  Undisturbed'
<1> USE DEF Undisturbed, DacTypeOK
<1>0. ent[PathDir] \in Files \cup {Absent} /\ PathDir \in Dirs /\ Absent \notin Files
        /\ NoFile \notin Files
  BY DacAssumption DEF PathDir, Dirs
<1>1. ASSUME NEW p \in Procs, Begin(p) PROVE Undisturbed'
  <2>1. \A q \in Procs : job'[q].dir = PathDir
    BY <1>1 DEF Begin, PathDir
  <2>2. mixed' = {} => mixed = {} /\ \A q \in Procs : pc[q] = "idle"
    BY <1>1 DEF Begin, Quiet, At
  <2>3. (\A q \in Procs : pc[q] = "idle") /\ Alone => Alone'
    <3> SUFFICES ASSUME \A q \in Procs : pc[q] = "idle", Alone PROVE Alone'
      OBVIOUS
    <3>1. pc' = [pc EXCEPT ![p] = "open"] /\ mode' = mode /\ wanted' = wanted
      BY <1>1 DEF Begin, Goto
    <3>2. OneAtATime' /\ Knows' /\ OneFileOff' /\ Opens'
      BY <3>1 DEF OneAtATime, Knows, OneFileOff, Opens, Busy
    <3>3. Untouched'
      BY <3>1 DEF Alone, Untouched
    <3> QED
      BY <3>2, <3>3 DEF Alone
  <2> QED
    BY <2>1, <2>2, <2>3
<1>2. ASSUME NEW p \in Procs, OpenFirst(p) \/ Stat(p) \/ Widen(p) \/ Reopen(p) \/ Restore(p)
      PROVE  Undisturbed'
  <2>1. job' = job /\ ent' = ent /\ wanted' = wanted /\ mixed' = mixed /\ PathDir' = PathDir
    BY <1>2 DEF OpenFirst, Stat, Widen, Reopen, Restore, hist, PathDir
  <2>2. OpenDir(p) = PathDir
    BY DEF OpenDir
  <2>3. Busy(p) /\ \A q \in Procs : q # p => pc'[q] = pc[q] /\ st'[q] = st[q] /\ fd'[q] = fd[q]
    BY <1>2 DEF OpenFirst, Stat, Widen, Reopen, Restore, Return, Goto, Busy, At
  <2> SUFFICES ASSUME Alone PROVE Alone'
    BY <2>1
  <2>4. \A q \in Procs : q # p => pc[q] = "idle" /\ pc'[q] = "idle"
    BY <2>3 DEF Alone, OneAtATime, Busy
  <2>5. OneAtATime'
    BY <2>4 DEF OneAtATime, Busy
  <2>6. CASE OpenFirst(p)
    <3>1. pc[p] = "open" /\ pc'[p] \in {"idle", "stat"} /\ mode' = mode
      BY <2>6 DEF OpenFirst, Return, Goto, At
    <3>2. Untouched'
      BY <2>1, <2>4, <3>1 DEF Alone, Untouched
    <3> QED
      BY <2>4, <2>5, <3>1, <3>2 DEF Alone, Knows, OneFileOff, Opens
  <2>7. CASE Stat(p)
    <3>1. pc[p] = "stat" /\ pc'[p] \in {"idle", "widen"} /\ mode' = mode
      BY <2>7 DEF Stat, Return, Goto, At
    <3>2. Untouched' /\ mode = wanted
      BY <2>1, <2>4, <3>1 DEF Alone, Untouched
    <3>3. Knows'
      BY <1>0, <2>1, <2>4, <2>7, <3>2 DEF Stat, Return, Goto, Knows
    <3> QED
      BY <2>4, <2>5, <3>1, <3>2, <3>3 DEF Alone, OneFileOff, Opens
  <2>8. CASE Widen(p)
    <3> DEFINE f == ent[PathDir]
    <3>1. pc[p] = "widen" /\ pc'[p] \in {"idle", "reopen"} /\ f \in Files
      BY <2>8 DEF Widen, Return, Goto, At, Alone, Knows
    <3>2. mode = wanted
      BY <2>4, <3>1 DEF Alone, Untouched
    <3>3. CASE f \in Foreign
      <4>1. pc'[p] = "idle" /\ mode' = mode
        BY <2>2, <2>8, <3>3 DEF Widen, Return, Goto
      <4> QED
        BY <2>1, <2>4, <2>5, <3>2, <4>1 DEF Alone, Knows, OneFileOff, Untouched, Opens
    <3>4. CASE f \notin Foreign
      <4>1. /\ mode' = [mode EXCEPT ![f] = st[p] \cup Widened(job[p].acc)]
            /\ pc'[p] = "reopen" /\ st' = st
        BY <1>0, <2>2, <2>8, <3>1, <3>4 DEF Widen, Goto
      <4>2. Knows'
        BY <2>1, <2>4, <3>1, <4>1 DEF Alone, Knows
      <4>3. OneFileOff'
        BY <2>1, <2>4, <3>2, <3>4, <4>1 DEF OneFileOff
      <4>4. Opens'
        BY <2>1, <2>4, <3>1, <4>1 DEF Opens, Widened
      <4>5. Untouched'
        BY <4>1 DEF Untouched
      <4> QED
        BY <2>5, <4>2, <4>3, <4>4, <4>5 DEF Alone
    <3> QED
      BY <3>3, <3>4
  <2>9. CASE Reopen(p)
    <3> DEFINE f == ent[PathDir]
    <3>1. pc[p] = "reopen" /\ pc'[p] = "restore" /\ mode' = mode /\ st' = st /\ f \in Files
            /\ f \notin Foreign
      BY <2>9 DEF Reopen, Goto, At, Alone, Knows, OneFileOff
    <3>2. Allowed(f, job[p].acc)
      <4>1. Needs(job[p].acc) \subseteq Widened(job[p].acc)
        BY DEF Needs, Widened, Accs
      <4> QED
        BY <3>1, <4>1 DEF Allowed, Alone, Opens
    <3>3. fd'[p] # NoFile
      BY <1>0, <2>2, <2>9, <3>1, <3>2 DEF Reopen
    <3>4. Knows' /\ OneFileOff'
      BY <2>1, <2>4, <3>1 DEF Alone, Knows, OneFileOff
    <3>5. Opens' /\ Untouched'
      BY <2>4, <3>1, <3>3 DEF Opens, Untouched
    <3> QED
      BY <2>5, <3>4, <3>5 DEF Alone
  <2>10. CASE Restore(p)
    <3> DEFINE f == ent[PathDir]
    <3>1. pc[p] = "restore" /\ pc'[p] = "idle" /\ f \in Files /\ f \notin Foreign
            /\ st[p] = wanted[f] /\ \A g \in Files : g # f => mode[g] = wanted[g]
      BY <2>10 DEF Restore, Return, Goto, At, Alone, Knows, OneFileOff
    <3>2. mode' = [mode EXCEPT ![f] = wanted[f]]
      BY <1>0, <2>10, <3>1 DEF Restore
    <3>3. mode' = wanted
      BY <3>1, <3>2, PutBack
    <3> QED
      BY <2>1, <2>4, <2>5, <3>1, <3>3 DEF Alone, Knows, OneFileOff, Untouched, Opens
  <2> QED
    BY <1>2, <2>6, <2>7, <2>8, <2>9, <2>10
<1>3. ASSUME NEW p \in Procs, Crash(p) PROVE Undisturbed'
  <2>1. mixed' # {}
    BY <1>3 DEF Crash, Disturb, Quiet, At
  <2> QED
    BY <1>3, <2>1 DEF Crash, PathDir
<1>4. CASE Chmod \/ Replace
  <2>1. pc' = pc /\ job' = job /\ (mixed' = {} => mixed = {} /\ \A q \in Procs : pc[q] = "idle")
    BY <1>4 DEF Chmod, Replace, Disturb, Quiet, At
  <2>2. mode = wanted => mode' = wanted'
    BY <1>4 DEF Chmod, Replace
  <2>3. (\A q \in Procs : pc[q] = "idle") /\ Alone => Alone'
    BY <2>1, <2>2 DEF Alone, OneAtATime, Knows, OneFileOff, Untouched, Opens, Busy
  <2> QED
    BY <2>1, <2>3 DEF PathDir
<1>5. CASE UNCHANGED vars
  BY <1>5 DEF vars, Alone, OneAtATime, Knows, OneFileOff, Untouched, Opens, Busy, PathDir
<1> QED
  BY <1>1, <1>2, <1>3, <1>4, <1>5 DEF Next, Open

LEMMA UndisturbedAlways == ASSUME Ats = {FALSE} PROVE Spec => []Undisturbed
<1>1. DacTypeOK /\ Undisturbed /\ [Next]_vars => Undisturbed'
  BY UndisturbedKept
<1> QED
  BY <1>1, UndisturbedAtFirst, DacTypes, PTL DEF Spec

\* open() as fake root leaves a file's mode as the guest set it, when nothing
\* overlapped the open.
THEOREM OpensRestoreModes == Ats = {FALSE} /\ Spec => []ModeRestored
<1>1. CASE Ats = {FALSE}
  <2>1. Undisturbed => ModeRestored
    BY DEF Undisturbed, Alone, Untouched, ModeRestored, Quiet, At
  <2> QED
    BY <1>1, <2>1, UndisturbedAlways, PTL
<1>2. CASE Ats # {FALSE}
  BY <1>2
<1> QED
  BY <1>1, <1>2

\* The bits open() adds are enough: its second open_real() succeeds.
THEOREM OpensOverride == Ats = {FALSE} /\ Spec => []OverrideWorks
<1>1. CASE Ats = {FALSE}
  <2>1. Undisturbed => OverrideWorks
    BY DEF Undisturbed, Alone, Opens, OverrideWorks, At
  <2> QED
    BY <1>1, <2>1, UndisturbedAlways, PTL
<1>2. CASE Ats # {FALSE}
  BY <1>2
<1> QED
  BY <1>1, <1>2
=============================================================================
