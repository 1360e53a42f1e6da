-------------------------------- MODULE Spawn --------------------------------
(***************************************************************************)
(* posix_spawn() and posix_spawnp() (posix_spawn.c): a child of fork()     *)
(* does the file actions and then calls execve() or execvpe(), the module  *)
(* Exec; the parent returns at once.  A process that calls execve() itself *)
(* is the other case.  An open file is a name; a descriptor also has the   *)
(* flag FD_CLOEXEC.                                                        *)
(***************************************************************************)
EXTENDS Exec

CONSTANTS
  Hosts,      \* the hosts, and what the caller may ask for: a call with
  Jobs,       \*   spawn   whether a child is to make it
              \*   given   whether file_actions is not NULL
              \*   acts    the file actions
  Fds,        \* the descriptors of a process, 0 to the limit
  Opens,      \* the files that can be opened
  FirstFds    \* the descriptors the caller starts with

VARIABLES
  parent,     \* the caller's descriptors
  fds,        \* the child's
  acts,       \* the file actions left
  forked,     \* the descriptors the child was born with
  status      \* what the child left with: its exit status

vars == <<execVars, parent, fds, acts, forked, status>>

Closed == [file |-> "none", cloexec |-> FALSE]
Open(file, cloexec) == [file |-> file, cloexec |-> cloexec]

Environs == Seq([var : STRING, val : Seq(Letters)])

ASSUME SpawnAssumption ==
  /\ \A h \in Hosts :
       /\ h.linker # <<>> => h.linker \in Seq(Letters) /\ Absolute(h.linker)
       /\ h.environ \in Environs /\ h.backup \in Environs
       /\ \A f \in Range(h.files) :
            /\ f.kind = "script" => f.interp \in Seq(Letters) /\ f.arg \in Seq(Seq(Letters))
            /\ f.kind = "elf64" =>
                 f.interp \in Seq(Letters) /\ Absolute(f.interp) /\ f.rpath \in Seq(Seq(Letters))
  /\ \A j \in Jobs : /\ j.path \in Seq(Letters) /\ j.argv \in Seq(Seq(Letters)) /\ j.env \in Environs
                    /\ j.acts \in Seq([tag : {"close", "dup2", "open"}, fd : Fds, newfd : Fds,
                                       file : STRING, cloexec : BOOLEAN])
  /\ Fds \subseteq Nat /\ "none" \notin Opens
  /\ FirstFds \in [Fds -> [file : STRING, cloexec : BOOLEAN]]

same == <<parent, forked>>

-----------------------------------------------------------------------------
(* HxProcessFileActions.  An action that fails gives 0 for the table.      *)

\* Closing what is not open is no error.
CloseOne(table, a) == {[table EXCEPT ![a.fd] = Closed]}

\* Mutant: the two descriptors are swapped.
Dup2Swapped(table, from, to) ==
  IF table[to] = Closed THEN {} ELSE {[table EXCEPT ![from] = Open(table[to].file, FALSE)]}

\* dup2() of a descriptor to itself changes nothing.
Dup2(table, from, to) ==
  IF table[from] = Closed THEN {}
  ELSE IF from = to THEN {table}
  ELSE {[table EXCEPT ![to] = Open(table[from].file, FALSE)]}

\* The lowest free descriptor is opened, duplicated, and closed.
OpenOne(table, a) ==
  LET free == {f \in Fds : table[f] = Closed}
      low  == CHOOSE f \in free : \A g \in free : f <= g
      opened == [table EXCEPT ![low] = Open(a.file, a.cloexec)]
  IN  IF free = {} \/ a.file \notin Opens THEN {}
      ELSE IF low = a.fd THEN {opened}
      ELSE {[t EXCEPT ![low] = Closed] : t \in Dup2(opened, low, a.fd)}

Done(table, a) == IF a.tag = "close" THEN CloseOne(table, a)
                  ELSE IF a.tag = "dup2" THEN Dup2(table, a.fd, a.newfd) ELSE OpenOne(table, a)

Exits ==
  /\ pc' = "exited" /\ status' = 127
  /\ UNCHANGED <<host, job, cur, search, err, start, same, fds, acts>>

\* The list is read without a test for NULL.
FileAction ==
  /\ pc = "files"
  /\ IF ~job.given THEN Undefined /\ UNCHANGED <<same, fds, acts, status>>
     ELSE /\ acts # <<>>
          /\ LET tables == Done(fds, Head(acts)) IN
               IF tables = {} THEN Exits
               ELSE /\ fds' \in tables /\ acts' = Tail(acts)
                    /\ UNCHANGED <<execVars, same, status>>

\* The attributes are not looked at.
ChildExecs ==
  /\ pc = "files" /\ job.given /\ acts = <<>>
  /\ Begin
  /\ UNCHANGED <<same, fds, acts, status>>

-----------------------------------------------------------------------------
\* Mutant: the child shares the caller's table, as after vfork().
ForkedShared(table) == [f \in Fds |-> Closed]

\* What the child of fork() has.
Forked(table) == table

Spawn ==
  /\ pc = "idle" /\ job.spawn
  /\ pc' = "files" /\ acts' = job.acts /\ fds' = Forked(parent) /\ forked' = parent
  /\ UNCHANGED <<host, job, cur, search, err, start, parent, status>>

Exec ==
  /\ pc = "idle" /\ ~job.spawn
  /\ Begin
  /\ UNCHANGED <<same, fds, acts, status>>

\* A step of the library in whichever process calls it; a new program does
\* not get the descriptors with the flag.
ExecStep ==
  /\ ExecNext
  /\ fds' = IF pc' = "started" THEN [f \in Fds |-> IF fds[f].cloexec THEN Closed ELSE fds[f]] ELSE fds
  /\ UNCHANGED <<same, acts, status>>

\* The caller goes on once posix_spawn() returned.
ParentCloses ==
  /\ pc # "idle" /\ job.spawn
  /\ \E f \in Fds : parent[f] # Closed /\ parent' = [parent EXCEPT ![f] = Closed]
  /\ UNCHANGED <<execVars, fds, acts, forked, status>>

ChildExits == pc = "failed" /\ job.spawn /\ Exits

-----------------------------------------------------------------------------
Init ==
  /\ \E h \in Hosts, j \in Jobs : ExecInit(h, j)
  /\ parent = FirstFds /\ fds = FirstFds /\ acts = <<>> /\ forked = FirstFds /\ status = 0

\* The library never waits for anything.
Process == Spawn \/ Exec \/ FileAction \/ ChildExecs \/ ExecStep \/ ChildExits

ProgramStep == ProgramNext /\ UNCHANGED <<same, fds, acts, status>>

Next == Process \/ ProgramStep \/ ParentCloses

Spec == Init /\ [][Next]_vars /\ WF_vars(Process)

-----------------------------------------------------------------------------
\* What each action means: the descriptor it names ends up with the file it
\* names, whatever numbers were free.
Meant(table, a) ==
  IF a.tag = "close" THEN [table EXCEPT ![a.fd] = Closed]
  ELSE IF a.tag = "dup2" THEN [table EXCEPT ![a.newfd] = Open(table[a.fd].file, FALSE)]
  ELSE [table EXCEPT ![a.fd] = Open(a.file, FALSE)]

\* After so many actions.
Meanings(table, actions) ==
  LET meant[n \in 0..Len(actions)] ==
        IF n = 0 THEN table ELSE Meant(meant[n - 1], actions[n])
  IN  meant

\* A program started by posix_spawn() has the descriptors that the file
\* actions make of those the caller had at the call, whatever the caller did
\* since, and none the actions opened on the way, where no action asks for
\* O_CLOEXEC or duplicates a descriptor to itself.
ChildFds ==
  job.spawn /\ pc = "running"
    /\ (\A i \in DOMAIN job.acts :
          ~job.acts[i].cloexec /\ (job.acts[i].tag = "dup2" => job.acts[i].fd # job.acts[i].newfd)) =>
    LET meant == Meanings(forked, job.acts)[Len(job.acts)]
    IN  fds = [f \in Fds |-> IF meant[f].cloexec THEN Closed ELSE meant[f]]

\* Every call of execve() or posix_spawn() comes to an end: a program starts,
\* the error is returned, or the child exits, with 127.
CallEnds ==
  (pc = "files" \/ pc = "execve") ~>
    \/ pc \in {"started", "undefined"}
    \/ pc = "failed" /\ ~job.spawn
    \/ pc = "exited" /\ job.spawn /\ status = 127
=============================================================================
