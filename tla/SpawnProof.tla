----------------------------- MODULE SpawnProof -----------------------------
(***************************************************************************)
(* Theorems about Spawn and the modules it is built on, for any root, any  *)
(* hosts, files, descriptors and search path, and calls of any length:     *)
(* what the translations of Translate are to each other, what descriptors  *)
(* a spawned program has, what a search of PATH comes to, which list of    *)
(* libraries a program is told, that the arguments of a call arrive in the *)
(* program, through the memory of the command line, and what that memory   *)
(* shows afterwards.                                                       *)
(***************************************************************************)
EXTENDS Spawn, Lemmas

-----------------------------------------------------------------------------
(* The translations of Translate, for a path of any length.                *)

LEMMA RootFirst ==
  ASSUME NEW T, NEW r \in Seq(T), NEW p \in Seq(T)
  PROVE  /\ SubSeq(r \o p, 1, Len(r)) = r /\ SubSeq(r, 1, Len(r)) = r
         /\ SubSeq(r \o p, Len(r) + 1, Len(r \o p)) = p
<1>1. r \o p \in Seq(T) /\ Len(r \o p) = Len(r) + Len(p) /\ Len(r) \in Nat /\ Len(p) \in Nat
  OBVIOUS
<1>2. \A i \in 1..Len(r) : (r \o p)[i] = r[i]
  OBVIOUS
<1>3. \A i \in 1..Len(p) : (r \o p)[Len(r) + i] = p[i]
  OBVIOUS
<1>4. SubSeq(r \o p, 1, Len(r)) = r
  BY <1>1, <1>2
<1>5. SubSeq(r, 1, Len(r)) = r
  BY <1>1
<1>6. SubSeq(r \o p, Len(r) + 1, Len(r \o p)) = p
  <2> DEFINE q == SubSeq(r \o p, Len(r) + 1, Len(r \o p))
  <2>1. q \in Seq(T) /\ Len(q) = Len(p)
    BY <1>1
  <2>2. \A i \in 1..Len(p) : q[i] = p[i]
    BY <1>1, <1>3
  <2> QED
    BY <1>1, <2>1, <2>2
<1> QED
  BY <1>4, <1>5, <1>6

\* A path that HxExpandPath has put below the root comes back from
\* HxUnexpandPath as it was: what a wrapper gets from the kernel for the path
\* it passed is the guest's own path.
THEOREM RoundTrip ==
  ASSUME NEW T, Root \in Seq(T), NEW path \in Seq(T), ShouldExpand(path)
  PROVE  IsPrefix(Root, Expand(path)) /\ Unexpand(Expand(path)) = path
<1>1. Expand(path) = Root \o path /\ path # <<>>
  BY DEF Expand, ShouldExpand, Absolute
<1>2. Len(path) > 0 /\ Len(Root) \in Nat /\ Len(Root \o path) = Len(Root) + Len(path)
  BY <1>1
<1>3. Root \o path # Root
  BY <1>2
<1>4. IsPrefix(Root, Root \o path)
  BY <1>2, RootFirst DEF IsPrefix
<1> QED
  BY <1>1, <1>3, <1>4, RootFirst DEF Unexpand

-----------------------------------------------------------------------------
(* Steps of execve() and execvpe().                                        *)

UnderWay == {"execve", "libraries", "search"}

\* A step of the library is one of a call that is under way, and only the
\* call itself changes.
LEMMA LibraryStep ==
  ASSUME ExecNext
  PROVE  /\ pc \in UnderWay /\ pc' \in UnderWay \cup {"started", "failed", "undefined"}
         /\ host' = host /\ job' = job
<1> USE DEF UnderWay
<1>1. ASSUME NEW e, Fails(e) PROVE pc' \in UnderWay \cup {"failed"} /\ host' = host /\ job' = job
  BY <1>1 DEF Fails
<1>2. Undefined => pc' = "undefined" /\ host' = host /\ job' = job
  BY DEF Undefined
<1>3. ASSUME NEW k, NEW a, NEW env, Starts(k, a, env)
      PROVE  pc' = "started" /\ host' = host /\ job' = job
  BY <1>3 DEF Starts
<1>4. ASSUME NEW e, Gives(e) PROVE pc' = "failed" /\ host' = host /\ job' = job
  BY <1>4 DEF Gives
<1>5. ASSUME NEW rest, Try(rest) PROVE pc' = "execve" /\ host' = host /\ job' = job
  BY <1>5 DEF Try, Calls
<1>6. CASE OpenFails
  BY <1>1, <1>6 DEF OpenFails
<1>7. CASE NotExec
  BY <1>1, <1>7 DEF NotExec, Is
<1>8. CASE HandleShebang
  BY <1>2, <1>8 DEF HandleShebang, Is, Calls
<1>9. CASE ParseFails
  BY <1>1, <1>2, <1>9 DEF ParseFails, Is
<1>10. CASE HandleProot
  BY <1>1, <1>2, <1>3, <1>10 DEF HandleProot, Is
<1>11. CASE HandleElf64
  BY <1>2, <1>11 DEF HandleElf64, Is
<1>12. CASE AddLibrary
  BY <1>12 DEF AddLibrary
<1>13. CASE StartLinker
  BY <1>1, <1>2, <1>3, <1>13 DEF StartLinker
<1>14. CASE HxShellExecute
  BY <1>14 DEF HxShellExecute, Calls
<1>15. CASE AfterFile
  BY <1>4, <1>5, <1>15 DEF AfterFile, TryPath
<1>16. CASE AfterCandidate
  BY <1>4, <1>5, <1>16 DEF AfterCandidate
<1> QED
  BY <1>6, <1>7, <1>8, <1>9, <1>10, <1>11, <1>12, <1>13, <1>14, <1>15, <1>16 DEF ExecNext

LEMMA BeginStep ==
  ASSUME Begin
  PROVE  pc' \in {"execve", "failed"} /\ host' = host /\ job' = job
  BY DEF Begin, BeginExecve, BeginExecvpe, Calls, Gives, TryPath, Try

LEMMA ProgramSteps ==
  ASSUME ProgramNext
  PROVE  /\ pc = "started" /\ pc' \in {"running", "undefined"}
         /\ UNCHANGED <<host, job, cur, search, err>>
  BY DEF ProgramNext, RunsAlone, RunsFixed, Shows, Undefined

-----------------------------------------------------------------------------
(* Descriptors.                                                            *)

FdEntries == [file : STRING \cup {"none"}, cloexec : BOOLEAN]
FdTables == [Fds -> FdEntries]
FileActs == [tag : {"close", "dup2", "open"}, fd : Fds, newfd : Fds,
             file : STRING, cloexec : BOOLEAN]

LEMMA Entries ==
  /\ Closed \in FdEntries
  /\ \A f \in STRING \cup {"none"}, c \in BOOLEAN : Open(f, c) \in FdEntries
  BY DEF Closed, Open, FdEntries

LEMMA MeantTyped ==
  ASSUME NEW table \in FdTables, NEW a \in FileActs
  PROVE  Meant(table, a) \in FdTables
<1>1. a.fd \in Fds /\ a.newfd \in Fds /\ a.file \in STRING
  BY DEF FileActs
<1>2. table[a.fd].file \in STRING \cup {"none"}
  BY <1>1 DEF FdTables, FdEntries
<1> QED
  BY <1>1, <1>2, Entries DEF Meant, FdTables

\* Meanings is the function its equation defines.
LEMMA MeaningsStep ==
  ASSUME NEW table \in FdTables, NEW actions \in Seq(FileActs)
  PROVE  \A n \in 0..Len(actions) :
           /\ Meanings(table, actions)[n] \in FdTables
           /\ Meanings(table, actions)[n] =
                IF n = 0 THEN table ELSE Meant(Meanings(table, actions)[n - 1], actions[n])
<1> DEFINE N == Len(actions)
           F == [x \in Nat \X FdTables |->
                   IF x[1] + 1 \in 1..N THEN Meant(x[2], actions[x[1] + 1]) ELSE x[2]]
           H(f, n) == IF n = 0 THEN table ELSE Meant(f[n - 1], actions[n])
           meant == CHOOSE f : f = [n \in 0..N |-> H(f, n)]
<1>1. N \in Nat /\ \A i \in 1..N : actions[i] \in FileActs
  OBVIOUS
<1> HIDE DEF N
<1>2. F \in [Nat \X FdTables -> FdTables]
  <2>1. ASSUME NEW x \in Nat \X FdTables PROVE F[x] \in FdTables
    <3>1. F[x] = IF x[1] + 1 \in 1..N THEN Meant(x[2], actions[x[1] + 1]) ELSE x[2]
      OBVIOUS
    <3>2. x[2] \in FdTables /\ (x[1] + 1 \in 1..N => Meant(x[2], actions[x[1] + 1]) \in FdTables)
      BY <1>1, MeantTyped
    <3> HIDE DEF F
    <3> QED
      BY <3>1, <3>2
  <2> QED
    BY <2>1
<1>3. PICK W : Recursive(W, FdTables, table, F)
  <2> HIDE DEF F
  <2> QED
    BY <1>2, Recurses
<1>4. W \in [Nat -> FdTables] /\ W[0] = table /\ \A n \in Nat : W[n + 1] = F[<<n, W[n]>>]
  BY <1>3 DEF Recursive
<1>5. ASSUME NEW n \in 0..N PROVE W[n] = H(W, n)
  <2>1. CASE n = 0
    BY <1>4, <2>1
  <2>2. CASE n # 0
    <3>1. n - 1 \in Nat /\ (n - 1) + 1 = n /\ n \in 1..N
      BY <1>1, <2>2
    <3>2. W[n - 1] \in FdTables
      BY <1>4, <3>1
    <3>3. W[(n - 1) + 1] = F[<<n - 1, W[n - 1]>>]
      <4> HIDE DEF F
      <4> QED
        BY <1>4, <3>1
    <3>4. F[<<n - 1, W[n - 1]>>] = Meant(W[n - 1], actions[n])
      BY <3>1, <3>2
    <3> QED
      BY <2>2, <3>1, <3>3, <3>4
  <2> QED
    BY <2>1, <2>2
<1>6. \E f : f = [n \in 0..N |-> H(f, n)]
  <2> DEFINE f == [n \in 0..N |-> W[n]]
  <2>1. ASSUME NEW n \in 0..N PROVE f[n] = H(f, n)
    <3>1. CASE n = 0
      BY <1>5, <3>1
    <3>2. CASE n # 0
      <4>1. n - 1 \in 0..N
        BY <1>1, <3>2
      <4> QED
        BY <1>5, <3>2, <4>1
    <3> QED
      BY <3>1, <3>2
  <2>2. f = [n \in 0..N |-> H(f, n)]
    <3>1. f = [n \in 0..N |-> f[n]]
      OBVIOUS
    <3> HIDE DEF f, H
    <3> QED
      BY <2>1, <3>1
  <2> QED
    BY <2>2
<1>7. meant = [n \in 0..N |-> H(meant, n)]
  <2> HIDE DEF H
  <2> QED
    BY <1>6
<1>8. Meanings(table, actions) = meant
  BY DEF Meanings, N
<1>9. \A n \in 0..N : meant[n] = H(meant, n)
  <2> HIDE DEF meant, H
  <2> QED
    BY <1>7
<1> HIDE DEF meant
<1> DEFINE S == {n \in Nat : n <= N => meant[n] \in FdTables}
<1>10. 0 \in S
  <2>1. 0 \in 0..N
    BY <1>1
  <2> QED
    BY <1>9, <2>1
<1>11. ASSUME NEW n \in Nat, n \in S PROVE n + 1 \in S
  <2> SUFFICES ASSUME n + 1 <= N PROVE meant[n + 1] \in FdTables
    OBVIOUS
  <2>1. n <= N /\ n + 1 \in 0..N /\ n + 1 \in 1..N /\ n + 1 # 0 /\ (n + 1) - 1 = n
    BY <1>1
  <2>2. meant[n] \in FdTables
    BY <1>11, <2>1
  <2>3. meant[n + 1] = Meant(meant[n], actions[n + 1])
    BY <1>9, <2>1
  <2> QED
    BY <1>1, <2>1, <2>2, <2>3, MeantTyped
<1>12. \A n \in Nat : n \in S
  <2> HIDE DEF S
  <2> QED
    BY <1>10, <1>11, Induct
<1>13. \A n \in 0..N : meant[n] \in FdTables
  BY <1>1, <1>12
<1> QED
  BY <1>8, <1>9, <1>13 DEF N

\* What an action does where none asks for O_CLOEXEC or duplicates a
\* descriptor to itself: what it means.
PlainAct(a) == ~a.cloexec /\ (a.tag = "dup2" => a.fd # a.newfd)

LEMMA OpenMeant ==
  ASSUME NEW table \in FdTables, NEW a \in FileActs, ~a.cloexec,
         NEW t \in OpenOne(table, a)
  PROVE  t = [table EXCEPT ![a.fd] = Open(a.file, FALSE)]
<1> DEFINE free == {f \in Fds : table[f] = Closed}
           low  == CHOOSE f \in free : \A g \in free : f <= g
           opened == [table EXCEPT ![low] = Open(a.file, a.cloexec)]
<1>1. /\ free # {}
      /\ t \in IF low = a.fd THEN {opened}
              ELSE {[u EXCEPT ![low] = Closed] : u \in Dup2(opened, low, a.fd)}
  BY DEF OpenOne
<1>2. low \in free
  <2>1. free \subseteq Nat
    BY SpawnAssumption
  <2> HIDE DEF free
  <2>2. \E f \in free : \A g \in free : f <= g
    BY <1>1, <2>1, LeastElement
  <2> QED
    BY <2>2
<1>3. low \in Fds /\ table[low] = Closed /\ a.cloexec = FALSE /\ a.fd \in Fds
  BY <1>2 DEF FileActs
<1> HIDE DEF low, free
<1>4. CASE low = a.fd
  BY <1>1, <1>3, <1>4
<1>5. CASE low # a.fd
  <2>1. PICK u \in Dup2(opened, low, a.fd) : t = [u EXCEPT ![low] = Closed]
    BY <1>1, <1>5
  <2>2. opened[low] = Open(a.file, FALSE)
    BY <1>3 DEF FdTables
  <2>3. u = [opened EXCEPT ![a.fd] = Open(opened[low].file, FALSE)]
    BY <1>5, <2>1 DEF Dup2
  <2>4. Open(a.file, FALSE).file = a.file
    BY DEF Open
  <2>5. u = [opened EXCEPT ![a.fd] = Open(a.file, FALSE)]
    BY <2>2, <2>3, <2>4
  <2> DEFINE e == Open(a.file, FALSE)
  <2> HIDE DEF e
  <2>6. ASSUME NEW f \in Fds PROVE t[f] = [table EXCEPT ![a.fd] = e][f]
    BY <1>3, <1>5, <2>1, <2>5 DEF FdTables, e
  <2>7. t = [f \in Fds |-> t[f]] /\ [table EXCEPT ![a.fd] = e] = [f \in Fds |-> [table EXCEPT ![a.fd] = e][f]]
    BY <2>1, <2>5 DEF FdTables, e
  <2> QED
    BY <2>6, <2>7 DEF e
<1> QED
  BY <1>4, <1>5

LEMMA DoneMeant ==
  ASSUME NEW table \in FdTables, NEW a \in FileActs, PlainAct(a), NEW t \in Done(table, a)
  PROVE  t = Meant(table, a)
<1>1. CASE a.tag = "close"
  BY <1>1 DEF Done, CloseOne, Meant
<1>2. CASE a.tag = "dup2"
  BY <1>2 DEF Done, Dup2, Meant, PlainAct
<1>3. CASE a.tag = "open"
  BY <1>3, OpenMeant DEF Done, Meant, PlainAct
<1> QED
  BY <1>1, <1>2, <1>3 DEF FileActs

\* Where a spawned process is in its file actions, and what it has once they
\* are done and once its program has started.
Inherited(table) == [f \in Fds |-> IF table[f].cloexec THEN Closed ELSE table[f]]

FdInv ==
  /\ job \in Jobs /\ parent \in FdTables /\ forked \in FdTables
  /\ job.spawn /\ (\A i \in DOMAIN job.acts : PlainAct(job.acts[i])) =>
       /\ pc = "files" => \E n \in 0..Len(job.acts) :
            /\ acts = SubSeq(job.acts, n + 1, Len(job.acts))
            /\ fds = Meanings(forked, job.acts)[n]
       /\ pc \in UnderWay => fds = Meanings(forked, job.acts)[Len(job.acts)]
       /\ pc \in {"started", "running"} =>
            fds = Inherited(Meanings(forked, job.acts)[Len(job.acts)])

LEMMA ActsTyped == \A j \in Jobs : j.acts \in Seq(FileActs) /\ Len(j.acts) \in Nat
<1> SUFFICES ASSUME NEW j \in Jobs PROVE j.acts \in Seq(FileActs) /\ Len(j.acts) \in Nat
  OBVIOUS
<1>1. j.acts \in Seq([tag : {"close", "dup2", "open"}, fd : Fds, newfd : Fds,
                     file : STRING, cloexec : BOOLEAN])
  BY SpawnAssumption
<1>2. j.acts \in Seq(FileActs)
  BY <1>1, Zenon DEF FileActs
<1> HIDE DEF FileActs
<1> QED
  BY <1>2

LEMMA NoneInEmpty == Len(<<>>) = 0
  OBVIOUS

LEMMA FdInvAtFirst == Init => FdInv
<1> SUFFICES ASSUME Init PROVE FdInv
  OBVIOUS
<1>1. job \in Jobs /\ pc = "idle" /\ parent = FirstFds /\ forked = FirstFds
  BY DEF Init, ExecInit
<1>2. FirstFds \in FdTables
  BY SpawnAssumption DEF FdTables, FdEntries
<1> QED
  BY <1>1, <1>2 DEF FdInv, UnderWay

LEMMA FdInvKept == FdInv /\ [Next]_vars => FdInv'
<1> SUFFICES ASSUME FdInv, [Next]_vars PROVE FdInv'
  OBVIOUS
<1> DEFINE N == Len(job.acts)
           Plain == job.spawn /\ \A i \in DOMAIN job.acts : PlainAct(job.acts[i])
<1>0. N \in Nat /\ job.acts \in Seq(FileActs) /\ \A i \in 1..N : job.acts[i] \in FileActs
  BY ActsTyped DEF FdInv
<1>a. \A n \in 0..N : /\ Meanings(forked, job.acts)[n] \in FdTables
                      /\ Meanings(forked, job.acts)[n] =
                           IF n = 0 THEN forked ELSE Meant(Meanings(forked, job.acts)[n - 1], job.acts[n])
  BY <1>0, MeaningsStep DEF FdInv
\* The caller's table and the one the child was born with stay.
<1>b. ASSUME job' = job, UNCHANGED same,
             Plain => /\ pc' = "files" => \E n \in 0..N :
                            /\ acts' = SubSeq(job.acts, n + 1, N)
                            /\ fds' = Meanings(forked, job.acts)[n]
                      /\ pc' \in UnderWay => fds' = Meanings(forked, job.acts)[N]
                      /\ pc' \in {"started", "running"} =>
                            fds' = Inherited(Meanings(forked, job.acts)[N])
      PROVE  FdInv'
  BY <1>b DEF FdInv, same
<1>1. CASE Spawn
  <2>1. /\ job' = job /\ pc' = "files" /\ parent' = parent /\ forked' = parent
        /\ acts' = job.acts /\ fds' = parent
    BY <1>1 DEF Spawn, Forked
  <2>2. Meanings(parent, job.acts)[0] = parent
    <3>1. 0 \in 0..N /\ parent \in FdTables
      BY <1>0 DEF FdInv
    <3> QED
      BY <1>0, <3>1, MeaningsStep
  <2>3. 0 \in 0..N /\ SubSeq(job.acts, 0 + 1, N) = job.acts
    BY <1>0
  <2> QED
    BY <2>1, <2>2, <2>3 DEF FdInv, UnderWay
<1>2. CASE Exec
  <2>1. ~job.spawn /\ job' = job /\ UNCHANGED same
    BY <1>2, BeginStep DEF Exec
  <2> QED
    BY <1>b, <2>1
<1>3. CASE FileAction
  <2>1. CASE ~job.given
    <3>1. pc' = "undefined" /\ job' = job /\ UNCHANGED same
      BY <1>3, <2>1 DEF FileAction, Undefined
    <3> QED
      BY <1>b, <3>1 DEF UnderWay
  <2>2. CASE job.given /\ Done(fds, Head(acts)) = {}
    <3>1. pc' = "exited" /\ job' = job /\ UNCHANGED same
      BY <1>3, <2>2 DEF FileAction, Exits
    <3> QED
      BY <1>b, <3>1 DEF UnderWay
  <2>3. CASE job.given /\ Done(fds, Head(acts)) # {}
    <3>1. /\ pc = "files" /\ acts # <<>> /\ fds' \in Done(fds, Head(acts)) /\ acts' = Tail(acts)
          /\ pc' = pc /\ job' = job /\ UNCHANGED same
      BY <1>3, <2>3 DEF FileAction, execVars
    <3>2. ASSUME Plain
          PROVE  \E n \in 0..N : /\ acts' = SubSeq(job.acts, n + 1, N)
                                 /\ fds' = Meanings(forked, job.acts)[n]
      <4> PICK n \in 0..N : /\ acts = SubSeq(job.acts, n + 1, N)
                            /\ fds = Meanings(forked, job.acts)[n]
        BY <3>1, <3>2 DEF FdInv
      <4>1. n \in Nat /\ n < N
        BY <1>0, <3>1
      <4>2. Head(acts) = job.acts[n + 1] /\ Tail(acts) = SubSeq(job.acts, (n + 1) + 1, N)
        BY <1>0, <4>1
      <4>3. n + 1 \in 1..N /\ n + 1 \in 0..N /\ n + 1 # 0 /\ (n + 1) - 1 = n
        BY <1>0, <4>1
      <4>4. PlainAct(job.acts[n + 1]) /\ job.acts[n + 1] \in FileActs
        BY <1>0, <3>2, <4>3
      <4>5. fds' = Meant(fds, job.acts[n + 1])
        BY <1>a, <3>1, <4>2, <4>4, DoneMeant
      <4>6. fds' = Meanings(forked, job.acts)[n + 1]
        BY <1>a, <4>3, <4>5
      <4> QED
        BY <3>1, <4>2, <4>3, <4>6
    <3> QED
      BY <1>b, <3>1, <3>2 DEF UnderWay
  <2> QED
    BY <2>1, <2>2, <2>3
<1>4. CASE ChildExecs
  <2>1. /\ pc = "files" /\ acts = <<>> /\ pc' \in {"execve", "failed"} /\ job' = job
        /\ UNCHANGED same /\ fds' = fds
    BY <1>4, BeginStep DEF ChildExecs
  <2>2. ASSUME Plain PROVE fds = Meanings(forked, job.acts)[N]
    <3> PICK n \in 0..N : /\ acts = SubSeq(job.acts, n + 1, N)
                          /\ fds = Meanings(forked, job.acts)[n]
      BY <2>1, <2>2 DEF FdInv
    <3>1. CASE n < N
      <4>1. n \in Nat /\ n + 1 \in 1..N
        BY <1>0, <3>1
      <4>2. Len(SubSeq(job.acts, n + 1, N)) = N - n
        BY <1>0, <4>1
      <4>3. Len(acts) = N - n
        BY <4>2
      <4>4. acts = <<>>
        BY <2>1
      <4>5. Len(acts) = 0
        BY <4>4, NoneInEmpty, Zenon
      <4> HIDE DEF N, Plain
      <4> QED
        BY <1>0, <3>1, <4>1, <4>3, <4>5
    <3>2. CASE ~(n < N)
      <4>1. n = N
        BY <1>0, <3>2
      <4> QED
        BY <4>1
    <3> QED
      BY <3>1, <3>2
  <2> QED
    BY <1>b, <2>1, <2>2 DEF UnderWay
<1>5. CASE ExecStep
  <2>1. /\ pc \in UnderWay /\ pc' \in UnderWay \cup {"started", "failed", "undefined"}
        /\ job' = job /\ UNCHANGED same
        /\ fds' = IF pc' = "started" THEN Inherited(fds) ELSE fds
    BY <1>5, LibraryStep DEF ExecStep, Inherited
  <2>2. Plain => fds = Meanings(forked, job.acts)[N]
    BY <2>1 DEF FdInv
  <2> QED
    BY <1>b, <2>1, <2>2 DEF UnderWay
<1>6. CASE ChildExits
  <2>1. pc' = "exited" /\ job' = job /\ UNCHANGED same
    BY <1>6 DEF ChildExits, Exits
  <2> QED
    BY <1>b, <2>1 DEF UnderWay
<1>7. CASE ParentCloses
  <2>1. /\ UNCHANGED <<pc, job, fds, acts, forked>>
        /\ \E f \in Fds : parent' = [parent EXCEPT ![f] = Closed]
    BY <1>7 DEF ParentCloses, execVars
  <2>2. parent' \in FdTables
    BY <2>1, Entries DEF FdInv, FdTables
  <2> QED
    BY <2>1, <2>2 DEF FdInv
<1>8. CASE ProgramStep
  <2>1. /\ pc = "started" /\ pc' \in {"running", "undefined"} /\ job' = job
        /\ UNCHANGED same /\ fds' = fds
    BY <1>8, ProgramSteps DEF ProgramStep
  <2> QED
    BY <1>b, <2>1 DEF FdInv, UnderWay
<1>9. CASE UNCHANGED vars
  BY <1>9 DEF vars, execVars, FdInv
<1> QED
  BY <1>1, <1>2, <1>3, <1>4, <1>5, <1>6, <1>7, <1>8, <1>9 DEF Next, Process

\* posix_spawn() (posix_spawn.c): the program a child becomes has the
\* descriptors that the file actions mean, out of those the caller had at the
\* call, whatever the caller closes meanwhile, for any list of actions and
\* whichever descriptors were free to open files on.
THEOREM SpawnedFds == Spec => []ChildFds
<1>1. FdInv => ChildFds
  <2> SUFFICES ASSUME FdInv, job.spawn, pc = "running",
                      \A i \in DOMAIN job.acts :
                        ~job.acts[i].cloexec /\ (job.acts[i].tag = "dup2" => job.acts[i].fd # job.acts[i].newfd)
               PROVE  LET meant == Meanings(forked, job.acts)[Len(job.acts)]
                      IN  fds = [f \in Fds |-> IF meant[f].cloexec THEN Closed ELSE meant[f]]
    BY DEF ChildFds
  <2> QED
    BY DEF FdInv, PlainAct, Inherited
<1> QED
  BY <1>1, FdInvAtFirst, FdInvKept, PTL DEF Spec

-----------------------------------------------------------------------------
(* What execve() of a path comes to.                                       *)

Words == {"undefined", "starts", "0", "ENOENT", "ENOTDIR", "EACCES", "EISDIR",
          "E2BIG", "ENODATA", "ENOEXEC"}

LEMMA OutcomeTyped ==
  ASSUME NEW p, NEW s, File(p).kind = "script" => s \in Words
  PROVE  Outcome(p, s) \in Words
<1>1. OpenErr(p) \in Words
  BY DEF OpenErr, Words
<1>2. \A f : ParseErr(f) \in Words
  BY DEF ParseErr, Words
<1>3. \A f : ElfResult(f) \in Words
  <2> TAKE f
  <2> QED
    BY <1>2 DEF ElfResult, Words
<1> QED
  BY <1>1, <1>3 DEF Outcome, Words

LEMMA InterpreterTried ==
  ASSUME NEW p, File(p).kind = "script"
  PROVE  Interpreter(File(p)) \in Tried
<1>1. Place(p) \in DOMAIN host.files /\ File(p) = host.files[Place(p)]
  BY DEF File
<1> QED
  BY <1>1 DEF Tried

\* The function Results is the one its equation defines.
ResultsDo ==
  \A d \in 0..MaxDepth :
    /\ Results[d] \in [Tried -> Words]
    /\ \A p \in Tried : Results[d][p] =
         Outcome(p, IF d = 0 THEN "undefined" ELSE Results[d - 1][Interpreter(File(p))])

LEMMA ResultsStep == ResultsDo
<1> DEFINE X == [Tried -> Words]
           x0 == [p \in Tried |-> Outcome(p, "undefined")]
           F == [g \in X |-> [p \in Tried |-> Outcome(p, g[Interpreter(File(p))])]]
           H(f, d) == [p \in Tried |->
                         Outcome(p, IF d = 0 THEN "undefined" ELSE f[d - 1][Interpreter(File(p))])]
           result == CHOOSE f : f = [d \in 0..MaxDepth |-> H(f, d)]
<1>0. MaxDepth \in Nat
  BY ExecAssumption
<1>1. x0 \in X
  BY OutcomeTyped DEF Words
<1>2. ASSUME NEW g \in X PROVE [p \in Tried |-> Outcome(p, g[Interpreter(File(p))])] \in X
  BY OutcomeTyped, InterpreterTried
<1>3. F \in [X -> X]
  <2> HIDE DEF X
  <2> QED
    BY <1>2
<1>4. PICK W : Iterated(W, X, x0, F)
  <2> HIDE DEF X, F, x0
  <2> QED
    BY <1>1, <1>3, Iterates
<1>5. W \in [Nat -> X] /\ W[0] = x0 /\ \A n \in Nat : W[n + 1] = F[W[n]]
  BY <1>4 DEF Iterated
<1>6. ASSUME NEW n \in 0..MaxDepth PROVE W[n] = H(W, n)
  <2>1. CASE n = 0
    BY <1>5, <2>1
  <2>2. CASE n # 0
    <3>1. n - 1 \in Nat /\ (n - 1) + 1 = n
      BY <1>0, <2>2
    <3>2. W[n - 1] \in X /\ W[(n - 1) + 1] = F[W[n - 1]]
      <4> HIDE DEF F, X
      <4> QED
        BY <1>5, <3>1
    <3> HIDE DEF X
    <3>3. W[n] = [p \in Tried |-> Outcome(p, W[n - 1][Interpreter(File(p))])]
      BY <3>1, <3>2
    <3> QED
      BY <2>2, <3>3
  <2> QED
    BY <2>1, <2>2
<1>7. \E f : f = [d \in 0..MaxDepth |-> H(f, d)]
  <2> DEFINE f == [d \in 0..MaxDepth |-> W[d]]
  <2>1. ASSUME NEW d \in 0..MaxDepth PROVE f[d] = H(f, d)
    <3>1. CASE d = 0
      BY <1>6, <3>1
    <3>2. CASE d # 0
      <4>1. d - 1 \in 0..MaxDepth
        BY <1>0, <3>2
      <4>2. f[d] = W[d] /\ f[d - 1] = W[d - 1]
        BY <4>1
      <4> HIDE DEF f
      <4> QED
        BY <1>6, <4>2
    <3> QED
      BY <3>1, <3>2
  <2>2. f = [d \in 0..MaxDepth |-> H(f, d)]
    <3>1. f = [d \in 0..MaxDepth |-> f[d]]
      OBVIOUS
    <3> HIDE DEF f, H
    <3> QED
      BY <2>1, <3>1
  <2> QED
    BY <2>2
<1>8. result = [d \in 0..MaxDepth |-> H(result, d)]
  <2> HIDE DEF H
  <2> QED
    BY <1>7
<1>9. Results = result
  BY DEF Results
<1>10. \A d \in 0..MaxDepth : Results[d] = H(Results, d)
  <2> HIDE DEF result, H
  <2> QED
    BY <1>8, <1>9
<1> HIDE DEF result
<1> DEFINE S == {d \in Nat : d <= MaxDepth => Results[d] \in X}
<1>11. 0 \in S
  <2>1. 0 \in 0..MaxDepth
    BY <1>0
  <2>2. Results[0] = x0
    BY <1>10, <2>1
  <2> HIDE DEF X, x0
  <2> QED
    BY <1>1, <2>2
<1>12. ASSUME NEW n \in Nat, n \in S PROVE n + 1 \in S
  <2> SUFFICES ASSUME n + 1 <= MaxDepth PROVE Results[n + 1] \in X
    OBVIOUS
  <2>1. n <= MaxDepth /\ n + 1 \in 0..MaxDepth /\ n + 1 # 0 /\ (n + 1) - 1 = n
    BY <1>0
  <2>2. Results[n] \in X
    BY <1>12, <2>1
  <2>3. Results[n + 1] = [p \in Tried |-> Outcome(p, Results[n][Interpreter(File(p))])]
    BY <1>10, <2>1
  <2> HIDE DEF X
  <2> QED
    BY <1>2, <2>2, <2>3
<1>13. \A n \in Nat : n \in S
  <2> HIDE DEF S
  <2> QED
    BY <1>11, <1>12, Induct
<1>14. \A d \in 0..MaxDepth : Results[d] \in X
  <2> HIDE DEF X
  <2> QED
    BY <1>0, <1>13
<1> QED
  BY <1>10, <1>14 DEF ResultsDo

LEMMA ResultsStepNext == ResultsDo'
  BY ResultsStep, PTL

\* It depends on the host and the call, which stay.
LEMMA AstrayStays ==
  ASSUME host' = host, job' = job
  PROVE  \A f : Astray(job.env, f)' <=> Astray(job.env, f)
<1>1. \A v : Kept(v)' = Kept(v)
  BY DEF Kept
<1>2. \A env : Preserve(env)' = Preserve(env)
  BY <1>1 DEF Preserve, Missing
<1> QED
  BY <1>2 DEF Astray

LEMMA OutcomeStays ==
  ASSUME host' = host, job' = job
  PROVE  /\ Tried' = Tried
         /\ \A p : File(p)' = File(p)
         /\ \A p, s : Outcome(p, s)' = Outcome(p, s)
<1>1. \A p : File(p)' = File(p)
  BY DEF File
<1>2. \A p : OpenErr(p)' = OpenErr(p)
  BY <1>1 DEF OpenErr
<1>3. \A p : Runs(p)' <=> Runs(p)
  BY DEF Runs
<1>4. \A f : Linker(f)' = Linker(f)
  BY <1>3 DEF Linker
<1>5. \A f : ElfResult(f)' = ElfResult(f)
  <2> TAKE f
  <2> QED
    BY <1>3, <1>4, AstrayStays DEF ElfResult
<1>6. \A p, s : Outcome(p, s)' = Outcome(p, s)
  BY <1>1, <1>2, <1>5 DEF Outcome
<1>7. Tried' = Tried
  BY DEF Tried, Candidate
<1> QED
  BY <1>1, <1>6, <1>7

LEMMA ResultsStay ==
  ASSUME host' = host, job' = job
  PROVE  \A d \in 0..MaxDepth : Results'[d] = Results[d]
<1> DEFINE S == {d \in Nat : d <= MaxDepth => Results'[d] = Results[d]}
<1>0. MaxDepth \in Nat
  BY ExecAssumption
<1>1. /\ \A d \in 0..MaxDepth : Results[d] = [p \in Tried |-> Results[d][p]]
      /\ \A d \in 0..MaxDepth, p \in Tried : Results[d][p] =
           Outcome(p, IF d = 0 THEN "undefined" ELSE Results[d - 1][Interpreter(File(p))])
  BY ResultsStep DEF ResultsDo
<1>2. /\ \A d \in 0..MaxDepth : Results'[d] = [p \in Tried |-> Results'[d][p]]
      /\ \A d \in 0..MaxDepth, p \in Tried : Results'[d][p] =
           Outcome(p, IF d = 0 THEN "undefined" ELSE Results'[d - 1][Interpreter(File(p))])
  BY ResultsStepNext, OutcomeStays DEF ResultsDo
<1>3. ASSUME NEW d \in 0..MaxDepth, d = 0 \/ Results'[d - 1] = Results[d - 1]
      PROVE  Results'[d] = Results[d]
  <2>1. \A p \in Tried : Results'[d][p] = Results[d][p]
    BY <1>1, <1>2, <1>3
  <2> QED
    BY <1>1, <1>2, <2>1
<1>4. 0 \in S
  BY <1>0, <1>3
<1>5. ASSUME NEW n \in Nat, n \in S PROVE n + 1 \in S
  BY <1>0, <1>3, <1>5
<1>6. \A n \in Nat : n \in S
  <2> HIDE DEF S
  <2> QED
    BY <1>4, <1>5, Induct
<1> QED
  BY <1>0, <1>6

-----------------------------------------------------------------------------
(* The search of PATH.                                                     *)

ByPath == job.fn = "execvpe" /\ "/" \notin Range(job.path) /\ Len(job.path) \in 1..NameMax

Dirs == 1..Len(SearchPath)

\* What execve() makes of the name in a directory of PATH.
Found(i) == Result(Candidate(SearchPath[i]))

\* The execve() under way comes to what that of a directory's file does.
Leads(i) ==
  /\ cur.depth \in 0..MaxDepth /\ cur.path \in Tried
  /\ Results[MaxDepth - cur.depth][cur.path] = Found(i)
  /\ pc = "libraries" =>
       LET f == File(cur.path) IN
         f.kind = "elf64" /\ Parsed(f) /\ "interp" \in f.has /\ ~Astray(job.env, f)

\* The search has come to a directory, past others it may go on after.
Reached(i) ==
  /\ dirs = SubSeq(SearchPath, i + 1, Len(SearchPath))
  /\ \A j \in 1..i - 1 : Found(j) \in GoOn
  /\ stage \in {"path", "shell"} /\ (pc = "search" => stage = "path")
  /\ stage = "shell" => Found(i) = "ENOEXEC"
  /\ stage = "path" =>
       /\ eacces <=> \E j \in 1..i - 1 : Found(j) = "EACCES"
       /\ pc \in {"execve", "libraries"} => Leads(i)
       /\ pc = "search" => err = Found(i) /\ err # "starts"
       /\ pc \in {"started", "running"} => Found(i) = "starts"
       /\ pc = "failed" =>
            \/ Found(i) \notin GoOn \cup {"starts", "ENOEXEC"} /\ err = Found(i)
            \/ /\ i = Len(SearchPath) /\ Found(i) \in GoOn
               /\ err = IF \E j \in 1..i : Found(j) = "EACCES" THEN "EACCES" ELSE Found(i)

Searching ==
  /\ pc \in {"idle", "files"} => stage = "none" /\ ~eacces
  /\ ByPath /\ pc \in UnderWay \cup {"started", "running", "failed"} =>
       \E i \in Dirs : Reached(i)

LEMMA CallStays == [Next]_vars => host' = host /\ job' = job
<1> SUFFICES ASSUME [Next]_vars PROVE host' = host /\ job' = job
  OBVIOUS
<1>1. CASE Spawn
  BY <1>1 DEF Spawn
<1>2. CASE Exec \/ ChildExecs
  BY <1>2, BeginStep DEF Exec, ChildExecs
<1>3. CASE FileAction \/ ChildExits
  BY <1>3 DEF FileAction, ChildExits, Undefined, Exits, execVars
<1>4. CASE ExecStep
  BY <1>4, LibraryStep DEF ExecStep
<1>5. CASE ProgramStep
  BY <1>5, ProgramSteps DEF ProgramStep
<1>6. CASE ParentCloses \/ UNCHANGED vars
  BY <1>6 DEF ParentCloses, execVars, vars
<1> QED
  BY <1>1, <1>2, <1>3, <1>4, <1>5, <1>6 DEF Next, Process

LEMMA FoundStays ==
  ASSUME host' = host, job' = job
  PROVE  \A i : Found(i)' = Found(i)
<1>1. MaxDepth \in 0..MaxDepth
  BY ExecAssumption
<1>2. Results'[MaxDepth] = Results[MaxDepth]
  BY <1>1, ResultsStay
<1>3. \A d : Candidate(d)' = Candidate(d)
  BY DEF Candidate
<1> QED
  BY <1>2, <1>3 DEF Found, Result

\* What an execve() of the search comes to, from its file.
LEMMA LeadsTo ==
  ASSUME NEW i \in Dirs, Leads(i)
  PROVE  Found(i) = Outcome(cur.path, IF cur.depth = MaxDepth THEN "undefined"
                                      ELSE Results[MaxDepth - cur.depth - 1][Interpreter(File(cur.path))])
<1>1. MaxDepth - cur.depth \in 0..MaxDepth /\ (MaxDepth - cur.depth = 0 <=> cur.depth = MaxDepth)
  BY ExecAssumption DEF Leads
<1> QED
  BY <1>1, ResultsStep DEF ResultsDo, Leads

LEMMA TryReaches ==
  ASSUME NEW i \in Dirs, Try(SubSeq(SearchPath, i, Len(SearchPath))),
         \A j \in 1..i - 1 : Found(j) \in GoOn,
         eacces' <=> \E j \in 1..i - 1 : Found(j) = "EACCES"
  PROVE  Reached(i)'
<1>1. host' = host /\ job' = job
  BY DEF Try
<1>2. \A j : Found(j)' = Found(j)
  BY <1>1, FoundStays
<1> DEFINE N == Len(SearchPath)
           rest == SubSeq(SearchPath, i, N)
<1>3. Head(rest) = SearchPath[i] /\ Tail(rest) = SubSeq(SearchPath, i + 1, N)
  BY ExecAssumption DEF Dirs
<1>4. /\ pc' = "execve" /\ cur' = [path |-> Candidate(SearchPath[i]), argv |-> job.argv, depth |-> 0]
      /\ dirs' = SubSeq(SearchPath, i + 1, N) /\ stage' = "path"
  BY <1>3 DEF Try, Calls
<1>5. Leads(i)'
  <2>1. Candidate(SearchPath[i]) \in Tried
    BY ExecAssumption DEF Tried, Dirs
  <2>2. Tried' = Tried
    BY <1>1, OutcomeStays
  <2>3. MaxDepth \in 0..MaxDepth /\ 0 \in 0..MaxDepth /\ MaxDepth - 0 = MaxDepth
    BY ExecAssumption
  <2>4. Results'[MaxDepth] = Results[MaxDepth]
    BY <1>1, <2>3, ResultsStay
  <2>5. Found(i) = Results[MaxDepth][Candidate(SearchPath[i])]
    BY DEF Found, Result
  <2>6. cur'.path = Candidate(SearchPath[i]) /\ cur'.depth = 0
    BY <1>4
  <2> QED
    BY <1>2, <1>4, <2>1, <2>2, <2>3, <2>4, <2>5, <2>6 DEF Leads
<1> QED
  BY <1>2, <1>4, <1>5 DEF Reached

LEMMA FailsReached ==
  ASSUME NEW i \in Dirs, Reached(i), pc \in {"execve", "libraries"},
         NEW e, Fails(e), e # "starts", stage = "path" => e = Found(i)
  PROVE  Reached(i)'
<1>1. /\ host' = host /\ job' = job /\ UNCHANGED <<stage, dirs, eacces>> /\ err' = e
      /\ pc' = IF stage = "path" THEN "search" ELSE "failed"
  BY DEF Fails, search, Reached
<1>2. \A j : Found(j)' = Found(j)
  BY <1>1, FoundStays
<1> QED
  BY <1>1, <1>2 DEF Reached

LEMMA StartsReached ==
  ASSUME NEW i \in Dirs, Reached(i), NEW k, NEW a, NEW env, Starts(k, a, env),
         stage = "path" => Found(i) = "starts"
  PROVE  Reached(i)'
<1>1. /\ host' = host /\ job' = job /\ UNCHANGED <<stage, dirs, eacces>> /\ pc' = "started"
  BY DEF Starts, search
<1>2. \A j : Found(j)' = Found(j)
  BY <1>1, FoundStays
<1> QED
  BY <1>1, <1>2 DEF Reached

\* A step that leaves the search where it is, at a file that leads to the
\* same end.
LEMMA StillReached ==
  ASSUME NEW i \in Dirs, Reached(i), host' = host, job' = job,
         UNCHANGED <<stage, dirs, eacces>>, pc' \in {"execve", "libraries"},
         stage = "path" => Leads(i)'
  PROVE  Reached(i)'
<1>1. \A j : Found(j)' = Found(j)
  BY FoundStays
<1> QED
  BY <1>1 DEF Reached

\* The library's steps within execve().
LEMMA SearchExecve ==
  ASSUME NEW i \in Dirs, Reached(i), pc \in {"execve", "libraries"}, ExecNext
  PROVE  pc' = "undefined" \/ Reached(i)'
<1> DEFINE f == File(cur.path)
<1>0. host' = host /\ job' = job
  BY LibraryStep
<1>1. stage = "path" =>
        Leads(i) /\ Found(i) = Outcome(cur.path, IF cur.depth = MaxDepth THEN "undefined"
                                        ELSE Results[MaxDepth - cur.depth - 1][Interpreter(f)])
  BY LeadsTo DEF Reached
<1>2. ASSUME f.kind \in {"text", "script", "elf64", "elf32"} PROVE OpenErr(cur.path) = "0"
  BY <1>2 DEF OpenErr
<1>3. CASE OpenFails
  <2>1. Fails(OpenErr(cur.path)) /\ OpenErr(cur.path) # "0"
    BY <1>3 DEF OpenFails
  <2>2. stage = "path" => OpenErr(cur.path) = Found(i)
    BY <1>1, <2>1 DEF Outcome
  <2>3. OpenErr(cur.path) # "starts"
    BY DEF OpenErr
  <2> QED
    BY <2>1, <2>2, <2>3, FailsReached
<1>4. CASE NotExec
  <2>1. Fails("ENOEXEC") /\ f.kind = "text"
    BY <1>4 DEF NotExec, Is
  <2>2. stage = "path" => Found(i) = "ENOEXEC"
    BY <1>1, <1>2, <2>1 DEF Outcome
  <2> QED
    BY <2>1, <2>2, FailsReached
<1>5. CASE HandleShebang
  <2>1. f.kind = "script"
    BY <1>5 DEF HandleShebang, Is
  <2>2. CASE cur.argv = <<>> \/ cur.depth = MaxDepth
    BY <1>5, <2>2 DEF HandleShebang, Undefined
  <2>3. CASE ~(cur.argv = <<>> \/ cur.depth = MaxDepth)
    <3>1. /\ pc' = "execve"
          /\ cur' = [path |-> Interpreter(f), argv |-> ShebangArgv(f), depth |-> cur.depth + 1]
          /\ UNCHANGED <<stage, dirs, eacces>>
      BY <1>5, <2>3 DEF HandleShebang, Calls, search
    <3>2. cur'.path = Interpreter(f) /\ cur'.depth = cur.depth + 1
      BY <3>1
    <3>3. ASSUME stage = "path" PROVE Leads(i)'
      <4>1. Leads(i) /\ Found(i) = Results[MaxDepth - cur.depth - 1][Interpreter(f)]
        BY <1>1, <1>2, <2>1, <2>3, <3>3 DEF Outcome
      <4>2. cur.depth + 1 \in 0..MaxDepth /\ MaxDepth - (cur.depth + 1) \in 0..MaxDepth
            /\ MaxDepth - (cur.depth + 1) = MaxDepth - cur.depth - 1
        BY <2>3, <4>1, ExecAssumption DEF Leads
      <4>3. Results'[MaxDepth - (cur.depth + 1)] = Results[MaxDepth - (cur.depth + 1)]
        BY <1>0, <4>2, ResultsStay
      <4>4. Interpreter(f) \in Tried /\ Tried' = Tried
        BY <1>0, <2>1, InterpreterTried, OutcomeStays
      <4>5. Found(i)' = Found(i)
        BY <1>0, FoundStays
      <4> HIDE DEF f
      <4> QED
        BY <3>1, <3>2, <4>1, <4>2, <4>3, <4>4, <4>5 DEF Leads
    <3> QED
      BY <1>0, <3>1, <3>3, StillReached
  <2> QED
    BY <2>2, <2>3
<1>6. CASE ParseFails
  <2>1. f.kind = "elf64"
    BY <1>6 DEF ParseFails, Is
  <2>2. CASE "sections" \notin f.has
    BY <1>6, <2>2 DEF ParseFails, Undefined
  <2>3. CASE "sections" \in f.has
    <3>1. ParseErr(f) # "0" /\ Fails(ParseErr(f))
      BY <1>6, <2>3 DEF ParseFails
    <3>2. stage = "path" => Found(i) = ParseErr(f)
      BY <1>1, <1>2, <2>1, <2>3, <3>1 DEF Outcome, ElfResult
    <3>3. ParseErr(f) # "starts"
      BY DEF ParseErr
    <3> QED
      BY <3>1, <3>2, <3>3, FailsReached
  <2> QED
    BY <2>2, <2>3
<1>7. CASE HandleProot
  <2>1. \/ f.kind = "elf32"
        \/ f.kind = "elf64" /\ Parsed(f) /\ "interp" \notin f.has
    BY <1>7 DEF HandleProot, Is
  <2>2. stage = "path" => Found(i) = IF host.proot THEN "starts" ELSE "ENOENT"
    BY <1>1, <1>2, <2>1 DEF Outcome, ElfResult, Parsed
  <2>3. CASE ~host.proot
    <3>1. Fails("ENOENT")
      BY <1>7, <2>3 DEF HandleProot
    <3> QED
      BY <2>2, <2>3, <3>1, FailsReached
  <2>4. CASE host.proot /\ cur.argv = <<>>
    BY <1>7, <2>4 DEF HandleProot, Undefined
  <2>5. CASE host.proot /\ cur.argv # <<>>
    <3>1. Starts("proot", <<cur.path>> \o Tail(cur.argv),
                 Without(job.env, {"LD_PRELOAD", "LD_LIBRARY_PATH"}))
      BY <1>7, <2>5 DEF HandleProot
    <3> QED
      BY <2>2, <2>5, <3>1, StartsReached
  <2> QED
    BY <2>3, <2>4, <2>5
<1>8. CASE HandleElf64
  <2>1. f.kind = "elf64" /\ Parsed(f) /\ "interp" \in f.has
    BY <1>8 DEF HandleElf64, Is
  <2>2. CASE Astray(job.env, f)
    BY <1>8, <2>2 DEF HandleElf64, Undefined
  <2>3. CASE ~Astray(job.env, f)
    <3>1. pc' = "libraries" /\ cur' = cur /\ UNCHANGED <<stage, dirs, eacces>>
      BY <1>8, <2>3 DEF HandleElf64, search
    <3>2. ASSUME stage = "path" PROVE Leads(i)'
      <4>1. /\ Results'[MaxDepth - cur.depth] = Results[MaxDepth - cur.depth]
            /\ Found(i)' = Found(i) /\ Tried' = Tried /\ \A p : File(p)' = File(p)
        <5>1. MaxDepth - cur.depth \in 0..MaxDepth
          BY <1>1, <3>2, ExecAssumption DEF Leads
        <5> QED
          BY <1>0, <5>1, ResultsStay, FoundStays, OutcomeStays
      <4>2. \A g : Astray(job.env, g)' <=> Astray(job.env, g)
        BY <1>0, AstrayStays
      <4> QED
        BY <1>0, <1>1, <2>1, <2>3, <3>1, <3>2, <4>1, <4>2 DEF Leads, Parsed
    <3> QED
      BY <1>0, <3>1, <3>2, StillReached
  <2> QED
    BY <2>2, <2>3
<1>9. CASE AddLibrary
  <2>1. pc = "libraries" /\ pc' = pc /\ cur' = cur /\ UNCHANGED <<stage, dirs, eacces>>
    BY <1>9 DEF AddLibrary, search
  <2>2. ASSUME stage = "path" PROVE Leads(i)'
    <3>1. /\ Results'[MaxDepth - cur.depth] = Results[MaxDepth - cur.depth]
          /\ Found(i)' = Found(i) /\ Tried' = Tried /\ \A p : File(p)' = File(p)
      <4>1. MaxDepth - cur.depth \in 0..MaxDepth
        BY <1>1, <2>2, ExecAssumption DEF Leads
      <4> QED
        BY <1>0, <4>1, ResultsStay, FoundStays, OutcomeStays
    <3>2. \A g : Astray(job.env, g)' <=> Astray(job.env, g)
      BY <1>0, AstrayStays
    <3> QED
      BY <1>0, <1>1, <2>1, <2>2, <3>1, <3>2 DEF Leads, Parsed
  <2> QED
    BY <1>0, <2>1, <2>2, StillReached
<1>10. CASE StartLinker
  <2> DEFINE runs == Runs(IF Linker(f) \in Bionic THEN f.interp ELSE Linker(f))
  <2>1. pc = "libraries"
    BY <1>10 DEF StartLinker
  <2>2. stage = "path" => Found(i) = IF runs THEN "starts" ELSE "ENOENT"
    <3>1. stage = "path" => f.kind = "elf64" /\ Parsed(f) /\ "interp" \in f.has /\ ~Astray(job.env, f)
      BY <1>1, <2>1 DEF Leads
    <3> QED
      BY <1>1, <1>2, <3>1 DEF Outcome, ElfResult, Parsed
  <2>3. CASE lib.wild
    BY <1>10, <2>3 DEF StartLinker, Undefined
  <2>4. CASE ~lib.wild /\ ~runs
    <3>1. Fails("ENOENT")
      BY <1>10, <2>4 DEF StartLinker
    <3> QED
      BY <2>2, <2>4, <3>1, FailsReached
  <2>5. CASE ~lib.wild /\ runs
    <3>1. \E k, a, env : Starts(k, a, env)
      BY <1>10, <2>5 DEF StartLinker
    <3> QED
      BY <2>2, <2>5, <3>1, StartsReached
  <2> QED
    BY <2>3, <2>4, <2>5
<1>11. pc # "search"
  OBVIOUS
<1> QED
  BY <1>3, <1>4, <1>5, <1>6, <1>7, <1>8, <1>9, <1>10, <1>11
     DEF ExecNext, HxShellExecute, AfterFile, AfterCandidate

\* The library's steps in execvpe().
LEMMA SearchGoesOn ==
  ASSUME NEW i \in Dirs, Reached(i), pc = "search", ExecNext
  PROVE  \E j \in Dirs : Reached(j)'
<1> DEFINE N == Len(SearchPath)
<1>0. host' = host /\ job' = job /\ \A j : Found(j)' = Found(j) /\ N \in Nat /\ N # 0
  BY LibraryStep, FoundStays, ExecAssumption
<1>1. /\ stage = "path" /\ err = Found(i) /\ err # "starts"
      /\ eacces <=> \E j \in 1..i - 1 : Found(j) = "EACCES"
      /\ dirs = SubSeq(SearchPath, i + 1, N) /\ \A j \in 1..i - 1 : Found(j) \in GoOn
  BY DEF Reached
<1>2. CASE HxShellExecute
  <2>1. pc' = "execve" /\ stage' = "shell" /\ dirs' = dirs /\ err = "ENOEXEC"
    BY <1>2 DEF HxShellExecute, Calls
  <2>2. Reached(i)'
    BY <1>0, <1>1, <2>1 DEF Reached
  <2> QED
    BY <2>2
<1>3. CASE AfterCandidate
  <2>1. err # "ENOEXEC"
    BY <1>3 DEF AfterCandidate
  <2>2. CASE err \notin GoOn
    <3>1. pc' = "failed" /\ err' = err /\ UNCHANGED <<stage, dirs, eacces>>
      BY <1>3, <2>2 DEF AfterCandidate, Gives, search
    <3>2. Reached(i)'
      BY <1>0, <1>1, <2>1, <2>2, <3>1 DEF Reached
    <3> QED
      BY <3>2
  <2>3. CASE err \in GoOn /\ dirs = <<>>
    <3>1. i = N
      <4>1. CASE i < N
        <5>1. Len(SubSeq(SearchPath, i + 1, N)) = N - i
          BY <1>0, <4>1, ExecAssumption DEF Dirs
        <5>2. Len(dirs) = N - i
          BY <1>1, <5>1
        <5>3. Len(dirs) = 0
          BY <2>3, NoneInEmpty, Zenon
        <5> HIDE DEF N
        <5> QED
          BY <1>0, <4>1, <5>2, <5>3 DEF Dirs
      <4>2. CASE ~(i < N)
        BY <1>0, <4>2 DEF Dirs
      <4> QED
        BY <4>1, <4>2
    <3>2. /\ pc' = "failed" /\ err' = IF eacces \/ err = "EACCES" THEN "EACCES" ELSE err
          /\ UNCHANGED <<stage, dirs, eacces>>
      BY <1>3, <2>3 DEF AfterCandidate, Gives, search
    <3>3. (eacces \/ err = "EACCES") <=> \E j \in 1..i : Found(j) = "EACCES"
      BY <1>1 DEF Dirs
    <3>4. err' = IF \E j \in 1..i : Found(j) = "EACCES" THEN "EACCES" ELSE Found(i)
      BY <1>1, <3>2, <3>3
    <3>5. Reached(i)'
      BY <1>0, <1>1, <2>3, <3>1, <3>2, <3>4 DEF Reached
    <3> QED
      BY <3>5
  <2>4. CASE err \in GoOn /\ dirs # <<>>
    <3>1. i + 1 \in Dirs
      <4>1. CASE i = N
        <5>1. SubSeq(SearchPath, N + 1, N) = <<>>
          BY <1>0, ExecAssumption
        <5> QED
          BY <1>1, <2>4, <4>1, <5>1
      <4>2. CASE i # N
        BY <1>0, <4>2 DEF Dirs
      <4> QED
        BY <4>1, <4>2
    <3>2. Try(dirs) /\ eacces' = (eacces \/ err = "EACCES")
      BY <1>3, <2>4 DEF AfterCandidate
    <3>3. i \in Nat /\ \A j : j \in 1..(i + 1) - 1 <=> (j \in 1..i - 1 \/ j = i)
      BY DEF Dirs
    <3>4. \A j \in 1..(i + 1) - 1 : Found(j) \in GoOn
      BY <1>1, <2>4, <3>3
    <3>5. eacces' <=> \E j \in 1..(i + 1) - 1 : Found(j) = "EACCES"
      BY <1>1, <3>2, <3>3
    <3>6. Reached(i + 1)'
      BY <1>1, <3>1, <3>2, <3>4, <3>5, TryReaches
    <3> QED
      BY <3>1, <3>6
  <2> QED
    BY <2>2, <2>3, <2>4
<1> QED
  BY <1>1, <1>2, <1>3
     DEF ExecNext, OpenFails, NotExec, HandleShebang, ParseFails, HandleProot, HandleElf64,
         AddLibrary, StartLinker, AfterFile, Is

LEMMA SearchBegins ==
  ASSUME Searching, ByPath, pc \in {"idle", "files"}, Begin
  PROVE  \E i \in Dirs : Reached(i)'
<1>1. job.path # <<>> /\ ~(Len(job.path) > NameMax)
  <2>1. job.path # <<>>
    BY NoneInEmpty DEF ByPath
  <2> QED
    BY <2>1, ExecAssumption DEF ByPath
<1>2. Try(SearchPath) /\ eacces' = eacces
  BY <1>1 DEF Begin, BeginExecvpe, TryPath, ByPath
<1>3. 1 \in Dirs /\ SubSeq(SearchPath, 1, Len(SearchPath)) = SearchPath
  BY ExecAssumption DEF Dirs
<1>4. \A j \in 1..1 - 1 : FALSE
  OBVIOUS
<1>5. ~eacces'
  BY <1>2 DEF Searching
<1>6. Reached(1)'
  BY <1>2, <1>3, <1>4, <1>5, TryReaches
<1> QED
  BY <1>3, <1>6

LEMMA SearchingAtFirst == Init => Searching
  BY DEF Init, ExecInit, Searching, UnderWay

LEMMA SearchingKept == Searching /\ [Next]_vars => Searching'
<1> SUFFICES ASSUME Searching, [Next]_vars PROVE Searching'
  OBVIOUS
<1>0. host' = host /\ job' = job /\ (ByPath' <=> ByPath) /\ \A i : Found(i)' = Found(i)
  BY CallStays, FoundStays DEF ByPath
<1>1. CASE Spawn
  BY <1>1 DEF Spawn, Searching, UnderWay, search
<1>2. CASE Exec \/ ChildExecs
  <2>1. Begin /\ pc \in {"idle", "files"}
    BY <1>2 DEF Exec, ChildExecs
  <2>2. pc' \in {"execve", "failed"}
    BY <2>1, BeginStep
  <2> QED
    BY <1>0, <2>1, <2>2, SearchBegins DEF Searching
<1>3. CASE FileAction \/ ChildExits
  <2>1. /\ pc' \in {"undefined", "exited"} \/ pc' = pc
        /\ UNCHANGED <<cur, stage, dirs, eacces, err>>
        /\ pc' = pc => pc = "files"
    BY <1>3 DEF FileAction, ChildExits, Undefined, Exits, execVars, search
  <2> QED
    BY <2>1 DEF Searching, UnderWay
<1>4. CASE ExecStep
  <2>1. pc \in UnderWay /\ pc' \in UnderWay \cup {"started", "failed", "undefined"} /\ ExecNext
    BY <1>4, LibraryStep DEF ExecStep
  <2>2. ASSUME ByPath, pc' # "undefined" PROVE \E i \in Dirs : Reached(i)'
    <3> PICK i \in Dirs : Reached(i)
      BY <2>1, <2>2 DEF Searching
    <3> QED
      BY <2>1, <2>2, SearchExecve, SearchGoesOn DEF UnderWay
  <2> QED
    BY <1>0, <2>1, <2>2 DEF Searching, UnderWay
<1>5. CASE ProgramStep
  <2>1. /\ pc = "started" /\ pc' \in {"running", "undefined"}
        /\ UNCHANGED <<cur, stage, dirs, eacces, err>>
    BY <1>5, ProgramSteps DEF ProgramStep, search
  <2>2. ASSUME NEW i \in Dirs, Reached(i), pc' = "running" PROVE Reached(i)'
    BY <1>0, <2>1, <2>2 DEF Reached
  <2> QED
    BY <1>0, <2>1, <2>2 DEF Searching, UnderWay
<1>6. CASE ParentCloses \/ UNCHANGED vars
  <2>1. UNCHANGED <<pc, cur, stage, dirs, eacces, err>>
    BY <1>6 DEF ParentCloses, execVars, vars, search
  <2>2. ASSUME NEW i \in Dirs, Reached(i) PROVE Reached(i)'
    <3>1. Leads(i) => Leads(i)'
      <4> SUFFICES ASSUME Leads(i) PROVE Leads(i)'
        OBVIOUS
      <4>1. MaxDepth - cur.depth \in 0..MaxDepth
        BY ExecAssumption DEF Leads
      <4>2. Results'[MaxDepth - cur.depth] = Results[MaxDepth - cur.depth]
        BY <1>0, <4>1, ResultsStay
      <4>3. \A f : Astray(job.env, f)' <=> Astray(job.env, f)
        BY <1>0, AstrayStays
      <4> QED
        BY <1>0, <2>1, <4>2, <4>3, OutcomeStays DEF Leads
    <3> QED
      BY <1>0, <2>1, <2>2, <3>1 DEF Reached
  <2> QED
    BY <1>0, <2>1, <2>2 DEF Searching
<1> QED
  BY <1>1, <1>2, <1>3, <1>4, <1>5, <1>6 DEF Next, Process

\* execvpe() (exec.c), also in a child of posix_spawnp(): the search of PATH
\* for a name runs the first program that execve() starts, gives a shell the
\* first file it does not know, stops at the first other error it may not go
\* on after, and tells EACCES when any directory had that, whatever the files
\* are, and for any PATH.
THEOREM SearchesAreRight == Spec => []SearchRight
<1>1. Searching => SearchRight
  <2> SUFFICES ASSUME Searching, ByPath, pc \in {"running", "failed"} PROVE SearchRight
    BY DEF SearchRight, ByPath
  <2> DEFINE N == Len(SearchPath)
             r == [i \in DOMAIN SearchPath |-> Result(Candidate(SearchPath[i]))]
             skips == {"EACCES", "ENOENT", "ENOTDIR"}
             Stops(i) == r[i] \notin skips /\ \A j \in 1..i - 1 : r[j] \in skips
  <2>0. N \in Nat /\ N # 0 /\ DOMAIN SearchPath = 1..N /\ GoOn = skips
    BY ExecAssumption DEF GoOn
  <2>1. DOMAIN r = 1..N /\ \A i \in 1..N : r[i] = Found(i)
    BY <2>0 DEF Found
  <2>2. PICK i \in 1..N : Reached(i)
    BY DEF Searching, Dirs
  <2>3. stage = "path" => Named = Candidate(SearchPath[i])
    <3>0. dirs = SubSeq(SearchPath, i + 1, N)
      BY <2>2 DEF Reached
    <3>1. Len(dirs) = N - i
      <4>1. Len(SubSeq(SearchPath, i + 1, N)) = IF i + 1 <= N THEN N - (i + 1) + 1 ELSE 0
        BY <2>0, ExecAssumption
      <4> HIDE DEF N
      <4> QED
        BY <2>0, <3>0, <4>1
    <3>2. N - (N - i) = i
      BY <2>0
    <3> HIDE DEF N
    <3> QED
      BY <3>1, <3>2 DEF Named, N
  <2>4. \A j \in 1..i - 1 : r[j] \in skips
    <3> SUFFICES ASSUME NEW j \in 1..i - 1 PROVE r[j] \in skips
      OBVIOUS
    <3>1. Found(j) \in GoOn
      BY <2>2 DEF Reached
    <3>2. j \in 1..N
      BY <2>0
    <3> HIDE DEF r, skips, N
    <3> QED
      BY <2>0, <2>1, <3>1, <3>2
  <2>5. ASSUME NEW k \in DOMAIN r, Stops(k) PROVE k = i \/ (i < k /\ r[i] \in skips)
    <3>1. k \in 1..N /\ (k < i \/ k = i \/ i < k)
      BY <2>0, <2>1
    <3>4. r[k] \notin skips /\ \A j \in 1..k - 1 : r[j] \in skips
      BY <2>5
    <3> HIDE DEF r, skips, N, Stops
    <3>2. CASE k < i
      <4>1. k \in 1..i - 1
        BY <2>0, <3>1, <3>2
      <4> QED
        BY <2>4, <3>4, <4>1
    <3>3. CASE i < k
      <4>1. i \in 1..k - 1
        BY <2>0, <3>1, <3>3
      <4> QED
        BY <3>3, <3>4, <4>1
    <3> QED
      BY <3>1, <3>2, <3>3
  <2>6. Last(r) = r[N]
    <3>1. r \in [1..N -> {r[j] : j \in 1..N}]
      BY <2>0
    <3> HIDE DEF r, N
    <3>2. Len(r) = N
      BY <2>0, <3>1
    <3> QED
      BY <3>2 DEF Last
  <2>7. "EACCES" \in Range(r) <=> \E j \in 1..N : Found(j) = "EACCES"
    BY <2>0, <2>1 DEF Range
  <2>8. ASSUME stage = "shell", NEW k \in DOMAIN r PROVE Stops(k) => r[k] = "ENOEXEC"
    BY <2>0, <2>1, <2>2, <2>5, <2>8 DEF Reached
  <2>9. ASSUME stage = "shell" PROVE Stops(i)
    BY <2>1, <2>2, <2>4, <2>9 DEF Reached
  <2>10. CASE stage = "shell"
    <3> HIDE DEF r, Stops, skips
    <3> QED
      BY <2>1, <2>2, <2>8, <2>9, <2>10 DEF SearchRight, r, Stops, skips
  <2>11. CASE stage = "path" /\ pc = "running"
    <3>1. Found(i) = "starts"
      BY <2>2, <2>11 DEF Reached
    <3> QED
      BY <2>1, <2>2, <2>3, <2>4, <2>5, <2>11, <3>1 DEF SearchRight
  <2>12. CASE stage = "path" /\ pc = "failed"
    <3>1. \/ Found(i) \notin GoOn \cup {"starts", "ENOEXEC"} /\ err = Found(i)
          \/ /\ i = N /\ Found(i) \in GoOn
             /\ err = IF \E j \in 1..i : Found(j) = "EACCES" THEN "EACCES" ELSE Found(i)
      BY <2>2, <2>12 DEF Reached
    <3>2. ASSUME NEW k \in DOMAIN r, Stops(k)
          PROVE  /\ k = i /\ r[k] = Found(i) /\ Found(i) \notin GoOn
                 /\ r[k] \notin {"starts", "ENOEXEC"} /\ err = r[k]
      <4>1. r[i] = Found(i)
        BY <2>1
      <4>2. CASE Found(i) \in GoOn
        <5>1. k = i
          <6>1. i = N
            BY <3>1, <4>2
          <6>2. k \in 1..N
            BY <2>1, <3>2
          <6>3. k = i \/ i < k
            BY <2>5, <3>2
          <6> HIDE DEF r, Stops, skips, N
          <6> QED
            BY <2>0, <6>1, <6>2, <6>3
        <5> QED
          BY <2>0, <3>2, <4>1, <4>2, <5>1
      <4>3. CASE Found(i) \notin GoOn
        BY <2>0, <2>5, <3>1, <3>2, <4>1, <4>3
      <4> QED
        BY <4>2, <4>3
    <3>3. ASSUME \A k \in DOMAIN r : ~Stops(k)
          PROVE  err = IF "EACCES" \in Range(r) THEN "EACCES" ELSE Last(r)
      <4>1. r[i] = Found(i) /\ i \in DOMAIN r
        BY <2>1
      <4>2. Found(i) \in GoOn
        BY <2>0, <2>4, <3>3, <4>1
      <4>3. i = N /\ err = IF \E j \in 1..i : Found(j) = "EACCES" THEN "EACCES" ELSE Found(i)
        BY <3>1, <4>2
      <4> HIDE DEF r, N
      <4> QED
        BY <2>6, <2>7, <4>1, <4>3
    <3> HIDE DEF r, Stops, skips
    <3> QED
      BY <2>12, <3>2, <3>3 DEF SearchRight, r, Stops, skips
  <2> QED
    BY <2>2, <2>10, <2>11, <2>12 DEF Reached
<1> QED
  BY <1>1, SearchingAtFirst, SearchingKept, PTL DEF Spec

-----------------------------------------------------------------------------
(* Recursive functions over the items of a sequence.                       *)

\* f goes through the items with G, and g does as f does.
Goes(f, X, x0, N, G) ==
  f \in [0..N -> X] /\ f[0] = x0 /\ \A n \in 1..N : f[n] = G[<<n, f[n - 1]>>]

Follows(g, f, N) ==
  /\ g = [n \in 0..N |-> g[n]] /\ f = [n \in 0..N |-> f[n]]
  /\ g[0] = f[0] /\ \A n \in 1..N : g[n - 1] = f[n - 1] => g[n] = f[n]

LEMMA RecursionIs ==
  ASSUME NEW X, NEW x0 \in X, NEW N \in Nat, NEW G \in [(1..N) \X X -> X]
  PROVE  \E f : Goes(f, X, x0, N, G)
<1> DEFINE F == [y \in Nat \X X |-> IF y[1] + 1 \in 1..N THEN G[<<y[1] + 1, y[2]>>] ELSE y[2]]
<1>1. F \in [Nat \X X -> X]
  OBVIOUS
<1>2. \A n \in Nat, x \in X : n + 1 \in 1..N => F[<<n, x>>] = G[<<n + 1, x>>]
  OBVIOUS
<1> HIDE DEF F
<1>3. PICK W : Recursive(W, X, x0, F)
  BY <1>1, Recurses
<1>4. W \in [Nat -> X] /\ W[0] = x0 /\ \A n \in Nat : W[n + 1] = F[<<n, W[n]>>]
  BY <1>3 DEF Recursive
<1>5. ASSUME NEW n \in 1..N PROVE W[n] = G[<<n, W[n - 1]>>]
  <2>1. n - 1 \in Nat /\ (n - 1) + 1 = n
    OBVIOUS
  <2>2. W[n - 1] \in X /\ W[(n - 1) + 1] = F[<<n - 1, W[n - 1]>>]
    BY <1>4, <2>1
  <2> QED
    BY <1>2, <2>1, <2>2
<1>6. PICK f : f = [n \in 0..N |-> W[n]]
  OBVIOUS
<1>7. f \in [0..N -> X] /\ f[0] = x0
  BY <1>4, <1>6
<1>8. \A n \in 1..N : f[n] = W[n] /\ f[n - 1] = W[n - 1]
  BY <1>6
<1>9. Goes(f, X, x0, N, G)
  BY <1>5, <1>7, <1>8 DEF Goes
<1> QED
  BY <1>9

LEMMA RecursionOnly ==
  ASSUME NEW N \in Nat, NEW f, NEW g, Follows(g, f, N)
  PROVE  g = f
<1> DEFINE S == {n \in Nat : n <= N => g[n] = f[n]}
<1>1. 0 \in S
  BY DEF Follows
<1>2. ASSUME NEW n \in Nat, n \in S PROVE n + 1 \in S
  <2> SUFFICES ASSUME n + 1 <= N PROVE g[n + 1] = f[n + 1]
    OBVIOUS
  <2>1. n + 1 \in 1..N /\ (n + 1) - 1 = n /\ g[n] = f[n]
    BY <1>2
  <2> QED
    BY <2>1 DEF Follows
<1>3. \A n \in Nat : n \in S
  <2> HIDE DEF S
  <2> QED
    BY <1>1, <1>2, Induct
<1>4. \A n \in 0..N : g[n] = f[n]
  BY <1>3
<1> QED
  BY <1>4 DEF Follows

-----------------------------------------------------------------------------
(* The texts that are put together from paths.                             *)

LEMMA ListedTyped ==
  ASSUME NEW T, Root \in Seq(T), NEW f, LibDirs(f) \in Seq(Seq(T))
  PROVE  Listed(f) \in Seq(Seq(T)) /\ (LibDirs(f) = <<>> => Listed(f) = <<>>)
<1> DEFINE N == Len(LibDirs(f))
           X == Seq(Seq(T))
           G == [y \in (1..N) \X X |-> IF ShouldExpand(LibDirs(f)[y[1]])
                                       THEN Append(y[2], Expand(LibDirs(f)[y[1]])) ELSE y[2]]
           H(g, n) == IF n = 0 THEN <<>>
                      ELSE IF ShouldExpand(LibDirs(f)[n]) THEN Append(g[n - 1], Expand(LibDirs(f)[n]))
                      ELSE g[n - 1]
           listed == CHOOSE g : g = [n \in 0..N |-> H(g, n)]
<1>1. N \in Nat /\ <<>> \in X /\ \A n \in 1..N : Expand(LibDirs(f)[n]) \in Seq(T)
  BY DEF Expand
<1>2. G \in [(1..N) \X X -> X]
  BY <1>1
<1>3. \A n \in 1..N, x \in X :
        G[<<n, x>>] = IF ShouldExpand(LibDirs(f)[n]) THEN Append(x, Expand(LibDirs(f)[n])) ELSE x
  OBVIOUS
<1> HIDE DEF N, G, X
<1>a. PICK F : Goes(F, X, <<>>, N, G)
  BY <1>1, <1>2, RecursionIs
<1>4. F \in [0..N -> X] /\ F[0] = <<>> /\ \A n \in 1..N : F[n] = G[<<n, F[n - 1]>>]
  BY <1>a DEF Goes
<1>5. \A n \in 1..N : F[n - 1] \in X /\ n # 0
  BY <1>1, <1>4
<1>6. \A n \in 0..N : F[n] = H(F, n)
  <2> SUFFICES ASSUME NEW n \in 0..N, n # 0 PROVE F[n] = H(F, n)
    BY <1>4
  <2>1. n \in 1..N
    BY <1>1
  <2> QED
    BY <1>3, <1>4, <1>5, <2>1
<1>7. listed = [n \in 0..N |-> H(listed, n)]
  <2>1. F = [n \in 0..N |-> H(F, n)]
    <3>1. F = [n \in 0..N |-> F[n]]
      BY <1>4
    <3> HIDE DEF H
    <3> QED
      BY <1>6, <3>1
  <2> HIDE DEF H
  <2> QED
    BY <2>1
<1>8. Listed(f) = listed[N]
  BY DEF Listed, N
<1> HIDE DEF listed
<1>9. \A n \in 0..N : listed[n] = H(listed, n)
  <2> HIDE DEF H
  <2> QED
    BY <1>7
<1>10. listed = F
  <2>1. listed = [n \in 0..N |-> listed[n]]
    <3> HIDE DEF H
    <3> QED
      BY <1>7, <1>9
  <2>2. listed[0] = F[0]
    BY <1>1, <1>4, <1>9
  <2>3. ASSUME NEW n \in 1..N, listed[n - 1] = F[n - 1] PROVE listed[n] = F[n]
    <3>1. n \in 0..N /\ n # 0
      BY <1>1
    <3> QED
      BY <1>6, <1>9, <2>3, <3>1
  <2>4. F = [n \in 0..N |-> F[n]]
    BY <1>4
  <2> HIDE DEF H
  <2>5. Follows(listed, F, N)
    BY <2>1, <2>2, <2>3, <2>4 DEF Follows
  <2> QED
    BY <1>1, <2>5, RecursionOnly
<1>11. N \in 0..N /\ (LibDirs(f) = <<>> => N = 0)
  BY <1>1 DEF N
<1> QED
  BY <1>4, <1>8, <1>10, <1>11 DEF X

LEMMA ListTextsAre ==
  ASSUME NEW T, ":" \in T, NEW paths \in Seq(Seq(T))
  PROVE  LET list == ListTexts(paths) IN
           /\ list \in [0..Len(paths) -> Seq(T)] /\ list[0] = <<>>
           /\ \A n \in 1..Len(paths) :
                list[n] = IF n = 1 THEN paths[1] ELSE list[n - 1] \o <<":">> \o paths[n]
<1> DEFINE N == Len(paths)
           X == Seq(T)
           G == [y \in (1..N) \X X |-> IF y[1] = 1 THEN paths[1] ELSE y[2] \o <<":">> \o paths[y[1]]]
           H(g, n) == IF n = 0 THEN <<>>
                      ELSE IF n = 1 THEN paths[1] ELSE g[n - 1] \o <<":">> \o paths[n]
           list == CHOOSE g : g = [n \in 0..N |-> H(g, n)]
<1>1. N \in Nat /\ <<>> \in X /\ \A n \in 1..N : paths[n] \in X
  OBVIOUS
<1>2. G \in [(1..N) \X X -> X]
  BY <1>1
<1>3. \A n \in 1..N, x \in X :
        G[<<n, x>>] = IF n = 1 THEN paths[1] ELSE x \o <<":">> \o paths[n]
  OBVIOUS
<1> HIDE DEF N, G, X
<1>a. PICK F : Goes(F, X, <<>>, N, G)
  BY <1>1, <1>2, RecursionIs
<1>4. F \in [0..N -> X] /\ F[0] = <<>> /\ \A n \in 1..N : F[n] = G[<<n, F[n - 1]>>]
  BY <1>a DEF Goes
<1>5. \A n \in 1..N : F[n - 1] \in X /\ n # 0
  BY <1>1, <1>4
<1>6. \A n \in 0..N : F[n] = H(F, n)
  <2> SUFFICES ASSUME NEW n \in 0..N, n # 0 PROVE F[n] = H(F, n)
    BY <1>4
  <2>1. n \in 1..N
    BY <1>1
  <2> QED
    BY <1>3, <1>4, <1>5, <2>1
<1>7. list = [n \in 0..N |-> H(list, n)]
  <2>1. F = [n \in 0..N |-> H(F, n)]
    <3>1. F = [n \in 0..N |-> F[n]]
      BY <1>4
    <3> HIDE DEF H
    <3> QED
      BY <1>6, <3>1
  <2> HIDE DEF H
  <2> QED
    BY <2>1
<1>8. ListTexts(paths) = list
  BY DEF ListTexts, N
<1> HIDE DEF list
<1>9. \A n \in 0..N : list[n] = H(list, n)
  <2> HIDE DEF H
  <2> QED
    BY <1>7
<1>10. list = F
  <2>1. list = [n \in 0..N |-> list[n]]
    <3> HIDE DEF H
    <3> QED
      BY <1>7, <1>9
  <2>2. list[0] = F[0]
    BY <1>1, <1>4, <1>9
  <2>3. ASSUME NEW n \in 1..N, list[n - 1] = F[n - 1] PROVE list[n] = F[n]
    <3>1. n \in 0..N /\ n # 0
      BY <1>1
    <3> QED
      BY <1>6, <1>9, <2>3, <3>1
  <2>4. F = [n \in 0..N |-> F[n]]
    BY <1>4
  <2> HIDE DEF H
  <2>5. Follows(list, F, N)
    BY <2>1, <2>2, <2>3, <2>4 DEF Follows
  <2> QED
    BY <1>1, <2>5, RecursionOnly
<1>11. \A n \in 1..N : F[n] = IF n = 1 THEN paths[1] ELSE F[n - 1] \o <<":">> \o paths[n]
  BY <1>3, <1>4, <1>5
<1> HIDE DEF H
<1> QED
  BY <1>4, <1>8, <1>10, <1>11 DEF X, N

\* u is s and then t.
Joined(u, s, t) ==
  /\ Len(u) = Len(s) + Len(t) /\ Len(s) \in Nat /\ Len(t) \in Nat
  /\ \A j \in 1..Len(s) : u[j] = s[j]
  /\ \A j \in 1..Len(t) : u[Len(s) + j] = t[j]

LEMMA Joins ==
  ASSUME NEW T, NEW s \in Seq(T), NEW t \in Seq(T), NEW u, u = s \o t
  PROVE  u \in Seq(T) /\ Joined(u, s, t)
<1>1. u \in Seq(T) /\ Len(u) = Len(s) + Len(t) /\ Len(s) \in Nat /\ Len(t) \in Nat
  OBVIOUS
<1>2. \A j \in 1..Len(s) : u[j] = s[j]
  OBVIOUS
<1>3. \A j \in 1..Len(t) : u[Len(s) + j] = t[j]
  OBVIOUS
<1> QED
  BY <1>1, <1>2, <1>3 DEF Joined


-----------------------------------------------------------------------------
(* The environment.                                                        *)

Entry == [var : STRING, val : Seq(Letters)]

LEMMA EnvironsAre ==
  /\ Environs = Seq(Entry)
  /\ \A h \in Hosts : h.environ \in Environs /\ h.backup \in Environs
  /\ \A j \in Jobs : j.env \in Environs
<1>1. Environs = Seq(Entry)
  BY Zenon DEF Environs, Entry
<1>2. \A h \in Hosts : h.environ \in Environs /\ h.backup \in Environs
  BY SpawnAssumption, Zenon
<1>3. \A j \in Jobs : j.env \in Environs
  BY SpawnAssumption, Zenon
<1> QED
  BY <1>1, <1>2, <1>3

LEMMA FindIs ==
  ASSUME NEW n \in Nat, NEW env, DOMAIN env = 1..n, NEW v, Has(env, v)
  PROVE  /\ Find(env, v) \in 1..n /\ env[Find(env, v)].var = v
         /\ \A j \in 1..Find(env, v) - 1 : env[j].var # v
<1> DEFINE S == {i \in 1..n : env[i].var = v}
<1>1. S \subseteq Nat /\ S # {}
  BY DEF Has
<1>2. PICK i \in S : \A k \in S : i <= k
  <2> HIDE DEF S
  <2> QED
    BY <1>1, LeastElement
<1>3. i \in DOMAIN env /\ env[i].var = v /\ \A j \in 1..i - 1 : env[j].var # v
  <2>1. ASSUME NEW j \in 1..i - 1, env[j].var = v PROVE FALSE
    <3>1. j \in S /\ j < i
      BY <1>2, <2>1
    <3> QED
      BY <1>2, <3>1
  <2> QED
    BY <1>2, <2>1
<1> QED
  BY <1>3 DEF Find

LEMMA FindOnly ==
  ASSUME NEW n \in Nat, NEW env, DOMAIN env = 1..n, NEW v,
         NEW i \in 1..n, env[i].var = v, \A j \in 1..i - 1 : env[j].var # v
  PROVE  Has(env, v) /\ Find(env, v) = i
<1>1. Has(env, v)
  BY DEF Has
<1>2. PICK k : k = Find(env, v)
  OBVIOUS
<1>3. k \in 1..n /\ env[k].var = v /\ \A j \in 1..k - 1 : env[j].var # v
  BY <1>1, <1>2, FindIs
<1>4. ~(k < i) /\ ~(i < k)
  BY <1>3
<1> QED
  BY <1>1, <1>2, <1>3, <1>4

LEMMA KeptTyped ==
  ASSUME host \in Hosts, NEW env \in Environs
  PROVE  /\ \A v : Kept(v) \in Environs
         /\ Preserve(env) \in Environs
         /\ \A i \in 1..Len(env) : Preserve(env)[i] = env[i]
         /\ Len(env) <= Len(Preserve(env)) /\ Len(env) \in Nat /\ Len(Preserve(env)) \in Nat
<1>1. host.environ \in Seq(Entry) /\ host.backup \in Seq(Entry) /\ env \in Seq(Entry)
  BY EnvironsAre
<1>2. ASSUME NEW v PROVE Kept(v) \in Seq(Entry)
  <2>1. ASSUME NEW e \in Seq(Entry), Has(e, v) PROVE <<e[Find(e, v)]>> \in Seq(Entry)
    <3>1. DOMAIN e = 1..Len(e) /\ Len(e) \in Nat
      OBVIOUS
    <3>2. Find(e, v) \in 1..Len(e)
      BY <2>1, <3>1, FindIs
    <3>3. e[Find(e, v)] \in Entry
      BY <3>2
    <3> QED
      BY <3>3
  <2> QED
    BY <1>1, <2>1 DEF Kept
<1>3. \A v : Missing(env, v) \in Seq(Entry)
  BY <1>2 DEF Missing
<1>4. PICK a, b : a = Missing(env, "LD_PRELOAD") /\ b = Missing(env, "LD_LIBRARY_PATH")
  OBVIOUS
<1>5. a \in Seq(Entry) /\ b \in Seq(Entry) /\ Preserve(env) = env \o a \o b
  BY <1>3, <1>4 DEF Preserve
<1>6. PICK c : c = env \o a
  OBVIOUS
<1>7. c \in Seq(Entry) /\ Len(c) = Len(env) + Len(a) /\ (\A i \in 1..Len(env) : c[i] = env[i])
      /\ Len(env) \in Nat /\ Len(a) \in Nat /\ Len(b) \in Nat
  BY <1>1, <1>5, <1>6
<1>8. PICK d : d = c \o b
  OBVIOUS
<1>9. d \in Seq(Entry) /\ Len(d) = Len(c) + Len(b) /\ \A i \in 1..Len(c) : d[i] = c[i]
  <2>1. c \in Seq(Entry) /\ b \in Seq(Entry) /\ Len(c) \in Nat /\ Len(b) \in Nat
    BY <1>5, <1>7
  <2>2. d \in Seq(Entry) /\ Len(d) = Len(c) + Len(b)
    BY <1>8, <2>1
  <2> QED
    BY <1>8, <2>1, <2>2
<1>10. \A i \in 1..Len(env) : d[i] = env[i]
  BY <1>7, <1>9
<1>11. Preserve(env) = d /\ Len(env) <= Len(d) /\ Len(d) \in Nat
  BY <1>5, <1>6, <1>7, <1>8, <1>9
<1>12. \A v : Kept(v) \in Environs
  BY <1>2, EnvironsAre
<1>13. d \in Environs
  BY <1>9, EnvironsAre
<1> QED
  BY <1>7, <1>10, <1>11, <1>12, <1>13

\* The list of libraries is found in the environment that it is put into.
LEMMA ListPut ==
  ASSUME host \in Hosts, NEW env \in Environs, lib # NoLib,
         Has(Preserve(env), "LD_LIBRARY_PATH") => Has(env, "LD_LIBRARY_PATH")
  PROVE  /\ Has(NewEnv(env), "LD_LIBRARY_PATH")
         /\ NewEnv(env)[Find(NewEnv(env), "LD_LIBRARY_PATH")].val = Tail(lib.text)
<1> DEFINE v == "LD_LIBRARY_PATH"
           list == [var |-> v, val |-> Tail(lib.text)]
           E == Entry \cup {list}
<1>1. PICK kept : kept = Preserve(env)
  OBVIOUS
<1>2. kept \in Seq(Entry) /\ Len(kept) \in Nat /\ DOMAIN kept = 1..Len(kept)
  <2>1. kept \in Seq(Entry)
    BY <1>1, KeptTyped, EnvironsAre
  <2> QED
    BY <2>1
<1>3. list.var = v /\ list.val = Tail(lib.text) /\ list \in E
  OBVIOUS
<1>4. kept \in Seq(E)
  <2>1. \A i \in 1..Len(kept) : kept[i] \in E
    BY <1>2
  <2> HIDE DEF E
  <2> QED
    BY <1>2, <2>1
<1>5. NewEnv(env) = IF Has(env, v) THEN [kept EXCEPT ![Find(kept, v)] = list] ELSE Append(kept, list)
  BY <1>1 DEF NewEnv
<1> HIDE DEF E, list
<1>6. CASE Has(env, v)
  <2>1. Has(kept, v)
    <3>1. PICK i \in DOMAIN env : env[i].var = v
      BY <1>6 DEF Has
    <3>2. i \in 1..Len(env) /\ i \in 1..Len(kept) /\ kept[i] = env[i]
      BY <1>1, <1>2, <3>1, KeptTyped, EnvironsAre
    <3> QED
      BY <1>2, <3>1, <3>2 DEF Has
  <2>2. PICK i : i = Find(kept, v)
    OBVIOUS
  <2>3. i \in 1..Len(kept) /\ kept[i].var = v /\ \A j \in 1..i - 1 : kept[j].var # v
    BY <1>2, <2>1, <2>2, FindIs
  <2>4. PICK new : new = [kept EXCEPT ![i] = list]
    OBVIOUS
  <2>5. DOMAIN new = 1..Len(kept) /\ new[i] = list /\ \A j \in 1..i - 1 : new[j].var # v
    BY <1>2, <2>3, <2>4
  <2>6. Has(new, v) /\ Find(new, v) = i
    BY <1>2, <1>3, <2>3, <2>5, FindOnly
  <2> QED
    BY <1>3, <1>5, <1>6, <2>2, <2>4, <2>5, <2>6
<1>7. CASE ~Has(env, v)
  <2>1. ~Has(kept, v)
    BY <1>1, <1>7
  <2>2. PICK new, i : new = Append(kept, list) /\ i = Len(kept) + 1
    OBVIOUS
  <2>3. DOMAIN new = 1..i /\ i \in Nat /\ i \in 1..i /\ new[i] = list
        /\ \A j \in 1..i - 1 : j \in DOMAIN kept /\ new[j] = kept[j]
    BY <1>2, <1>3, <1>4, <2>2
  <2>4. \A j \in 1..i - 1 : new[j].var # v
    BY <2>1, <2>3 DEF Has
  <2>5. Has(new, v) /\ Find(new, v) = i
    BY <1>3, <2>3, <2>4, FindOnly
  <2> QED
    BY <1>3, <1>5, <1>7, <2>2, <2>3, <2>5
<1> QED
  BY <1>6, <1>7


-----------------------------------------------------------------------------
(* The list of libraries.                                                  *)

Listing == Letters \cup {":"}

\* What the list is after so many paths, where all of them fit.
LibOf(list, n) ==
  IF n = 0 THEN NoLib
  ELSE [text |-> <<"LD_LIBRARY_PATH=">> \o list[n], pos |-> Len(list[n]) + 1, siz |-> LibBuf,
        cut |-> FALSE, wild |-> FALSE]

Given(f) == Callers(job.env) \o Listed(f)
Fitting(f) == Listed(f) # <<>> /\ Len(ListTexts(Given(f))[Len(Given(f))]) + 2 <= LibBuf

Added(f, k) ==
  /\ todo = SubSeq(Listed(f), k + 1, Len(Listed(f)))
  /\ Fitting(f) => lib = LibOf(ListTexts(Given(f)), Len(Callers(job.env)) + k)

Adding ==
  LET f == File(cur.path) IN
    f.kind = "elf64" /\ ~Astray(job.env, f) /\ \E k \in 0..Len(Listed(f)) : Added(f, k)

LibInv ==
  /\ host \in Hosts /\ job \in Jobs
  /\ image.kind = "linker" => pc \in {"started", "running", "undefined"}
  /\ pc = "libraries" => Adding
  /\ LibrariesListed

\* Letters are among the tokens of a list.
LEMMA LettersIn ==
  ASSUME NEW T, Letters \subseteq T, NEW s \in Seq(Letters)
  PROVE  s \in Seq(T)
<1>1. \A i \in 1..Len(s) : s[i] \in T
  OBVIOUS
<1> HIDE DEF Letters
<1> QED
  BY <1>1

LEMMA TextsIn ==
  ASSUME NEW T, Letters \subseteq T, NEW s \in Seq(Seq(Letters))
  PROVE  s \in Seq(Seq(T))
<1>1. \A i \in 1..Len(s) : s[i] \in Seq(Letters)
  OBVIOUS
<1>2. \A i \in 1..Len(s) : s[i] \in Seq(T)
  BY <1>1, LettersIn
<1> QED
  BY <1>2

\* A file of the host that is an ELF file is one the assumption is about.
LEMMA FileTyped ==
  ASSUME host \in Hosts, NEW path, File(path).kind \in {"elf64", "script"}
  PROVE  File(path) \in Range(host.files)
<1>1. Place(path) \in DOMAIN host.files /\ File(path) = host.files[Place(path)]
  BY DEF File
<1> QED
  BY <1>1 DEF Range

LEMMA GivenTyped ==
  ASSUME host \in Hosts, job \in Jobs, NEW path, File(path).kind = "elf64"
  PROVE  LET f == File(path) IN
           /\ Listed(f) \in Seq(Seq(Listing)) /\ Callers(job.env) \in Seq(Seq(Listing))
           /\ Given(f) \in Seq(Seq(Listing))
           /\ Len(Callers(job.env)) \in {0, 1}
           /\ LibDirs(f) = <<>> => Listed(f) = <<>>
<1> DEFINE f == File(path)
<1>0. Letters \subseteq Listing
  BY DEF Listing
<1>1. f.rpath \in Seq(Seq(Letters))
  BY FileTyped, SpawnAssumption
<1>2. <<>> \in Seq(Seq(Letters))
  OBVIOUS
<1> HIDE DEF f
<1>3. LibDirs(f) \in Seq(Seq(Letters))
  BY <1>1, <1>2 DEF LibDirs
<1>4. LibDirs(f) \in Seq(Seq(Listing)) /\ Root \in Seq(Listing)
  BY <1>0, <1>3, TextsIn, LettersIn, PlacesAssumption
<1>5. Listed(f) \in Seq(Seq(Listing)) /\ (LibDirs(f) = <<>> => Listed(f) = <<>>)
  BY <1>4, ListedTyped
<1>6. Callers(job.env) \in Seq(Seq(Listing)) /\ Len(Callers(job.env)) \in {0, 1}
  <2>1. PICK env : env = job.env
    OBVIOUS
  <2>2. env \in Seq(Entry)
    BY <2>1, EnvironsAre
  <2>3. DOMAIN env = 1..Len(env) /\ Len(env) \in Nat
    BY <2>2
  <2>4. ASSUME Has(env, "LD_LIBRARY_PATH")
        PROVE  env[Find(env, "LD_LIBRARY_PATH")].val \in Seq(Listing)
    <3>1. env[Find(env, "LD_LIBRARY_PATH")] \in Entry
      BY <2>2, <2>3, <2>4, FindIs
    <3>2. env[Find(env, "LD_LIBRARY_PATH")].val \in Seq(Letters)
      BY <3>1 DEF Entry
    <3> QED
      BY <1>0, <3>2, LettersIn
  <2>5. Callers(env) \in Seq(Seq(Listing)) /\ Len(Callers(env)) \in {0, 1}
    BY <2>4 DEF Callers
  <2> QED
    BY <2>1, <2>5
<1>7. Given(f) \in Seq(Seq(Listing))
  BY <1>5, <1>6 DEF Given
<1> QED
  BY <1>5, <1>6, <1>7 DEF f

\* A text gets longer with every path.
LEMMA ListGrows ==
  ASSUME NEW T, ":" \in T, NEW paths \in Seq(Seq(T))
  PROVE  \A m \in 0..Len(paths) : \A n \in 0..m :
           Len(ListTexts(paths)[n]) <= Len(ListTexts(paths)[m])
<1>1. PICK list : list = ListTexts(paths)
  OBVIOUS
<1>2. /\ list \in [0..Len(paths) -> Seq(T)] /\ list[0] = <<>>
      /\ \A n \in 1..Len(paths) :
           list[n] = IF n = 1 THEN paths[1] ELSE list[n - 1] \o <<":">> \o paths[n]
  BY <1>1, ListTextsAre
<1>3. PICK N \in Nat : N = Len(paths)
  OBVIOUS
<1>4. \A n \in 0..N : list[n] \in Seq(T) /\ Len(list[n]) \in Nat
  BY <1>2, <1>3, SMTT(40)
<1>5. ASSUME NEW m \in 0..N - 1 PROVE Len(list[m]) <= Len(list[m + 1])
  <2>1. CASE m = 0
    BY <1>2, <1>3, <1>4, <2>1
  <2>2. CASE m # 0
    <3>1. m + 1 \in 1..N /\ m + 1 # 1 /\ (m + 1) - 1 = m
      BY <2>2
    <3>2. list[m + 1] = list[m] \o <<":">> \o paths[m + 1]
      BY <1>2, <1>3, <3>1
    <3>3. PICK a, b : a = list[m] /\ b = paths[m + 1]
      OBVIOUS
    <3>4. a \in Seq(T) /\ b \in Seq(T)
      BY <1>3, <1>4, <3>1, <3>3
    <3>5. Len(a \o <<":">> \o b) = Len(a) + 1 + Len(b) /\ Len(a) \in Nat /\ Len(b) \in Nat
      BY <3>4
    <3>6. list[m + 1] = a \o <<":">> \o b
      BY <3>2, <3>3
    <3>7. Len(list[m + 1]) = Len(a) + 1 + Len(b)
      BY <3>5, <3>6
    <3>8. Len(list[m]) = Len(a)
      BY <3>3
    <3> QED
      BY <3>5, <3>7, <3>8
  <2> QED
    BY <2>1, <2>2
<1> DEFINE S == {m \in Nat : m <= N => \A n \in 0..m : Len(list[n]) <= Len(list[m])}
<1>6. 0 \in S
  BY <1>4
<1>7. ASSUME NEW m \in Nat, m \in S PROVE m + 1 \in S
  <2> SUFFICES ASSUME m + 1 <= N, NEW n \in 0..m + 1 PROVE Len(list[n]) <= Len(list[m + 1])
    OBVIOUS
  <2>1. CASE n = m + 1
    BY <1>4, <2>1
  <2>2. CASE n # m + 1
    <3>1. n \in 0..m /\ m \in 0..N - 1
      BY <2>2
    <3>2. Len(list[n]) <= Len(list[m]) /\ Len(list[m]) <= Len(list[m + 1])
      BY <1>5, <1>7, <3>1
    <3>3. Len(list[n]) \in Nat /\ Len(list[m]) \in Nat /\ Len(list[m + 1]) \in Nat
      BY <1>4, <3>1
    <3> QED
      BY <3>2, <3>3
  <2> QED
    BY <2>1, <2>2
<1>8. \A m \in Nat : m \in S
  <2> HIDE DEF S
  <2> QED
    BY <1>6, <1>7, Induct
<1>9. \A m \in 0..N : \A n \in 0..m : Len(list[n]) <= Len(list[m])
  BY <1>8
<1> QED
  BY <1>1, <1>3, <1>9

Assoc(a, b, c) == (a \o b) \o c = a \o (b \o c)

LEMMA Associates ==
  ASSUME NEW T, NEW a \in Seq(T), NEW b \in Seq(T), NEW c \in Seq(T)
  PROVE  Assoc(a, b, c)
  BY ConcatAssociative DEF Assoc

LEMMA SetIs ==
  ASSUME NEW text, Len(text) \in Nat, Len(text) + 1 <= LibBuf
  PROVE  LdlibSet(text) = [text |-> text, pos |-> Len(text), siz |-> LibBuf, cut |-> FALSE, wild |-> FALSE]
<1>1. Larger(Len(text) + 1, LibBuf) = LibBuf
  BY ExecAssumption DEF Larger
<1> QED
  BY <1>1 DEF LdlibSet

\* What strlen() counts of the text that begins the variable.
LEMMA Begun ==
  ASSUME NEW T, NEW s \in Seq(T)
  PROVE  LET text == <<"LD_LIBRARY_PATH=">> \o s IN
           Len(text) = Len(s) + 1 /\ Len(text) \in Nat /\ Tail(text) = s
<1>1. PICK U, head : U = T \cup {"LD_LIBRARY_PATH="} /\ head = <<"LD_LIBRARY_PATH=">>
  OBVIOUS
<1>2. head \in Seq(U) /\ Len(head) = 1
  BY <1>1
<1>3. T \subseteq U
  BY <1>1
<1>4. s \in Seq(U) /\ Len(s) \in Nat
  <2>1. \A i \in 1..Len(s) : s[i] \in U
    BY <1>3
  <2> QED
    BY <2>1
<1>5. PICK text : text = head \o s
  OBVIOUS
<1>6. text \in Seq(U) /\ Len(text) = Len(s) + 1
  <2>1. text \in Seq(U) /\ Len(text) = Len(head) + Len(s)
    BY <1>2, <1>4, <1>5, ConcatProperties
  <2> QED
    BY <1>2, <1>4, <2>1
<1>7. ASSUME NEW i \in 1..Len(s) PROVE text[i + 1] = s[i]
  <2>1. i + 1 \in 1..Len(head) + Len(s) /\ ~(i + 1 <= Len(head)) /\ (i + 1) - Len(head) = i
    BY <1>2, <1>4
  <2>2. \A k \in 1..Len(head) + Len(s) :
          (head \o s)[k] = IF k <= Len(head) THEN head[k] ELSE s[k - Len(head)]
    BY <1>2, <1>4, ConcatProperties
  <2> QED
    BY <1>5, <2>1, <2>2
<1>8. Tail(text) \in Seq(U) /\ Len(Tail(text)) = Len(s) /\ \A i \in 1..Len(s) : Tail(text)[i] = text[i + 1]
  <2>1. text # <<>>
    BY <1>4, <1>6
  <2> QED
    BY <1>4, <1>6, <2>1
<1>9. Tail(text) = s
  BY <1>4, <1>7, <1>8, SeqEqual
<1> QED
  BY <1>1, <1>4, <1>5, <1>6, <1>9

\* The first text of the list.
LEMMA AppendFirst ==
  ASSUME NEW T, NEW paths \in Seq(Seq(T)), ":" \in T, 1 <= Len(paths),
         Len(ListTexts(paths)[1]) + 2 <= LibBuf
  PROVE  /\ LdlibSet(<<"LD_LIBRARY_PATH=">> \o paths[1]) = LibOf(ListTexts(paths), 1)
         /\ LdlibAppend(NoLib, paths[1]) = LibOf(ListTexts(paths), 1)
<1>1. 1 \in 1..Len(paths) /\ Len(paths) \in Nat
  OBVIOUS
<1>2. ListTexts(paths)[1] = paths[1] /\ paths[1] \in Seq(T)
  BY <1>1, ListTextsAre
<1>3. PICK text : text = <<"LD_LIBRARY_PATH=">> \o paths[1]
  OBVIOUS
<1>4. Len(text) = Len(paths[1]) + 1 /\ Len(text) \in Nat /\ Len(paths[1]) \in Nat
  BY <1>2, <1>3, Begun
<1>5. Len(text) + 1 <= LibBuf
  BY <1>2, <1>4
<1>6. LdlibSet(text) = [text |-> text, pos |-> Len(text), siz |-> LibBuf, cut |-> FALSE, wild |-> FALSE]
  BY <1>4, <1>5, SetIs
<1>7. LdlibSet(text) = LibOf(ListTexts(paths), 1)
  <2>1. LibOf(ListTexts(paths), 1) = [text |-> <<"LD_LIBRARY_PATH=">> \o ListTexts(paths)[1],
          pos |-> Len(ListTexts(paths)[1]) + 1, siz |-> LibBuf, cut |-> FALSE, wild |-> FALSE]
    BY DEF LibOf
  <2>2. LibOf(ListTexts(paths), 1) = [text |-> text, pos |-> Len(text), siz |-> LibBuf, cut |-> FALSE, wild |-> FALSE]
    BY <1>2, <1>3, <1>4, <2>1
  <2> QED
    BY <1>6, <2>2
<1>8. LdlibAppend(NoLib, paths[1]) = LdlibSet(text)
  BY <1>3 DEF LdlibAppend, NoLib
<1> QED
  BY <1>3, <1>7, <1>8

\* Another one: there is room for it.
LEMMA AppendMore ==
  ASSUME NEW T, NEW paths \in Seq(Seq(T)), ":" \in T, NEW n \in 1..Len(paths) - 1,
         Len(ListTexts(paths)[n + 1]) + 2 <= LibBuf
  PROVE  LdlibAppend(LibOf(ListTexts(paths), n), paths[n + 1]) = LibOf(ListTexts(paths), n + 1)
<1>1. PICK t, s, l : t = ListTexts(paths)[n] /\ s = paths[n + 1] /\ l = LibOf(ListTexts(paths), n)
  OBVIOUS
<1>2. n + 1 \in 1..Len(paths) /\ n + 1 # 1 /\ (n + 1) - 1 = n /\ n \in 0..Len(paths) /\ n # 0 /\ n + 1 # 0
  OBVIOUS
<1>3. t \in Seq(T) /\ s \in Seq(T) /\ ListTexts(paths)[n + 1] = t \o <<":">> \o s
  <2>1. PICK list : list = ListTexts(paths)
    OBVIOUS
  <2>2. /\ list \in [0..Len(paths) -> Seq(T)]
        /\ \A i \in 1..Len(paths) :
             list[i] = IF i = 1 THEN paths[1] ELSE list[i - 1] \o <<":">> \o paths[i]
    BY <2>1, ListTextsAre
  <2>3. list[n + 1] = list[n] \o <<":">> \o paths[n + 1]
    BY <1>2, <2>2
  <2>4. list[n] \in Seq(T) /\ paths[n + 1] \in Seq(T)
    <3>1. list[n] \in Seq(T)
      BY <1>2, <2>2
    <3>2. \A i \in 1..Len(paths) : paths[i] \in Seq(T)
      OBVIOUS
    <3> QED
      BY <1>2, <3>1, <3>2
  <2> QED
    BY <1>1, <2>1, <2>3, <2>4
<1>4. PICK full, head : full = <<":">> \o s /\ head = <<"LD_LIBRARY_PATH=">> \o t
  OBVIOUS
<1>5. full \in Seq(T) /\ Len(full) = Len(s) + 1 /\ t \o <<":">> \o s = t \o full
      /\ Len(t \o full) = Len(t) + Len(full)
      /\ Len(s) \in Nat /\ Len(t) \in Nat /\ SubSeq(full, 1, Len(full)) = full
  <2>1. full \in Seq(T) /\ Len(full) = Len(s) + 1 /\ Len(s) \in Nat /\ Len(t) \in Nat
    BY <1>3, <1>4
  <2>2. t \o <<":">> \o s = t \o full
    <3>0. <<":">> \in Seq(T)
      OBVIOUS
    <3>1. PICK colon \in Seq(T) : colon = <<":">>
      BY <3>0, Zenon
    <3>2. Assoc(t, colon, s)
      BY <1>3, Associates
    <3> QED
      BY <1>4, <3>1, <3>2 DEF Assoc
  <2>3. SubSeq(full, 1, Len(full)) = full /\ Len(t \o full) = Len(t) + Len(full)
    BY <1>3, <2>1
  <2> QED
    BY <2>1, <2>2, <2>3
<1>6. l = [text |-> head, pos |-> Len(t) + 1, siz |-> LibBuf, cut |-> FALSE, wild |-> FALSE]
  BY <1>1, <1>2, <1>4 DEF LibOf
<1>7. Len(t) + Len(s) + 3 <= LibBuf /\ LibBuf \in Nat
  BY <1>3, <1>5, ExecAssumption
<1>8. /\ l.pos # 0 /\ Len(s) <= l.siz - l.pos /\ ~(l.wild \/ l.pos > l.siz)
      /\ Least(l.siz - l.pos - 1, Len(full)) = Len(full) /\ ~(Len(full) > l.siz - l.pos - 1)
  BY <1>5, <1>6, <1>7, SMTT(40) DEF Least
<1>9. LdlibAppend(l, s) =
        [text |-> head \o full, pos |-> Len(t) + 1 + Len(full), siz |-> LibBuf, cut |-> FALSE, wild |-> FALSE]
  BY <1>4, <1>5, <1>6, <1>8 DEF LdlibAppend
<1>10. head \o full = <<"LD_LIBRARY_PATH=">> \o (t \o full)
  <2> DEFINE U == T \cup {"LD_LIBRARY_PATH="}
             first == <<"LD_LIBRARY_PATH=">>
  <2>1. first \in Seq(U) /\ t \in Seq(U) /\ full \in Seq(U)
    BY <1>3, <1>5
  <2> HIDE DEF U, first
  <2>3. Assoc(first, t, full)
    BY <2>1, Associates
  <2>2. (first \o t) \o full = first \o (t \o full)
    BY <2>3, Zenon DEF Assoc
  <2> QED
    BY <1>4, <2>2 DEF first
<1>11. LibOf(ListTexts(paths), n + 1) =
         [text |-> <<"LD_LIBRARY_PATH=">> \o (t \o full), pos |-> Len(t) + Len(full) + 1, siz |-> LibBuf,
          cut |-> FALSE, wild |-> FALSE]
  BY <1>2, <1>3, <1>5 DEF LibOf
<1>12. Len(t) + 1 + Len(full) = Len(t) + Len(full) + 1
  BY <1>5
<1> QED
  BY <1>1, <1>9, <1>10, <1>11, <1>12


LEMMA FileStays ==
  ASSUME host' = host, cur' = cur, job' = job
  PROVE  /\ File(cur.path)' = File(cur.path)
         /\ \A f : (Given(f))' = Given(f) /\ (Fitting(f))' = Fitting(f)
         /\ (Callers(job.env))' = Callers(job.env)
         /\ \A f : Astray(job.env, f)' <=> Astray(job.env, f)
<1>1. File(cur.path)' = File(cur.path)
  BY DEF File
<1>2. \A f : (Given(f))' = Given(f) /\ (Fitting(f))' = Fitting(f)
  BY DEF Given, Fitting
<1> QED
  BY <1>1, <1>2, AstrayStays

\* Where all the paths fit, the first ones do.
LEMMA FitsSoFar ==
  ASSUME NEW f, Fitting(f), Given(f) \in Seq(Seq(Listing)), NEW n \in 0..Len(Given(f))
  PROVE  Len(ListTexts(Given(f))[n]) + 2 <= LibBuf
<1>1. PICK paths, list : paths = Given(f) /\ list = ListTexts(paths)
  OBVIOUS
<1>2. ":" \in Listing
  BY DEF Listing
<1>3. list \in [0..Len(paths) -> Seq(Listing)]
  BY <1>1, <1>2, ListTextsAre
<1>4. n \in 0..Len(paths) /\ Len(paths) \in 0..Len(paths)
  BY <1>1
<1>5. Len(list[n]) <= Len(list[Len(paths)])
  BY <1>1, <1>2, <1>4, ListGrows
<1>6. Len(list[Len(paths)]) + 2 <= LibBuf
  BY <1>1 DEF Fitting
<1>7. Len(list[n]) \in Nat /\ Len(list[Len(paths)]) \in Nat
  <2>1. list[n] \in Seq(Listing) /\ list[Len(paths)] \in Seq(Listing)
    BY <1>3, <1>4
  <2> QED
    BY <2>1
<1> QED
  BY <1>1, <1>5, <1>6, <1>7, ExecAssumption

\* The list when the handler begins it.
LEMMA ListBegins ==
  ASSUME LibInv, HandleElf64, pc' = "libraries"
  PROVE  Adding'
<1>0. PICK f : f = File(cur.path)
  OBVIOUS
<1>1. /\ f.kind = "elf64" /\ ~Astray(job.env, f) /\ lib' = FirstLib(job.env, f) /\ todo' = Listed(f)
      /\ host' = host /\ job' = job /\ cur' = cur /\ host \in Hosts /\ job \in Jobs
  BY <1>0 DEF HandleElf64, Is, Undefined, LibInv
<1>2. /\ Listed(f) \in Seq(Seq(Listing)) /\ Given(f) \in Seq(Seq(Listing))
      /\ Callers(job.env) \in Seq(Seq(Listing)) /\ Len(Callers(job.env)) \in {0, 1}
      /\ LibDirs(f) = <<>> => Listed(f) = <<>>
  BY <1>0, <1>1, GivenTyped
<1>3. PICK listed : listed = Listed(f)
  OBVIOUS
<1>4. 0 \in 0..Len(listed) /\ SubSeq(listed, 0 + 1, Len(listed)) = listed
  BY <1>2, <1>3
<1>5. ASSUME Fitting(f) PROVE FirstLib(job.env, f) = LibOf(ListTexts(Given(f)), Len(Callers(job.env)) + 0)
  <2>1. LibDirs(f) # <<>>
    BY <1>2, <1>5 DEF Fitting
  <2>2. CASE ~Has(job.env, "LD_LIBRARY_PATH")
    <3>1. Callers(job.env) = <<>> /\ FirstLib(job.env, f) = NoLib
      BY <2>2 DEF Callers, FirstLib
    <3>2. Len(Callers(job.env)) + 0 = 0
      BY <3>1
    <3> QED
      BY <3>1, <3>2 DEF LibOf
  <2>3. CASE Has(job.env, "LD_LIBRARY_PATH")
    <3>1. PICK own, paths : own = job.env[Find(job.env, "LD_LIBRARY_PATH")].val /\ paths = Given(f)
      OBVIOUS
    <3>2. Callers(job.env) = <<own>> /\ FirstLib(job.env, f) = LdlibSet(<<"LD_LIBRARY_PATH=">> \o own)
      BY <2>1, <2>3, <3>1 DEF Callers, FirstLib
    <3>3. PICK c : c = Callers(job.env)
      OBVIOUS
    <3>4. c \in Seq(Seq(Listing)) /\ Len(c) = 1 /\ c[1] = own /\ listed \in Seq(Seq(Listing)) /\ paths = c \o listed
      BY <1>2, <1>3, <3>1, <3>2, <3>3 DEF Given
    <3>5. Len(paths) = Len(c) + Len(listed) /\ \A i \in 1..Len(c) : paths[i] = c[i]
      <4>1. c \in Seq(Seq(Listing)) /\ listed \in Seq(Seq(Listing)) /\ paths = c \o listed
        BY <3>4
      <4> QED
        BY <4>1
    <3>6. paths \in Seq(Seq(Listing)) /\ paths[1] = own /\ 1 <= Len(paths) /\ Len(paths) \in Nat
      BY <1>2, <3>1, <3>4, <3>5, SMTT(40)
    <3>7. Len(ListTexts(paths)[1]) + 2 <= LibBuf
      BY <1>5, <3>1, <3>6, FitsSoFar
    <3>8. LdlibSet(<<"LD_LIBRARY_PATH=">> \o paths[1]) = LibOf(ListTexts(paths), 1)
      <4>1. ":" \in Listing
        BY DEF Listing
      <4> QED
        BY <3>6, <3>7, <4>1, AppendFirst
    <3> QED
      BY <3>1, <3>2, <3>3, <3>4, <3>6, <3>8
  <2> QED
    BY <2>2, <2>3
<1>6. File(cur.path)' = f
  BY <1>0, <1>1, FileStays
<1>7. Added(f, 0)'
  <2>1. todo' = SubSeq(Listed(f), 0 + 1, Len(Listed(f)))
    BY <1>1, <1>3, <1>4
  <2>2. Fitting(f)' => lib' = LibOf(ListTexts(Given(f)), Len(Callers(job.env)) + 0)
    BY <1>1, <1>5, FileStays
  <2> QED
    BY <1>1, <1>6, <2>1, <2>2, FileStays DEF Added
<1>8. ~Astray(job.env, f)' /\ f.kind = "elf64"
  BY <1>1, <1>6, AstrayStays
<1> QED
  BY <1>3, <1>4, <1>6, <1>7, <1>8 DEF Adding

LEMMA RestStep ==
  ASSUME NEW T, NEW s \in Seq(T), NEW k \in Nat, k < Len(s)
  PROVE  /\ Head(SubSeq(s, k + 1, Len(s))) = s[k + 1]
         /\ Tail(SubSeq(s, k + 1, Len(s))) = SubSeq(s, (k + 1) + 1, Len(s))
  OBVIOUS

\* The list when another path has been added to it.
LEMMA ListGoesOn ==
  ASSUME LibInv, AddLibrary
  PROVE  Adding'
<1>0. PICK f : f = File(cur.path)
  OBVIOUS
<1>1. /\ todo # <<>> /\ lib' = LdlibAppend(lib, Head(todo)) /\ todo' = Tail(todo)
      /\ host' = host /\ job' = job /\ cur' = cur /\ host \in Hosts /\ job \in Jobs
      /\ f.kind = "elf64" /\ ~Astray(job.env, f)
  BY <1>0 DEF AddLibrary, LibInv, Adding
<1>2. PICK k \in 0..Len(Listed(f)) : Added(f, k)
  BY <1>0 DEF AddLibrary, LibInv, Adding
<1>3. PICK listed, c, paths : listed = Listed(f) /\ c = Callers(job.env) /\ paths = Given(f)
  OBVIOUS
<1>4. /\ listed \in Seq(Seq(Listing)) /\ c \in Seq(Seq(Listing)) /\ paths \in Seq(Seq(Listing))
      /\ paths = c \o listed /\ Len(c) \in {0, 1}
  BY <1>0, <1>1, <1>3, GivenTyped DEF Given
<1>5. Len(listed) \in Nat /\ k \in 0..Len(listed) /\ k \in Nat
  BY <1>2, <1>3, <1>4
<1>6. todo = SubSeq(listed, k + 1, Len(listed))
  BY <1>2, <1>3 DEF Added
<1>7. k < Len(listed)
  BY <1>1, <1>4, <1>5, <1>6
<1>8. Head(todo) = listed[k + 1] /\ Tail(todo) = SubSeq(listed, (k + 1) + 1, Len(listed))
  BY <1>4, <1>5, <1>6, <1>7, RestStep
<1>9. k + 1 \in 0..Len(listed) /\ k + 1 \in 1..Len(listed)
  BY <1>5, <1>7
<1>10. /\ Len(paths) = Len(c) + Len(listed) /\ paths[Len(c) + (k + 1)] = listed[k + 1]
       /\ Len(c) \in Nat /\ Len(paths) \in Nat
  <2>1. Joined(paths, c, listed)
    BY <1>4, Joins
  <2> QED
    BY <1>5, <1>9, <2>1 DEF Joined
<1>11. ASSUME Fitting(f) PROVE lib' = LibOf(ListTexts(paths), Len(c) + (k + 1))
  <2>1. PICK n : n = Len(c) + k
    OBVIOUS
  <2>2. n \in Nat /\ n + 1 = Len(c) + (k + 1) /\ n + 1 \in 0..Len(paths) /\ n + 1 <= Len(paths)
    BY <1>5, <1>7, <1>10, <2>1
  <2>3. lib = LibOf(ListTexts(paths), n)
    BY <1>2, <1>3, <1>11, <2>1 DEF Added
  <2>4. lib' = LdlibAppend(LibOf(ListTexts(paths), n), paths[n + 1])
    BY <1>1, <1>8, <1>10, <2>2, <2>3
  <2>5. ":" \in Listing
    BY DEF Listing
  <2>6. Len(ListTexts(paths)[n + 1]) + 2 <= LibBuf
    BY <1>3, <1>4, <1>11, <2>2, FitsSoFar
  <2>7. CASE n = 0
    <3>1. n + 1 = 1 /\ LibOf(ListTexts(paths), n) = NoLib
      BY <2>7 DEF LibOf
    <3>2. 1 <= Len(paths) /\ Len(ListTexts(paths)[1]) + 2 <= LibBuf
      BY <2>2, <2>6, <3>1
    <3>3. LdlibAppend(NoLib, paths[1]) = LibOf(ListTexts(paths), 1)
      BY <1>4, <2>5, <3>2, AppendFirst
    <3> QED
      BY <2>2, <2>4, <3>1, <3>3
  <2>8. CASE n # 0
    <3>1. n \in 1..Len(paths) - 1
      BY <1>10, <2>2, <2>8
    <3>2. LdlibAppend(LibOf(ListTexts(paths), n), paths[n + 1]) = LibOf(ListTexts(paths), n + 1)
      BY <1>4, <2>5, <2>6, <3>1, AppendMore
    <3> QED
      BY <2>2, <2>4, <3>2
  <2> QED
    BY <2>7, <2>8
<1>12. File(cur.path)' = f
  BY <1>0, <1>1, FileStays
<1>13. Added(f, k + 1)'
  <2>1. todo' = SubSeq(Listed(f), (k + 1) + 1, Len(Listed(f)))
    BY <1>1, <1>3, <1>8
  <2>2. Fitting(f)' => lib' = LibOf(ListTexts(Given(f)), Len(Callers(job.env)) + (k + 1))
    BY <1>1, <1>3, <1>11, FileStays
  <2> QED
    BY <1>1, <2>1, <2>2, FileStays DEF Added
<1>14. ~Astray(job.env, f)'
  BY <1>1, AstrayStays
<1> QED
  BY <1>1, <1>3, <1>9, <1>12, <1>13, <1>14 DEF Adding

\* What the linker is started with.
LEMMA ListArrives ==
  ASSUME LibInv, StartLinker, image'.kind = "linker", Fitting(File(cur.path))
  PROVE  LET text == ListTexts(Given(File(cur.path)))[Len(Given(File(cur.path)))] IN
           /\ Has(image'.env, "LD_LIBRARY_PATH")
           /\ image'.env[Find(image'.env, "LD_LIBRARY_PATH")].val = text
<1>0. PICK f : f = File(cur.path)
  OBVIOUS
<1>1. /\ todo = <<>> /\ host \in Hosts /\ job \in Jobs
      /\ f.kind = "elf64" /\ ~Astray(job.env, f) /\ pc = "libraries" /\ image.kind # "linker"
  BY <1>0 DEF StartLinker, LibInv, Adding
<1>2. image'.env = NewEnv(job.env)
  BY <1>1 DEF StartLinker, Undefined, Fails, Starts, start
<1>3. PICK k \in 0..Len(Listed(f)) : Added(f, k)
  BY <1>0, <1>1 DEF LibInv, Adding
<1>4. PICK listed, c, paths : listed = Listed(f) /\ c = Callers(job.env) /\ paths = Given(f)
  OBVIOUS
<1>5. /\ listed \in Seq(Seq(Listing)) /\ c \in Seq(Seq(Listing)) /\ paths \in Seq(Seq(Listing))
      /\ paths = c \o listed /\ Len(c) \in {0, 1} /\ (LibDirs(f) = <<>> => listed = <<>>)
  BY <1>0, <1>1, <1>4, GivenTyped DEF Given
<1>6. listed # <<>> /\ LibDirs(f) # <<>>
  BY <1>0, <1>4, <1>5 DEF Fitting
<1>7. todo = SubSeq(listed, k + 1, Len(listed)) /\ Len(listed) \in Nat /\ k \in 0..Len(listed)
  BY <1>3, <1>4, <1>5 DEF Added
<1>8. k = Len(listed)
  <2> SUFFICES ASSUME k < Len(listed) PROVE FALSE
    BY <1>7
  <2>1. Len(SubSeq(listed, k + 1, Len(listed))) = Len(listed) - k
    BY <1>5, <1>7
  <2>2. Len(todo) = Len(listed) - k
    BY <1>7, <2>1
  <2>3. Len(todo) = 0
    BY <1>1, NoneInEmpty
  <2> QED
    BY <1>7, <2>2, <2>3
<1>9. PICK n : n = Len(paths)
  OBVIOUS
<1>10. n = Len(c) + k /\ n \in Nat /\ n \in 1..n /\ n # 0
  <2>1. Len(paths) = Len(c) + Len(listed)
    BY <1>5
  <2>2. Len(listed) # 0
    BY <1>5, <1>6
  <2> QED
    BY <1>5, <1>7, <1>8, <1>9, <2>1, <2>2
<1>11. lib = LibOf(ListTexts(paths), n)
  BY <1>0, <1>3, <1>4, <1>10 DEF Added
<1>12. PICK t : t = ListTexts(paths)[n]
  OBVIOUS
<1>13. t \in Seq(Listing)
  <2>1. PICK list : list = ListTexts(paths)
    OBVIOUS
  <2>2. ":" \in Listing
    BY DEF Listing
  <2>3. list \in [0..Len(paths) -> Seq(Listing)]
    BY <1>5, <2>1, <2>2, ListTextsAre
  <2> QED
    BY <1>9, <1>10, <1>12, <2>1, <2>3
<1>14. lib.text = <<"LD_LIBRARY_PATH=">> \o t /\ lib.pos = Len(t) + 1
  BY <1>10, <1>11, <1>12 DEF LibOf
<1>15. lib # NoLib /\ Tail(lib.text) = t
  <2>1. Len(t) + 1 # 0
    BY <1>13
  <2> QED
    BY <1>13, <1>14, <2>1, Begun DEF NoLib
<1>16. Has(Preserve(job.env), "LD_LIBRARY_PATH") => Has(job.env, "LD_LIBRARY_PATH")
  BY <1>1, <1>6 DEF Astray
<1>17. job.env \in Environs
  BY <1>1, EnvironsAre
<1>18. PICK env : env = job.env
  OBVIOUS
<1>19. /\ Has(NewEnv(env), "LD_LIBRARY_PATH")
       /\ NewEnv(env)[Find(NewEnv(env), "LD_LIBRARY_PATH")].val = t
  BY <1>1, <1>15, <1>16, <1>17, <1>18, ListPut
<1> QED
  BY <1>0, <1>2, <1>4, <1>9, <1>12, <1>18, <1>19

\* Which steps start a program, and which show one.
LEMMA ImageStep ==
  ASSUME ExecNext
  PROVE  \/ image' = image
         \/ pc' = "started" /\ image'.kind \in {"proot", "bionic"}
         \/ pc' = "started" /\ image'.kind = "linker" /\ StartLinker /\ cur' = cur
<1>1. ASSUME NEW e, Fails(e) PROVE image' = image
  BY <1>1 DEF Fails, start
<1>2. Undefined => image' = image
  BY DEF Undefined, start
<1>3. ASSUME NEW k, NEW a, NEW env, Starts(k, a, env) PROVE pc' = "started" /\ image'.kind = k /\ cur' = cur
  BY <1>3 DEF Starts
<1>4. ASSUME NEW e, Gives(e) PROVE image' = image
  BY <1>4 DEF Gives, start
<1>5. ASSUME NEW rest, Try(rest) PROVE image' = image
  BY <1>5 DEF Try, start
<1>6. CASE OpenFails
  BY <1>1, <1>6 DEF OpenFails
<1>7. CASE NotExec
  BY <1>1, <1>7 DEF NotExec
<1>8. CASE HandleShebang
  BY <1>2, <1>8 DEF HandleShebang, start
<1>9. CASE ParseFails
  BY <1>1, <1>2, <1>9 DEF ParseFails
<1>10. CASE HandleProot
  BY <1>1, <1>2, <1>3, <1>10 DEF HandleProot
<1>11. CASE HandleElf64
  BY <1>2, <1>11 DEF HandleElf64
<1>12. CASE AddLibrary
  BY <1>12 DEF AddLibrary
<1>13. CASE StartLinker
  BY <1>1, <1>2, <1>3, <1>13 DEF StartLinker
<1>14. CASE HxShellExecute
  BY <1>14 DEF HxShellExecute, start
<1>15. CASE AfterFile
  BY <1>4, <1>5, <1>15 DEF AfterFile, TryPath
<1>16. CASE AfterCandidate
  BY <1>4, <1>5, <1>16 DEF AfterCandidate
<1> QED
  BY <1>6, <1>7, <1>8, <1>9, <1>10, <1>11, <1>12, <1>13, <1>14, <1>15, <1>16 DEF ExecNext

\* The steps after which a process is adding to the list.
LEMMA ListStep ==
  ASSUME ExecNext, pc' = "libraries"
  PROVE  HandleElf64 \/ AddLibrary
<1>1. \A e : ~Fails(e)
  BY DEF Fails
<1>2. ~Undefined
  BY DEF Undefined
<1>3. \A k, a, env : ~Starts(k, a, env)
  BY DEF Starts
<1>4. \A e : ~Gives(e)
  BY DEF Gives
<1>5. \A rest : ~Try(rest)
  BY DEF Try, Calls
<1>6. ~OpenFails /\ ~NotExec /\ ~ParseFails /\ ~HandleProot
  BY <1>1, <1>2, <1>3 DEF OpenFails, NotExec, ParseFails, HandleProot
<1>7. ~HandleShebang /\ ~HxShellExecute
  BY <1>2 DEF HandleShebang, HxShellExecute, Calls
<1>8. ~StartLinker
  BY <1>1, <1>2, <1>3 DEF StartLinker
<1>9. ~AfterFile /\ ~AfterCandidate
  BY <1>4, <1>5 DEF AfterFile, AfterCandidate, TryPath
<1> QED
  BY <1>6, <1>7, <1>8, <1>9 DEF ExecNext

LEMMA ListAtFirst == Init => LibInv
  BY DEF Init, ExecInit, LibInv, LibrariesListed

LEMMA ListKept == LibInv /\ [Next]_vars => LibInv'
<1> SUFFICES ASSUME LibInv, [Next]_vars PROVE LibInv'
  OBVIOUS
<1>1. host \in Hosts /\ job \in Jobs /\ host' = host /\ job' = job
      /\ (image.kind = "linker" => pc \in {"started", "running", "undefined"})
  BY CallStays DEF LibInv
<1>2. ASSUME image' = image, cur' = cur PROVE LibrariesListed'
  <2>1. File(cur.path)' = File(cur.path)
    BY <1>1, <1>2, FileStays
  <2>2. Callers(job.env)' = Callers(job.env)
    BY <1>1
  <2> QED
    BY <1>2, <2>1, <2>2 DEF LibrariesListed, LibInv
\* A step before the program is started, and one after it.
<1>3. ASSUME image' = image, image.kind # "linker", pc' # "libraries" PROVE LibInv'
  BY <1>1, <1>3 DEF LibInv, LibrariesListed
<1>4. ASSUME image' = image, cur' = cur, pc' \in {"running", "undefined"} PROVE LibInv'
  BY <1>1, <1>2, <1>4 DEF LibInv
<1>5. CASE ExecNext
  <2>1. image.kind # "linker"
    BY <1>1, <1>5, LibraryStep DEF UnderWay
  <2>2. CASE pc' = "libraries"
    <3>1. HandleElf64 \/ AddLibrary
      BY <1>5, <2>2, ListStep
    <3>2. Adding'
      BY <2>2, <3>1, ListBegins, ListGoesOn
    <3>3. image' = image
      BY <3>1, <2>2 DEF HandleElf64, AddLibrary, Undefined, start
    <3> QED
      BY <1>1, <2>1, <3>2, <3>3 DEF LibInv, LibrariesListed
  <2>3. CASE image' = image /\ pc' # "libraries"
    BY <1>3, <2>1, <2>3
  <2>4. CASE pc' = "started" /\ image'.kind \in {"proot", "bionic"}
    BY <1>1, <2>4 DEF LibInv, LibrariesListed
  <2>5. CASE pc' = "started" /\ image'.kind = "linker" /\ StartLinker /\ cur' = cur
    <3>1. File(cur.path)' = File(cur.path) /\ Callers(job.env)' = Callers(job.env)
      BY <1>1, <2>5, FileStays
    <3>2. LibrariesListed'
      <4>1. PICK f, paths : f = File(cur.path) /\ paths = Given(f)
        OBVIOUS
      <4>2. paths = Callers(job.env) \o Listed(f)
        BY <4>1 DEF Given
      <4>3. ASSUME Listed(f) # <<>>, Len(ListTexts(paths)[Len(paths)]) + 2 <= LibBuf
            PROVE  /\ Has(image'.env, "LD_LIBRARY_PATH")
                   /\ image'.env[Find(image'.env, "LD_LIBRARY_PATH")].val = ListTexts(paths)[Len(paths)]
        <5>1. Fitting(File(cur.path))
          BY <4>1, <4>3 DEF Fitting
        <5> QED
          BY <2>5, <4>1, <5>1, ListArrives
      <4> QED
        BY <3>1, <4>1, <4>2, <4>3 DEF LibrariesListed
    <3> QED
      BY <1>1, <2>5, <3>2 DEF LibInv
  <2> QED
    BY <1>5, <2>2, <2>3, <2>4, <2>5, ImageStep
<1>6. CASE ProgramNext
  <2>1. cur' = cur /\ image' = image /\ pc' \in {"running", "undefined"}
    BY <1>6, ProgramSteps DEF ProgramNext, RunsAlone, RunsFixed, Shows, Undefined, start
  <2> QED
    BY <1>4, <2>1
<1>7. CASE Spawn \/ FileAction \/ ChildExecs \/ Exec \/ ChildExits
  <2>1. pc \in {"idle", "files", "failed"} /\ image' = image /\ pc' # "libraries"
    <3>1. Begin => image' = image /\ pc' \in {"execve", "failed"}
      BY BeginStep DEF Begin, BeginExecve, BeginExecvpe, Gives, TryPath, Try, start
    <3>2. Undefined => image' = image /\ pc' = "undefined"
      BY DEF Undefined, start
    <3>3. CASE Spawn \/ ChildExits
      BY <3>3 DEF Spawn, ChildExits, Exits, start
    <3>4. CASE FileAction
      BY <3>2, <3>4 DEF FileAction, Exits, start, execVars
    <3>5. CASE ChildExecs \/ Exec
      BY <3>1, <3>5 DEF ChildExecs, Exec
    <3> QED
      BY <1>7, <3>3, <3>4, <3>5
  <2> QED
    BY <1>1, <1>3, <2>1
<1>8. CASE ParentCloses \/ UNCHANGED vars
  <2>1. image' = image /\ cur' = cur /\ pc' = pc /\ lib' = lib /\ todo' = todo
    BY <1>8 DEF ParentCloses, vars, execVars, start
  <2>2. ASSUME Adding PROVE Adding'
    <3>1. PICK f : f = File(cur.path)
      OBVIOUS
    <3>2. f.kind = "elf64" /\ ~Astray(job.env, f) /\ \E k \in 0..Len(Listed(f)) : Added(f, k)
      BY <2>2, <3>1 DEF Adding
    <3>3. File(cur.path)' = f /\ ~Astray(job.env, f)'
      BY <1>1, <2>1, <3>1, <3>2, FileStays
    <3>4. ASSUME NEW k, Added(f, k) PROVE Added(f, k)'
      BY <1>1, <2>1, <3>4, FileStays DEF Added
    <3> QED
      BY <3>2, <3>3, <3>4 DEF Adding
  <2> QED
    BY <1>1, <1>2, <2>1, <2>2 DEF LibInv
<1> QED
  BY <1>5, <1>6, <1>7, <1>8 DEF Next, Process, ExecStep, ProgramStep

\* HxLdlib (exec.c, ldlib.c): a program that the host's linker starts is told
\* in LD_LIBRARY_PATH every directory of its rpath that only the guest's path
\* names, behind the caller's own, as long as the text fits the first buffer.
THEOREM LibrariesArrive == Spec => []LibrariesListed
<1>1. LibInv => LibrariesListed
  BY DEF LibInv
<1> QED
  BY <1>1, ListAtFirst, ListKept, PTL DEF Spec


-----------------------------------------------------------------------------
(* The command line in memory.                                             *)

\* What a text of the command line is made of, and what memory is.
Chars == Letters \cup {"/", "bin", "sh", "--argv0"}
Cells == Chars \cup {NUL}
Memory == Seq(Cells)
Argvs == Seq(Seq(Chars))

LEMMA CharsAre == NUL \notin Chars /\ Chars \subseteq Cells /\ Letters \subseteq Chars /\ NUL \in Cells
  BY DEF Chars, Cells, Letters, NUL

LEMMA CharsInCells == ASSUME NEW t \in Seq(Chars) PROVE t \in Memory /\ Append(t, NUL) \in Memory
<1>1. \A i \in 1..Len(t) : t[i] \in Cells
  BY CharsAre
<1>2. t \in Seq(Cells)
  BY <1>1
<1> QED
  BY <1>2, CharsAre DEF Memory

LEMMA LinesAre ==
  ASSUME NEW argv \in Argvs
  PROVE  LET line == Lines(argv) IN
           /\ line \in [0..Len(argv) -> Memory] /\ line[0] = <<>>
           /\ \A n \in 1..Len(argv) : line[n] = line[n - 1] \o Append(argv[n], NUL)
<1> DEFINE N == Len(argv)
           X == Seq(Cells)
           G == [y \in (1..N) \X X |-> y[2] \o Append(argv[y[1]], NUL)]
           H(g, n) == IF n = 0 THEN <<>> ELSE g[n - 1] \o Append(argv[n], NUL)
           line == CHOOSE g : g = [n \in 0..N |-> H(g, n)]
<1>1. N \in Nat /\ <<>> \in X /\ \A n \in 1..N : Append(argv[n], NUL) \in X
  <2>1. argv \in Seq(Seq(Chars))
    BY DEF Argvs
  <2>2. N \in Nat /\ \A n \in 1..N : argv[n] \in Seq(Chars)
    BY <2>1
  <2> QED
    BY <2>2, CharsInCells DEF Memory
<1>2. G \in [(1..N) \X X -> X]
  BY <1>1
<1>3. \A n \in 1..N, x \in X : G[<<n, x>>] = x \o Append(argv[n], NUL)
  OBVIOUS
<1> HIDE DEF N, G, X
<1>a. PICK F : Goes(F, X, <<>>, N, G)
  BY <1>1, <1>2, RecursionIs
<1>4. F \in [0..N -> X] /\ F[0] = <<>> /\ \A n \in 1..N : F[n] = G[<<n, F[n - 1]>>]
  BY <1>a DEF Goes
<1>5. \A n \in 1..N : F[n - 1] \in X /\ n # 0
  BY <1>1, <1>4
<1>6. \A n \in 0..N : F[n] = H(F, n)
  <2> SUFFICES ASSUME NEW n \in 0..N, n # 0 PROVE F[n] = H(F, n)
    BY <1>4
  <2>1. n \in 1..N
    BY <1>1
  <2> QED
    BY <1>3, <1>4, <1>5, <2>1
<1>7. line = [n \in 0..N |-> H(line, n)]
  <2>1. F = [n \in 0..N |-> H(F, n)]
    <3>1. F = [n \in 0..N |-> F[n]]
      BY <1>4
    <3> HIDE DEF H
    <3> QED
      BY <1>6, <3>1
  <2> HIDE DEF H
  <2> QED
    BY <2>1
<1>8. Lines(argv) = line
  BY DEF Lines, N
<1> HIDE DEF line
<1>9. \A n \in 0..N : line[n] = H(line, n)
  <2> HIDE DEF H
  <2> QED
    BY <1>7
<1>10. line = F
  <2>1. line = [n \in 0..N |-> line[n]]
    <3> HIDE DEF H
    <3> QED
      BY <1>7, <1>9
  <2>2. line[0] = F[0]
    BY <1>1, <1>4, <1>9
  <2>3. ASSUME NEW n \in 1..N, line[n - 1] = F[n - 1] PROVE line[n] = F[n]
    <3>1. n \in 0..N /\ n # 0
      BY <1>1
    <3> QED
      BY <1>6, <1>9, <2>3, <3>1
  <2>4. F = [n \in 0..N |-> F[n]]
    BY <1>4
  <2> HIDE DEF H
  <2>5. Follows(line, F, N)
    BY <2>1, <2>2, <2>3, <2>4 DEF Follows
  <2> QED
    BY <1>1, <2>5, RecursionOnly
<1>11. \A n \in 1..N : F[n] = F[n - 1] \o Append(argv[n], NUL)
  BY <1>3, <1>4, <1>5
<1> HIDE DEF H
<1> QED
  BY <1>4, <1>8, <1>10, <1>11 DEF X, N, Memory

\* A text in memory, with the NUL behind it.
Holds(mem, p, t) ==
  /\ t \in Seq(Chars) /\ p \in Nat /\ p >= 1 /\ p + Len(t) <= Len(mem)
  /\ mem[p + Len(t)] = NUL /\ \A j \in p..p + Len(t) - 1 : mem[j] = t[j - p + 1]

LEMMA StrOf ==
  ASSUME NEW mem \in Memory, NEW p, NEW t, Holds(mem, p, t)
  PROVE  Str(mem, p) = t
<1>1. /\ t \in Seq(Chars) /\ p \in Nat /\ p >= 1 /\ p + Len(t) <= Len(mem) /\ Len(t) \in Nat
      /\ mem[p + Len(t)] = NUL /\ \A j \in p..p + Len(t) - 1 : mem[j] = t[j - p + 1]
  BY DEF Holds
<1>2. mem \in Seq(Cells) /\ Len(mem) \in Nat
  BY DEF Memory
<1>3. PICK e : e = p + Len(t)
  OBVIOUS
<1>4. e \in p..Len(mem) /\ mem[e] = NUL /\ e \in Nat
  BY <1>1, <1>2, <1>3
<1>5. \A r \in p..e - 1 : mem[r] # NUL
  <2> SUFFICES ASSUME NEW r \in p..e - 1 PROVE mem[r] # NUL
    OBVIOUS
  <2>1. r - p + 1 \in 1..Len(t) /\ mem[r] = t[r - p + 1]
    BY <1>1, <1>3
  <2>2. t[r - p + 1] \in Chars
    BY <1>1, <2>1
  <2> QED
    BY <2>1, <2>2, CharsAre
<1>6. \A q \in p..Len(mem) : (mem[q] = NUL /\ \A r \in p..q - 1 : mem[r] # NUL) => q = e
  <2> SUFFICES ASSUME NEW q \in p..Len(mem), mem[q] = NUL, \A r \in p..q - 1 : mem[r] # NUL PROVE q = e
    OBVIOUS
  <2>1. ~(q < e)
    BY <1>1, <1>2, <1>4, <1>5
  <2>2. ~(e < q)
    BY <1>1, <1>2, <1>4
  <2> QED
    BY <1>1, <1>2, <1>4, <2>1, <2>2
<1>7. EndOf(mem, p) = e
  BY <1>4, <1>5, <1>6 DEF EndOf
<1>8. Str(mem, p) = SubSeq(mem, p, e - 1)
  BY <1>7 DEF Str
<1>9. SubSeq(mem, p, e - 1) = t
  <2>1. PICK z : z = SubSeq(mem, p, e - 1)
    OBVIOUS
  <2>2. z \in Seq(Cells) /\ Len(z) = Len(t)
    BY <1>1, <1>2, <1>3, <1>4, <2>1
  <2>3. ASSUME NEW i \in 1..Len(t) PROVE z[i] = t[i]
    <3>1. z[i] = mem[p + i - 1]
      BY <1>1, <1>2, <1>3, <1>4, <2>1
    <3>2. p + i - 1 \in p..p + Len(t) - 1 /\ (p + i - 1) - p + 1 = i
      BY <1>1
    <3> QED
      BY <1>1, <3>1, <3>2
  <2>4. t \in Seq(Cells)
    BY <1>1, CharsInCells DEF Memory
  <2> QED
    BY <2>1, <2>2, <2>3, <2>4, SeqEqual
<1> QED
  BY <1>8, <1>9

\* From everywhere before a NUL a text can be read.
LEMMA StrThere ==
  ASSUME NEW mem \in Memory, NEW p \in 1..Len(mem), mem[Len(mem)] = NUL
  PROVE  \E t : Holds(mem, p, t)
<1>1. mem \in Seq(Cells) /\ Len(mem) \in Nat
  BY DEF Memory
<1> DEFINE S == {q \in p..Len(mem) : mem[q] = NUL}
<1>2. S \subseteq Nat /\ S # {}
  BY <1>1
<1>3. PICK e \in S : \A k \in S : e <= k
  <2> HIDE DEF S
  <2> QED
    BY <1>2, LeastElement
<1>4. e \in p..Len(mem) /\ mem[e] = NUL
  OBVIOUS
<1>5. \A j \in p..e - 1 : mem[j] \in Chars
  <2> SUFFICES ASSUME NEW j \in p..e - 1 PROVE mem[j] \in Chars
    OBVIOUS
  <2>1. j \in p..Len(mem) /\ j < e
    BY <1>1, <1>4
  <2>2. mem[j] # NUL
    BY <1>1, <1>3, <2>1
  <2>3. mem[j] \in Cells
    BY <1>1, <2>1
  <2> QED
    BY <2>2, <2>3 DEF Cells
<1> HIDE DEF S
<1>6. PICK t : t = [i \in 1..e - p |-> mem[p + i - 1]]
  OBVIOUS
<1>7. e - p \in Nat /\ \A i \in 1..e - p : p + i - 1 \in p..e - 1
  BY <1>1, <1>4
<1>8. t \in Seq(Chars) /\ Len(t) = e - p
  <2>1. \A i \in 1..e - p : t[i] \in Chars
    BY <1>5, <1>6, <1>7
  <2>2. t \in [1..e - p -> Chars]
    BY <1>6, <2>1
  <2> QED
    BY <1>7, <2>2
<1>9. ASSUME NEW j \in p..p + Len(t) - 1 PROVE mem[j] = t[j - p + 1]
  <2>1. j - p + 1 \in 1..e - p /\ p + (j - p + 1) - 1 = j
    BY <1>1, <1>4, <1>8
  <2> QED
    BY <1>6, <2>1
<1>10. p + Len(t) = e
  BY <1>1, <1>4, <1>8
<1>11. Holds(mem, p, t)
  BY <1>1, <1>4, <1>8, <1>9, <1>10 DEF Holds
<1> QED
  BY <1>11


\* s begins with t.
BeginsWith(s, t) ==
  /\ Len(s) \in Nat /\ Len(t) \in Nat /\ Len(t) <= Len(s)
  /\ \A j \in 1..Len(t) : s[j] = t[j]

LEMMA BeginsTwice ==
  ASSUME NEW s, NEW t, NEW u, BeginsWith(s, t), BeginsWith(t, u)
  PROVE  BeginsWith(s, u)
<1>1. \A j \in 1..Len(u) : j \in 1..Len(t)
  BY DEF BeginsWith
<1> QED
  BY <1>1 DEF BeginsWith

LEMMA ArgvTyped ==
  ASSUME NEW argv \in Argvs
  PROVE  Len(argv) \in Nat /\ \A n \in 1..Len(argv) : argv[n] \in Seq(Chars) /\ Len(argv[n]) \in Nat
<1>1. argv \in Seq(Seq(Chars))
  BY DEF Argvs
<1> QED
  BY <1>1

LEMMA LineStep ==
  ASSUME NEW argv \in Argvs, NEW n \in 1..Len(argv), NEW line, line = Lines(argv)
  PROVE  /\ line[n] \in Memory /\ line[n - 1] \in Memory
         /\ Joined(line[n], line[n - 1], Append(argv[n], NUL))
         /\ Len(line[n]) = Len(line[n - 1]) + Len(argv[n]) + 1
         /\ BeginsWith(line[n], line[n - 1])
<1>1. line \in [0..Len(argv) -> Memory] /\ line[n] = line[n - 1] \o Append(argv[n], NUL)
  BY LinesAre
<1>2. argv[n] \in Seq(Chars) /\ Len(argv) \in Nat /\ n - 1 \in 0..Len(argv) /\ n \in 0..Len(argv)
  BY ArgvTyped
<1>3. PICK a : a = Append(argv[n], NUL)
  OBVIOUS
<1>4. a \in Seq(Cells) /\ line[n - 1] \in Seq(Cells) /\ line[n] \in Seq(Cells)
  BY <1>1, <1>2, <1>3, CharsInCells DEF Memory
<1>5. Joined(line[n], line[n - 1], a)
  BY <1>1, <1>3, <1>4, Joins
<1>6. Len(a) = Len(argv[n]) + 1
  BY <1>2, <1>3
<1>7. Len(argv[n]) \in Nat
  BY <1>2
<1>8. Len(line[n]) = Len(line[n - 1]) + Len(argv[n]) + 1
  <2>1. Len(line[n]) = Len(line[n - 1]) + Len(a) /\ Len(line[n - 1]) \in Nat
    BY <1>5, Zenon DEF Joined
  <2>2. PICK x, y, z : x = Len(line[n]) /\ y = Len(line[n - 1]) /\ z = Len(argv[n])
    OBVIOUS
  <2>3. x = y + Len(a) /\ y \in Nat /\ Len(a) = z + 1 /\ z \in Nat
    BY <1>6, <1>7, <2>1, <2>2
  <2>4. x = y + z + 1
    BY <2>3
  <2> QED
    BY <2>2, <2>4
<1>9. BeginsWith(line[n], line[n - 1])
  BY <1>5 DEF Joined, BeginsWith
<1> QED
  BY <1>3, <1>4, <1>5, <1>8, <1>9 DEF Memory

LEMMA LinesGrow ==
  ASSUME NEW argv \in Argvs, NEW line, line = Lines(argv), NEW n \in 0..Len(argv)
  PROVE  \A m \in n..Len(argv) : BeginsWith(line[m], line[n])
<1> DEFINE S == {k \in Nat : n + k <= Len(argv) => BeginsWith(line[n + k], line[n])}
<1>0. Len(argv) \in Nat /\ line \in [0..Len(argv) -> Memory]
  BY ArgvTyped, LinesAre
<1>1. 0 \in S
  <2>1. line[n] \in Seq(Cells)
    BY <1>0 DEF Memory
  <2>2. BeginsWith(line[n], line[n])
    BY <2>1 DEF BeginsWith
  <2> QED
    BY <1>0, <2>2
<1>2. ASSUME NEW k \in Nat, k \in S PROVE k + 1 \in S
  <2> SUFFICES ASSUME n + (k + 1) <= Len(argv) PROVE BeginsWith(line[n + (k + 1)], line[n])
    OBVIOUS
  <2>1. n + (k + 1) \in 1..Len(argv) /\ (n + (k + 1)) - 1 = n + k /\ n + k <= Len(argv)
    BY <1>0
  <2>2. BeginsWith(line[n + (k + 1)], line[n + k])
    BY <2>1, LineStep
  <2>3. BeginsWith(line[n + k], line[n])
    BY <1>2, <2>1
  <2> QED
    BY <2>2, <2>3, BeginsTwice
<1>3. \A k \in Nat : k \in S
  <2> HIDE DEF S
  <2> QED
    BY <1>1, <1>2, Induct
<1>4. ASSUME NEW m \in n..Len(argv) PROVE BeginsWith(line[m], line[n])
  <2>1. m - n \in Nat /\ n + (m - n) = m /\ m <= Len(argv)
    BY <1>0
  <2> QED
    BY <1>3, <2>1
<1> QED
  BY <1>4

\* A text of a memory that another begins with.
LEMMA HoldsOn ==
  ASSUME NEW mem, NEW s, NEW p, NEW t, BeginsWith(mem, s), Holds(s, p, t)
  PROVE  Holds(mem, p, t)
<1>1. Len(t) \in Nat
  BY DEF Holds
<1>2. p + Len(t) \in 1..Len(s) /\ \A j \in p..p + Len(t) - 1 : j \in 1..Len(s)
  BY <1>1 DEF Holds, BeginsWith
<1> QED
  BY <1>1, <1>2 DEF Holds, BeginsWith

\* Every argument is where the kernel put it.
LEMMA LineHolds ==
  ASSUME NEW argv \in Argvs, NEW i \in 1..Len(argv)
  PROVE  Holds(Line(argv), Offset(argv, i), argv[i])
<1>1. PICK line : line = Lines(argv)
  OBVIOUS
<1>2. PICK a : a = Append(argv[i], NUL)
  OBVIOUS
<1>3. argv[i] \in Seq(Chars) /\ Len(argv[i]) \in Nat /\ Len(argv) \in Nat
  BY ArgvTyped
<1>4. Joined(line[i], line[i - 1], a)
  BY <1>1, <1>2, LineStep
<1>a. PICK n, x, u : n = Len(argv[i]) /\ x = line[i - 1] /\ u = line[i]
  OBVIOUS
<1>b. /\ Len(u) = Len(x) + Len(a) /\ Len(x) \in Nat
      /\ \A j \in 1..Len(a) : u[Len(x) + j] = a[j]
  BY <1>4, <1>a, Zenon DEF Joined
<1>5. /\ Len(a) = n + 1 /\ a[n + 1] = NUL /\ \A j \in 1..n : a[j] = argv[i][j]
      /\ n \in Nat
  BY <1>2, <1>3, <1>a
<1>6. PICK p : p = 1 + Len(x)
  OBVIOUS
<1>7. p \in Nat /\ p >= 1 /\ p + n <= Len(u) /\ p + n = Len(x) + (n + 1)
  BY <1>b, <1>5, <1>6
<1>8. u[p + n] = NUL
  BY <1>b, <1>5, <1>7
<1>9. ASSUME NEW j \in p..p + n - 1 PROVE u[j] = argv[i][j - p + 1]
  <2>1. j - p + 1 \in 1..n /\ j - p + 1 \in 1..Len(a) /\ Len(x) + (j - p + 1) = j
    BY <1>b, <1>5, <1>6, <1>7
  <2>2. u[Len(x) + (j - p + 1)] = a[j - p + 1]
    BY <1>b, <2>1
  <2> QED
    BY <1>5, <2>1, <2>2
<1>10. Holds(line[i], p, argv[i])
  BY <1>3, <1>a, <1>7, <1>8, <1>9 DEF Holds
<1>11. BeginsWith(line[Len(argv)], line[i])
  <2>1. i \in 0..Len(argv) /\ Len(argv) \in i..Len(argv)
    BY <1>3
  <2> QED
    BY <1>1, <2>1, LinesGrow
<1>12. Line(argv) = line[Len(argv)] /\ Offset(argv, i) = p
  BY <1>1, <1>a, <1>6 DEF Line, Offset
<1> QED
  BY <1>10, <1>11, <1>12, HoldsOn

\* s is found in mem behind m cells.
Behind(mem, m, s) ==
  /\ m \in Nat /\ Len(s) \in Nat /\ Len(mem) \in Nat /\ m + Len(s) <= Len(mem)
  /\ \A j \in 1..Len(s) : mem[m + j] = s[j]

\* The lines of some arguments behind others.
Continues(line, m, rest, n) == \A k \in 0..n : line[m + k] = line[m] \o rest[k]

LEMMA LinesShift ==
  ASSUME NEW A \in Argvs, NEW R \in Argvs, NEW m \in Nat, Len(A) = m + Len(R), Behind(A, m, R)
  PROVE  Continues(Lines(A), m, Lines(R), Len(R))
<1> DEFINE line == Lines(A)
           rest == Lines(R)
<1> HIDE DEF line, rest
<1> DEFINE S == {k \in Nat : k <= Len(R) => line[m + k] = line[m] \o rest[k]}
<1>0. /\ Len(A) \in Nat /\ Len(R) \in Nat /\ m \in 0..Len(A)
      /\ line \in [0..Len(A) -> Memory] /\ rest \in [0..Len(R) -> Memory] /\ rest[0] = <<>>
  <2>1. Len(A) \in Nat /\ Len(R) \in Nat
    BY ArgvTyped
  <2>2. line \in [0..Len(A) -> Memory] /\ rest \in [0..Len(R) -> Memory] /\ rest[0] = <<>>
    BY LinesAre DEF line, rest
  <2> QED
    BY <2>1, <2>2
<1>a. line[m] \in Seq(Cells)
  BY <1>0 DEF Memory
<1>1. 0 \in S
  BY <1>0, <1>a
<1>2. ASSUME NEW k \in Nat, k \in S PROVE k + 1 \in S
  <2> HIDE DEF S
  <2>0. k + 1 \in Nat
    OBVIOUS
  <2> SUFFICES ASSUME k + 1 <= Len(R) PROVE line[m + (k + 1)] = line[m] \o rest[k + 1]
    BY <2>0, Zenon DEF S
  <2>1. /\ m + (k + 1) \in 1..Len(A) /\ (m + (k + 1)) - 1 = m + k
        /\ k + 1 \in 1..Len(R) /\ (k + 1) - 1 = k /\ k \in 0..Len(R) /\ k <= Len(R)
    BY <1>0
  <2>2. PICK a : a = Append(R[k + 1], NUL)
    OBVIOUS
  <2>3. rest[k + 1] = rest[k] \o a
    BY <2>1, <2>2, LinesAre DEF rest
  <2>a. A[m + (k + 1)] = R[k + 1]
    BY <2>1 DEF Behind
  <2>4. line[m + (k + 1)] = line[m + k] \o a
    BY <2>1, <2>2, <2>a, LinesAre DEF line
  <2>5. line[m + k] = line[m] \o rest[k]
    BY <1>2, <2>1 DEF S
  <2>6. a \in Seq(Cells) /\ rest[k] \in Seq(Cells)
    BY <1>0, <2>1, <2>2, ArgvTyped, CharsInCells DEF Memory
  <2>7. Assoc(line[m], rest[k], a)
    BY <1>a, <2>6, Associates
  <2> QED
    BY <2>3, <2>4, <2>5, <2>7 DEF Assoc
<1>3. \A k \in Nat : k \in S
  <2> HIDE DEF S
  <2> QED
    BY <1>1, <1>2, Induct
<1>4. ASSUME NEW k \in 0..Len(R) PROVE line[m + k] = line[m] \o rest[k]
  BY <1>0, <1>3
<1> QED
  BY <1>4 DEF Continues, line, rest


\* u is mem with a text written to it.
Written(u, mem, p, text) ==
  /\ u \in Memory /\ Len(u) = Len(mem) /\ Len(mem) \in Nat
  /\ \A i \in 1..Len(mem) : i \in p..p + Len(text) - 1 => u[i] = text[i - p + 1]
  /\ \A i \in 1..Len(mem) : i \notin p..p + Len(text) - 1 => u[i] = mem[i]

LEMMA PutIs ==
  ASSUME NEW mem \in Memory, NEW text \in Memory, NEW p \in Nat, p >= 1
  PROVE  Written(Put(mem, p, text), mem, p, text)
<1>0. PICK u : u = Put(mem, p, text)
  OBVIOUS
<1>1. mem \in Seq(Cells) /\ text \in Seq(Cells) /\ Len(mem) \in Nat /\ Len(text) \in Nat /\ DOMAIN mem = 1..Len(mem)
  BY DEF Memory
<1>2. u = [i \in 1..Len(mem) |-> IF i \in p..p + Len(text) - 1 THEN text[i - p + 1] ELSE mem[i]]
  BY <1>0, <1>1 DEF Put
<1>3. /\ \A i \in 1..Len(mem) : i \in p..p + Len(text) - 1 => u[i] = text[i - p + 1]
      /\ \A i \in 1..Len(mem) : i \notin p..p + Len(text) - 1 => u[i] = mem[i]
  BY <1>2
<1>4. \A i \in 1..Len(mem) : u[i] \in Cells
  <2> SUFFICES ASSUME NEW i \in 1..Len(mem) PROVE u[i] \in Cells
    OBVIOUS
  <2>1. i \in p..p + Len(text) - 1 => i - p + 1 \in 1..Len(text)
    BY <1>1
  <2>2. \A k \in 1..Len(text) : text[k] \in Cells
    BY <1>1
  <2>3. mem[i] \in Cells
    BY <1>1
  <2> QED
    BY <1>3, <2>1, <2>2, <2>3
<1>5. u \in [1..Len(mem) -> Cells]
  BY <1>2, <1>4
<1>6. u \in Seq(Cells) /\ Len(u) = Len(mem)
  BY <1>1, <1>5
<1> QED
  BY <1>0, <1>1, <1>3, <1>6 DEF Memory, Written

\* u is mem, cleared from one place to another.
Cleared(u, mem, used, size) ==
  /\ u \in Memory /\ Len(u) = Len(mem) /\ Len(mem) \in Nat
  /\ \A i \in 1..Len(mem) : i <= used => u[i] = mem[i]
  /\ \A i \in 1..Len(mem) : i > used /\ i <= size => u[i] = NUL

LEMMA ZeroedIs ==
  ASSUME NEW mem \in Memory, NEW used \in Nat, NEW size \in Nat
  PROVE  Cleared(Zeroed(mem, used, size), mem, used, size)
<1>0. PICK u : u = Zeroed(mem, used, size)
  OBVIOUS
<1>1. mem \in Seq(Cells) /\ Len(mem) \in Nat /\ DOMAIN mem = 1..Len(mem)
  BY DEF Memory
<1>2. u = [i \in 1..Len(mem) |-> IF i > used /\ i <= size THEN NUL ELSE mem[i]]
  BY <1>0, <1>1 DEF Zeroed
<1>3. \A i \in 1..Len(mem) : u[i] \in Cells
  <2> SUFFICES ASSUME NEW i \in 1..Len(mem) PROVE u[i] \in Cells
    OBVIOUS
  <2>1. mem[i] \in Cells
    BY <1>1
  <2> QED
    BY <1>2, <2>1, CharsAre
<1>4. u \in [1..Len(mem) -> Cells]
  BY <1>2, <1>3
<1>5. u \in Seq(Cells) /\ Len(u) = Len(mem)
  BY <1>1, <1>4
<1> QED
  BY <1>0, <1>1, <1>2, <1>5 DEF Memory, Cleared

LEMMA HoldsBehind ==
  ASSUME NEW mem, NEW m, NEW s, NEW p, NEW t, Behind(mem, m, s), Holds(s, p, t)
  PROVE  Holds(mem, m + p, t)
<1>0. /\ m \in Nat /\ p \in Nat /\ p >= 1 /\ Len(t) \in Nat /\ Len(s) \in Nat /\ Len(mem) \in Nat
      /\ m + Len(s) <= Len(mem) /\ p + Len(t) <= Len(s) /\ t \in Seq(Chars)
  BY DEF Holds, Behind
<1>1. p + Len(t) \in 1..Len(s) /\ (m + p) + Len(t) = m + (p + Len(t)) /\ m + p \in Nat /\ m + p >= 1
  BY <1>0
<1>2. mem[(m + p) + Len(t)] = NUL
  BY <1>1 DEF Holds, Behind
<1>3. ASSUME NEW j \in m + p..(m + p) + Len(t) - 1 PROVE mem[j] = t[j - (m + p) + 1]
  <2>1. j - m \in 1..Len(s) /\ m + (j - m) = j /\ j - m \in p..p + Len(t) - 1 /\ (j - m) - p + 1 = j - (m + p) + 1
    BY <1>0
  <2>2. mem[m + (j - m)] = s[j - m] /\ s[j - m] = t[(j - m) - p + 1]
    BY <2>1 DEF Holds, Behind
  <2> QED
    BY <2>1, <2>2
<1>4. (m + p) + Len(t) <= Len(mem)
  BY <1>0
<1> QED
  BY <1>0, <1>1, <1>2, <1>3, <1>4 DEF Holds

\* t is the part of s of so many cells behind others.
Part(t, s, m, n, T) == t \in Seq(T) /\ Len(t) = n /\ Behind(s, m, t)

LEMMA PartIs ==
  ASSUME NEW T, NEW s \in Seq(T), NEW m \in Nat, NEW n \in Nat, m + n <= Len(s)
  PROVE  Part(SubSeq(s, m + 1, m + n), s, m, n, T)
<1> DEFINE t == SubSeq(s, m + 1, m + n)
<1>1. t \in Seq(T) /\ Len(t) = n /\ Len(s) \in Nat
  OBVIOUS
<1>2. \A j \in 1..n : t[j] = s[m + j]
  OBVIOUS
<1> HIDE DEF t
<1>3. Behind(s, m, t)
  BY <1>1, <1>2 DEF Behind
<1> QED
  BY <1>1, <1>3 DEF t, Part

\* Of a sequence of pointers, the first leads to the start, and the others to
\* arguments that lie behind m cells.
Pointers(ptr, R, m) ==
  /\ DOMAIN ptr = 1..1 + Len(R) /\ Len(ptr) = 1 + Len(R) /\ ptr[1] = 1
  /\ \A j \in 1..Len(R) : ptr[1 + j] = m + Offset(R, j)

\* r is mem after the arguments R were moved behind k cells.
Moved(r, mem, R, k) ==
  /\ r.len = Len(Line(R)) /\ r.mem \in Memory /\ Len(r.mem) = Len(mem)
  /\ \A j \in 1..k : r.mem[j] = mem[j]
  /\ Behind(r.mem, k, Line(R)) /\ Pointers(r.ptr, R, k)

LEMMA ShiftedIs ==
  ASSUME NEW mem \in Memory, NEW R \in Argvs, NEW m \in Nat, Behind(mem, m, Line(R)),
         Len(mem) = m + Len(Line(R)), NEW ptr, Pointers(ptr, R, m),
         NEW k \in Nat, k <= m
  PROVE  Moved(Shifted(mem, ptr, k + 1), mem, R, k)
<1>0. PICK r : r = Shifted(mem, ptr, k + 1)
  OBVIOUS
<1>1. PICK N : N = Len(R)
  OBVIOUS
<1>2. N \in Nat
  BY <1>1, ArgvTyped
<1>3. PICK line : line = Lines(R)
  OBVIOUS
<1>4. /\ line \in [0..N -> Memory] /\ line[0] = <<>> /\ Line(R) = line[N]
      /\ \A j \in 1..N : Offset(R, j) = 1 + Len(line[j - 1])
  BY <1>1, <1>3, LinesAre DEF Line, Offset
<1>5. Len(line[N]) \in Nat /\ line[N] \in Seq(Cells) /\ mem \in Seq(Cells) /\ Len(mem) \in Nat
  BY <1>2, <1>4 DEF Memory
<1>6. CASE N = 0
  <2>1. Len(ptr) = 1 /\ line[N] = <<>>
    BY <1>1, <1>4, <1>6 DEF Pointers
  <2>2. r = [mem |-> mem, ptr |-> ptr, len |-> 0]
    BY <1>0, <2>1 DEF Shifted
  <2>3. Len(line[N]) = 0 /\ \A j \in 1..0 : FALSE
    BY <2>1
  <2>4. Behind(mem, k, line[N])
    BY <1>5, <2>3 DEF Behind
  <2>5. Pointers(ptr, R, k)
    BY <1>1, <1>6 DEF Pointers
  <2>6. r.len = Len(line[N]) /\ r.mem = mem /\ r.ptr = ptr
    BY <2>2, <2>3
  <2> QED
    BY <1>0, <1>4, <2>4, <2>5, <2>6 DEF Moved
<1>7. CASE N # 0
  <2>1. N \in 1..N /\ 1 \in 1..N /\ N - 1 \in 0..N /\ 1 - 1 = 0 /\ 1 + 1 = 2 /\ Len(ptr) # 1
    BY <1>1, <1>2, <1>7 DEF Pointers
  <2>2. ptr[Len(ptr)] = m + Offset(R, N) /\ ptr[2] = m + Offset(R, 1)
    BY <1>1, <2>1 DEF Pointers
  <2>3. Offset(R, 1) = 1
    <3>1. Len(line[0]) = 0
      BY <1>4
    <3> QED
      BY <1>4, <2>1, <3>1
  <2>4. PICK o : o = Offset(R, N)
    OBVIOUS
  <2>5. Len(line[N]) = Len(line[N - 1]) + Len(R[N]) + 1
    BY <1>1, <1>3, <2>1, LineStep
  <2>6. o = 1 + Len(line[N - 1]) /\ Len(line[N - 1]) \in Nat /\ Len(R[N]) \in Nat
    <3>1. line[N - 1] \in Seq(Cells)
      BY <1>4, <2>1 DEF Memory
    <3>2. Len(R[N]) \in Nat
      BY <1>1, <2>1, ArgvTyped
    <3> QED
      BY <1>4, <2>1, <2>4, <3>1, <3>2
  <2>7. Str(mem, m + o) = R[N]
    <3>1. Holds(Line(R), o, R[N])
      BY <1>1, <2>1, <2>4, LineHolds
    <3>2. Holds(mem, m + o, R[N])
      BY <3>1, HoldsBehind
    <3> QED
      BY <3>2, StrOf
  <2>8. PICK n : n = Len(line[N])
    OBVIOUS
  <2>9. (m + o) - (m + 1) + Len(R[N]) + 1 = n /\ n \in Nat
    <3>1. PICK a, z : a = Len(line[N - 1]) /\ z = Len(R[N])
      OBVIOUS
    <3>2. n = a + z + 1 /\ o = 1 + a /\ a \in Nat /\ z \in Nat /\ n \in Nat
      BY <1>5, <2>5, <2>6, <2>8, <3>1
    <3>3. (m + o) - (m + 1) + z + 1 = n
      BY <3>2
    <3> QED
      BY <3>1, <3>2, <3>3
  <2>10. PICK b : b = SubSeq(mem, m + 1, (m + 1) + n - 1)
    OBVIOUS
  <2>11. r = [mem |-> Put(mem, k + 1, b),
              ptr |-> [i \in DOMAIN ptr |-> IF i = 1 THEN ptr[1] ELSE ptr[i] - ((m + 1) - (k + 1))],
              len |-> n]
    BY <1>0, <2>1, <2>2, <2>3, <2>4, <2>7, <2>9, <2>10 DEF Shifted
  <2>12. b \in Seq(Cells) /\ Len(b) = n /\ \A j \in 1..n : b[j] = line[N][j]
    <3>0. Len(mem) = m + n
      BY <1>4, <2>8
    <3>1. (m + 1) + n - 1 <= Len(mem) /\ (m + 1) + n - 1 = m + n
      BY <2>9, <3>0
    <3>2. b = SubSeq(mem, m + 1, m + n) /\ m + n <= Len(mem)
      BY <2>10, <3>1
    <3>3. b \in Seq(Cells) /\ Len(b) = n /\ \A j \in 1..n : b[j] = mem[m + j]
      <4>1. b \in Seq(Cells) /\ Len(b) = n /\ Behind(mem, m, b)
        <5>1. m + n <= Len(mem) /\ n \in Nat
          BY <2>9, <3>2
        <5>2. Part(SubSeq(mem, m + 1, m + n), mem, m, n, Cells)
          BY <1>5, <5>1, PartIs
        <5>3. Part(b, mem, m, n, Cells)
          BY <3>2, <5>2, Zenon
        <5> QED
          BY <5>3, Zenon DEF Part
      <4> QED
        BY <4>1 DEF Behind
    <3>4. \A j \in 1..n : mem[m + j] = line[N][j]
      BY <1>4, <2>8 DEF Behind
    <3> QED
      BY <3>3, <3>4
  <2>13. PICK u : u = Put(mem, k + 1, b)
    OBVIOUS
  <2>14. /\ u \in Memory /\ Len(u) = Len(mem)
         /\ \A i \in 1..Len(mem) : i \in k + 1..(k + 1) + Len(b) - 1 => u[i] = b[i - (k + 1) + 1]
         /\ \A i \in 1..Len(mem) : i \notin k + 1..(k + 1) + Len(b) - 1 => u[i] = mem[i]
    <3>1. b \in Memory /\ k + 1 \in Nat /\ k + 1 >= 1
      BY <2>12 DEF Memory
    <3> QED
      BY <2>13, <3>1, PutIs DEF Written
  <2>15. \A j \in 1..k : u[j] = mem[j]
    <3> SUFFICES ASSUME NEW j \in 1..k PROVE u[j] = mem[j]
      OBVIOUS
    <3>1. j \in 1..Len(mem) /\ j \notin k + 1..(k + 1) + Len(b) - 1
      BY <1>4, <1>5
    <3> QED
      BY <2>14, <3>1
  <2>16. Behind(u, k, line[N])
    <3>1. k + n <= Len(mem)
      BY <1>4, <1>5, <2>8, <2>9
    <3>2. ASSUME NEW j \in 1..n PROVE u[k + j] = line[N][j]
      <4>1. /\ k + j \in 1..Len(mem) /\ k + j \in k + 1..(k + 1) + Len(b) - 1
            /\ (k + j) - (k + 1) + 1 = j
        BY <1>5, <2>9, <2>12, <3>1
      <4>2. u[k + j] = b[(k + j) - (k + 1) + 1]
        BY <2>14, <4>1
      <4> QED
        BY <2>12, <4>1, <4>2
    <3> QED
      BY <1>5, <2>8, <2>14, <3>1, <3>2 DEF Behind
  <2>17. PICK q : q = [i \in DOMAIN ptr |-> IF i = 1 THEN ptr[1] ELSE ptr[i] - ((m + 1) - (k + 1))]
    OBVIOUS
  <2>18. Pointers(q, R, k)
    <3>1. DOMAIN q = 1..1 + N /\ DOMAIN ptr = 1..1 + N /\ 1 \in 1..1 + N
      BY <1>1, <1>2, <2>17 DEF Pointers
    <3>2. Len(q) = 1 + N
      <4>1. 1 + N \in Nat
        BY <1>2
      <4> QED
        BY <3>1, <4>1
    <3>3. q[1] = 1
      BY <1>1, <2>17, <3>1 DEF Pointers
    <3>4. ASSUME NEW j \in 1..N PROVE q[1 + j] = k + Offset(R, j)
      <4>1. 1 + j \in 1..1 + N /\ 1 + j # 1
        BY <1>2
      <4>2. q[1 + j] = ptr[1 + j] - ((m + 1) - (k + 1))
        BY <2>17, <3>1, <4>1
      <4>3. ptr[1 + j] = m + Offset(R, j)
        BY <1>1 DEF Pointers
      <4>4. Offset(R, j) \in Nat
        <5>1. j - 1 \in 0..N
          BY <1>2
        <5>2. line[j - 1] \in Seq(Cells)
          BY <1>4, <5>1 DEF Memory
        <5> QED
          BY <1>4, <5>2
      <4> QED
        BY <4>2, <4>3, <4>4
    <3> QED
      BY <1>1, <3>1, <3>2, <3>3, <3>4 DEF Pointers
  <2>19. r.mem = u /\ r.ptr = q /\ r.len = n
    BY <2>11, <2>13, <2>17
  <2> QED
    BY <1>0, <1>4, <2>8, <2>14, <2>15, <2>16, <2>18, <2>19 DEF Moved
<1> QED
  BY <1>6, <1>7


\* V are the arguments R behind a name.
Led(V, s, R) ==
  /\ V \in Argvs /\ Len(V) = 1 + Len(R) /\ V[1] = s /\ \A j \in 1..Len(R) : V[1 + j] = R[j]
  /\ Joined(Line(V), Append(s, NUL), Line(R))
  /\ Offset(V, 1) = 1
  /\ \A j \in 1..Len(R) : Offset(V, 1 + j) = (Len(s) + 1) + Offset(R, j)

LEMMA Together ==
  ASSUME NEW s \in Seq(Chars), NEW R \in Argvs
  PROVE  Led(<<s>> \o R, s, R)
<1>0. PICK V : V = <<s>> \o R
  OBVIOUS
<1>1. R \in Seq(Seq(Chars)) /\ Len(R) \in Nat /\ Len(s) \in Nat
  BY ArgvTyped DEF Argvs
<1>2. PICK h \in Seq(Seq(Chars)) : h = <<s>>
  <2>1. <<s>> \in Seq(Seq(Chars))
    OBVIOUS
  <2> QED
    BY <2>1, Zenon
<1>3. V \in Seq(Seq(Chars)) /\ Joined(V, h, R)
  BY <1>0, <1>1, <1>2, Joins
<1>4. Len(h) = 1 /\ h[1] = s
  BY <1>2
<1>5. Len(V) = 1 + Len(R) /\ V[1] = s /\ \A j \in 1..Len(R) : V[1 + j] = R[j]
  BY <1>1, <1>3, <1>4, SMTT(40) DEF Joined
<1>6. V \in Argvs
  BY <1>3 DEF Argvs
<1>7. PICK line, rest, a, N : line = Lines(V) /\ rest = Lines(R) /\ a = Append(s, NUL) /\ N = Len(R)
  OBVIOUS
<1>8. /\ line \in [0..1 + N -> Memory] /\ line[0] = <<>> /\ rest \in [0..N -> Memory] /\ rest[0] = <<>>
      /\ \A n \in 1..1 + N : line[n] = line[n - 1] \o Append(V[n], NUL)
  <2>1. line \in [0..1 + N -> Memory] /\ line[0] = <<>>
        /\ \A n \in 1..1 + N : line[n] = line[n - 1] \o Append(V[n], NUL)
    BY <1>5, <1>6, <1>7, LinesAre
  <2>2. rest \in [0..N -> Memory] /\ rest[0] = <<>>
    BY <1>7, LinesAre
  <2> QED
    BY <2>1, <2>2
<1>9. a \in Seq(Cells) /\ N \in Nat /\ Len(a) = Len(s) + 1 /\ Len(a) \in Nat
  BY <1>1, <1>7, CharsInCells DEF Memory
<1>10. line[1] = a
  <2>1. 1 \in 1..1 + N /\ 1 - 1 = 0
    BY <1>9
  <2>2. line[1] = <<>> \o a
    BY <1>5, <1>7, <1>8, <2>1
  <2> QED
    BY <1>9, <2>2
<1>11. \A k \in 0..N : line[1 + k] = a \o rest[k]
  <2>1. 1 \in Nat /\ Len(V) = 1 + Len(R)
    BY <1>5
  <2>4. PICK one \in Nat : one = 1
    OBVIOUS
  <2>5. Len(V) = one + Len(R) /\ Behind(V, one, R)
    BY <1>1, <1>5, <2>4 DEF Behind
  <2>6. Continues(line, one, rest, N)
    BY <1>6, <1>7, <2>4, <2>5, LinesShift
  <2>2. \A k \in 0..N : line[1 + k] = line[1] \o rest[k]
    BY <2>4, <2>6 DEF Continues
  <2> QED
    BY <1>10, <2>2
<1>12. ASSUME NEW k \in 0..N PROVE Joined(line[1 + k], a, rest[k]) /\ Len(rest[k]) \in Nat
  <2>1. rest[k] \in Seq(Cells)
    BY <1>8 DEF Memory
  <2>2. Len(rest[k]) \in Nat
    BY <2>1
  <2> QED
    BY <1>9, <1>11, <2>1, <2>2, Joins
<1>13. Line(V) = line[1 + N] /\ Line(R) = rest[N] /\ N \in 0..N
  BY <1>5, <1>7, <1>9 DEF Line
<1>14. Offset(V, 1) = 1
  <2>1. Len(line[0]) = 0
    BY <1>8
  <2> QED
    BY <1>7, <2>1 DEF Offset
<1>15. ASSUME NEW j \in 1..N PROVE Offset(V, 1 + j) = (Len(s) + 1) + Offset(R, j)
  <2>1. j - 1 \in 0..N /\ 1 + (j - 1) = (1 + j) - 1
    BY <1>9
  <2>2. PICK x, y : x = Len(line[(1 + j) - 1]) /\ y = Len(rest[j - 1])
    OBVIOUS
  <2>3. x = Len(a) + y /\ y \in Nat
    BY <1>12, <2>1, <2>2 DEF Joined
  <2>4. Offset(V, 1 + j) = 1 + x /\ Offset(R, j) = 1 + y
    BY <1>7, <2>2 DEF Offset
  <2> QED
    BY <1>1, <1>9, <2>3, <2>4
<1> QED
  BY <1>0, <1>5, <1>6, <1>7, <1>12, <1>13, <1>14, <1>15 DEF Led

\* Memory of M cells begins with the arguments V, the pointers lead to them, and
\* nothing is behind them up to a size.
Packed(end, ptr, used, size, V, M) ==
  /\ end \in Memory /\ Len(end) = M /\ used = Len(Line(V)) /\ used \in Nat /\ used <= M
  /\ BeginsWith(end, Line(V))
  /\ \A i \in 1..M : i > used /\ i <= size => end[i] = NUL
  /\ [i \in DOMAIN ptr |-> Str(end, ptr[i])] = V

\* What the constructor makes of the command line: the name and the arguments
\* behind it at the start, in place of all that was there, and nothing of it
\* behind them as far as it was read.
LEMMA Compacted ==
  ASSUME NEW mem \in Memory, NEW R \in Argvs, NEW m \in Nat, Behind(mem, m, Line(R)),
         Len(mem) = m + Len(Line(R)), NEW ptr, Pointers(ptr, R, m),
         NEW s \in Seq(Chars), Len(s) + 1 <= m, NEW size \in Nat
  PROVE  LET a    == Append(s, NUL)
             r    == Shifted(Put(mem, 1, a), ptr, 1 + Len(a))
             used == Len(a) + r.len
         IN  Packed(Zeroed(r.mem, used, size), r.ptr, used, size, <<s>> \o R, Len(mem))
<1>a. PICK a, V : a = Append(s, NUL) /\ V = <<s>> \o R
  OBVIOUS
<1>c. PICK r : r = Shifted(Put(mem, 1, a), ptr, 1 + Len(a))
  OBVIOUS
<1>d. PICK used : used = Len(a) + r.len
  OBVIOUS
<1>e. PICK end : end = Zeroed(r.mem, used, size)
  OBVIOUS
<1>1. /\ V \in Argvs /\ Len(V) = 1 + Len(R) /\ V[1] = s /\ \A j \in 1..Len(R) : V[1 + j] = R[j]
      /\ Joined(Line(V), a, Line(R)) /\ Offset(V, 1) = 1
      /\ \A j \in 1..Len(R) : Offset(V, 1 + j) = (Len(s) + 1) + Offset(R, j)
  <2>1. Led(V, s, R)
    BY <1>a, Together
  <2> QED
    BY <1>a, <2>1 DEF Led
<1>2. PICK k : k = Len(s) + 1
  OBVIOUS
<1>3. a \in Memory /\ Len(a) = k /\ k \in Nat /\ k >= 1 /\ k <= m /\ Len(R) \in Nat
  BY <1>a, <1>2, CharsInCells, ArgvTyped
<1>4. PICK L, M : L = Len(Line(R)) /\ M = Len(mem)
  OBVIOUS
<1>5. L \in Nat /\ M \in Nat /\ M = m + L /\ \A j \in 1..L : mem[m + j] = Line(R)[j]
  BY <1>4 DEF Behind
<1>6. PICK w : w = Put(mem, 1, a)
  OBVIOUS
<1>7. /\ w \in Memory /\ Len(w) = M
      /\ \A i \in 1..M : i \in 1..1 + Len(a) - 1 => w[i] = a[i - 1 + 1]
      /\ \A i \in 1..M : i \notin 1..1 + Len(a) - 1 => w[i] = mem[i]
  <2>1. PICK one \in Nat : one = 1 /\ one >= 1
    OBVIOUS
  <2>2. Written(w, mem, one, a)
    BY <1>3, <1>6, <2>1, PutIs
  <2> QED
    BY <1>4, <2>1, <2>2 DEF Written
<1>b. Len(a) = k /\ k \in Nat /\ k >= 1 /\ k <= m /\ L \in Nat /\ M \in Nat /\ M = m + L
  BY <1>3, <1>5
<1>8. \A i \in 1..k : w[i] = a[i]
  <2> SUFFICES ASSUME NEW i \in 1..k PROVE w[i] = a[i]
    OBVIOUS
  <2>1. i \in 1..M /\ i \in 1..1 + Len(a) - 1 /\ i - 1 + 1 = i
    BY <1>3, <1>5
  <2> QED
    BY <1>7, <2>1
<1>9. Behind(w, m, Line(R))
  <2>1. ASSUME NEW j \in 1..L PROVE w[m + j] = Line(R)[j]
    <3>1. m + j \in 1..M /\ m + j \notin 1..1 + Len(a) - 1
      BY <1>b
    <3> QED
      BY <1>5, <1>7, <3>1
  <2> QED
    BY <1>4, <1>5, <1>7, <2>1 DEF Behind
<1>10. r = Shifted(w, ptr, k + 1)
  <2>1. 1 + Len(a) = k + 1
    BY <1>3
  <2> QED
    BY <1>c, <1>6, <2>1
<1>11. /\ r.len = L /\ r.mem \in Memory /\ Len(r.mem) = M
       /\ \A j \in 1..k : r.mem[j] = w[j]
       /\ Behind(r.mem, k, Line(R)) /\ Pointers(r.ptr, R, k)
  <2>1. w \in Memory /\ Len(w) = m + Len(Line(R)) /\ k \in Nat /\ k <= m
    BY <1>4, <1>b, <1>7
  <2>2. Moved(r, w, R, k)
    BY <1>9, <1>10, <2>1, ShiftedIs
  <2> QED
    BY <1>4, <1>7, <2>2 DEF Moved
<1>12. used = k + L /\ used \in Nat /\ used <= M
  BY <1>d, <1>3, <1>5, <1>11
<1>13. /\ end \in Memory /\ Len(end) = M
       /\ \A i \in 1..M : i <= used => end[i] = r.mem[i]
       /\ \A i \in 1..M : i > used /\ i <= size => end[i] = NUL
  <2>1. Cleared(end, r.mem, used, size)
    BY <1>e, <1>11, <1>12, ZeroedIs
  <2> QED
    BY <1>11, <2>1 DEF Cleared
<1>14. Len(Line(V)) = k + L
  BY <1>1, <1>3, <1>4, Zenon DEF Joined
<1>15. ASSUME NEW i \in 1..k + L PROVE end[i] = Line(V)[i]
  <2>0. i \in 1..M /\ i <= used
    BY <1>b, <1>12
  <2>1. i \in 1..M /\ end[i] = r.mem[i]
    BY <1>13, <2>0
  <2>2. CASE i <= k
    <3>1. i \in 1..k
      BY <1>3, <2>2
    <3>2. Line(V)[i] = a[i]
      BY <1>1, <1>3, <3>1 DEF Joined
    <3> QED
      BY <1>8, <1>11, <2>1, <3>1, <3>2
  <2>3. CASE ~(i <= k)
    <3>1. i - k \in 1..L /\ k + (i - k) = i
      BY <1>3, <1>5, <2>3
    <3>2. Line(V)[k + (i - k)] = Line(R)[i - k]
      BY <1>1, <1>3, <1>4, <3>1 DEF Joined
    <3>3. r.mem[k + (i - k)] = Line(R)[i - k]
      BY <1>4, <1>11, <3>1 DEF Behind
    <3> QED
      BY <2>1, <3>1, <3>2, <3>3
  <2> QED
    BY <2>2, <2>3
<1>16. BeginsWith(end, Line(V))
  BY <1>3, <1>5, <1>12, <1>13, <1>14, <1>15 DEF BeginsWith
<1>17. ASSUME NEW i \in 1..1 + Len(R) PROVE r.ptr[i] = Offset(V, i) /\ Str(end, r.ptr[i]) = V[i]
  <2>1. r.ptr[i] = Offset(V, i)
    <3>1. CASE i = 1
      BY <1>1, <1>11, <3>1 DEF Pointers
    <3>2. CASE i # 1
      <4>1. i - 1 \in 1..Len(R) /\ 1 + (i - 1) = i
        BY <1>3, <3>2
      <4> QED
        BY <1>1, <1>2, <1>11, <4>1, ZenonT(40) DEF Pointers
    <3> QED
      BY <3>1, <3>2
  <2>2. i \in 1..Len(V)
    BY <1>1
  <2>3. Holds(end, Offset(V, i), V[i])
    BY <1>1, <1>16, <2>2, LineHolds, HoldsOn
  <2> QED
    BY <1>13, <2>1, <2>3, StrOf
<1>18. [i \in DOMAIN r.ptr |-> Str(end, r.ptr[i])] = V
  <2>1. DOMAIN r.ptr = 1..1 + Len(R)
    BY <1>11 DEF Pointers
  <2>2. V = [i \in 1..1 + Len(R) |-> V[i]]
    <3>1. V \in Seq(Seq(Chars)) /\ DOMAIN V = 1..1 + Len(R)
      BY <1>1 DEF Argvs
    <3> QED
      BY <3>1
  <2> QED
    BY <1>17, <2>1, <2>2
<1>19. Packed(end, r.ptr, used, size, V, Len(mem))
  BY <1>4, <1>12, <1>13, <1>14, <1>16, <1>18 DEF Packed
<1> QED
  BY <1>a, <1>c, <1>d, <1>e, <1>19


Dash == <<"--argv0">>

\* argv is what a linker was started with: two texts of its own, a program's
\* name and file, and the arguments R.
Laid(argv, linker, a0, path, R) ==
  /\ argv \in Argvs /\ Len(argv) = 4 + Len(R)
  /\ argv[1] = linker /\ argv[2] = Dash /\ argv[3] = a0 /\ argv[4] = path
  /\ \A j \in 1..Len(R) : argv[4 + j] = R[j]

LEMMA IsLaid ==
  ASSUME NEW linker \in Seq(Chars), NEW a0 \in Seq(Chars), NEW path \in Seq(Chars), NEW R \in Argvs
  PROVE  Laid(<<linker, Dash, a0, path>> \o R, linker, a0, path, R)
<1>0. PICK argv : argv = <<linker, Dash, a0, path>> \o R
  OBVIOUS
<1>1. R \in Seq(Seq(Chars)) /\ Len(R) \in Nat
  BY ArgvTyped DEF Argvs
<1>2. Dash \in Seq(Chars)
  <2>1. "--argv0" \in Chars
    BY DEF Chars
  <2> QED
    BY <2>1 DEF Dash
<1>3. PICK h \in Seq(Seq(Chars)) : h = <<linker, Dash, a0, path>>
  <2>1. <<linker, Dash, a0, path>> \in Seq(Seq(Chars))
    BY <1>2
  <2> QED
    BY <2>1, Zenon
<1>4. argv \in Seq(Seq(Chars)) /\ Joined(argv, h, R)
  BY <1>0, <1>1, <1>3, Joins
<1>5. Len(h) = 4 /\ h[1] = linker /\ h[2] = Dash /\ h[3] = a0 /\ h[4] = path
  BY <1>3
<1>6. /\ Len(argv) = 4 + Len(R) /\ argv[1] = linker /\ argv[2] = Dash /\ argv[3] = a0 /\ argv[4] = path
      /\ \A j \in 1..Len(R) : argv[4 + j] = R[j]
  <2>1. 1 \in 1..4 /\ 2 \in 1..4 /\ 3 \in 1..4 /\ 4 \in 1..4
    OBVIOUS
  <2> QED
    BY <1>1, <1>4, <1>5, <2>1 DEF Joined
<1> QED
  BY <1>0, <1>4, <1>6 DEF Laid, Argvs

\* Where its parts begin, m cells before the arguments.
Spread(argv, linker, a0, path, R, m) ==
  /\ Offset(argv, 1) = 1 /\ Offset(argv, 2) = 2 + Len(linker) /\ Offset(argv, 3) = 4 + Len(linker)
  /\ Offset(argv, 4) = 5 + Len(linker) + Len(a0)
  /\ m = 5 + Len(linker) + Len(a0) + Len(path)
  /\ Behind(Line(argv), m, Line(R)) /\ Len(Line(argv)) = m + Len(Line(R))
  /\ Line(argv) \in Memory /\ Len(R) \in Nat
  /\ \A j \in 1..Len(R) : Offset(argv, 4 + j) = m + Offset(R, j)

LEMMA IsSpread ==
  ASSUME NEW argv, NEW linker \in Seq(Chars), NEW a0 \in Seq(Chars), NEW path \in Seq(Chars),
         NEW R \in Argvs, Laid(argv, linker, a0, path, R)
  PROVE  Spread(argv, linker, a0, path, R, 5 + Len(linker) + Len(a0) + Len(path))
<1>1. PICK line, rest, N : line = Lines(argv) /\ rest = Lines(R) /\ N = Len(R)
  OBVIOUS
<1>2. /\ argv \in Argvs /\ Len(argv) = 4 + N /\ N \in Nat
      /\ argv[1] = linker /\ argv[2] = Dash /\ argv[3] = a0 /\ argv[4] = path
  BY <1>1, ArgvTyped DEF Laid
<1>3. /\ line \in [0..4 + N -> Memory] /\ line[0] = <<>>
      /\ rest \in [0..N -> Memory] /\ rest[0] = <<>>
  BY <1>1, <1>2, LinesAre
<1>4. 1 \in 1..4 + N /\ 2 \in 1..4 + N /\ 3 \in 1..4 + N /\ 4 \in 1..4 + N
  BY <1>2
<1>5. PICK x, y, z : x = Len(linker) /\ y = Len(a0) /\ z = Len(path)
  OBVIOUS
<1>6. x \in Nat /\ y \in Nat /\ z \in Nat
  BY <1>5
<1>7. Len(line[1]) = 1 + x
  <2>1. Len(line[1]) = Len(line[1 - 1]) + Len(argv[1]) + 1
    BY <1>1, <1>2, <1>4, LineStep
  <2>2. Len(line[1 - 1]) = 0
    BY <1>3
  <2> QED
    BY <1>2, <1>5, <1>6, <2>1, <2>2
<1>8. Len(line[2]) = 3 + x
  <2>1. Len(line[2]) = Len(line[2 - 1]) + Len(argv[2]) + 1
    BY <1>1, <1>2, <1>4, LineStep
  <2>2. Len(argv[2]) = 1 /\ 2 - 1 = 1
    BY <1>2 DEF Dash
  <2> QED
    BY <1>6, <1>7, <2>1, <2>2
<1>9. Len(line[3]) = 4 + x + y
  <2>1. Len(line[3]) = Len(line[3 - 1]) + Len(argv[3]) + 1
    BY <1>1, <1>2, <1>4, LineStep
  <2>2. 3 - 1 = 2 /\ Len(argv[3]) = y
    BY <1>2, <1>5
  <2>3. Len(line[3]) = Len(line[2]) + y + 1
    BY <2>1, <2>2
  <2> QED
    BY <1>6, <1>8, <2>3
<1>10. PICK m : m = 5 + x + y + z
  OBVIOUS
<1>11. Len(line[4]) = m /\ m \in Nat
  <2>1. Len(line[4]) = Len(line[4 - 1]) + Len(argv[4]) + 1
    BY <1>1, <1>2, <1>4, LineStep
  <2> QED
    BY <1>2, <1>5, <1>6, <1>9, <1>10, <2>1, SMTT(40)
<1>12. /\ Offset(argv, 1) = 1 /\ Offset(argv, 2) = 2 + x /\ Offset(argv, 3) = 4 + x
       /\ Offset(argv, 4) = 5 + x + y
  <2>1. Offset(argv, 1) = 1 + Len(line[0])
    BY <1>1 DEF Offset
  <2>2. Offset(argv, 2) = 1 + Len(line[1])
    BY <1>1 DEF Offset
  <2>3. Offset(argv, 3) = 1 + Len(line[2])
    BY <1>1 DEF Offset
  <2>4. Offset(argv, 4) = 1 + Len(line[3])
    BY <1>1 DEF Offset
  <2>5. Len(line[0]) = 0
    BY <1>3
  <2> QED
    BY <1>6, <1>7, <1>8, <1>9, <2>1, <2>2, <2>3, <2>4, <2>5
<1>13. \A k \in 0..N : line[4 + k] = line[4] \o rest[k]
  <2>1. PICK four \in Nat : four = 4
    OBVIOUS
  <2>2. Len(argv) = four + Len(R) /\ Behind(argv, four, R)
    BY <1>1, <1>2, <2>1 DEF Behind, Laid
  <2>3. Continues(line, four, rest, N)
    BY <1>1, <1>2, <2>1, <2>2, LinesShift
  <2> QED
    BY <2>1, <2>3 DEF Continues
<1>14. ASSUME NEW k \in 0..N PROVE Joined(line[4 + k], line[4], rest[k]) /\ Len(rest[k]) \in Nat
  <2>1. rest[k] \in Seq(Cells)
    BY <1>3 DEF Memory
  <2>2. line[4] \in Seq(Cells)
    BY <1>2, <1>3 DEF Memory
  <2>3. Len(rest[k]) \in Nat
    BY <2>1
  <2> QED
    BY <1>13, <2>1, <2>2, <2>3, Joins
<1>15. Line(argv) = line[4 + N] /\ Line(R) = rest[N] /\ N \in 0..N
  BY <1>1, <1>2 DEF Line
<1>16. Joined(Line(argv), line[4], Line(R)) /\ Len(Line(R)) \in Nat
  BY <1>14, <1>15
<1>17. Behind(Line(argv), m, Line(R)) /\ Len(Line(argv)) = m + Len(Line(R))
  BY <1>11, <1>16 DEF Behind, Joined
<1>18. Line(argv) \in Memory
  BY <1>2, <1>3, <1>15
<1>19. ASSUME NEW j \in 1..N PROVE Offset(argv, 4 + j) = m + Offset(R, j)
  <2>1. j - 1 \in 0..N /\ 4 + (j - 1) = (4 + j) - 1
    BY <1>2
  <2>2. PICK p, q : p = Len(line[(4 + j) - 1]) /\ q = Len(rest[j - 1])
    OBVIOUS
  <2>3. p = m + q /\ q \in Nat
    BY <1>11, <1>14, <2>1, <2>2 DEF Joined
  <2>4. Offset(argv, 4 + j) = 1 + p /\ Offset(R, j) = 1 + q
    BY <1>1, <2>2 DEF Offset
  <2> QED
    BY <1>11, <2>3, <2>4
<1> QED
  BY <1>1, <1>2, <1>5, <1>10, <1>12, <1>17, <1>18, <1>19 DEF Spread

\* From within a text the rest of it is read.
LEMMA HoldsTail ==
  ASSUME NEW mem, NEW p, NEW t, Holds(mem, p, t), NEW d \in 0..Len(t)
  PROVE  Holds(mem, p + d, SubSeq(t, d + 1, Len(t)))
<1>0. /\ p \in Nat /\ p >= 1 /\ Len(t) \in Nat /\ t \in Seq(Chars) /\ p + Len(t) <= Len(mem)
      /\ mem[p + Len(t)] = NUL
  BY DEF Holds
<1>1. PICK n, u : n = Len(t) - d /\ u = SubSeq(t, d + 1, d + n)
  OBVIOUS
<1>2. n \in Nat /\ d + n = Len(t) /\ d \in Nat /\ d + n <= Len(t)
  BY <1>0, <1>1
<1>3. Part(u, t, d, n, Chars)
  BY <1>0, <1>1, <1>2, PartIs
<1>4. u \in Seq(Chars) /\ Len(u) = n /\ \A j \in 1..n : t[d + j] = u[j]
  BY <1>3 DEF Part, Behind
<1>5. ASSUME NEW j \in p + d..(p + d) + n - 1 PROVE mem[j] = u[j - (p + d) + 1]
  <2>1. /\ j \in p..p + Len(t) - 1 /\ j - (p + d) + 1 \in 1..n
        /\ d + (j - (p + d) + 1) = j - p + 1
    BY <1>0, <1>2
  <2>2. mem[j] = t[j - p + 1]
    BY <2>1 DEF Holds
  <2> QED
    BY <1>4, <2>1, <2>2
<1>6. (p + d) + n = p + Len(t) /\ p + d \in Nat /\ p + d >= 1
  BY <1>0, <1>2
<1>7. u = SubSeq(t, d + 1, Len(t))
  BY <1>1, <1>2
<1>8. Holds(mem, p + d, u)
  BY <1>0, <1>4, <1>5, <1>6 DEF Holds
<1> QED
  BY <1>7, <1>8


\* The root is longer than a slash.
LEMMA RootIs == Root \in Seq(Chars) /\ Len(Root) \in Nat /\ Len(Root) >= 2
<1>1. Root \in Seq(Chars) /\ Len(Root) \in Nat
  BY PlacesAssumption, CharsAre, LettersIn
<1>2. Root # <<>> /\ Root[1] = "/" /\ RootPlace # <<>>
  BY TranslateAssumption DEF Absolute
<1>3. ASSUME Len(Root) = 1 PROVE FALSE
  <2> DEFINE H(g, n) == IF n = 0 THEN <<>>
                        ELSE IF Root[n] = "/" THEN g[n - 1] ELSE Append(g[n - 1], Root[n])
             names == CHOOSE g : g = [n \in 0..Len(Root) |-> H(g, n)]
  <2>1. \E g : g = [n \in 0..Len(Root) |-> H(g, n)]
    <3>1. PICK g : g = [n \in 0..1 |-> <<>>]
      OBVIOUS
    <3>2. \A n \in 0..Len(Root) : g[n] = H(g, n)
      <4> SUFFICES ASSUME NEW n \in 0..1 PROVE g[n] = H(g, n)
        BY <1>3
      <4>1. n = 0 \/ n = 1
        OBVIOUS
      <4>2. g[0] = <<>> /\ g[1] = <<>> /\ 1 - 1 = 0
        BY <3>1
      <4> QED
        BY <1>2, <4>1, <4>2
    <3>3. g = [n \in 0..Len(Root) |-> g[n]]
      BY <1>3, <3>1
    <3> HIDE DEF H
    <3> QED
      BY <3>2, <3>3
  <2>2. names = [n \in 0..Len(Root) |-> H(names, n)]
    <3> HIDE DEF H
    <3> QED
      BY <2>1
  <2>3. Names(Root) = names[Len(Root)]
    BY DEF Names, NamesIn
  <2> HIDE DEF names
  <2>4. \A n \in 0..Len(Root) : names[n] = H(names, n)
    <3> HIDE DEF H
    <3> QED
      BY <2>2
  <2>5. 0 \in 0..Len(Root) /\ 1 \in 0..Len(Root) /\ 1 - 1 = 0
    BY <1>3
  <2>6. names[0] = <<>> /\ names[1] = names[0]
    BY <1>2, <2>4, <2>5
  <2> QED
    BY <1>2, <1>3, <2>3, <2>6 DEF RootPlace
<1>4. PICK n \in Nat : n = Len(Root)
  BY <1>1
<1>5. n # 0 /\ n # 1
  BY <1>1, <1>2, <1>3, <1>4
<1>6. n >= 2
  BY <1>4, <1>5
<1> QED
  BY <1>1, <1>4, <1>6

\* HxUnexpandPath never makes a text longer.
LEMMA Unexpands ==
  ASSUME NEW p \in Seq(Chars)
  PROVE  Unexpand(p) \in Seq(Chars) /\ (Unexpand(p) # p => Len(Unexpand(p)) < Len(p))
<1>1. CASE p = Root
  <2>1. Unexpand(p) = <<"/">>
    BY <1>1 DEF Unexpand
  <2>2. <<"/">> \in Seq(Chars) /\ Len(<<"/">>) = 1
    BY DEF Chars
  <2>3. 1 < Len(p)
    BY <1>1, RootIs
  <2> QED
    BY <2>1, <2>2, <2>3
<1>2. CASE p # Root /\ IsPrefix(Root, p)
  <2>1. Len(Root) <= Len(p) /\ Len(p) \in Nat
    BY <1>2 DEF IsPrefix
  <2>2. PICK n : n = Len(p) - Len(Root)
    OBVIOUS
  <2>3. n \in Nat /\ n < Len(p) /\ Len(Root) + n = Len(p) /\ Len(Root) + n <= Len(p) /\ Len(Root) \in Nat
    BY <2>1, <2>2, RootIs
  <2>4. Part(SubSeq(p, Len(Root) + 1, Len(Root) + n), p, Len(Root), n, Chars)
    BY <2>3, PartIs
  <2>5. Unexpand(p) = SubSeq(p, Len(Root) + 1, Len(Root) + n)
    BY <1>2, <2>3 DEF Unexpand
  <2>6. Part(Unexpand(p), p, Len(Root), n, Chars)
    BY <2>4, <2>5
  <2> QED
    BY <2>3, <2>6 DEF Part
<1>3. CASE p # Root /\ ~IsPrefix(Root, p)
  BY <1>3 DEF Unexpand
<1> QED
  BY <1>1, <1>2, <1>3

\* The linker's name is found where it is, and nowhere behind unless it is the
\* program's name as well.
LEMMA LinkerFound ==
  ASSUME NEW argv, NEW linker \in Seq(Chars), NEW a0 \in Seq(Chars), NEW path \in Seq(Chars),
         NEW R \in Argvs, Laid(argv, linker, a0, path, R)
  PROVE  LET real == LastAt(Line(argv), linker, 4 + Len(linker)) IN
           /\ real \in 1..4 + Len(linker) /\ Str(Line(argv), real) = linker
           /\ Absolute(linker) /\ a0 # linker => real = 1
<1>1. PICK mem, N : mem = Line(argv) /\ N = Len(linker)
  OBVIOUS
<1>2. N \in Nat /\ argv \in Argvs /\ 1 \in 1..Len(argv) /\ 2 \in 1..Len(argv) /\ 3 \in 1..Len(argv)
      /\ argv[1] = linker /\ argv[2] = Dash /\ argv[3] = a0
  BY <1>1, ArgvTyped DEF Laid
<1>3. mem \in Memory /\ Offset(argv, 1) = 1 /\ Offset(argv, 2) = 2 + N /\ Offset(argv, 3) = 4 + N
  <2>1. Spread(argv, linker, a0, path, R, 5 + Len(linker) + Len(a0) + Len(path))
    BY IsSpread
  <2> QED
    BY <1>1, <2>1 DEF Spread
<1>4. Holds(mem, 1, linker) /\ Holds(mem, 2 + N, Dash) /\ Holds(mem, 4 + N, a0)
  BY <1>1, <1>2, <1>3, LineHolds
<1>5. Str(mem, 1) = linker /\ Str(mem, 4 + N) = a0
  BY <1>3, <1>4, StrOf
<1> DEFINE S == {k \in Nat : k \in 0..3 + N /\ Str(mem, 4 + N - k) = linker}
           Fits(p) == Str(mem, p) = linker /\ \A q \in p + 1..4 + N : Str(mem, q) # linker
<1>6. \E p \in 1..4 + N : Fits(p)
  <2>1. 3 + N \in S
    <3>1. 4 + N - (3 + N) = 1 /\ 3 + N \in 0..3 + N
      BY <1>2
    <3> QED
      BY <1>5, <3>1
  <2>2. PICK k \in S : \A n \in S : k <= n
    <3>1. S \subseteq Nat /\ S # {}
      BY <2>1
    <3> HIDE DEF S
    <3> QED
      BY <3>1, LeastElement
  <2>3. k \in 0..3 + N /\ Str(mem, 4 + N - k) = linker
    OBVIOUS
  <2>4. PICK p : p = 4 + N - k
    OBVIOUS
  <2>5. p \in 1..4 + N /\ Str(mem, p) = linker
    BY <1>2, <2>3, <2>4
  <2>6. ASSUME NEW q \in p + 1..4 + N, Str(mem, q) = linker PROVE FALSE
    <3>1. 4 + N - q \in Nat /\ 4 + N - q \in 0..3 + N /\ 4 + N - (4 + N - q) = q /\ 4 + N - q < k
      BY <1>2, <2>3, <2>4, <2>5
    <3>2. 4 + N - q \in S
      BY <2>6, <3>1
    <3>3. k <= 4 + N - q /\ k \in Nat
      <4> HIDE DEF S
      <4> QED
        BY <1>2, <2>2, <2>3, <3>2
    <3> QED
      BY <3>1, <3>3
  <2> QED
    BY <2>5, <2>6
<1>7. PICK real : real = LastAt(mem, linker, 4 + N)
  OBVIOUS
<1>8. real \in 1..4 + N /\ Fits(real)
  <2>1. real = CHOOSE p \in 1..4 + N : Fits(p)
    BY <1>7 DEF LastAt
  <2> HIDE DEF Fits
  <2> QED
    BY <1>6, <2>1
<1>9. ASSUME Absolute(linker), a0 # linker, real # 1 PROVE FALSE
  <2>1. real \in 2..4 + N /\ Str(mem, real) = linker /\ linker # <<>> /\ linker[1] = "/"
    BY <1>2, <1>8, <1>9 DEF Absolute
  <2>2. CASE real <= 1 + N
    <3>1. PICK d \in 0..N : d = real - 1 /\ d # 0
      BY <1>2, <2>1, <2>2, SMTT(40)
    <3>2. PICK t : t = SubSeq(linker, d + 1, Len(linker))
      OBVIOUS
    <3>3. Holds(mem, 1 + d, t)
      BY <1>1, <1>4, <3>1, <3>2, HoldsTail
    <3>4. Str(mem, real) = t
      <4>1. 1 + d = real
        BY <1>2, <2>1, <3>1
      <4> QED
        BY <1>3, <3>3, <4>1, StrOf
    <3>5. Len(t) = N - d
      <4>1. PICK n : n = N - d
        OBVIOUS
      <4>2. n \in Nat /\ d \in Nat /\ d + n <= Len(linker) /\ d + n = Len(linker)
        BY <1>1, <1>2, <3>1, <4>1, SMTT(40)
      <4>3. Part(SubSeq(linker, d + 1, d + n), linker, d, n, Chars)
        BY <4>2, PartIs
      <4> QED
        BY <3>2, <4>1, <4>2, <4>3 DEF Part
    <3> QED
      BY <1>1, <1>2, <2>1, <3>1, <3>4, <3>5
  <2>3. CASE real = 2 + N
    <3>1. linker = Dash
      BY <1>3, <1>4, <2>1, <2>3, StrOf
    <3> QED
      BY <2>1, <3>1 DEF Dash
  <2>4. CASE real = 3 + N
    <3>1. PICK t : t = SubSeq(Dash, 1 + 1, Len(Dash))
      OBVIOUS
    <3>2. Len(Dash) = 1 /\ 1 \in 0..Len(Dash)
      BY DEF Dash
    <3>3. Holds(mem, (2 + N) + 1, t)
      BY <1>4, <3>1, <3>2, HoldsTail
    <3>4. Str(mem, real) = t
      <4>1. (2 + N) + 1 = real
        BY <1>2, <2>4
      <4> QED
        BY <1>3, <3>3, <4>1, StrOf
    <3>5. t = <<>>
      BY <3>1, <3>2 DEF Dash
    <3> QED
      BY <2>1, <3>4, <3>5
  <2>5. CASE real = 4 + N
    BY <1>5, <1>9, <2>1, <2>5
  <2> QED
    BY <1>2, <2>1, <2>2, <2>3, <2>4, <2>5
<1> QED
  BY <1>1, <1>7, <1>8, <1>9


\* mem with a path, found at e, turned into the guest's or left as it was.
Hidden(mem, e, path, known) ==
  IF known /\ Unexpand(path) # path THEN Put(mem, e, Append(Unexpand(path), NUL)) ELSE mem

\* u is as mem but for n cells from e on.
Alike(u, mem, e, n) ==
  /\ u \in Memory /\ Len(u) = Len(mem) /\ Len(mem) \in Nat
  /\ \A i \in 1..Len(mem) : i \notin e..e + n - 1 => u[i] = mem[i]

LEMMA HiddenIs ==
  ASSUME NEW mem \in Memory, NEW e, NEW path, Holds(mem, e, path), NEW known
  PROVE  Alike(Hidden(mem, e, path, known), mem, e, Len(path))
<1>1. path \in Seq(Chars) /\ e \in Nat /\ e >= 1 /\ Len(path) \in Nat
  BY DEF Holds
<1>2. mem \in Seq(Cells) /\ Len(mem) \in Nat
  BY DEF Memory
<1>3. CASE known /\ Unexpand(path) # path
  <2>1. PICK p : p = Unexpand(path)
    OBVIOUS
  <2>2. p \in Seq(Chars) /\ Len(p) < Len(path)
    BY <1>1, <1>3, <2>1, Unexpands
  <2>3. PICK a : a = Append(p, NUL)
    OBVIOUS
  <2>4. a \in Memory /\ Len(a) = Len(p) + 1 /\ Len(p) \in Nat
    BY <2>2, <2>3, CharsInCells
  <2>5. PICK u : u = Put(mem, e, a)
    OBVIOUS
  <2>6. Written(u, mem, e, a)
    BY <1>1, <2>4, <2>5, PutIs
  <2>7. ASSUME NEW i \in 1..Len(mem), i \notin e..e + Len(path) - 1 PROVE u[i] = mem[i]
    <3>1. i \notin e..e + Len(a) - 1
      BY <1>1, <1>2, <2>2, <2>4, <2>7
    <3> QED
      BY <2>6, <3>1 DEF Written
  <2>8. Hidden(mem, e, path, known) = u
    BY <1>3, <2>1, <2>3, <2>5 DEF Hidden
  <2> QED
    BY <1>2, <2>6, <2>7, <2>8 DEF Written, Alike
<1>4. CASE ~(known /\ Unexpand(path) # path)
  BY <1>2, <1>4 DEF Hidden, Alike
<1> QED
  BY <1>3, <1>4

\* What is outside of those cells is still there.
LEMMA HoldsBeside ==
  ASSUME NEW u, NEW mem, NEW e \in Nat, NEW n \in Nat, Alike(u, mem, e, n),
         NEW p, NEW t, Holds(mem, p, t), p + Len(t) < e \/ p >= e + n
  PROVE  Holds(u, p, t)
<1>1. p \in Nat /\ p >= 1 /\ Len(t) \in Nat /\ p + Len(t) <= Len(mem) /\ Len(mem) \in Nat /\ Len(u) = Len(mem)
  BY DEF Holds, Alike
<1>2. ASSUME NEW i \in p..p + Len(t) PROVE u[i] = mem[i]
  <2>1. i \in 1..Len(mem) /\ i \notin e..e + n - 1
    BY <1>1
  <2> QED
    BY <2>1 DEF Alike
<1>3. p + Len(t) \in p..p + Len(t) /\ \A j \in p..p + Len(t) - 1 : j \in p..p + Len(t)
  BY <1>1
<1> QED
  BY <1>1, <1>2, <1>3 DEF Holds

LEMMA BehindBeside ==
  ASSUME NEW u, NEW mem, NEW e \in Nat, NEW n \in Nat, Alike(u, mem, e, n),
         NEW m, NEW s, Behind(mem, m, s), e + n <= m + 1
  PROVE  Behind(u, m, s)
<1>1. m \in Nat /\ Len(s) \in Nat /\ m + Len(s) <= Len(mem) /\ Len(mem) \in Nat /\ Len(u) = Len(mem)
  BY DEF Behind, Alike
<1>2. ASSUME NEW j \in 1..Len(s) PROVE u[m + j] = s[j]
  <2>1. m + j \in 1..Len(mem) /\ m + j \notin e..e + n - 1
    BY <1>1
  <2> QED
    BY <2>1 DEF Alike, Behind
<1> QED
  BY <1>1, <1>2 DEF Behind

\* f is what the constructor leaves of a command line of M cells: the
\* arguments V at its start, NULs behind them if all of it was read.
Tidied(f, V, M) ==
  /\ V \in Argvs /\ f.argv = V
  /\ M <= CmdlineBuf =>
       /\ ~f.wild
       /\ f.line = Line(V) \o [i \in 1..Len(f.line) - Len(Line(V)) |-> NUL]

\* The last steps of the constructor, when it has found the linker's name, a
\* name s for the program, and the pointers to the arguments.
Moving(mem, ptr, s, real, M) ==
  LET arg0 == Append(s, NUL)
      rest == Shifted(Put(mem, real, arg0), ptr, real + Len(arg0))
      used == Len(arg0) + rest.len
      size == Least(CmdlineBuf, M)
      end  == Zeroed(rest.mem, real - 1 + used, real - 1 + size)
  IN  [argv |-> [i \in DOMAIN rest.ptr |-> Str(end, rest.ptr[i])], line |-> end,
       wild |-> used > size \/ real > 1]

LEMMA MovingIs ==
  ASSUME NEW mem \in Memory, NEW R \in Argvs, NEW m \in Nat, Behind(mem, m, Line(R)),
         Len(mem) = m + Len(Line(R)), NEW ptr, Pointers(ptr, R, m),
         NEW s \in Seq(Chars), Len(s) + 1 <= m
  PROVE  Tidied(Moving(mem, ptr, s, 1, Len(mem)), <<s>> \o R, Len(mem))
<1>1. PICK a, V, M : a = Append(s, NUL) /\ V = <<s>> \o R /\ M = Len(mem)
  OBVIOUS
<1>2. PICK r : r = Shifted(Put(mem, 1, a), ptr, 1 + Len(a))
  OBVIOUS
<1>3. PICK used, size : used = Len(a) + r.len /\ size = Least(CmdlineBuf, M)
  OBVIOUS
<1>4. PICK end : end = Zeroed(r.mem, used, size)
  OBVIOUS
<1>5. M \in Nat /\ CmdlineBuf \in Nat /\ size \in Nat /\ (M <= CmdlineBuf => size = M)
  <2>1. M \in Nat /\ CmdlineBuf \in Nat
    BY <1>1, ExecAssumption DEF Behind
  <2> QED
    BY <1>3, <2>1 DEF Least
<1>6. /\ end \in Memory /\ Len(end) = M /\ used = Len(Line(V)) /\ used \in Nat /\ used <= M
      /\ BeginsWith(end, Line(V))
      /\ \A i \in 1..M : i > used /\ i <= size => end[i] = NUL
      /\ [i \in DOMAIN r.ptr |-> Str(end, r.ptr[i])] = V
  <2>a. size \in Nat
    BY <1>5
  <2>1. Packed(end, r.ptr, used, size, V, Len(mem))
    BY <1>1, <1>2, <1>3, <1>4, <2>a, Compacted
  <2> QED
    BY <1>1, <2>1 DEF Packed
<1>7. PICK f : f = Moving(mem, ptr, s, 1, M)
  OBVIOUS
<1>8. f.argv = [i \in DOMAIN r.ptr |-> Str(end, r.ptr[i])] /\ f.line = end /\ f.wild = (used > size)
  <2>1. f = [argv |-> [i \in DOMAIN r.ptr |-> Str(Zeroed(r.mem, 1 - 1 + used, 1 - 1 + size), r.ptr[i])],
             line |-> Zeroed(r.mem, 1 - 1 + used, 1 - 1 + size), wild |-> used > size \/ 1 > 1]
    BY <1>1, <1>2, <1>3, <1>7, Zenon DEF Moving
  <2>2. 1 - 1 + used = used /\ 1 - 1 + size = size /\ ~(1 > 1)
    BY <1>5, <1>6
  <2>3. Zeroed(r.mem, 1 - 1 + used, 1 - 1 + size) = end
    BY <1>4, <2>2
  <2>4. f = [argv |-> [i \in DOMAIN r.ptr |-> Str(end, r.ptr[i])], line |-> end,
             wild |-> used > size \/ 1 > 1]
    BY <2>1, <2>3, Zenon
  <2> QED
    BY <2>2, <2>4
<1>9. V \in Argvs
  <2>1. Led(V, s, R)
    BY <1>1, Together
  <2> QED
    BY <2>1 DEF Led
<1>10. ASSUME M <= CmdlineBuf
       PROVE  ~f.wild /\ f.line = Line(V) \o [i \in 1..Len(f.line) - Len(Line(V)) |-> NUL]
  <2>1. size = M /\ ~(used > size)
    BY <1>5, <1>6, <1>10
  <2>2. PICK z : z = [i \in 1..M - used |-> NUL]
    OBVIOUS
  <2>3. M - used \in Nat
    BY <1>5, <1>6
  <2>4. z \in Seq(Cells) /\ Len(z) = M - used /\ \A i \in 1..M - used : z[i] = NUL
    BY <2>2, <2>3, CharsAre
  <2>5. PICK x : x = Line(V)
    OBVIOUS
  <2>6. x \in Seq(Cells) /\ Len(x) = used
    <3>1. Lines(V) \in [0..Len(V) -> Memory] /\ Len(V) \in Nat
      BY <1>9, LinesAre, ArgvTyped
    <3>2. x \in Memory
      BY <2>5, <3>1 DEF Line
    <3> QED
      BY <1>6, <2>5, <3>2 DEF Memory
  <2>7. PICK y : y = x \o z
    OBVIOUS
  <2>8. y \in Seq(Cells) /\ Joined(y, x, z)
    BY <2>4, <2>6, <2>7, Joins
  <2>9. end \in Seq(Cells)
    BY <1>6 DEF Memory
  <2>10. Len(y) = M
    BY <1>5, <1>6, <2>4, <2>6, <2>8 DEF Joined
  <2>11. ASSUME NEW i \in 1..M PROVE end[i] = y[i]
    <3>1. CASE i <= used
      <4>1. i \in 1..used
        BY <1>6, <3>1
      <4> QED
        BY <1>6, <2>5, <2>6, <2>8, <4>1 DEF BeginsWith, Joined
    <3>2. CASE ~(i <= used)
      <4>1. i > used /\ i <= size /\ i - used \in 1..M - used /\ used + (i - used) = i
        BY <1>5, <1>6, <2>1, <3>2
      <4>2. end[i] = NUL
        BY <1>6, <4>1
      <4>3. y[used + (i - used)] = z[i - used]
        BY <2>4, <2>6, <2>8, <4>1 DEF Joined
      <4> QED
        BY <2>4, <4>1, <4>2, <4>3
    <3> QED
      BY <3>1, <3>2
  <2>12. end = y
    BY <1>6, <2>8, <2>9, <2>10, <2>11, SeqEqual
  <2>13. f.line = x \o z /\ Len(f.line) - Len(x) = M - used
    BY <1>6, <1>8, <2>6, <2>7, <2>12
  <2> QED
    BY <1>8, <2>1, <2>2, <2>5, <2>13
<1>11. f.argv = V
  BY <1>6, <1>8
<1>12. Tidied(f, V, M)
  BY <1>9, <1>10, <1>11 DEF Tidied
<1> QED
  BY <1>1, <1>7, <1>12


After(mem, p) == p + Len(Str(mem, p)) + 1

\* Where the constructor looks for the program's path.
ExeAt(mem, real) ==
  IF Str(mem, After(mem, real)) = Dash THEN After(mem, After(mem, After(mem, real)))
  ELSE After(mem, real)

\* Where the program's name begins once the root is taken off.
NameAt(mem, p) == IF IsPrefix(Root, Str(mem, p)) THEN p + Len(Root) ELSE p

\* The constructor, in the case that it has anything to do.
Corrected(argv, f) ==
  LET mem  == Line(argv)
      ptr  == [i \in DOMAIN Own(argv) |-> Offset(argv, Own(argv)[i])]
      name == NameAt(mem, ptr[1])
      real == LastAt(mem, argv[1], ptr[1])
      exe  == ExeAt(mem, real)
      now  == Hidden(mem, exe, Str(mem, exe), argv[1] \in LdLinux)
      done == Moving(now, [ptr EXCEPT ![1] = real], Str(now, name), real, Len(mem))
  IN  /\ real = name => f = [argv |-> SeenBy(argv), line |-> mem, exe |-> <<>>, wild |-> FALSE]
      /\ real # name =>
           /\ f.argv = done.argv /\ f.line = done.line /\ f.wild = done.wild
           /\ f.exe = IF argv[1] \in LdLinux THEN Unexpand(Realpath(Unexpand(Str(mem, exe)))) ELSE <<>>

LEMMA FixupIs == ASSUME NEW argv PROVE Corrected(argv, Fixup(argv))
<1> DEFINE mem0 == Line(argv)
           ptr0 == [i \in DOMAIN Own(argv) |-> Offset(argv, Own(argv)[i])]
           name == NameAt(mem0, ptr0[1])
           real == LastAt(mem0, argv[1], ptr0[1])
           known == argv[1] \in LdLinux
           exe  == ExeAt(mem0, real)
           path == Unexpand(Str(mem0, exe))
           mem1 == Hidden(mem0, exe, Str(mem0, exe), known)
           arg0 == Append(Str(mem1, name), NUL)
           rest == Shifted(Put(mem1, real, arg0), [ptr0 EXCEPT ![1] = real], real + Len(arg0))
           used == Len(arg0) + rest.len
           size == Least(CmdlineBuf, Len(mem0))
           mem2 == Zeroed(rest.mem, real - 1 + used, real - 1 + size)
           f    == IF real = name
                   THEN [argv |-> SeenBy(argv), line |-> mem0, exe |-> <<>>, wild |-> FALSE]
                   ELSE [argv |-> [i \in DOMAIN rest.ptr |-> Str(mem2, rest.ptr[i])],
                         line |-> mem2,
                         exe  |-> IF known THEN Unexpand(Realpath(path)) ELSE <<>>,
                         wild |-> used > size \/ real > 1]
           done == Moving(mem1, [ptr0 EXCEPT ![1] = real], Str(mem1, name), real, Len(mem0))
<1>1. Fixup(argv) = f
  BY DEF Fixup, NameAt, ExeAt, After, Hidden, Dash
<1>2. done = [argv |-> [i \in DOMAIN rest.ptr |-> Str(mem2, rest.ptr[i])], line |-> mem2,
              wild |-> used > size \/ real > 1]
  BY Zenon DEF Moving
<1>3. ASSUME real # name
      PROVE  /\ f.argv = done.argv /\ f.line = done.line /\ f.wild = done.wild
             /\ f.exe = IF known THEN Unexpand(Realpath(path)) ELSE <<>>
  <2> HIDE DEF mem0, ptr0, name, real, known, exe, path, mem1, rest, used, size, mem2, done
  <2> QED
    BY <1>2, <1>3
<1>4. /\ real = name =>
           Fixup(argv) = [argv |-> SeenBy(argv), line |-> mem0, exe |-> <<>>, wild |-> FALSE]
      /\ real # name =>
           /\ Fixup(argv).argv = done.argv /\ Fixup(argv).line = done.line /\ Fixup(argv).wild = done.wild
           /\ Fixup(argv).exe = IF known THEN Unexpand(Realpath(path)) ELSE <<>>
  <2> HIDE DEF mem0, ptr0, name, real, known, path, rest, used, size, mem2, done
  <2> QED
    BY <1>1, <1>3
<1> QED
  BY <1>4, Zenon DEF Corrected


\* The linker leaves the program its name and its arguments.
Leaves(argv, a0, R) ==
  /\ DOMAIN Own(argv) = 1..1 + Len(R) /\ Own(argv)[1] = 3
  /\ \A j \in 1..Len(R) : Own(argv)[1 + j] = 4 + j
  /\ SeenBy(argv) = <<a0>> \o R

LEMMA OwnIs ==
  ASSUME NEW argv, NEW linker, NEW a0 \in Seq(Chars), NEW path, NEW R \in Argvs, Laid(argv, linker, a0, path, R)
  PROVE  Leaves(argv, a0, R)
<1>1. PICK N \in Nat : N = Len(R)
  BY ArgvTyped
<1>2. Len(argv) = 4 + N /\ Len(argv) - 4 = N /\ argv[2] = <<"--argv0">>
  BY <1>1 DEF Laid, Dash
<1>3. PICK h \in Seq(Nat) : h = <<3>>
  <2>1. <<3>> \in Seq(Nat)
    OBVIOUS
  <2> QED
    BY <2>1, Zenon
<1>4. PICK t : t = [i \in 1..Len(argv) - 4 |-> i + 4]
  OBVIOUS
<1>5. t \in Seq(Nat) /\ Len(t) = N /\ \A i \in 1..N : t[i] = i + 4
  <2>1. t = [i \in 1..N |-> i + 4]
    BY <1>2, <1>4
  <2> QED
    BY <2>1
<1>6. PICK own : own = Own(argv)
  OBVIOUS
<1>7. own = h \o t
  BY <1>2, <1>3, <1>4, <1>6 DEF Own
<1>8. own \in Seq(Nat) /\ Joined(own, h, t)
  BY <1>5, <1>7, Joins
<1>9. Len(h) = 1 /\ h[1] = 3
  BY <1>3
<1>10. Len(own) = 1 + N /\ own[1] = 3 /\ \A j \in 1..N : own[1 + j] = 4 + j
  <2>1. ASSUME NEW j \in 1..N PROVE own[1 + j] = 4 + j
    <3>1. own[1 + j] = t[j]
      BY <1>5, <1>8, <1>9 DEF Joined
    <3> QED
      BY <1>5, <3>1
  <2> QED
    BY <1>5, <1>8, <1>9, <2>1 DEF Joined
<1>11. DOMAIN own = 1..1 + N
  BY <1>8, <1>10
<1>12. PICK V : V = <<a0>> \o R
  OBVIOUS
<1>13. V \in Argvs /\ Len(V) = 1 + N /\ V[1] = a0 /\ \A j \in 1..N : V[1 + j] = R[j]
  <2>1. Led(V, a0, R)
    BY <1>12, Together
  <2> QED
    BY <1>1, <2>1 DEF Led
<1>14. PICK seen : seen = SeenBy(argv)
  OBVIOUS
<1>15. seen = [i \in 1..1 + N |-> argv[own[i]]]
  BY <1>6, <1>11, <1>14 DEF SeenBy
<1>16. ASSUME NEW i \in 1..1 + N PROVE seen[i] = V[i]
  <2>1. seen[i] = argv[own[i]]
    BY <1>15
  <2>2. CASE i = 1
    BY <1>10, <1>13, <2>1, <2>2 DEF Laid
  <2>3. CASE i # 1
    <3>1. i - 1 \in 1..N /\ 1 + (i - 1) = i
      BY <2>3
    <3>2. own[i] = 4 + (i - 1) /\ V[i] = R[i - 1]
      BY <1>10, <1>13, <3>1
    <3>3. argv[4 + (i - 1)] = R[i - 1]
      BY <1>1, <3>1 DEF Laid
    <3> QED
      BY <2>1, <3>2, <3>3
  <2> QED
    BY <2>2, <2>3
<1>17. V = [i \in 1..1 + N |-> V[i]]
  <2>1. V \in Seq(Seq(Chars))
    BY <1>13 DEF Argvs
  <2> QED
    BY <1>13, <2>1
<1>18. seen = V
  BY <1>15, <1>16, <1>17
<1> QED
  BY <1>1, <1>6, <1>10, <1>11, <1>12, <1>14, <1>18 DEF Leaves

\* What the program is told by the constructor.
Told(f, argv, a0, path, R) ==
  /\ a0 = argv[1] /\ ~IsPrefix(Root, a0) => ~f.wild
  /\ ~f.wild => \E s \in Seq(Chars) : f.argv = <<s>> \o R /\ (~IsPrefix(Root, a0) => s = a0)
  /\ Absolute(argv[1]) /\ a0 # argv[1] =>
       /\ \E V : Tidied(f, V, Len(Line(argv)))
       /\ f.exe = IF argv[1] \in LdLinux THEN Unexpand(Realpath(Unexpand(path))) ELSE <<>>

\* The name that is left when the root is taken off.
LEMMA NameIs ==
  ASSUME NEW mem \in Memory, NEW u \in Memory, NEW p, NEW t, Holds(mem, p, t), Holds(u, p, t)
  PROVE  \E s \in Seq(Chars) : /\ Str(u, NameAt(mem, p)) = s /\ Len(s) <= Len(t)
                               /\ ~IsPrefix(Root, t) => s = t
                               /\ NameAt(mem, p) >= p /\ (NameAt(mem, p) # p <=> IsPrefix(Root, t))
<1>1. t \in Seq(Chars) /\ Len(t) \in Nat /\ p \in Nat
  BY DEF Holds
<1>2. Str(mem, p) = t /\ Str(u, p) = t
  BY StrOf
<1>3. CASE IsPrefix(Root, t)
  <2>1. PICK d : d = Len(Root)
    OBVIOUS
  <2>2. d \in 0..Len(t) /\ d \in Nat /\ d >= 2
    BY <1>1, <1>3, <2>1, RootIs DEF IsPrefix
  <2>3. PICK s : s = SubSeq(t, d + 1, Len(t))
    OBVIOUS
  <2>4. Holds(u, p + d, s)
    BY <2>2, <2>3, HoldsTail
  <2>5. s \in Seq(Chars) /\ Len(s) <= Len(t)
    <3>1. PICK n : n = Len(t) - d
      OBVIOUS
    <3>2. n \in Nat /\ d + n <= Len(t) /\ d + n = Len(t) /\ n <= Len(t)
      BY <1>1, <2>2, <3>1
    <3>3. Part(SubSeq(t, d + 1, d + n), t, d, n, Chars)
      BY <1>1, <2>2, <3>2, PartIs
    <3> QED
      BY <2>3, <3>2, <3>3 DEF Part
  <2>6. Str(u, p + d) = s
    BY <2>4, StrOf
  <2>7. NameAt(mem, p) = p + d /\ p + d >= p /\ p + d # p
    BY <1>1, <1>2, <1>3, <2>1, <2>2 DEF NameAt
  <2> QED
    BY <1>3, <2>5, <2>6, <2>7
<1>4. CASE ~IsPrefix(Root, t)
  BY <1>1, <1>2, <1>4 DEF NameAt
<1> QED
  BY <1>3, <1>4

\* A text that is where the search for it begins is found there.
LEMMA FoundHere ==
  ASSUME NEW mem, NEW p \in Nat, p >= 1 PROVE LastAt(mem, Str(mem, p), p) = p
<1>1. PICK text, real : text = Str(mem, p) /\ real = LastAt(mem, text, p)
  OBVIOUS
<1> DEFINE Fits(x) == Str(mem, x) = text /\ \A q \in x + 1..p : Str(mem, q) # text
<1>2. p \in 1..p /\ Fits(p)
  BY <1>1
<1>3. real \in 1..p /\ Fits(real)
  <2>1. real = CHOOSE x \in 1..p : Fits(x)
    BY <1>1 DEF LastAt
  <2> HIDE DEF Fits
  <2> QED
    BY <1>2, <2>1
<1>4. ~(p \in real + 1..p)
  BY <1>1, <1>3
<1>5. real = p
  BY <1>3, <1>4
<1> QED
  BY <1>1, <1>5

LEMMA FixupNamed ==
  ASSUME NEW argv, NEW linker \in Seq(Chars), NEW a0 \in Seq(Chars), NEW path \in Seq(Chars),
         NEW R \in Argvs, Laid(argv, linker, a0, path, R)
  PROVE  Told(Fixup(argv), argv, a0, path, R)
<1>1. PICK f, mem, N : f = Fixup(argv) /\ mem = Line(argv) /\ N = Len(linker)
  OBVIOUS
<1>2. PICK m : m = 5 + Len(linker) + Len(a0) + Len(path)
  OBVIOUS
<1>3. /\ Offset(argv, 1) = 1 /\ Offset(argv, 2) = 2 + N /\ Offset(argv, 3) = 4 + N
      /\ Offset(argv, 4) = 5 + N + Len(a0) /\ m = 5 + N + Len(a0) + Len(path)
      /\ Behind(mem, m, Line(R)) /\ Len(mem) = m + Len(Line(R)) /\ mem \in Memory
      /\ Len(R) \in Nat /\ \A j \in 1..Len(R) : Offset(argv, 4 + j) = m + Offset(R, j)
  <2>1. Spread(argv, linker, a0, path, R, m)
    BY <1>2, IsSpread
  <2> QED
    BY <1>1, <1>2, <2>1 DEF Spread
<1>4. N \in Nat /\ Len(a0) \in Nat /\ Len(path) \in Nat /\ m \in Nat
  <2>1. N \in Nat /\ Len(a0) \in Nat /\ Len(path) \in Nat
    BY <1>1
  <2> QED
    BY <1>3, <2>1
<1>5. /\ argv \in Argvs /\ argv[1] = linker /\ argv[2] = Dash /\ argv[3] = a0 /\ argv[4] = path
      /\ 1 \in 1..Len(argv) /\ 2 \in 1..Len(argv) /\ 3 \in 1..Len(argv) /\ 4 \in 1..Len(argv)
  BY <1>3 DEF Laid
<1>6. Holds(mem, 2 + N, Dash) /\ Holds(mem, 4 + N, a0) /\ Holds(mem, 5 + N + Len(a0), path)
  BY <1>1, <1>3, <1>5, LineHolds
<1>7. PICK ptr : ptr = [i \in DOMAIN Own(argv) |-> Offset(argv, Own(argv)[i])]
  OBVIOUS
<1>8. /\ DOMAIN ptr = 1..1 + Len(R) /\ ptr[1] = 4 + N /\ SeenBy(argv) = <<a0>> \o R
      /\ \A j \in 1..Len(R) : ptr[1 + j] = m + Offset(R, j)
  <2>1. Leaves(argv, a0, R)
    BY OwnIs
  <2>2. 1 \in 1..1 + Len(R) /\ \A j \in 1..Len(R) : 1 + j \in 1..1 + Len(R)
    BY <1>3
  <2> QED
    BY <1>3, <1>7, <2>1, <2>2 DEF Leaves
<1>9. PICK name, real, exe, now, known :
        /\ name = NameAt(mem, 4 + N) /\ real = LastAt(mem, linker, 4 + N) /\ exe = ExeAt(mem, real)
        /\ known = (linker \in LdLinux) /\ now = Hidden(mem, exe, Str(mem, exe), linker \in LdLinux)
  OBVIOUS
<1>10. real \in 1..4 + N /\ Str(mem, real) = linker /\ (Absolute(linker) /\ a0 # linker => real = 1)
  BY <1>1, <1>9, LinkerFound
<1>11. PICK to : to = [ptr EXCEPT ![1] = real]
  OBVIOUS
<1>12. /\ real = name => f = [argv |-> SeenBy(argv), line |-> mem, exe |-> <<>>, wild |-> FALSE]
       /\ real # name =>
            /\ f.argv = Moving(now, to, Str(now, name), real, Len(mem)).argv
            /\ f.line = Moving(now, to, Str(now, name), real, Len(mem)).line
            /\ f.wild = Moving(now, to, Str(now, name), real, Len(mem)).wild
            /\ f.exe = IF linker \in LdLinux THEN Unexpand(Realpath(Unexpand(Str(mem, exe)))) ELSE <<>>
  <2>1. Corrected(argv, f)
    BY <1>1, FixupIs
  <2>2. ptr[1] = 4 + N /\ argv[1] = linker
    BY <1>5, <1>8
  <2> QED
    BY <1>1, <1>7, <1>9, <1>11, <2>1, <2>2, ZenonT(40) DEF Corrected
<1>13. ASSUME real = name
       PROVE  f.wild = FALSE /\ f.argv = <<a0>> \o R /\ Str(mem, name) = linker /\ name = 4 + N /\ a0 = linker
  <2>1. f.wild = FALSE /\ f.argv = <<a0>> \o R
    BY <1>8, <1>12, <1>13
  <2>2. \E s \in Seq(Chars) : name >= 4 + N
    BY <1>3, <1>6, <1>9, NameIs
  <2>3. name = 4 + N
    BY <1>4, <1>10, <1>13, <2>2
  <2>4. a0 = linker
    BY <1>3, <1>6, <1>10, <1>13, <2>3, StrOf
  <2> QED
    BY <1>10, <1>13, <2>1, <2>3, <2>4
<1>14. ASSUME real # name, real > 1 PROVE f.wild
  BY <1>12, <1>14 DEF Moving
<1>15. ASSUME real # name, real = 1
       PROVE  /\ \E s \in Seq(Chars) : /\ f.argv = <<s>> \o R /\ (~IsPrefix(Root, a0) => s = a0)
                                       /\ Tidied(f, <<s>> \o R, Len(mem))
              /\ f.exe = IF linker \in LdLinux THEN Unexpand(Realpath(Unexpand(path))) ELSE <<>>
  <2>1. Str(mem, 2 + N) = Dash /\ Str(mem, 4 + N) = a0 /\ Str(mem, 5 + N + Len(a0)) = path
    BY <1>3, <1>6, StrOf
  <2>2. exe = 5 + N + Len(a0)
    <3>1. After(mem, 1) = 2 + N
      <4>1. After(mem, 1) = 1 + N + 1
        BY <1>1, <1>10, <1>15 DEF After
      <4> QED
        BY <1>4, <4>1
    <3>2. After(mem, 2 + N) = 4 + N
      <4>1. Len(Dash) = 1
        BY DEF Dash
      <4>2. After(mem, 2 + N) = 2 + N + Len(Dash) + 1
        BY <2>1 DEF After
      <4> QED
        BY <1>4, <4>1, <4>2
    <3>3. After(mem, 4 + N) = 5 + N + Len(a0)
      <4>1. After(mem, 4 + N) = 4 + N + Len(a0) + 1
        BY <2>1 DEF After
      <4> QED
        BY <1>4, <4>1
    <3> QED
      BY <1>9, <1>15, <2>1, <3>1, <3>2, <3>3 DEF ExeAt
  <2>3. Str(mem, exe) = path
    BY <2>1, <2>2
  <2>4. Alike(now, mem, exe, Len(path))
    <3>1. Holds(mem, exe, path)
      BY <1>6, <2>2
    <3>2. now = Hidden(mem, exe, path, linker \in LdLinux)
      BY <1>9, <2>3
    <3> QED
      BY <1>3, <3>1, <3>2, HiddenIs
  <2>5. exe \in Nat /\ (4 + N) + Len(a0) < exe /\ exe + Len(path) <= m + 1 /\ Len(path) \in Nat
    BY <1>3, <1>4, <2>2
  <2>6. Holds(now, 4 + N, a0)
    BY <1>6, <2>4, <2>5, HoldsBeside
  <2>7. Behind(now, m, Line(R))
    BY <1>3, <2>4, <2>5, BehindBeside
  <2>8. now \in Memory /\ Len(now) = m + Len(Line(R)) /\ Len(now) = Len(mem)
    BY <1>3, <2>4 DEF Alike
  <2>9. PICK s \in Seq(Chars) : /\ Str(now, name) = s /\ Len(s) <= Len(a0)
                                /\ ~IsPrefix(Root, a0) => s = a0
    BY <1>3, <1>6, <1>9, <2>6, <2>8, NameIs
  <2>10. Len(s) + 1 <= m
    BY <1>3, <1>4, <2>9
  <2>11. Pointers(to, R, m)
    <3>1. 1 \in 1..1 + Len(R) /\ 1 + Len(R) \in Nat /\ \A j \in 1..Len(R) : 1 + j \in 1..1 + Len(R) /\ 1 + j # 1
      BY <1>3
    <3>2. DOMAIN to = 1..1 + Len(R) /\ to[1] = 1 /\ \A j \in 1..Len(R) : to[1 + j] = ptr[1 + j]
      BY <1>8, <1>11, <1>15, <3>1
    <3>3. Len(to) = 1 + Len(R)
      BY <3>1, <3>2
    <3> QED
      BY <1>8, <3>2, <3>3 DEF Pointers
  <2>12. PICK g : g = Moving(now, to, s, 1, Len(now))
    OBVIOUS
  <2>13. Tidied(g, <<s>> \o R, Len(now))
    BY <1>4, <2>7, <2>8, <2>10, <2>11, <2>12, MovingIs
  <2>14. f.argv = g.argv /\ f.line = g.line /\ f.wild = g.wild
    BY <1>12, <1>15, <2>8, <2>9, <2>12
  <2>15. Tidied(f, <<s>> \o R, Len(mem))
    BY <2>8, <2>13, <2>14 DEF Tidied
  <2>16. f.argv = <<s>> \o R
    BY <2>15 DEF Tidied
  <2>17. f.exe = IF linker \in LdLinux THEN Unexpand(Realpath(Unexpand(path))) ELSE <<>>
    BY <1>12, <1>15, <2>3
  <2> QED
    BY <2>9, <2>15, <2>16, <2>17
<1>16. ASSUME ~f.wild
       PROVE \E s \in Seq(Chars) : f.argv = <<s>> \o R /\ (~IsPrefix(Root, a0) => s = a0)
  <2>1. CASE real = name
    BY <1>13, <2>1
  <2>2. CASE real # name
    <3>1. real = 1
      BY <1>4, <1>10, <1>14, <1>16, <2>2
    <3> QED
      BY <1>15, <2>2, <3>1
  <2> QED
    BY <2>1, <2>2
<1>18. ASSUME a0 = linker, ~IsPrefix(Root, a0) PROVE ~f.wild
  <2>1. Str(mem, 4 + N) = linker
    BY <1>3, <1>6, <1>18, StrOf
  <2>2. 4 + N \in Nat /\ 4 + N >= 1
    BY <1>4
  <2>3. real = 4 + N
    BY <1>9, <2>1, <2>2, FoundHere
  <2>4. name = 4 + N
    BY <1>9, <1>18, <2>1 DEF NameAt
  <2> QED
    BY <1>12, <2>3, <2>4
<1>17. ASSUME Absolute(linker), a0 # linker
       PROVE  /\ \E V : Tidied(f, V, Len(mem))
              /\ f.exe = IF linker \in LdLinux THEN Unexpand(Realpath(Unexpand(path))) ELSE <<>>
  <2>1. real = 1 /\ real # name
    BY <1>10, <1>13, <1>17
  <2> QED
    BY <1>15, <2>1
<1> QED
  BY <1>1, <1>5, <1>16, <1>17, <1>18 DEF Told


-----------------------------------------------------------------------------
(* The arguments on their way.                                             *)

\* t is some arguments and then s.
Ends(s, t) == s \in Argvs /\ t \in Argvs /\ \E u \in Argvs : t = u \o s

\* argv is a first argument and then t.
Heads(argv, a, t) == a \in Seq(Chars) /\ t \in Argvs /\ argv = <<a>> \o t

LEMMA OneArg == ASSUME NEW a \in Seq(Chars) PROVE <<a>> \in Argvs /\ Len(<<a>>) = 1
  BY DEF Argvs

LEMMA JoinedArgvs ==
  ASSUME NEW s \in Argvs, NEW t \in Argvs
  PROVE  s \o t \in Argvs /\ Len(s \o t) = Len(s) + Len(t) /\ Len(s) \in Nat /\ Len(t) \in Nat
  BY DEF Argvs

LEMMA FirstAndRest ==
  ASSUME NEW argv \in Argvs, argv # <<>>
  PROVE  /\ Heads(argv, argv[1], Tail(argv)) /\ Len(argv) = 1 + Len(Tail(argv))
         /\ Len(argv) \in Nat /\ Len(argv) > 0
<1>1. argv \in Seq(Seq(Chars)) /\ Len(argv) \in Nat /\ Len(argv) > 0
  BY DEF Argvs
<1>2. argv[1] \in Seq(Chars) /\ Tail(argv) \in Seq(Seq(Chars)) /\ Len(argv) = 1 + Len(Tail(argv))
  BY <1>1
<1>3. argv = <<argv[1]>> \o Tail(argv)
  BY <1>1
<1> QED
  BY <1>1, <1>2, <1>3, Zenon DEF Heads, Argvs

LEMMA TailLeft ==
  ASSUME NEW a \in Seq(Chars), NEW t \in Argvs
  PROVE  /\ <<a>> \o t \in Argvs /\ <<a>> \o t # <<>> /\ Tail(<<a>> \o t) = t /\ (<<a>> \o t)[1] = a
         /\ Len(<<a>> \o t) = 1 + Len(t)
<1>1. t \in Seq(Seq(Chars)) /\ <<a>> \in Seq(Seq(Chars))
  BY DEF Argvs
<1>2. PICK v : v = <<a>> \o t
  OBVIOUS
<1>3. v \in Seq(Seq(Chars)) /\ Len(v) = 1 + Len(t) /\ v[1] = a /\ Len(t) \in Nat
  BY <1>1, <1>2
<1>4. v # <<>>
  BY <1>3
<1>5. Tail(v) = t
  BY <1>1, <1>2
<1> QED
  BY <1>2, <1>3, <1>4, <1>5 DEF Argvs

LEMMA EndsItself == ASSUME NEW s \in Argvs PROVE Ends(s, s)
<1>1. s \in Seq(Seq(Chars)) /\ <<>> \in Argvs
  BY DEF Argvs
<1>2. s = <<>> \o s
  BY <1>1
<1> QED
  BY <1>1, <1>2, Zenon DEF Ends

LEMMA EndsBehind ==
  ASSUME NEW s, NEW t, Ends(s, t), NEW v \in Argvs
  PROVE  Ends(s, v \o t)
<1>1. PICK u \in Argvs : t = u \o s
  BY DEF Ends
<1>2. s \in Argvs /\ t \in Argvs /\ s \in Seq(Seq(Chars)) /\ u \in Seq(Seq(Chars)) /\ v \in Seq(Seq(Chars))
  BY DEF Ends, Argvs
<1>3. Assoc(v, u, s)
  BY <1>2, Associates
<1>4. v \o t = (v \o u) \o s
  BY <1>1, <1>3, Zenon DEF Assoc
<1>5. v \o t \in Argvs /\ v \o u \in Argvs
  BY <1>2, JoinedArgvs
<1> QED
  BY <1>2, <1>4, <1>5, Zenon DEF Ends

LEMMA EndsPart ==
  ASSUME NEW s, NEW t, Ends(s, t), NEW a \in Seq(Chars), NEW r \in Argvs, s = <<a>> \o r
  PROVE  Ends(r, t)
<1>1. Ends(r, s)
  BY EndsItself, EndsBehind, OneArg
<1>2. PICK u \in Argvs : t = u \o s
  BY DEF Ends
<1> QED
  BY <1>1, <1>2, EndsBehind

\* What IsSuffix tells of it.
LEMMA EndsSuffix == ASSUME NEW s, NEW t, Ends(s, t) PROVE IsSuffix(s, t)
<1>1. PICK u \in Argvs : t = u \o s
  BY DEF Ends
<1>2. s \in Seq(Seq(Chars)) /\ t \in Seq(Seq(Chars)) /\ u \in Seq(Seq(Chars))
  BY DEF Ends, Argvs
<1>3. PICK m, n : m = Len(s) /\ n = Len(u)
  OBVIOUS
<1>4. m \in Nat /\ n \in Nat /\ Len(t) = n + m /\ \A j \in 1..m : t[n + j] = s[j]
  <2>1. Joined(t, u, s)
    BY <1>1, <1>2, Joins
  <2> QED
    BY <1>3, <2>1 DEF Joined
<1>5. PICK p, q : p = Reverse(s) /\ q = Reverse(t)
  OBVIOUS
<1>6. /\ p = [i \in 1..m |-> s[(m - i) + 1]]
      /\ q = [i \in 1..n + m |-> t[((n + m) - i) + 1]]
  BY <1>3, <1>4, <1>5 DEF Reverse
<1>7. Len(p) = m /\ Len(q) = n + m /\ p \in Seq(Seq(Chars)) /\ q \in Seq(Seq(Chars))
  <2>1. \A i \in 1..m : s[(m - i) + 1] \in Seq(Chars)
    BY <1>2, <1>3, <1>4
  <2>2. \A i \in 1..n + m : t[((n + m) - i) + 1] \in Seq(Chars)
    BY <1>2, <1>4
  <2>3. n + m \in Nat
    BY <1>4
  <2> QED
    BY <1>4, <1>6, <2>1, <2>2, <2>3
<1>8. \A i \in 1..m : p[i] = q[i]
  <2> TAKE i \in 1..m
  <2>1. (m - i) + 1 \in 1..m /\ n + ((m - i) + 1) = ((n + m) - i) + 1 /\ i \in 1..n + m
    BY <1>4
  <2>2. t[n + ((m - i) + 1)] = s[(m - i) + 1]
    BY <1>4, <2>1
  <2> QED
    BY <1>6, <2>1, <2>2
<1>9. SubSeq(p, 1, m) = SubSeq(q, 1, m)
  BY <1>4, <1>7, <1>8
<1> QED
  BY <1>4, <1>5, <1>7, <1>9 DEF IsSuffix, IsPrefix

\* The arguments of a script's interpreter.
LEMMA InterpreterArgs ==
  ASSUME NEW a \in Seq(Chars), NEW arg \in Argvs, NEW p \in Seq(Chars), NEW t \in Argvs
  PROVE  LET argv == <<a>> \o arg \o <<p>> \o t IN
           /\ argv \in Argvs /\ argv # <<>> /\ Ends(<<p>> \o t, Tail(argv))
           /\ \A s : Ends(s, t) => Ends(s, Tail(argv))
<1>1. PICK x, y, z : x = <<a>> /\ y = <<p>> /\ z = y \o t
  OBVIOUS
<1>2. x \in Argvs /\ y \in Argvs /\ z \in Argvs
  BY <1>1, OneArg, JoinedArgvs
<1>3. PICK w, v : w = arg \o z /\ v = x \o arg
  OBVIOUS
<1>4. w \in Argvs /\ v \in Argvs
  BY <1>2, <1>3, JoinedArgvs
<1>5. (v \o y) \o t = x \o w
  <2>1. Assoc(v, y, t) /\ Assoc(x, arg, z)
    BY <1>2, <1>4, Associates DEF Argvs
  <2> QED
    BY <1>1, <1>3, <2>1, Zenon DEF Assoc
<1>6. PICK argv : argv = <<a>> \o arg \o <<p>> \o t
  OBVIOUS
<1>7. argv = x \o w
  BY <1>1, <1>3, <1>5, <1>6, Zenon
<1>8. argv \in Argvs /\ argv # <<>> /\ Tail(argv) = w
  BY <1>1, <1>4, <1>7, TailLeft
<1>9. Ends(z, w)
  BY <1>2, <1>3, EndsItself, EndsBehind
<1>10. ASSUME NEW s, Ends(s, t) PROVE Ends(s, w)
  BY <1>1, <1>2, <1>3, <1>10, EndsBehind
<1> QED
  BY <1>1, <1>6, <1>8, <1>9, <1>10, Zenon


\* What an execve() is given, of what the caller gave.
Carried ==
  /\ cur.path \in Seq(Chars) /\ cur.argv \in Argvs /\ cur.argv # <<>> /\ cur.depth \in Nat
  /\ Ends(Tail(job.argv), Tail(cur.argv))
  /\ stage # "shell" /\ cur.depth > 0 => Ends(<<Named>> \o Tail(job.argv), Tail(cur.argv))
  /\ stage # "shell" /\ cur.depth = 0 => cur.argv = job.argv /\ cur.path = Named

\* A program is started with that, perhaps behind arguments of the linker.
Started(kind, argv) ==
  \/ kind = "proot" /\ Heads(argv, cur.path, Tail(cur.argv))
  \/ kind = "bionic" /\ argv = cur.argv
  \/ kind = "linker" /\ \E l \in Seq(Chars), p \in Seq(Chars) :
       Laid(argv, l, cur.argv[1], p, Tail(cur.argv))

Seen(kind, argv) ==
  \E s \in Seq(Chars) :
    /\ Heads(argv, s, Tail(cur.argv))
    /\ kind = "proot" => s = cur.path
    /\ kind # "proot" /\ ~IsPrefix(Root, cur.argv[1]) => s = cur.argv[1]

Handed ==
  /\ pc \in {"execve", "libraries", "started", "running"} => Carried
  /\ pc = "libraries" => File(cur.path).kind = "elf64"
  /\ pc \in {"started", "running"} => Started(image.kind, image.argv)
  /\ pc = "running" => Seen(image.kind, ran.argv)

ArgInv ==
  /\ host \in Hosts /\ job \in Jobs
  /\ pc \in {"idle", "files"} => stage = "none"
  /\ stage = "path" => \E i \in Dirs : dirs = SubSeq(SearchPath, i + 1, Len(SearchPath))
  /\ job.argv # <<>> => Handed

LEMMA LettersAreChars ==
  /\ \A s \in Seq(Letters) : s \in Seq(Chars)
  /\ \A s \in Seq(Seq(Letters)) : s \in Argvs
  /\ Shell \in Seq(Chars) /\ Root \in Seq(Chars) /\ Termux \in Seq(Chars)
<1>1. \A s \in Seq(Letters) : s \in Seq(Chars)
  BY CharsAre, LettersIn
<1>2. \A s \in Seq(Seq(Letters)) : s \in Argvs
  BY CharsAre, TextsIn DEF Argvs
<1>3. Shell \in Seq(Chars)
  <2>1. "/" \in Chars /\ "bin" \in Chars /\ "sh" \in Chars
    BY DEF Chars
  <2> HIDE DEF Chars
  <2> QED
    BY <2>1 DEF Shell
<1>4. Root \in Seq(Chars) /\ Termux \in Seq(Chars)
  BY <1>1, PlacesAssumption
<1> QED
  BY <1>1, <1>2, <1>3, <1>4

LEMMA JobTyped == ASSUME job \in Jobs PROVE job.path \in Seq(Chars) /\ job.argv \in Argvs
<1>1. job.path \in Seq(Letters) /\ job.argv \in Seq(Seq(Letters))
  BY SpawnAssumption, Zenon
<1> QED
  BY <1>1, LettersAreChars

LEMMA ExpandTyped == ASSUME NEW p \in Seq(Chars) PROVE Expand(p) \in Seq(Chars)
<1>1. Root \in Seq(Chars) /\ Root \o p \in Seq(Chars)
  BY LettersAreChars
<1> QED
  BY <1>1 DEF Expand

LEMMA CandidateTyped ==
  ASSUME job \in Jobs, NEW i \in Dirs
  PROVE  Candidate(SearchPath[i]) \in Seq(Chars)
<1>1. SearchPath[i] \in Seq(Letters)
  BY ExecAssumption DEF Dirs
<1>2. PICK d : d = SearchPath[i]
  OBVIOUS
<1>3. d \in Seq(Chars) /\ job.path \in Seq(Chars)
  BY <1>1, <1>2, LettersAreChars, JobTyped
<1>4. <<"/">> \in Seq(Chars)
  BY DEF Chars
<1>5. PICK slash : slash = <<"/">>
  OBVIOUS
<1>6. d \o slash \in Seq(Chars)
  BY <1>3, <1>4, <1>5
<1>7. (d \o slash) \o job.path \in Seq(Chars)
  <2>1. PICK e, p : e = d \o slash /\ p = job.path
    OBVIOUS
  <2>2. e \in Seq(Chars) /\ p \in Seq(Chars)
    BY <1>3, <1>6, <2>1
  <2>3. e \o p \in Seq(Chars)
    BY <2>2
  <2> QED
    BY <2>1, <2>3
<1> QED
  BY <1>2, <1>3, <1>5, <1>7 DEF Candidate

\* The path that the caller's name led to, in the middle of PATH.
LEMMA NamedIs ==
  ASSUME NEW i \in Dirs, dirs = SubSeq(SearchPath, i + 1, Len(SearchPath)), stage = "path"
  PROVE  Named = Candidate(SearchPath[i])
<1> DEFINE N == Len(SearchPath)
<1>0. N \in Nat /\ SearchPath \in Seq(Seq(Letters)) /\ i \in 1..N
  BY ExecAssumption DEF Dirs
<1>1. Len(dirs) = N - i
  <2>1. Len(SubSeq(SearchPath, i + 1, N)) = IF i + 1 <= N THEN N - (i + 1) + 1 ELSE 0
    BY <1>0
  <2> HIDE DEF N
  <2> QED
    BY <1>0, <2>1 DEF N
<1>2. N - (N - i) = i
  BY <1>0
<1> HIDE DEF N
<1> QED
  BY <1>1, <1>2 DEF Named, N

LEMMA NamedStays ==
  ASSUME job' = job, stage' = stage, dirs' = dirs
  PROVE  Named' = Named
  BY DEF Named, Candidate

LEMMA CarriedStays ==
  ASSUME job' = job, stage' = stage, dirs' = dirs, cur' = cur, Carried
  PROVE  Carried'
  BY NamedStays DEF Carried

\* What a call is given at its begin.
LEMMA CallCarries ==
  ASSUME job \in Jobs, job' = job, job.argv # <<>>, NEW path \in Seq(Chars),
         Calls(path, job.argv, 0), stage' # "shell" => path = Named'
  PROVE  pc' = "execve" /\ Carried'
<1>1. pc' = "execve" /\ cur'.path = path /\ cur'.argv = job.argv /\ cur'.depth = 0
  BY DEF Calls
<1>2. job.argv \in Argvs
  BY JobTyped
<1>3. Ends(Tail(job.argv), Tail(job.argv))
  BY <1>2, FirstAndRest, EndsItself DEF Heads
<1>4. 0 \in Nat /\ ~(0 > 0)
  OBVIOUS
<1> QED
  BY <1>1, <1>2, <1>3, <1>4 DEF Carried

LEMMA TryHands ==
  ASSUME ArgInv, NEW i \in Dirs, Try(SubSeq(SearchPath, i, Len(SearchPath)))
  PROVE  ArgInv'
<1>1. /\ host' = host /\ job' = job /\ host \in Hosts /\ job \in Jobs /\ stage' = "path"
      /\ dirs' = Tail(SubSeq(SearchPath, i, Len(SearchPath)))
      /\ Calls(Candidate(Head(SubSeq(SearchPath, i, Len(SearchPath)))), job.argv, 0)
  BY DEF ArgInv, Try
<1>2. /\ Head(SubSeq(SearchPath, i, Len(SearchPath))) = SearchPath[i]
      /\ Tail(SubSeq(SearchPath, i, Len(SearchPath))) = SubSeq(SearchPath, i + 1, Len(SearchPath))
  BY ExecAssumption DEF Dirs
<1>3. dirs' = SubSeq(SearchPath, i + 1, Len(SearchPath))
  BY <1>1, <1>2
<1>4. Named' = Candidate(SearchPath[i])
  <2>1. Candidate(SearchPath[i])' = Candidate(SearchPath[i])
    BY <1>1 DEF Candidate
  <2> DEFINE N == Len(SearchPath)
  <2>2. N \in Nat /\ SearchPath \in Seq(Seq(Letters)) /\ i \in 1..N
    BY ExecAssumption DEF Dirs
  <2>3. Len(SubSeq(SearchPath, i + 1, N)) = N - i /\ N - (N - i) = i
    <3>1. Len(SubSeq(SearchPath, i + 1, N)) = IF i + 1 <= N THEN N - (i + 1) + 1 ELSE 0
      BY <2>2
    <3> HIDE DEF N
    <3> QED
      BY <2>2, <3>1 DEF N
  <2>4. N - Len(dirs') = i
    BY <1>3, <2>3
  <2>5. Len(SearchPath) - Len(dirs') = i
    BY <2>4
  <2> HIDE DEF N
  <2> QED
    BY <1>1, <2>5, Zenon DEF Named, Candidate
<1>5. job.argv # <<>> => pc' = "execve" /\ Carried'
  <2>1. Candidate(SearchPath[i]) \in Seq(Chars)
    BY <1>1, CandidateTyped
  <2> QED
    BY <1>1, <1>2, <1>4, <2>1, CallCarries
<1>6. pc' = "execve"
  BY <1>1 DEF Calls
<1> QED
  BY <1>1, <1>3, <1>5, <1>6 DEF ArgInv, Handed


\* A step to where nothing is under way.
LEMMA HandRests ==
  ASSUME ArgInv, host' = host, job' = job, stage' = stage, dirs' = dirs,
         pc' \notin {"idle", "files", "execve", "libraries", "started", "running"}
  PROVE  ArgInv'
  BY DEF ArgInv, Handed

\* PATH is searched from its begin.
LEMMA PathHands ==
  ASSUME ArgInv, TryPath, \A e : ~Gives(e)
  PROVE  ArgInv'
<1>1. Try(SearchPath)
  BY DEF TryPath
<1>2. 1 \in Dirs /\ SubSeq(SearchPath, 1, Len(SearchPath)) = SearchPath
  BY ExecAssumption DEF Dirs
<1> QED
  BY <1>1, <1>2, TryHands

\* execve() or execvpe() is called.
LEMMA HandBegins ==
  ASSUME ArgInv, pc \in {"idle", "files"}, Begin
  PROVE  ArgInv'
<1>1. host' = host /\ job' = job /\ host \in Hosts /\ job \in Jobs /\ stage = "none" /\ job.path \in Seq(Chars)
  BY BeginStep, JobTyped DEF ArgInv
<1>2. ASSUME stage' # "path", stage' # "shell", pc' = "execve", Calls(job.path, job.argv, 0)
      PROVE  ArgInv'
  <2>1. Named' = job.path
    BY <1>1, <1>2 DEF Named
  <2>2. job.argv # <<>> => Carried'
    BY <1>1, <1>2, <2>1, CallCarries
  <2> QED
    BY <1>1, <1>2, <2>2 DEF ArgInv, Handed
<1>3. ASSUME NEW e, Gives(e) PROVE ArgInv'
  BY <1>1, <1>3, HandRests DEF Gives, search
<1>4. CASE BeginExecve
  <2>1. stage' = "none" /\ pc' = "execve" /\ Calls(job.path, job.argv, 0)
    BY <1>1, <1>4 DEF BeginExecve, search, Calls
  <2> QED
    BY <1>2, <2>1
<1>5. CASE BeginExecvpe /\ stage' = "file" /\ Calls(job.path, job.argv, 0)
  <2>1. pc' = "execve"
    BY <1>5 DEF Calls
  <2> QED
    BY <1>2, <1>5, <2>1
<1>6. CASE TryPath
  <2>1. CASE \E e : Gives(e)
    BY <1>3, <2>1
  <2> QED
    BY <1>6, <2>1, PathHands
<1> QED
  BY <1>3, <1>4, <1>5, <1>6 DEF Begin, BeginExecvpe

\* A script's interpreter gets the script's path and its arguments.
LEMMA ScriptHands ==
  ASSUME ArgInv, HandleShebang, pc' # "undefined"
  PROVE  ArgInv'
<1>0. PICK f : f = File(cur.path)
  OBVIOUS
<1>1. /\ pc = "execve" /\ f.kind = "script" /\ host' = host /\ job' = job /\ stage' = stage /\ dirs' = dirs
      /\ Calls(Interpreter(f), ShebangArgv(f), cur.depth + 1)
      /\ host \in Hosts /\ job \in Jobs
  BY <1>0 DEF HandleShebang, Is, Undefined, search, ArgInv
<1>2. pc' = "execve" /\ cur'.path = Interpreter(f) /\ cur'.argv = ShebangArgv(f) /\ cur'.depth = cur.depth + 1
  BY <1>1 DEF Calls
<1>3. ASSUME job.argv # <<>> PROVE Carried'
  <2>1. Carried
    BY <1>1, <1>3 DEF ArgInv, Handed
  <2>2. f.interp \in Seq(Letters) /\ f.arg \in Seq(Seq(Letters))
    BY <1>0, <1>1, FileTyped, SpawnAssumption
  <2>3. Interpreter(f) \in Seq(Chars) /\ Last(Interpreter(f)) \in Chars /\ f.arg \in Argvs
    <3>1. Interpreter(f) \in Seq(Chars) /\ f.arg \in Argvs
      BY <2>2, LettersAreChars DEF Interpreter
    <3>2. Interpreter(f) # <<>>
      BY DEF Interpreter, Shell
    <3>3. PICK t \in Seq(Chars) : t = Interpreter(f)
      BY <3>1
    <3>4. Len(t) \in 1..Len(t)
      BY <3>2, <3>3
    <3>5. t[Len(t)] \in Chars
      BY <3>4
    <3> QED
      BY <3>1, <3>3, <3>5 DEF Last
  <2>4. PICK a, t : a = <<Last(Interpreter(f))>> /\ t = Tail(cur.argv)
    OBVIOUS
  <2>5. a \in Seq(Chars) /\ t \in Argvs /\ cur.path \in Seq(Chars)
    <3>1. <<Last(Interpreter(f))>> \in Seq(Chars)
      BY <2>3
    <3>2. Tail(cur.argv) \in Argvs
      BY <2>1, FirstAndRest DEF Carried, Heads
    <3> QED
      BY <2>1, <2>4, <3>1, <3>2 DEF Carried
  <2>6. PICK argv : argv = ShebangArgv(f)
    OBVIOUS
  <2>7. argv = <<a>> \o f.arg \o <<cur.path>> \o t
    BY <2>4, <2>6 DEF ShebangArgv
  <2>8. /\ argv \in Argvs /\ argv # <<>> /\ Ends(<<cur.path>> \o t, Tail(argv))
        /\ \A s : Ends(s, t) => Ends(s, Tail(argv))
    BY <2>3, <2>5, <2>7, InterpreterArgs
  <2>9. Named' = Named /\ cur.depth + 1 \in Nat /\ cur.depth + 1 # 0
    BY <1>1, <2>1, NamedStays DEF Carried
  <2>10. Ends(Tail(job.argv), t)
    BY <2>1, <2>4 DEF Carried
  <2>11. ASSUME stage # "shell" PROVE Ends(<<Named>> \o Tail(job.argv), Tail(argv))
    <3>1. CASE cur.depth > 0
      BY <2>1, <2>4, <2>8, <2>11, <3>1 DEF Carried
    <3>2. CASE cur.depth = 0
      BY <2>1, <2>4, <2>8, <2>11, <3>2 DEF Carried
    <3> QED
      BY <2>1, <3>1, <3>2 DEF Carried
  <2> QED
    BY <1>1, <1>2, <2>3, <2>6, <2>8, <2>9, <2>10, <2>11 DEF Carried
<1> QED
  BY <1>1, <1>2, <1>3 DEF ArgInv, Handed

\* A shell gets the caller's arguments.
LEMMA ShellHands ==
  ASSUME ArgInv, HxShellExecute
  PROVE  ArgInv'
<1>1. /\ host' = host /\ job' = job /\ stage' = "shell" /\ dirs' = dirs /\ host \in Hosts /\ job \in Jobs
      /\ pc' = "execve"
  BY DEF HxShellExecute, ArgInv, Calls
<1>2. ASSUME job.argv # <<>> PROVE Carried'
  <2>1. cur'.path = Shell /\ cur'.argv = <<Shell>> \o job.argv /\ cur'.depth = 0
    BY <1>2 DEF HxShellExecute, Calls
  <2>2. job.argv \in Argvs /\ Shell \in Seq(Chars)
    BY <1>1, JobTyped, LettersAreChars
  <2>3. PICK argv : argv = <<Shell>> \o job.argv
    OBVIOUS
  <2>4. argv \in Argvs /\ argv # <<>> /\ Tail(argv) = job.argv
    BY <2>2, <2>3, TailLeft
  <2>5. Ends(Tail(job.argv), job.argv)
    <3>1. Heads(job.argv, job.argv[1], Tail(job.argv))
      BY <1>2, <2>2, FirstAndRest
    <3>2. job.argv[1] \in Seq(Chars) /\ Tail(job.argv) \in Argvs /\ job.argv = <<job.argv[1]>> \o Tail(job.argv)
      BY <3>1, Zenon DEF Heads
    <3> QED
      BY <2>2, <3>2, EndsItself, EndsPart
  <2>6. cur'.argv \in Argvs /\ cur'.argv # <<>> /\ Tail(cur'.argv) = job.argv /\ cur'.path \in Seq(Chars)
    BY <2>1, <2>2, <2>3, <2>4
  <2>7. Ends(Tail(job'.argv), Tail(cur'.argv)) /\ cur'.depth \in Nat
    <3>1. cur'.depth \in Nat
      BY <2>1
    <3>2. Ends(Tail(job'.argv), Tail(cur'.argv))
      BY <1>1, <2>5, <2>6, Zenon
    <3> QED
      BY <3>1, <3>2
  <2> QED
    BY <1>1, <2>6, <2>7 DEF Carried
<1> QED
  BY <1>1, <1>2 DEF ArgInv, Handed


LEMMA FailHands ==
  ASSUME ArgInv, NEW e, Fails(e), pc \in {"execve", "libraries"}
  PROVE  ArgInv'
<1>1. host' = host /\ job' = job /\ stage' = stage /\ dirs' = dirs /\ pc' \in {"search", "failed"}
  BY DEF Fails, search
<1> QED
  BY <1>1, HandRests

LEMMA UndefinedHands ==
  ASSUME ArgInv, Undefined
  PROVE  ArgInv'
<1>1. host' = host /\ job' = job /\ stage' = stage /\ dirs' = dirs /\ pc' = "undefined"
  BY DEF Undefined, search
<1> QED
  BY <1>1, HandRests

\* A program is started.
LEMMA StartHands ==
  ASSUME ArgInv, NEW kind, NEW argv, NEW env, Starts(kind, argv, env), pc \in {"execve", "libraries"},
         job.argv # <<>> => Started(kind, argv)
  PROVE  ArgInv'
<1>1. /\ host' = host /\ job' = job /\ stage' = stage /\ dirs' = dirs /\ cur' = cur
      /\ pc' = "started" /\ image'.kind = kind /\ image'.argv = argv
  BY DEF Starts, search
<1>2. job.argv # <<>> => Carried'
  BY <1>1, CarriedStays DEF ArgInv, Handed
<1>3. job.argv # <<>> => Started(image.kind, image.argv)'
  BY <1>1 DEF Started
<1> QED
  BY <1>1, <1>2, <1>3 DEF ArgInv, Handed

LEMMA ProotHands ==
  ASSUME ArgInv, HandleProot
  PROVE  ArgInv'
<1>1. pc = "execve"
  BY DEF HandleProot, Is
<1>2. CASE \E e : Fails(e)
  BY <1>1, <1>2, FailHands
<1>3. CASE Undefined
  BY <1>3, UndefinedHands
<1>4. CASE \E env : Starts("proot", <<cur.path>> \o Tail(cur.argv), env)
  <2>1. ASSUME job.argv # <<>> PROVE Started("proot", <<cur.path>> \o Tail(cur.argv))
    <3>1. Carried
      BY <1>1, <2>1 DEF ArgInv, Handed
    <3>2. cur.path \in Seq(Chars) /\ Tail(cur.argv) \in Argvs
      BY <3>1, FirstAndRest DEF Carried, Heads
    <3> QED
      BY <3>2, Zenon DEF Started, Heads
  <2> QED
    BY <1>1, <1>4, <2>1, StartHands
<1> QED
  BY <1>2, <1>3, <1>4 DEF HandleProot

LEMMA LinkerTyped ==
  ASSUME ArgInv, NEW f, f \in Range(host.files), f.kind = "elf64"
  PROVE  Linker(f) \in Seq(Chars)
<1>1. f.interp \in Seq(Letters) /\ (host.linker # <<>> => host.linker \in Seq(Letters))
  BY SpawnAssumption DEF ArgInv
<1>2. f.interp \in Seq(Chars) /\ (host.linker # <<>> => host.linker \in Seq(Chars)) /\ Termux \in Seq(Chars)
  BY <1>1, LettersAreChars
<1>3. Expand(f.interp) \in Seq(Chars)
  BY <1>2, ExpandTyped
<1> QED
  BY <1>2, <1>3 DEF Linker

LEMMA LinkerHands ==
  ASSUME ArgInv, StartLinker
  PROVE  ArgInv'
<1>0. PICK f, linker : f = File(cur.path) /\ linker = Linker(f)
  OBVIOUS
<1>1. pc = "libraries"
  BY DEF StartLinker
<1>2. CASE \E e : Fails(e)
  BY <1>1, <1>2, FailHands
<1>3. CASE Undefined
  BY <1>3, UndefinedHands
<1>4. CASE \E env : Starts("bionic", cur.argv, env)
  BY <1>1, <1>4, StartHands DEF Started
<1>5. CASE \E env : Starts("linker", LinkerArgv(linker, Expand(cur.path), cur.argv), env)
  <2>1. ASSUME job.argv # <<>> PROVE Started("linker", LinkerArgv(linker, Expand(cur.path), cur.argv))
    <3>1. Carried /\ f.kind = "elf64"
      BY <1>0, <1>1, <2>1 DEF ArgInv, Handed
    <3>2. linker \in Seq(Chars) /\ Expand(cur.path) \in Seq(Chars)
      <4>1. f \in Range(host.files)
        BY <1>0, <3>1, FileTyped DEF ArgInv
      <4> QED
        BY <1>0, <3>1, <4>1, LinkerTyped, ExpandTyped DEF Carried
    <3>3. cur.argv # <<>> /\ cur.argv[1] \in Seq(Chars) /\ Tail(cur.argv) \in Argvs
      BY <3>1, FirstAndRest DEF Carried, Heads
    <3>4. PICK a, t, p : a = cur.argv[1] /\ t = Tail(cur.argv) /\ p = Expand(cur.path)
      OBVIOUS
    <3>5. LinkerArgv(linker, p, cur.argv) = <<linker, Dash, a, p>> \o t
      BY <3>3, <3>4 DEF LinkerArgv, Dash
    <3>6. Laid(<<linker, Dash, a, p>> \o t, linker, a, p, t)
      BY <3>2, <3>3, <3>4, IsLaid
    <3>7. Laid(LinkerArgv(linker, p, cur.argv), linker, a, p, t)
      BY <3>5, <3>6
    <3> QED
      BY <3>2, <3>4, <3>7 DEF Started
  <2> QED
    BY <1>1, <1>5, <2>1, StartHands
<1> QED
  BY <1>0, <1>2, <1>3, <1>4, <1>5 DEF StartLinker

\* The library's steps.
LEMMA LibraryHands ==
  ASSUME ArgInv, ExecNext
  PROVE  ArgInv'
<1>0. host' = host /\ job' = job /\ host \in Hosts /\ job \in Jobs
  BY LibraryStep DEF ArgInv
<1>1. CASE OpenFails \/ NotExec \/ ParseFails
  <2>1. (\E e : Fails(e)) \/ Undefined
    BY <1>1 DEF OpenFails, NotExec, ParseFails
  <2>2. pc = "execve"
    BY <1>1 DEF OpenFails, NotExec, ParseFails, Is
  <2> QED
    BY <2>1, <2>2, FailHands, UndefinedHands
<1>2. CASE HandleShebang
  <2>1. CASE Undefined
    BY <2>1, UndefinedHands
  <2>2. CASE ~Undefined
    <3>1. pc' # "undefined"
      BY <1>2, <2>2 DEF HandleShebang, Calls
    <3> QED
      BY <1>2, <3>1, ScriptHands
  <2> QED
    BY <2>1, <2>2
<1>3. CASE HandleElf64
  <2>1. CASE Undefined
    BY <2>1, UndefinedHands
  <2>2. CASE ~Undefined
    <3>1. /\ pc = "execve" /\ pc' = "libraries" /\ stage' = stage /\ dirs' = dirs /\ cur' = cur
          /\ File(cur.path).kind = "elf64"
      BY <1>3, <2>2 DEF HandleElf64, Is, search
    <3>2. job.argv # <<>> => Carried'
      BY <1>0, <3>1, CarriedStays DEF ArgInv, Handed
    <3>3. File(cur.path)' = File(cur.path)
      BY <1>0, <3>1, FileStays
    <3> QED
      BY <1>0, <3>1, <3>2, <3>3 DEF ArgInv, Handed
  <2> QED
    BY <2>1, <2>2
<1>4. CASE AddLibrary
  <2>1. /\ pc = "libraries" /\ pc' = "libraries" /\ stage' = stage /\ dirs' = dirs /\ cur' = cur
    BY <1>4 DEF AddLibrary, search
  <2>2. job.argv # <<>> => Carried'
    BY <1>0, <2>1, CarriedStays DEF ArgInv, Handed
  <2>3. File(cur.path)' = File(cur.path)
    BY <1>0, <2>1, FileStays
  <2> QED
    BY <1>0, <2>1, <2>2, <2>3 DEF ArgInv, Handed
<1>5. ASSUME NEW e, Gives(e) PROVE ArgInv'
  BY <1>0, <1>5, HandRests DEF Gives, search
<1>6. CASE AfterFile
  <2>1. CASE \E e : Gives(e)
    BY <1>5, <2>1
  <2> QED
    BY <1>6, <2>1, PathHands DEF AfterFile
<1>7. CASE AfterCandidate
  <2>1. CASE \E e : Gives(e)
    BY <1>5, <2>1
  <2>2. CASE ~\E e : Gives(e)
    <3>1. Try(dirs) /\ dirs # <<>> /\ stage = "path"
      BY <1>7, <2>2 DEF AfterCandidate
    <3>2. PICK i \in Dirs : dirs = SubSeq(SearchPath, i + 1, Len(SearchPath))
      BY <3>1 DEF ArgInv
    <3>3. i + 1 \in Dirs
      <4>1. Len(SearchPath) \in Nat /\ SearchPath \in Seq(Seq(Letters)) /\ i \in 1..Len(SearchPath)
        BY ExecAssumption DEF Dirs
      <4>2. CASE i = Len(SearchPath)
        <5>1. SubSeq(SearchPath, Len(SearchPath) + 1, Len(SearchPath)) = <<>>
          BY <4>1
        <5> QED
          BY <3>1, <3>2, <4>2, <5>1
      <4>3. CASE i # Len(SearchPath)
        BY <4>1, <4>3 DEF Dirs
      <4> QED
        BY <4>2, <4>3
    <3>4. Try(SubSeq(SearchPath, i + 1, Len(SearchPath)))
      BY <3>1, <3>2
    <3> QED
      BY <3>3, <3>4, TryHands
  <2> QED
    BY <2>1, <2>2
<1> QED
  BY <1>1, <1>2, <1>3, <1>4, <1>6, <1>7, ProotHands, LinkerHands, ShellHands DEF ExecNext


\* What a program sees of what it was started with.
LEMMA ProgramHands ==
  ASSUME ArgInv, ProgramNext
  PROVE  ArgInv'
<1>0. /\ pc = "started" /\ host' = host /\ job' = job /\ stage' = stage /\ dirs' = dirs /\ cur' = cur
      /\ image' = image
  BY ProgramSteps DEF search, ProgramNext, RunsAlone, RunsFixed, Shows, Undefined, start
<1>1. ASSUME job.argv # <<>>
      PROVE  Carried /\ Carried' /\ Started(image.kind, image.argv) /\ Started(image.kind, image.argv)'
  <2>1. Carried /\ Started(image.kind, image.argv)
    BY <1>0, <1>1 DEF ArgInv, Handed
  <2>2. Started(image.kind, image.argv)'
    BY <1>0, <2>1 DEF Started
  <2> QED
    BY <1>0, <2>1, <2>2, CarriedStays
<1>2. ASSUME pc' = "running", job.argv # <<>> => Seen(image.kind, ran'.argv) PROVE ArgInv'
  <2>1. job.argv # <<>> => Seen(image.kind, ran.argv)'
    BY <1>0, <1>2 DEF Seen
  <2> QED
    BY <1>0, <1>1, <1>2, <2>1 DEF ArgInv, Handed
<1>3. ASSUME job.argv # <<>>
      PROVE  cur.argv[1] \in Seq(Chars) /\ Heads(cur.argv, cur.argv[1], Tail(cur.argv)) /\ Tail(cur.argv) \in Argvs
  BY <1>1, <1>3, FirstAndRest DEF Carried, Heads
<1>4. ASSUME NEW argv, NEW l \in Seq(Chars), NEW p \in Seq(Chars), job.argv # <<>>,
             Laid(argv, l, cur.argv[1], p, Tail(cur.argv))
      PROVE  /\ Seen("linker", SeenBy(argv))
             /\ ~Fixup(argv).wild => Seen("linker", Fixup(argv).argv)
  <2>1. PICK a, t : a = cur.argv[1] /\ t = Tail(cur.argv)
    OBVIOUS
  <2>2. a \in Seq(Chars) /\ t \in Argvs /\ Laid(argv, l, a, p, t)
    BY <1>3, <1>4, <2>1
  <2>3. SeenBy(argv) = <<a>> \o t
    BY <2>2, OwnIs DEF Leaves
  <2>4. PICK f : f = Fixup(argv)
    OBVIOUS
  <2>5. ~f.wild => \E s \in Seq(Chars) : f.argv = <<s>> \o t /\ (~IsPrefix(Root, a) => s = a)
    <3>1. Told(Fixup(argv), argv, a, p, t)
      BY <2>2, FixupNamed
    <3>2. Told(f, argv, a, p, t)
      BY <2>4, <3>1
    <3> QED
      BY <3>2, Zenon DEF Told
  <2>6. ASSUME NEW s \in Seq(Chars), NEW v, v = <<s>> \o t, ~IsPrefix(Root, a) => s = a
        PROVE  Seen("linker", v)
    <3>1. Heads(v, s, Tail(cur.argv))
      BY <2>1, <2>2, <2>6, Zenon DEF Heads
    <3> QED
      BY <2>1, <2>6, <3>1 DEF Seen
  <2>7. Seen("linker", SeenBy(argv))
    BY <2>2, <2>3, <2>6
  <2>8. ~f.wild => Seen("linker", f.argv)
    BY <2>5, <2>6
  <2> QED
    BY <2>4, <2>7, <2>8
<1>5. CASE RunsAlone
  <2>1. /\ pc' = "running"
        /\ ran'.argv = IF image.kind = "linker" THEN SeenBy(image.argv) ELSE image.argv
    BY <1>5 DEF RunsAlone, Shows
  <2>2. ASSUME job.argv # <<>> PROVE Seen(image.kind, ran'.argv)
    <3>1. CASE image.kind = "proot" /\ Heads(image.argv, cur.path, Tail(cur.argv))
      <4>1. cur.path \in Seq(Chars) /\ ran'.argv = image.argv
        BY <2>1, <3>1 DEF Heads
      <4> QED
        BY <3>1, <4>1 DEF Seen
    <3>2. CASE image.kind = "bionic" /\ image.argv = cur.argv
      <4>1. ran'.argv = cur.argv
        BY <2>1, <3>2
      <4> QED
        BY <1>3, <2>2, <3>2, <4>1 DEF Seen
    <3>3. CASE image.kind = "linker" /\ \E l \in Seq(Chars), p \in Seq(Chars) :
                 Laid(image.argv, l, cur.argv[1], p, Tail(cur.argv))
      BY <1>4, <2>1, <2>2, <3>3
    <3> QED
      BY <1>1, <2>2, <3>1, <3>2, <3>3 DEF Started
  <2> QED
    BY <1>2, <2>1, <2>2
<1>6. CASE RunsFixed
  <2>1. PICK f : f = Fixup(image.argv)
    OBVIOUS
  <2>2. image.kind = "linker" /\ IF f.wild THEN Undefined ELSE Shows(f.argv, f.line, f.exe)
    BY <1>6, <2>1 DEF RunsFixed
  <2>3. CASE f.wild
    BY <2>2, <2>3, UndefinedHands
  <2>4. CASE ~f.wild
    <3>1. pc' = "running" /\ ran'.argv = f.argv
      BY <2>2, <2>4 DEF Shows
    <3>2. ASSUME job.argv # <<>> PROVE Seen(image.kind, ran'.argv)
      BY <1>1, <1>4, <2>1, <2>2, <2>4, <3>1, <3>2 DEF Started
    <3> QED
      BY <1>2, <3>1, <3>2
  <2> QED
    BY <2>3, <2>4
<1> QED
  BY <1>5, <1>6 DEF ProgramNext

LEMMA HandedAtFirst == Init => ArgInv
  BY DEF Init, ExecInit, ArgInv, Handed

LEMMA HandedOn == ArgInv /\ [Next]_vars => ArgInv'
<1> SUFFICES ASSUME ArgInv, [Next]_vars PROVE ArgInv'
  OBVIOUS
<1>0. host' = host /\ job' = job
  BY CallStays
<1>1. CASE Exec \/ ChildExecs
  <2>1. Begin /\ pc \in {"idle", "files"}
    BY <1>1 DEF Exec, ChildExecs
  <2> QED
    BY <2>1, HandBegins
<1>2. CASE ExecStep
  BY <1>2, LibraryHands DEF ExecStep
<1>3. CASE ProgramStep
  BY <1>3, ProgramHands DEF ProgramStep
<1>4. CASE Spawn
  <2>1. pc = "idle" /\ pc' = "files" /\ stage' = stage /\ dirs' = dirs
    BY <1>4 DEF Spawn, search
  <2> QED
    BY <1>0, <2>1 DEF ArgInv, Handed
<1>5. CASE FileAction \/ ChildExits
  <2>1. /\ stage' = stage /\ dirs' = dirs
        /\ pc' \in {"undefined", "exited"} \/ (pc = "files" /\ pc' = "files")
    <3>1. CASE ChildExits
      BY <3>1 DEF ChildExits, Exits, search
    <3>2. CASE FileAction
      BY <3>2 DEF FileAction, Undefined, Exits, execVars, search
    <3> QED
      BY <1>5, <3>1, <3>2
  <2>2. CASE pc' \in {"undefined", "exited"}
    BY <1>0, <2>1, <2>2, HandRests
  <2>3. CASE pc = "files" /\ pc' = "files"
    BY <1>0, <2>1, <2>3 DEF ArgInv, Handed
  <2> QED
    BY <2>1, <2>2, <2>3
<1>6. CASE ParentCloses \/ UNCHANGED vars
  <2>1. UNCHANGED <<pc, cur, stage, dirs, image, ran>>
    BY <1>6 DEF ParentCloses, execVars, vars, search, start
  <2>2. File(cur.path)' = File(cur.path)
    BY <1>0, <2>1, FileStays
  <2>3. Carried => Carried'
    BY <1>0, <2>1, CarriedStays
  <2>4. Started(image.kind, image.argv) => Started(image.kind, image.argv)'
    BY <2>1 DEF Started
  <2>5. Seen(image.kind, ran.argv) => Seen(image.kind, ran.argv)'
    BY <2>1 DEF Seen
  <2> QED
    BY <1>0, <2>1, <2>2, <2>3, <2>4, <2>5 DEF ArgInv, Handed
<1> QED
  BY <1>1, <1>2, <1>3, <1>4, <1>5, <1>6 DEF Next, Process

\* execve(), HandleShebang, HandleElf64, HxShellExecute (exec.c) and
\* HxFixupArgv (fixup_argv.c): whatever the files and for arguments of any
\* number and length, a program sees the caller's arguments; a script's
\* interpreter sees the script and then the arguments; a program under proot
\* sees its file, and any other the caller's argv[0] unless that is in the root.
THEOREM ArgumentsArrive == Spec => []ArgvArrives
<1>1. ArgInv => ArgvArrives
  <2> SUFFICES ASSUME ArgInv, pc = "running", job.argv # <<>> PROVE ArgvArrives
    BY DEF ArgvArrives
  <2>1. Carried /\ Started(image.kind, image.argv) /\ Seen(image.kind, ran.argv) /\ job.argv \in Argvs
    BY JobTyped DEF ArgInv, Handed
  <2>2. PICK argv, t, rest : argv = cur.argv /\ t = Tail(cur.argv) /\ rest = Tail(job.argv)
    OBVIOUS
  <2>3. PICK s \in Seq(Chars) : /\ Heads(ran.argv, s, t)
                                /\ image.kind = "proot" => s = cur.path
                                /\ image.kind # "proot" /\ ~IsPrefix(Root, argv[1]) => s = argv[1]
    BY <2>1, <2>2 DEF Seen
  <2>4. PICK u : u = ran.argv
    OBVIOUS
  <2>5. t \in Argvs /\ u = <<s>> \o t
    BY <2>3, <2>4 DEF Heads
  <2>6. Len(u) = 1 + Len(t) /\ u[1] = s
    BY <2>5, TailLeft
  <2>7. \A r : Ends(r, t) => IsSuffix(r, u)
    <3> TAKE r
    <3> SUFFICES ASSUME Ends(r, t) PROVE IsSuffix(r, u)
      OBVIOUS
    <3>1. <<s>> \in Argvs
      BY OneArg
    <3>2. Ends(r, <<s>> \o t)
      BY <3>1, EndsBehind
    <3> QED
      BY <2>5, <3>2, EndsSuffix
  <2>8. IsSuffix(rest, u)
    BY <2>1, <2>2, <2>7 DEF Carried
  <2>9. stage # "shell" /\ cur.depth > 0 => IsSuffix(<<Named>> \o rest, u)
    BY <2>1, <2>2, <2>7 DEF Carried
  <2>10. ASSUME stage # "shell", cur.depth = 0
         PROVE  /\ Len(u) = Len(job.argv)
                /\ image.kind = "proot" => u[1] = Named
                /\ image.kind # "proot" /\ ~IsPrefix(Root, job.argv[1]) => u[1] = job.argv[1]
    <3>1. cur.argv = job.argv /\ cur.path = Named
      BY <2>1, <2>10 DEF Carried
    <3>2. Len(job.argv) = 1 + Len(t)
      BY <2>1, <2>2, <3>1, FirstAndRest DEF Carried
    <3> QED
      BY <2>2, <2>3, <2>6, <3>1, <3>2
  <2> QED
    BY <2>2, <2>4, <2>8, <2>9, <2>10 DEF ArgvArrives
<1> QED
  BY <1>1, HandedAtFirst, HandedOn, PTL DEF Spec

-----------------------------------------------------------------------------
(* The way back from a program's file to its name.                         *)

\* No bind is the root of the host, and none contains the guest's root.
BindsBeside == \A b \in Binds : Names(b) # <<>> /\ ~IsPrefix(b, Root)

\* The working directory is in the root or in a bind.
CwdInside == IsPrefix(RootPlace, Cwd) \/ Covered(Binds, Cwd)

\* A bind does not hide a place.
InSight(p) == \A b \in Binds : ~IsPrefix(RootPlace \o Names(b), p)

LEMMA PlacesTyped ==
  /\ Root \in Texts /\ RootPlace \in LabelSeqs /\ RootPlace # <<>> /\ Root = Stem(RootPlace)
  /\ Absolute(Root) /\ Cwd \in LabelSeqs
  /\ \A p : Expand(p) = PutUnder(Root, Binds, p) /\ Unexpand(p) = TakenOff(Root, p)
            /\ (ShouldExpand(p) <=> Free(Binds, p))
  /\ \A b \in Binds : b \in Texts /\ Names(b) \in LabelSeqs /\ Absolute(b) /\ ~IsPrefix(Root, b)
  /\ BindsBeside => StemBinds(Binds)
<1>1. /\ Root \in Texts /\ RootPlace # <<>> /\ Root = Stem(RootPlace)
      /\ Absolute(Root) /\ Cwd \in LabelSeqs
  BY TranslateAssumption, PlacesAssumption DEF Stem, Texts, LabelSeqs
<1>2. RootPlace \in LabelSeqs
  BY <1>1, NamesTyped DEF RootPlace
<1>3. \A b \in Binds : b \in Texts /\ Names(b) \in LabelSeqs /\ Absolute(b) /\ ~IsPrefix(Root, b) /\ b = Text(Names(b))
  BY TranslateAssumption, NamesTyped DEF Texts
<1>4. BindsBeside => \A b \in Binds : b \in Texts /\ Names(b) # <<>> /\ b = Stem(Names(b))
  BY <1>3 DEF Stem, BindsBeside
<1>5. \A p : Expand(p) = PutUnder(Root, Binds, p) /\ Unexpand(p) = TakenOff(Root, p)
             /\ (ShouldExpand(p) <=> Free(Binds, p))
  BY DEF Expand, ShouldExpand, PutUnder, Free, Unexpand, TakenOff
<1> QED
  BY <1>1, <1>2, <1>3, <1>4, <1>5 DEF StemBinds

\* Two that begin the same sequence begin each other.
LEMMA PrefixesMeet ==
  ASSUME NEW T, NEW p \in Seq(T), NEW q \in Seq(T), NEW r \in Seq(T), IsPrefix(p, r), IsPrefix(q, r)
  PROVE  IsPrefix(p, q) \/ IsPrefix(q, p)
<1>1. /\ Len(p) <= Len(r) /\ \A i \in 1..Len(p) : p[i] = r[i]
      /\ Len(q) <= Len(r) /\ \A i \in 1..Len(q) : q[i] = r[i]
  BY PrefixItems
<1>2. Len(p) \in Nat /\ Len(q) \in Nat
  OBVIOUS
<1>3. CASE Len(p) <= Len(q)
  BY <1>1, <1>2, <1>3, PrefixItems
<1>4. CASE Len(q) <= Len(p)
  BY <1>1, <1>2, <1>4, PrefixItems
<1> QED
  BY <1>2, <1>3, <1>4

\* What is bound is not in the root.
LEMMA BoundApart ==
  ASSUME BindsBeside, NEW d \in LabelSeqs, Covered(Binds, d)
  PROVE  ~IsPrefix(RootPlace, d) /\ ~IsPrefix(Root, Stem(d))
<1>1. PICK b \in Binds : IsPrefix(Names(b), d)
  BY DEF Covered
<1>2. /\ Names(b) \in LabelSeqs /\ b = Stem(Names(b)) /\ ~IsPrefix(b, Root) /\ ~IsPrefix(Root, b)
      /\ Root = Stem(RootPlace) /\ RootPlace \in LabelSeqs
  BY <1>1, PlacesTyped DEF BindsBeside, StemBinds
<1>3. ~IsPrefix(Names(b), RootPlace) /\ ~IsPrefix(RootPlace, Names(b))
  BY <1>2, StemPrefix
<1>4. ~IsPrefix(RootPlace, d)
  BY <1>1, <1>2, <1>3, PrefixesMeet DEF LabelSeqs
<1> QED
  BY <1>2, <1>4, StemPrefix

\* A path that is neither expanded nor relative leads into a bind.
LEMMA NotFree ==
  ASSUME NEW c \in Texts, Absolute(c), ~Free(Binds, c)
  PROVE  \E b \in Binds : IsPrefix(b, c) /\ IsPrefix(Names(b), Names(c))
<1>1. PICK b \in Binds : IsPrefix(b, c)
  BY DEF Free
<1>2. b \in Texts /\ Names(b) \in LabelSeqs
  BY PlacesTyped
<1>3. PICK r \in Texts : c = b \o r
  BY <1>1, <1>2, PrefixRest DEF Texts
<1>4. Names(c) = Names(b) \o Names(r) /\ Names(r) \in LabelSeqs
  BY <1>2, <1>3, NamesOfConcat, NamesTyped
<1>5. IsPrefix(Names(b), Names(b) \o Names(r))
  BY <1>2, <1>4, PrefixOfConcat DEF LabelSeqs
<1> QED
  BY <1>1, <1>4, <1>5

\* Where a path leads to, and how it is named there.
Reachable(c, d) ==
  /\ d \in LabelSeqs /\ d # <<>>
  /\ \E q \in LabelSeqs : IsPrefix(RootPlace, d) => d = RootPlace \o q /\ ~Covered(Binds, q)
  /\ ~IsPrefix(RootPlace, d) => Covered(Binds, d)
  /\ Unexpand(Expand(c)) = c

LEMMA ConcatPrefix ==
  ASSUME NEW T, NEW p \in Seq(T), NEW q \in Seq(T), NEW r \in Seq(T), IsPrefix(q, r)
  PROVE  IsPrefix(p \o q, p \o r)
<1>0. \E t \in Seq(T) : r = q \o t /\ (Len(q) = Len(r) => t = <<>>)
  BY PrefixRest
<1>1. PICK t \in Seq(T) : r = q \o t
  BY <1>0
<1>2. p \o r = (p \o q) \o t /\ p \o q \in Seq(T)
  BY <1>1
<1> QED
  BY <1>2, PrefixOfConcat

\* In the root and in sight.
LEMMA NotHidden ==
  ASSUME NEW d \in LabelSeqs, InSight(d), IsPrefix(RootPlace, d)
  PROVE  \E q \in LabelSeqs : d = RootPlace \o q /\ ~Covered(Binds, q)
<1>1. PICK q \in LabelSeqs : d = RootPlace \o q
  BY PrefixRest, PlacesTyped DEF LabelSeqs
<1>2. ASSUME NEW b \in Binds, IsPrefix(Names(b), q) PROVE FALSE
  <2>1. Names(b) \in LabelSeqs /\ RootPlace \in LabelSeqs
    BY PlacesTyped
  <2>2. IsPrefix(RootPlace \o Names(b), RootPlace \o q)
    BY <1>1, <1>2, <2>1, ConcatPrefix DEF LabelSeqs
  <2> QED
    BY <1>1, <2>2 DEF InSight
<1> QED
  BY <1>1, <1>2 DEF Covered

LEMMA LongerThanNone ==
  ASSUME NEW p \in LabelSeqs, NEW d \in LabelSeqs, p # <<>>, IsPrefix(p, d)
  PROVE  d # <<>>
<1>1. Len(p) \in Nat /\ Len(p) > 0 /\ Len(p) <= Len(d)
  BY PrefixItems DEF LabelSeqs
<1> QED
  BY <1>1

LEMMA PlaceIs ==
  ASSUME BindsBeside, CwdInside, NEW c \in Texts, InSight(Place(c))
  PROVE  Reachable(c, Place(c))
<1>0. PICK d : d = Place(c)
  OBVIOUS
<1>1. /\ RootPlace \in LabelSeqs /\ RootPlace # <<>> /\ Cwd \in LabelSeqs /\ Root \in Texts
      /\ Names(c) \in LabelSeqs /\ Names(Root) = RootPlace /\ Absolute(Root)
  BY PlacesTyped, NamesTyped DEF RootPlace
<1>2. ASSUME NEW p \in LabelSeqs, Covered(Binds, p) PROVE p # <<>>
  <2>1. PICK b \in Binds : IsPrefix(Names(b), p)
    BY <1>2 DEF Covered
  <2>2. Names(b) # <<>> /\ Names(b) \in LabelSeqs
    BY PlacesTyped DEF BindsBeside
  <2> QED
    BY <2>1, <2>2, LongerThanNone
<1>3. ASSUME NEW p \in LabelSeqs, NEW r \in LabelSeqs PROVE p \o r \in LabelSeqs /\ IsPrefix(p, p \o r)
  BY PrefixOfConcat DEF LabelSeqs
<1>4. ASSUME NEW p \in LabelSeqs, NEW r \in LabelSeqs, Covered(Binds, p) PROVE Covered(Binds, p \o r)
  <2>1. PICK b \in Binds : IsPrefix(Names(b), p) /\ Names(b) \in LabelSeqs
    BY <1>4, PlacesTyped DEF Covered
  <2>2. IsPrefix(Names(b), p \o r)
    BY <2>1, PrefixConcat DEF LabelSeqs
  <2> QED
    BY <2>2 DEF Covered
<1>5. ASSUME d \in LabelSeqs, IsPrefix(RootPlace, d) \/ Covered(Binds, d), Unexpand(Expand(c)) = c
      PROVE  Reachable(c, d)
  <2>1. CASE IsPrefix(RootPlace, d)
    <3>1. \E q \in LabelSeqs : d = RootPlace \o q /\ ~Covered(Binds, q)
      BY <1>0, <1>5, <2>1, NotHidden
    <3>2. d # <<>>
      BY <1>1, <1>5, <2>1, LongerThanNone
    <3> QED
      BY <1>5, <2>1, <3>1, <3>2 DEF Reachable
  <2>2. CASE ~IsPrefix(RootPlace, d)
    <3>1. d # <<>>
      BY <1>2, <1>5, <2>2
    <3> QED
      BY <1>1, <1>5, <2>2, <3>1 DEF Reachable
  <2> QED
    BY <2>1, <2>2
<1>6. CASE ~Absolute(c)
  <2>1. d = Cwd \o Names(c)
    BY <1>0, <1>6 DEF Place
  <2>2. d \in LabelSeqs /\ (IsPrefix(RootPlace, d) \/ Covered(Binds, d))
    <3>1. d \in LabelSeqs
      BY <1>1, <1>3, <2>1
    <3>2. CASE IsPrefix(RootPlace, Cwd)
      BY <1>1, <2>1, <3>1, <3>2, PrefixConcat DEF LabelSeqs
    <3>3. CASE Covered(Binds, Cwd)
      BY <1>1, <1>4, <2>1, <3>1, <3>3
    <3> QED
      BY <3>1, <3>2, <3>3 DEF CwdInside
  <2>3. Expand(c) = c
    BY <1>6 DEF Expand, ShouldExpand
  <2>4. ~IsPrefix(Root, c) /\ c # Root
    <3>1. IsPrefix(Root, c) => Absolute(c)
      <4> SUFFICES ASSUME IsPrefix(Root, c) PROVE Absolute(c)
        OBVIOUS
      <4>1. Len(Root) <= Len(c) /\ \A i \in 1..Len(Root) : Root[i] = c[i]
        BY <1>1, PrefixItems DEF Texts
      <4>2. Len(Root) \in Nat /\ Len(Root) > 0 /\ Root[1] = "/"
        BY <1>1 DEF Absolute, Texts
      <4>3. 1 \in 1..Len(Root) /\ Len(c) \in Nat /\ Len(c) > 0
        BY <4>1, <4>2 DEF Texts
      <4> QED
        BY <4>1, <4>2, <4>3 DEF Absolute
    <3> QED
      BY <1>1, <1>6, <3>1
  <2>5. Unexpand(c) = c
    BY <2>4 DEF Unexpand
  <2> QED
    BY <1>0, <1>5, <2>2, <2>3, <2>5
<1>7. CASE Absolute(c) /\ Free(Binds, c)
  <2>1. Expand(c) = Root \o c
    BY <1>7, PlacesTyped DEF PutUnder
  <2>2. d = RootPlace \o Names(c)
    BY <1>0, <1>1, <1>7, <2>1, NamesOfConcat DEF Place
  <2>3. d \in LabelSeqs /\ IsPrefix(RootPlace, d)
    BY <1>1, <1>3, <2>2
  <2>4. Unexpand(Expand(c)) = c
    BY <1>7, RoundTrip, PlacesTyped DEF Texts
  <2> QED
    BY <1>0, <1>5, <2>3, <2>4
<1>8. CASE Absolute(c) /\ ~Free(Binds, c)
  <2>1. Expand(c) = c
    BY <1>8, PlacesTyped DEF PutUnder
  <2>2. d = Names(c)
    BY <1>0, <1>8, <2>1 DEF Place
  <2>3. PICK b \in Binds : IsPrefix(b, c) /\ IsPrefix(Names(b), Names(c))
    BY <1>8, NotFree
  <2>4. Covered(Binds, d)
    BY <2>2, <2>3 DEF Covered
  <2>5. ~IsPrefix(Root, c) /\ c # Root
    <3>1. b \in Texts /\ ~IsPrefix(Root, b) /\ ~IsPrefix(b, Root)
      BY <2>3, PlacesTyped DEF BindsBeside
    <3>2. ~IsPrefix(Root, c)
      BY <1>1, <2>3, <3>1, PrefixesMeet DEF Texts
    <3> QED
      BY <2>3, <3>1, <3>2
  <2>6. Unexpand(c) = c
    BY <2>5 DEF Unexpand
  <2> QED
    BY <1>0, <1>1, <1>5, <2>1, <2>2, <2>4, <2>6
<1> QED
  BY <1>6, <1>7, <1>8

\* The name that the library notes leads to the program's file.
LEMMA ExeReturns ==
  ASSUME BindsBeside, CwdInside, NEW c \in Texts, InSight(Place(c)),
         ~IsPrefix(Root \o Root, Text(Place(c)))
  PROVE  Place(Unexpand(Realpath(Unexpand(Expand(c))))) = Place(c)
<1>0. PICK d, u : d = Place(c) /\ u = Unexpand(Text(d))
  OBVIOUS
<1>1. Reachable(c, d)
  BY <1>0, PlaceIs
<1>2. Realpath(Unexpand(Expand(c))) = u
  BY <1>0, <1>1 DEF Realpath, Reachable
<1>3. PICK q \in LabelSeqs : IsPrefix(RootPlace, d) => d = RootPlace \o q /\ ~Covered(Binds, q)
  BY <1>1 DEF Reachable
<1>4. d \in LabelSeqs /\ d # <<>> /\ (~IsPrefix(RootPlace, d) => Covered(Binds, d))
  BY <1>1 DEF Reachable
<1>5. TextLeads(Root, Binds, d)
  BY <1>3, <1>4, TextReturns, PlacesTyped
<1>6. Absolute(Expand(u)) /\ Names(Expand(u)) = d
  BY <1>0, <1>5, PlacesTyped DEF TextLeads
<1>7. Place(u) = d
  BY <1>6 DEF Place, Expand, ShouldExpand
<1>8. Text(d) = Stem(d) /\ Stem(d) \in Texts
  BY <1>4, StemTyped DEF Stem
<1>9. Unexpand(u) = u
  <2>1. CASE ~IsPrefix(RootPlace, d)
    <3>1. ~IsPrefix(Root, Stem(d))
      BY <1>4, <2>1, StemPrefix, PlacesTyped
    <3>2. Stem(d) # Root
      BY <3>1 DEF IsPrefix
    <3> QED
      BY <1>0, <1>8, <3>1, <3>2 DEF Unexpand
  <2>2. CASE IsPrefix(RootPlace, d)
    <3>1. PICK s \in Texts : Stem(d) = Root \o s
      <4>1. d = RootPlace \o q /\ RootPlace \in LabelSeqs /\ Root = Stem(RootPlace)
        BY <1>3, <2>2, PlacesTyped
      <4>2. Stem(RootPlace \o q) = Stem(RootPlace) \o Stem(q) /\ Stem(q) \in Texts
        BY <4>1, StemOfConcat, StemTyped
      <4> QED
        BY <4>1, <4>2
    <3>2. CASE Stem(d) = Root
      <4>1. u = <<"/">>
        BY <1>0, <1>8, <3>2 DEF Unexpand
      <4>2. Len(Root) \in Nat /\ Len(Root) >= 2 /\ Len(<<"/">>) = 1
        BY RootIs
      <4>3. ~IsPrefix(Root, <<"/">>) /\ Root # <<"/">>
        <5>1. <<"/">> \in Texts
          BY LabelsAreTokens DEF Texts
        <5>2. IsPrefix(Root, <<"/">>) => Len(Root) <= Len(<<"/">>)
          BY <5>1, PrefixItems, PlacesTyped DEF Texts
        <5> QED
          BY <4>2, <5>2
      <4> QED
        BY <4>1, <4>3 DEF Unexpand
    <3>3. CASE Stem(d) # Root
      <4>1. IsPrefix(Root, Root \o s) /\ SubSeq(Root \o s, Len(Root) + 1, Len(Root \o s)) = s
        BY PrefixOfConcat, RestOfConcat, PlacesTyped DEF Texts
      <4>2. u = s
        BY <1>0, <1>8, <3>1, <3>3, <4>1 DEF Unexpand
      <4>3. ASSUME IsPrefix(Root, s) PROVE FALSE
        <5>1. IsPrefix(Root \o Root, Root \o s)
          BY <4>3, ConcatPrefix, PlacesTyped DEF Texts
        <5> QED
          BY <1>0, <1>8, <3>1, <5>1
      <4>4. s # Root
        <5>1. IsPrefix(Root, Root)
          BY DEF IsPrefix
        <5> QED
          BY <4>3, <5>1
      <4> QED
        BY <4>2, <4>3, <4>4 DEF Unexpand
    <3> QED
      BY <3>2, <3>3
  <2> QED
    BY <2>1, <2>2
<1> QED
  BY <1>0, <1>2, <1>7, <1>9

-----------------------------------------------------------------------------
(* A program without arguments.                                            *)

\* argv is what a linker is started with for it, in n cells of memory.
Bare(argv, linker, path) ==
  /\ argv \in Argvs /\ Len(argv) = 2 /\ argv[1] = linker /\ argv[2] = path

\* Where its parts are.
BareAt(argv, linker, path) ==
  /\ Line(argv) \in Memory /\ Len(Line(argv)) = 2 + Len(linker) + Len(path)
  /\ Offset(argv, 2) = 2 + Len(linker)
  /\ Holds(Line(argv), 1, linker) /\ Holds(Line(argv), 2 + Len(linker), path)
  /\ Own(argv) = [i \in 1..1 |-> i + 1] \/ path = Dash

LEMMA IsBare ==
  ASSUME NEW linker \in Seq(Chars), NEW path \in Seq(Chars)
  PROVE  Bare(<<linker, path>>, linker, path)
<1>1. PICK argv : argv = <<linker, path>>
  OBVIOUS
<1>2. argv \in Seq(Seq(Chars))
  BY <1>1
<1>3. Len(argv) = 2 /\ argv[1] = linker /\ argv[2] = path
  BY <1>1
<1> QED
  BY <1>1, <1>2, <1>3 DEF Bare, Argvs

LEMMA BareIs ==
  ASSUME NEW argv, NEW linker \in Seq(Chars), NEW path \in Seq(Chars), Bare(argv, linker, path)
  PROVE  BareAt(argv, linker, path)
<1>1. PICK line, x, z : line = Lines(argv) /\ x = Len(linker) /\ z = Len(path)
  OBVIOUS
<1>2. /\ argv \in Argvs /\ Len(argv) = 2 /\ argv[1] = linker /\ argv[2] = path
      /\ 1 \in 1..Len(argv) /\ 2 \in 1..Len(argv) /\ x \in Nat /\ z \in Nat
  BY <1>1 DEF Bare
<1>3. line \in [0..2 -> Memory] /\ line[0] = <<>>
  BY <1>1, <1>2, LinesAre
<1>4. Len(line[1]) = 1 + x
  <2>1. Len(line[1]) = Len(line[1 - 1]) + Len(argv[1]) + 1
    BY <1>1, <1>2, LineStep
  <2>2. Len(line[1 - 1]) = 0
    BY <1>3
  <2> QED
    BY <1>1, <1>2, <2>1, <2>2
<1>5. Len(line[2]) = 2 + x + z
  <2>1. Len(line[2]) = Len(line[2 - 1]) + Len(argv[2]) + 1
    BY <1>1, <1>2, LineStep
  <2>2. 2 - 1 = 1 /\ Len(argv[2]) = z
    BY <1>1, <1>2
  <2>3. Len(line[2]) = Len(line[1]) + z + 1
    BY <2>1, <2>2
  <2> QED
    BY <1>2, <1>4, <2>3
<1>6. Line(argv) = line[2]
  BY <1>1, <1>2 DEF Line
<1>7. Offset(argv, 1) = 1 /\ Offset(argv, 2) = 2 + x
  <2>1. Offset(argv, 1) = 1 + Len(line[0])
    BY <1>1 DEF Offset
  <2>2. Offset(argv, 2) = 1 + Len(line[1])
    BY <1>1 DEF Offset
  <2>3. Len(line[0]) = 0
    BY <1>3
  <2> QED
    BY <1>2, <1>4, <2>1, <2>2, <2>3
<1>8. Holds(Line(argv), 1, linker) /\ Holds(Line(argv), 2 + x, path)
  BY <1>2, <1>7, LineHolds
<1>9. ASSUME path # Dash PROVE Own(argv) = [i \in 1..1 |-> i + 1]
  <2>1. Own(argv) = [i \in 1..Len(argv) - 1 |-> i + 1]
    BY <1>2, <1>9 DEF Own, Dash
  <2> QED
    BY <1>2, <2>1
<1>10. Line(argv) \in Memory
  BY <1>3, <1>6
<1> QED
  BY <1>1, <1>5, <1>6, <1>7, <1>8, <1>9, <1>10 DEF BareAt

\* The linker's name is found where it is.
LEMMA BareFound ==
  ASSUME NEW argv, NEW linker \in Seq(Chars), NEW path \in Seq(Chars), Bare(argv, linker, path),
         path # linker
  PROVE  LastAt(Line(argv), linker, 2 + Len(linker)) = 1
<1>1. PICK mem, N : mem = Line(argv) /\ N = Len(linker)
  OBVIOUS
<1>2. /\ N \in Nat /\ mem \in Memory /\ Holds(mem, 1, linker) /\ Holds(mem, 2 + N, path)
  BY <1>1, BareIs DEF BareAt
<1>3. Str(mem, 1) = linker /\ Str(mem, 2 + N) = path
  BY <1>2, StrOf
<1>4. ASSUME NEW q \in 2..2 + N, Str(mem, q) = linker PROVE FALSE
  <2>2. CASE q <= 1 + N
    <3>1. PICK d \in 0..N : d = q - 1 /\ d # 0
      BY <1>2, <2>2
    <3>2. PICK t : t = SubSeq(linker, d + 1, Len(linker))
      OBVIOUS
    <3>3. Holds(mem, 1 + d, t)
      BY <1>1, <1>2, <3>1, <3>2, HoldsTail
    <3>4. Str(mem, q) = t
      <4>1. 1 + d = q
        BY <1>2, <3>1
      <4> QED
        BY <1>2, <3>3, <4>1, StrOf
    <3>5. Len(t) = N - d
      <4>1. PICK n : n = N - d
        OBVIOUS
      <4>2. n \in Nat /\ d \in Nat /\ d + n <= Len(linker) /\ d + n = Len(linker)
        BY <1>1, <1>2, <3>1, <4>1
      <4>3. Part(SubSeq(linker, d + 1, d + n), linker, d, n, Chars)
        BY <4>2, PartIs
      <4> QED
        BY <3>2, <4>1, <4>2, <4>3 DEF Part
    <3> QED
      BY <1>1, <1>2, <1>4, <3>1, <3>4, <3>5
  <2>3. CASE q = 2 + N
    BY <1>3, <1>4, <2>3
  <2> QED
    BY <1>2, <2>2, <2>3
<1> DEFINE Fits(p) == Str(mem, p) = linker /\ \A q \in p + 1..2 + N : Str(mem, q) # linker
<1>5. 1 \in 1..2 + N /\ Fits(1)
  BY <1>2, <1>3, <1>4
<1>6. PICK real : real = LastAt(mem, linker, 2 + N)
  OBVIOUS
<1>7. real \in 1..2 + N /\ Fits(real)
  <2>1. real = CHOOSE p \in 1..2 + N : Fits(p)
    BY <1>6 DEF LastAt
  <2> HIDE DEF Fits
  <2> QED
    BY <1>5, <2>1
<1>8. real = 1
  BY <1>2, <1>4, <1>7
<1> QED
  BY <1>1, <1>6, <1>8

LEMMA NoLine == Line(<<>>) = <<>> /\ <<>> \in Argvs /\ Len(<<>>) = 0
<1>1. <<>> \in Argvs /\ Len(<<>>) = 0
  BY DEF Argvs
<1>2. Lines(<<>>)[0] = <<>>
  BY <1>1, LinesAre
<1> QED
  BY <1>1, <1>2 DEF Line

\* What such a program is told.
LEMMA FixupBare ==
  ASSUME NEW argv, NEW linker \in Seq(Chars), NEW path \in Seq(Chars), Bare(argv, linker, path),
         path # Dash, path # linker
  PROVE  /\ SeenBy(argv)[1] = path
         /\ \E V : Tidied(Fixup(argv), V, Len(Line(argv)))
         /\ Fixup(argv).exe = IF linker \in LdLinux THEN Unexpand(Realpath(Unexpand(path))) ELSE <<>>
<1>1. PICK f, mem, N : f = Fixup(argv) /\ mem = Line(argv) /\ N = Len(linker)
  OBVIOUS
<1>2. PICK m : m = Len(mem)
  OBVIOUS
<1>3. /\ mem \in Memory /\ m = 2 + N + Len(path) /\ Offset(argv, 2) = 2 + N
      /\ Holds(mem, 1, linker) /\ Holds(mem, 2 + N, path) /\ Own(argv) = [i \in 1..1 |-> i + 1]
      /\ N \in Nat /\ Len(path) \in Nat /\ m \in Nat
  <2>1. BareAt(argv, linker, path)
    BY BareIs
  <2>2. N \in Nat /\ Len(path) \in Nat
    BY <1>1
  <2>3. mem \in Memory /\ m = 2 + N + Len(path) /\ Offset(argv, 2) = 2 + N
        /\ Holds(mem, 1, linker) /\ Holds(mem, 2 + N, path) /\ Own(argv) = [i \in 1..1 |-> i + 1]
    BY <1>1, <1>2, <2>1, Zenon DEF BareAt
  <2> QED
    BY <2>2, <2>3
<1>4. argv[1] = linker /\ argv[2] = path
  BY DEF Bare
<1>5. SeenBy(argv)[1] = path
  <2>1. 1 \in DOMAIN Own(argv) /\ Own(argv)[1] = 2
    BY <1>3
  <2> QED
    BY <1>4, <2>1 DEF SeenBy
<1>6. PICK ptr : ptr = [i \in DOMAIN Own(argv) |-> Offset(argv, Own(argv)[i])]
  OBVIOUS
<1>7. DOMAIN ptr = 1..1 /\ ptr[1] = 2 + N /\ 1 \in 1..1
  BY <1>3, <1>6
<1>8. PICK name, exe, now :
        /\ name = NameAt(mem, 2 + N) /\ exe = ExeAt(mem, 1)
        /\ now = Hidden(mem, exe, Str(mem, exe), linker \in LdLinux)
  OBVIOUS
<1>9. LastAt(mem, linker, 2 + N) = 1
  BY <1>1, BareFound
<1>10. Str(mem, 1) = linker /\ Str(mem, 2 + N) = path
  BY <1>3, StrOf
<1>11. exe = 2 + N
  <2>1. After(mem, 1) = 1 + N + 1
    BY <1>1, <1>10 DEF After
  <2>2. After(mem, 1) = 2 + N
    BY <1>3, <2>1
  <2> QED
    BY <1>8, <1>10, <2>2 DEF ExeAt
<1>12. Alike(now, mem, 2 + N, Len(path))
  BY <1>3, <1>8, <1>10, <1>11, HiddenIs
<1>13. now \in Memory /\ Len(now) = m
  BY <1>2, <1>12 DEF Alike
<1>14. now[m] = NUL
  <2>1. mem[(2 + N) + Len(path)] = NUL /\ (2 + N) + Len(path) = m
    BY <1>3 DEF Holds
  <2>2. m \in 1..Len(mem) /\ m \notin 2 + N..(2 + N) + Len(path) - 1
    BY <1>2, <1>3
  <2> QED
    BY <1>12, <2>1, <2>2 DEF Alike
<1>15. name \in 1..m /\ name # 1 /\ name >= 2
  <2>1. CASE IsPrefix(Root, path)
    <3>1. name = 2 + N + Len(Root)
      BY <1>8, <1>10, <2>1 DEF NameAt
    <3>2. Len(Root) \in Nat /\ Len(Root) <= Len(path)
      BY <2>1, RootIs DEF IsPrefix
    <3> QED
      BY <1>3, <3>1, <3>2
  <2>2. CASE ~IsPrefix(Root, path)
    <3>1. name = 2 + N
      BY <1>8, <1>10, <2>2 DEF NameAt
    <3> QED
      BY <1>3, <3>1
  <2> QED
    BY <2>1, <2>2
<1>16. PICK s : Holds(now, name, s)
  BY <1>13, <1>14, <1>15, StrThere
<1>17. s \in Seq(Chars) /\ Len(s) + 1 <= m /\ Str(now, name) = s
  <2>1. s \in Seq(Chars) /\ name + Len(s) <= m /\ Len(s) \in Nat
    BY <1>13, <1>16 DEF Holds
  <2> QED
    BY <1>3, <1>13, <1>15, <1>16, <2>1, StrOf
<1>18. PICK to : to = [ptr EXCEPT ![1] = 1]
  OBVIOUS
<1>19. Pointers(to, <<>>, m)
  <2>1. DOMAIN to = 1..1 /\ to[1] = 1
    BY <1>7, <1>18
  <2>2. Len(to) = 1
    BY <2>1
  <2> QED
    BY <2>1, <2>2 DEF Pointers
<1>20. Behind(now, m, Line(<<>>)) /\ m = m + Len(Line(<<>>))
  BY <1>3, <1>13, NoLine DEF Behind
<1>21. PICK g : g = Moving(now, to, s, 1, m)
  OBVIOUS
<1>22. Tidied(g, <<s>> \o <<>>, m)
  <2>1. Len(now) = m + Len(Line(<<>>))
    BY <1>13, <1>20
  <2> QED
    BY <1>3, <1>13, <1>17, <1>19, <1>20, <1>21, <2>1, NoLine, MovingIs
<1>23. /\ f.argv = g.argv /\ f.line = g.line /\ f.wild = g.wild
       /\ f.exe = IF linker \in LdLinux THEN Unexpand(Realpath(Unexpand(path))) ELSE <<>>
  <2>1. Corrected(argv, f)
    BY <1>1, FixupIs
  <2>2. ptr[1] = 2 + N /\ argv[1] = linker /\ 1 # name
    BY <1>4, <1>7, <1>15
  <2>3. /\ f.argv = Moving(now, to, Str(now, name), 1, Len(mem)).argv
        /\ f.line = Moving(now, to, Str(now, name), 1, Len(mem)).line
        /\ f.wild = Moving(now, to, Str(now, name), 1, Len(mem)).wild
        /\ f.exe = IF linker \in LdLinux THEN Unexpand(Realpath(Unexpand(Str(mem, exe)))) ELSE <<>>
    BY <1>1, <1>6, <1>8, <1>9, <1>18, <2>1, <2>2, Zenon DEF Corrected
  <2> QED
    BY <1>2, <1>10, <1>11, <1>17, <1>21, <2>3
<1>24. Tidied(f, <<s>> \o <<>>, m)
  BY <1>22, <1>23 DEF Tidied
<1> QED
  BY <1>1, <1>2, <1>5, <1>23, <1>24

\* A program that is the linker itself.
LEMMA FixupItself ==
  ASSUME NEW argv, NEW linker \in Seq(Chars), Bare(argv, linker, linker), linker # Dash,
         ~IsPrefix(Root, linker)
  PROVE  ~Fixup(argv).wild
<1>1. PICK f, mem, N : f = Fixup(argv) /\ mem = Line(argv) /\ N = Len(linker)
  OBVIOUS
<1>2. PICK ptr : ptr = [i \in DOMAIN Own(argv) |-> Offset(argv, Own(argv)[i])]
  OBVIOUS
<1>3. /\ mem \in Memory /\ Offset(argv, 2) = 2 + N /\ Holds(mem, 2 + N, linker)
      /\ Own(argv) = [i \in 1..1 |-> i + 1]
  <2>1. BareAt(argv, linker, linker)
    BY BareIs
  <2> QED
    BY <1>1, <2>1, Zenon DEF BareAt
<1>4. N \in Nat /\ 2 + N \in Nat /\ 2 + N >= 1
  BY <1>1
<1>5. ptr[1] = 2 + N
  BY <1>2, <1>3
<1>6. Str(mem, 2 + N) = linker
  BY <1>3, StrOf
<1>7. LastAt(mem, linker, 2 + N) = 2 + N
  BY <1>4, <1>6, FoundHere
<1>8. NameAt(mem, 2 + N) = 2 + N
  BY <1>6 DEF NameAt
<1>9. argv[1] = linker
  BY DEF Bare
<1>10. f = [argv |-> SeenBy(argv), line |-> mem, exe |-> <<>>, wild |-> FALSE]
  <2>1. Corrected(argv, f)
    BY <1>1, FixupIs
  <2> QED
    BY <1>1, <1>2, <1>5, <1>7, <1>8, <1>9, <2>1, Zenon DEF Corrected
<1> QED
  BY <1>1, <1>10

-----------------------------------------------------------------------------
(* The command line of a program that a linker starts.                     *)

\* Nobody calls a program without arguments by the linker's own option.
PlainCalls == \A j \in Jobs : j.argv = <<>> => j.path # Dash

\* Every file of a host can be reached by a name.
NoneHidden == \A h \in Hosts : \A p \in DOMAIN h.files : InSight(p)

\* What execve() may be called with.
Fits(path, argv) ==
  /\ path \in Seq(Chars) /\ path \in Texts /\ argv \in Argvs
  /\ argv = <<>> => path # Dash

Asked == Fits(cur.path, cur.argv)

\* A linker is given the program of the call, and its arguments.
Linked(argv) ==
  \E l \in Seq(Chars) : Absolute(l) /\ argv = LinkerArgv(l, Expand(cur.path), cur.argv)

\* The constructor's outcome is what the program sees.
Fixed(f) ==
  /\ pc = "undefined" => f.wild
  /\ pc = "running" => ran.argv = f.argv /\ ran.line = f.line /\ ran.exe = f.exe

TellInv ==
  /\ ArgInv /\ Asked
  /\ pc = "libraries" => File(cur.path).kind = "elf64"
  /\ image.kind = "linker" =>
       /\ pc \in {"started", "running", "undefined"}
       /\ Place(cur.path) \in DOMAIN host.files /\ Linked(image.argv)
       /\ Has(image.env, "LD_PRELOAD") => Fixed(Fixup(image.argv))

LEMMA LettersAreTokens == \A s \in Seq(Letters) : s \in Texts
<1>1. Letters \subseteq Tokens
  BY DEF Letters, Tokens
<1>2. ASSUME NEW s \in Seq(Letters) PROVE s \in Seq(Tokens)
  <2>1. Len(s) \in Nat /\ s = [i \in 1..Len(s) |-> s[i]] /\ \A i \in 1..Len(s) : s[i] \in Letters
    BY <1>2
  <2> HIDE DEF Letters, Tokens
  <2> QED
    BY <1>1, <2>1
<1> QED
  BY <1>2 DEF Texts

LEMMA JobFits == ASSUME PlainCalls, job \in Jobs PROVE Fits(job.path, job.argv)
<1>1. job.path \in Seq(Letters)
  BY SpawnAssumption, Zenon
<1> QED
  BY <1>1, JobTyped, LettersAreTokens DEF Fits, PlainCalls

LEMMA CandidateFits ==
  ASSUME PlainCalls, job \in Jobs, NEW i \in Dirs
  PROVE  Fits(Candidate(SearchPath[i]), job.argv)
<1>1. SearchPath[i] \in Seq(Letters) /\ job.path \in Seq(Letters)
  BY ExecAssumption, SpawnAssumption DEF Dirs
<1>2. PICK d, p, slash : d = SearchPath[i] /\ p = job.path /\ slash = <<"/">>
  OBVIOUS
<1>3. d \in Texts /\ p \in Texts /\ slash \in Texts /\ Len(slash) = 1
  BY <1>1, <1>2, LettersAreTokens DEF Texts, Tokens
<1>4. ASSUME d # <<>> PROVE d \o slash \o p \in Texts /\ Len(d \o slash \o p) # 1
  <2>1. Len(d) \in Nat /\ Len(d) # 0 /\ Len(p) \in Nat
    BY <1>3, <1>4 DEF Texts
  <2>2. PICK e : e = d \o slash
    OBVIOUS
  <2>3. e \in Texts /\ Len(e) = Len(d) + 1
    <3>1. d \in Seq(Tokens) /\ slash \in Seq(Tokens)
      BY <1>3 DEF Texts
    <3>2. e \in Seq(Tokens) /\ Joined(e, d, slash)
      BY <2>2, <3>1, Joins
    <3> QED
      BY <1>3, <3>2 DEF Texts, Joined
  <2>4. e \o p \in Texts /\ Len(e \o p) = Len(e) + Len(p)
    BY <1>3, <2>3 DEF Texts
  <2>5. Len(e \o p) # 1
    BY <2>1, <2>3, <2>4
  <2> QED
    BY <2>2, <2>4, <2>5
<1>5. Len(Dash) = 1
  BY DEF Dash
<1>6. CASE d = <<>>
  <2>1. Candidate(SearchPath[i]) = job.path
    BY <1>2, <1>6 DEF Candidate
  <2> QED
    BY <2>1, JobFits
<1>7. CASE d # <<>>
  <2>1. Candidate(SearchPath[i]) = d \o slash \o p
    BY <1>2, <1>7 DEF Candidate
  <2>2. Candidate(SearchPath[i]) \in Texts /\ Candidate(SearchPath[i]) # Dash
    BY <1>4, <1>5, <1>7, <2>1
  <2> QED
    BY <2>2, CandidateTyped, JobTyped DEF Fits
<1> QED
  BY <1>6, <1>7

LEMMA CallAsks ==
  ASSUME NEW path, NEW argv, NEW depth, Calls(path, argv, depth), Fits(path, argv)
  PROVE  pc' = "execve" /\ Asked'
<1>1. pc' = "execve" /\ cur'.path = path /\ cur'.argv = argv
  BY DEF Calls
<1> QED
  BY <1>1 DEF Asked, Fits

LEMMA TryAsks ==
  ASSUME PlainCalls, job \in Jobs, NEW i \in Dirs, Try(SubSeq(SearchPath, i, Len(SearchPath)))
  PROVE  pc' = "execve" /\ Asked' /\ image' = image
<1>1. Head(SubSeq(SearchPath, i, Len(SearchPath))) = SearchPath[i]
  BY ExecAssumption DEF Dirs
<1>2. Calls(Candidate(SearchPath[i]), job.argv, 0) /\ image' = image
  BY <1>1 DEF Try, start
<1> QED
  BY <1>2, CandidateFits, CallAsks

LEMMA PathAsks ==
  ASSUME PlainCalls, job \in Jobs, Asked, TryPath
  PROVE  pc' \in {"execve", "failed"} /\ Asked' /\ image' = image
<1>1. CASE Try(SearchPath)
  <2>1. 1 \in Dirs /\ SubSeq(SearchPath, 1, Len(SearchPath)) = SearchPath
    BY ExecAssumption DEF Dirs
  <2> QED
    BY <1>1, <2>1, TryAsks
<1>2. CASE \E e : Gives(e)
  BY <1>2 DEF Gives, start, Asked
<1> QED
  BY <1>1, <1>2 DEF TryPath

LEMMA BeginAsks ==
  ASSUME PlainCalls, job \in Jobs, Asked, Begin
  PROVE  pc' \in {"execve", "failed"} /\ Asked' /\ image' = image
<1>1. CASE Calls(job.path, job.argv, 0) /\ UNCHANGED start
  BY <1>1, JobFits, CallAsks DEF start
<1>2. CASE TryPath
  BY <1>2, PathAsks
<1>3. CASE \E e : Gives(e)
  BY <1>3 DEF Gives, start, Asked
<1> QED
  BY <1>1, <1>2, <1>3 DEF Begin, BeginExecve, BeginExecvpe

\* A script's interpreter.
LEMMA ScriptAsks ==
  ASSUME ArgInv, Asked, HandleShebang
  PROVE  Asked'
<1>0. PICK f : f = File(cur.path)
  OBVIOUS
<1>1. CASE Undefined
  BY <1>1 DEF Undefined, Asked
<1>2. CASE Calls(Interpreter(f), ShebangArgv(f), cur.depth + 1) /\ cur.argv # <<>> /\ f.kind = "script"
  <2>1. f.interp \in Seq(Letters) /\ f.arg \in Seq(Seq(Letters))
    BY <1>0, <1>2, FileTyped, SpawnAssumption DEF ArgInv
  <2>2. PICK interp : interp = Interpreter(f)
    OBVIOUS
  <2>3. interp \in Seq(Letters) /\ interp # <<>>
    BY <2>1, <2>2, ShellAssumption DEF Interpreter, Shell
  <2>4. interp \in Seq(Chars) /\ interp \in Texts /\ f.arg \in Argvs
    BY <2>1, <2>3, LettersAreChars, LettersAreTokens
  <2>5. Len(interp) \in 1..Len(interp)
    BY <2>3, <2>4
  <2>6. PICK a, t : a = <<Last(Interpreter(f))>> /\ t = Tail(cur.argv)
    OBVIOUS
  <2>7. a \in Seq(Chars)
    <3>1. interp[Len(interp)] \in Chars
      BY <2>4, <2>5
    <3> QED
      BY <2>2, <2>6, <3>1 DEF Last
  <2>8. t \in Argvs /\ cur.path \in Seq(Chars)
    BY <1>2, <2>6, FirstAndRest DEF Asked, Fits, Heads
  <2>9. PICK argv : argv = ShebangArgv(f)
    OBVIOUS
  <2>10. argv = <<a>> \o f.arg \o <<cur.path>> \o t
    BY <2>6, <2>9 DEF ShebangArgv
  <2>11. argv \in Argvs /\ argv # <<>>
    BY <2>4, <2>7, <2>8, <2>10, InterpreterArgs
  <2>12. Fits(interp, argv)
    BY <2>4, <2>11 DEF Fits
  <2> QED
    BY <1>2, <2>2, <2>9, <2>12, CallAsks
<1> QED
  BY <1>0, <1>1, <1>2 DEF HandleShebang, Is

\* A shell is told its own name.
LEMMA ShellAsks ==
  ASSUME ArgInv, Asked, HxShellExecute
  PROVE  Asked'
<1>1. Shell \in Seq(Chars) /\ Shell \in Texts /\ job.argv \in Argvs /\ cur.path \in Seq(Chars)
  BY ShellAssumption, LettersAreChars, LettersAreTokens, JobTyped DEF ArgInv, Asked, Fits
<1>2. PICK s, p : s = Shell /\ p = cur.path
  OBVIOUS
<1>3. <<s, p>> \in Argvs /\ <<s, p>> # <<>>
  BY <1>1, <1>2 DEF Argvs
<1>4. <<s>> \o job.argv \in Argvs /\ <<s>> \o job.argv # <<>>
  BY <1>1, <1>2, TailLeft
<1>5. PICK argv : argv = IF job.argv = <<>> THEN <<Shell, cur.path>> ELSE <<Shell>> \o job.argv
  OBVIOUS
<1>6. Fits(Shell, argv)
  BY <1>1, <1>2, <1>3, <1>4, <1>5 DEF Fits
<1> QED
  BY <1>5, <1>6, CallAsks DEF HxShellExecute

LEMMA LibraryAsks ==
  ASSUME PlainCalls, ArgInv, Asked, ExecNext
  PROVE  Asked'
<1>0. job \in Jobs
  BY DEF ArgInv
<1>1. CASE cur' = cur
  BY <1>1 DEF Asked
<1>2. CASE HandleShebang
  BY <1>2, ScriptAsks
<1>3. CASE HxShellExecute
  BY <1>3, ShellAsks
<1>4. CASE AfterFile
  BY <1>0, <1>4, PathAsks DEF AfterFile
<1>5. CASE AfterCandidate /\ Try(dirs)
  <2>1. dirs # <<>> /\ stage = "path"
    BY <1>5 DEF AfterCandidate, Gives, Try, Calls
  <2>2. PICK i \in Dirs : dirs = SubSeq(SearchPath, i + 1, Len(SearchPath))
    BY <2>1 DEF ArgInv
  <2>3. i + 1 \in Dirs
    <3>1. Len(SearchPath) \in Nat /\ SearchPath \in Seq(Seq(Letters)) /\ i \in 1..Len(SearchPath)
      BY ExecAssumption DEF Dirs
    <3>2. CASE i = Len(SearchPath)
      <4>1. SubSeq(SearchPath, Len(SearchPath) + 1, Len(SearchPath)) = <<>>
        BY <3>1
      <4> QED
        BY <2>1, <2>2, <3>2, <4>1
    <3>3. CASE i # Len(SearchPath)
      BY <3>1, <3>3 DEF Dirs
    <3> QED
      BY <3>2, <3>3
  <2> QED
    BY <1>0, <1>5, <2>2, <2>3, TryAsks
<1>6. CASE AfterCandidate /\ \E e : Gives(e)
  BY <1>1, <1>6 DEF Gives
<1>7. CASE OpenFails \/ NotExec \/ ParseFails \/ HandleProot
  BY <1>1, <1>7 DEF OpenFails, NotExec, ParseFails, HandleProot, Fails, Undefined, Starts
<1>8. CASE HandleElf64 \/ AddLibrary \/ StartLinker
  BY <1>1, <1>8 DEF HandleElf64, AddLibrary, StartLinker, Fails, Undefined, Starts
<1> QED
  BY <1>2, <1>3, <1>4, <1>5, <1>6, <1>7, <1>8 DEF ExecNext, AfterCandidate

\* The linker that is found has an absolute path.
LEMMA LinkerAbsolute ==
  ASSUME ArgInv, NEW f, f \in Range(host.files), f.kind = "elf64"
  PROVE  Linker(f) \in Seq(Chars) /\ Absolute(Linker(f))
<1>1. /\ f.interp \in Seq(Letters) /\ Absolute(f.interp)
      /\ (host.linker # <<>> => Absolute(host.linker)) /\ Absolute(Termux)
  BY SpawnAssumption, PlacesAssumption DEF ArgInv
<1>2. Absolute(Expand(f.interp))
  <2>1. CASE ShouldExpand(f.interp)
    <3>1. PICK p : p = f.interp
      OBVIOUS
    <3>2. p \in Texts /\ Root \in Texts /\ Absolute(Root)
      BY <1>1, <3>1, LettersAreTokens, PlacesTyped
    <3>3. Absolute(Root \o p)
      BY <3>2 DEF Absolute, Texts
    <3> QED
      BY <2>1, <3>1, <3>3 DEF Expand
  <2>2. CASE ~ShouldExpand(f.interp)
    BY <1>1, <2>2 DEF Expand
  <2> QED
    BY <2>1, <2>2
<1>3. Absolute(Linker(f))
  BY <1>1, <1>2 DEF Linker
<1> QED
  BY <1>3, LinkerTyped

LEMMA PlaceThere ==
  ASSUME NEW path, File(path).kind = "elf64"
  PROVE  Place(path) \in DOMAIN host.files
  BY DEF File

\* A linker is started.
LEMMA LinkerTells ==
  ASSUME TellInv, StartLinker, image'.kind = "linker", image.kind # "linker"
  PROVE  /\ pc' = "started" /\ cur' = cur /\ host' = host /\ ran' = ran
         /\ Place(cur.path) \in DOMAIN host.files /\ Linked(image'.argv)
<1>0. PICK f, l : f = File(cur.path) /\ l = Linker(f)
  OBVIOUS
<1>1. pc = "libraries"
  BY DEF StartLinker
<1>2. f.kind = "elf64" /\ f \in Range(host.files)
  BY <1>0, <1>1, FileTyped DEF TellInv, ArgInv
<1>3. l \in Seq(Chars) /\ Absolute(l)
  BY <1>0, <1>2, LinkerAbsolute DEF TellInv
<1>4. \E env : Starts("linker", LinkerArgv(l, Expand(cur.path), cur.argv), env)
  <2>1. ASSUME NEW e, Fails(e) PROVE FALSE
    BY <2>1 DEF Fails, start
  <2>2. ASSUME Undefined PROVE FALSE
    BY <2>2 DEF Undefined, start
  <2>3. ASSUME NEW argv, NEW env, Starts("bionic", argv, env) PROVE FALSE
    BY <2>3 DEF Starts
  <2> QED
    BY <1>0, <2>1, <2>2, <2>3 DEF StartLinker
<1>5. /\ pc' = "started" /\ cur' = cur /\ host' = host /\ ran' = ran
      /\ image'.argv = LinkerArgv(l, Expand(cur.path), cur.argv)
  BY <1>4 DEF Starts
<1>6. Place(cur.path) \in DOMAIN host.files
  BY <1>0, <1>2, PlaceThere
<1> QED
  BY <1>3, <1>5, <1>6 DEF Linked

LEMMA ToldAtFirst == Init => TellInv
<1> SUFFICES ASSUME Init PROVE TellInv
  OBVIOUS
<1>1. /\ ArgInv /\ cur.path = <<>> /\ cur.argv = <<>> /\ pc = "idle" /\ image.kind = "none"
  BY HandedAtFirst DEF Init, ExecInit
<1>2. <<>> \in Seq(Chars) /\ <<>> \in Texts /\ <<>> \in Argvs /\ <<>> # Dash
  BY DEF Texts, Argvs, Dash
<1> QED
  BY <1>1, <1>2 DEF TellInv, Asked, Fits

\* Nothing has been started, and nothing is.
LEMMA TellRests ==
  ASSUME ArgInv', Asked', image' = image, image.kind # "linker", pc' # "libraries"
  PROVE  TellInv'
  BY DEF TellInv

LEMMA LibraryTells ==
  ASSUME PlainCalls, TellInv, ExecNext, ArgInv'
  PROVE  TellInv'
<1>1. pc \in UnderWay /\ host' = host /\ job' = job /\ ArgInv /\ Asked
  BY LibraryStep DEF TellInv
<1>2. image.kind # "linker" /\ Asked'
  BY <1>1, LibraryAsks DEF TellInv, UnderWay
<1>3. pc' = "libraries" => File(cur.path)'.kind = "elf64" /\ image' = image
  <2> SUFFICES ASSUME pc' = "libraries" PROVE File(cur.path)'.kind = "elf64" /\ image' = image
    OBVIOUS
  <2>1. CASE HandleElf64
    <3>1. cur' = cur /\ image' = image /\ File(cur.path).kind = "elf64"
      BY <2>1 DEF HandleElf64, Is, Undefined
    <3> QED
      BY <1>1, <3>1, FileStays
  <2>2. CASE AddLibrary
    <3>1. cur' = cur /\ image' = image /\ File(cur.path).kind = "elf64"
      BY <2>2 DEF AddLibrary, TellInv
    <3> QED
      BY <1>1, <3>1, FileStays
  <2> QED
    BY <2>1, <2>2, ListStep
<1>4. CASE image'.kind # "linker"
  BY <1>2, <1>3, <1>4 DEF TellInv
<1>5. CASE image'.kind = "linker"
  <2>1. StartLinker
    BY <1>2, <1>5, ImageStep
  <2>2. /\ pc' = "started" /\ cur' = cur /\ host' = host /\ ran' = ran
        /\ Place(cur.path) \in DOMAIN host.files /\ Linked(image'.argv)
    BY <1>2, <1>5, <2>1, LinkerTells
  <2>3. Linked(image.argv)'
    BY <2>2 DEF Linked
  <2>4. Fixed(Fixup(image.argv))'
    BY <2>2 DEF Fixed
  <2>5. (Place(cur.path) \in DOMAIN host.files)'
    BY <2>2
  <2>6. pc' # "libraries" /\ pc' \in {"started", "running", "undefined"}
    BY <2>2
  <2> QED
    BY <1>2, <2>3, <2>4, <2>5, <2>6 DEF TellInv
<1> QED
  BY <1>4, <1>5

LEMMA ProgramTells ==
  ASSUME TellInv, ProgramNext, ArgInv'
  PROVE  TellInv'
<1>1. pc = "started" /\ pc' \in {"running", "undefined"} /\ host' = host /\ cur' = cur /\ image' = image
  BY ProgramSteps DEF ProgramNext, RunsAlone, RunsFixed, Shows, Undefined, start
<1>2. Asked'
  BY <1>1 DEF TellInv, Asked
<1>3. CASE image.kind # "linker"
  BY <1>1, <1>2, <1>3 DEF TellInv
<1>4. CASE image.kind = "linker"
  <2>1. Place(cur.path) \in DOMAIN host.files /\ Linked(image.argv)
    BY <1>4 DEF TellInv
  <2>2. Linked(image.argv)' /\ (Place(cur.path) \in DOMAIN host.files)'
    BY <1>1, <2>1 DEF Linked
  <2>3. Has(image'.env, "LD_PRELOAD") => Fixed(Fixup(image.argv))'
    <3> SUFFICES ASSUME Has(image'.env, "LD_PRELOAD") PROVE Fixed(Fixup(image.argv))'
      OBVIOUS
    <3>1. RunsFixed
      BY <1>1, <1>4 DEF ProgramNext, RunsAlone
    <3>2. PICK f : f = Fixup(image.argv)
      OBVIOUS
    <3>3. Fixup(image.argv)' = f
      BY <1>1, <3>2
    <3>4. IF f.wild THEN Undefined ELSE Shows(f.argv, f.line, f.exe)
      BY <3>1, <3>2 DEF RunsFixed
    <3>5. (pc' = "undefined" => f.wild)
          /\ (pc' = "running" => ran'.argv = f.argv /\ ran'.line = f.line /\ ran'.exe = f.exe)
      BY <3>4 DEF Undefined, Shows
    <3> QED
      BY <3>3, <3>5 DEF Fixed
  <2> QED
    BY <1>1, <1>2, <2>2, <2>3 DEF TellInv
<1> QED
  BY <1>3, <1>4

LEMMA ToldOn == PlainCalls /\ TellInv /\ [Next]_vars => TellInv'
<1> SUFFICES ASSUME PlainCalls, TellInv, [Next]_vars PROVE TellInv'
  OBVIOUS
<1>0. ArgInv /\ ArgInv' /\ Asked /\ job \in Jobs /\ host' = host /\ job' = job
  BY HandedOn, CallStays DEF TellInv, ArgInv
<1>1. CASE Exec \/ ChildExecs
  <2>1. Begin /\ pc \in {"idle", "files"}
    BY <1>1 DEF Exec, ChildExecs
  <2>2. image.kind # "linker"
    BY <2>1 DEF TellInv
  <2> QED
    BY <1>0, <2>1, <2>2, BeginAsks, TellRests
<1>2. CASE ExecStep
  BY <1>0, <1>2, LibraryTells DEF ExecStep
<1>3. CASE ProgramStep
  BY <1>0, <1>3, ProgramTells DEF ProgramStep
<1>4. CASE Spawn \/ FileAction \/ ChildExits
  <2>1. pc \in {"idle", "files", "failed"} /\ pc' # "libraries" /\ image' = image /\ cur' = cur
    <3>1. CASE Spawn
      BY <3>1 DEF Spawn, start
    <3>2. CASE ChildExits
      BY <3>2 DEF ChildExits, Exits, start
    <3>3. CASE FileAction
      BY <3>3 DEF FileAction, Undefined, Exits, execVars, start
    <3> QED
      BY <1>4, <3>1, <3>2, <3>3
  <2>2. image.kind # "linker" /\ Asked'
    BY <1>0, <2>1 DEF TellInv, Asked
  <2> QED
    BY <1>0, <2>1, <2>2, TellRests
<1>5. CASE ParentCloses \/ UNCHANGED vars
  <2>1. UNCHANGED <<pc, cur, image, ran>>
    BY <1>5 DEF ParentCloses, execVars, vars, start
  <2>2. File(cur.path)' = File(cur.path)
    BY <1>0, <2>1, FileStays
  <2>3. Asked' /\ (Place(cur.path) \in DOMAIN host.files => (Place(cur.path) \in DOMAIN host.files)')
    BY <1>0, <2>1 DEF Asked
  <2>4. Linked(image.argv) => Linked(image.argv)'
    BY <2>1 DEF Linked
  <2>5. Fixed(Fixup(image.argv)) => Fixed(Fixup(image.argv))'
    BY <2>1 DEF Fixed
  <2> QED
    BY <1>0, <2>1, <2>2, <2>3, <2>4, <2>5 DEF TellInv
<1> QED
  BY <1>1, <1>2, <1>3, <1>4, <1>5 DEF Next, Process

LEMMA NotTheOption == ASSUME NEW p \in Seq(Chars), p # Dash PROVE Expand(p) # Dash
<1>1. Len(Root) \in Nat /\ Len(Root) >= 2 /\ Root \in Seq(Chars) /\ Len(Dash) = 1
  BY RootIs DEF Dash
<1>2. PICK u : u = Root \o p
  OBVIOUS
<1>3. Len(u) = Len(Root) + Len(p) /\ Len(p) \in Nat
  BY <1>1, <1>2, Joins DEF Joined
<1>4. Len(u) # 1
  BY <1>1, <1>3
<1> QED
  BY <1>1, <1>2, <1>4 DEF Expand

\* The constructor loses its way only where argv[0] is the linker's path, and
\* below the root.
Deceived(argv) == SeenBy(argv)[1] = argv[1] /\ IsPrefix(Root, SeenBy(argv)[1])

\* What the constructor makes of the command line of a linker.
LEMMA LineTold ==
  ASSUME Asked, NEW argv, NEW l \in Seq(Chars), Absolute(l),
         argv = LinkerArgv(l, Expand(cur.path), cur.argv)
  PROVE  /\ argv[1] = l
         /\ Len(Line(argv)) <= CmdlineBuf /\ Fixup(argv).wild => Deceived(argv)
         /\ SeenBy(argv)[1] # argv[1] =>
              /\ \E V : Tidied(Fixup(argv), V, Len(Line(argv)))
              /\ Fixup(argv).exe =
                   IF l \in LdLinux THEN Unexpand(Realpath(Unexpand(Expand(cur.path)))) ELSE <<>>
<1>0. PICK path, f, n : path = Expand(cur.path) /\ f = Fixup(argv) /\ n = Len(Line(argv))
  OBVIOUS
<1> DEFINE Line1 == \E V : Tidied(f, V, n)
           Exe1  == f.exe = IF l \in LdLinux THEN Unexpand(Realpath(Unexpand(path))) ELSE <<>>
<1>1. path \in Seq(Chars) /\ (cur.argv = <<>> => path # Dash)
  BY <1>0, ExpandTyped, NotTheOption DEF Asked, Fits
<1>4. argv[1] = l /\ (SeenBy(argv)[1] # argv[1] => Line1 /\ Exe1)
      /\ (SeenBy(argv)[1] = argv[1] /\ ~IsPrefix(Root, SeenBy(argv)[1]) => ~f.wild)
  <2>1. CASE cur.argv = <<>>
    <3>1. argv = <<l, path>>
      BY <1>0, <2>1 DEF LinkerArgv
    <3>2. Bare(argv, l, path)
      BY <1>1, <3>1, IsBare
    <3>3. argv[1] = l /\ argv[2] = path
      BY <3>2 DEF Bare
    <3>4. SeenBy(argv)[1] = path
      <4>1. Own(argv) = [i \in 1..1 |-> i + 1]
        BY <1>1, <2>1, <3>2, BareIs DEF BareAt
      <4>2. 1 \in DOMAIN Own(argv) /\ Own(argv)[1] = 2
        BY <4>1
      <4> QED
        BY <3>3, <4>2 DEF SeenBy
    <3>5. ASSUME path # l PROVE Line1 /\ Exe1
      BY <1>0, <1>1, <2>1, <3>2, <3>5, FixupBare
    <3>6. ASSUME path = l, ~IsPrefix(Root, path) PROVE ~f.wild
      BY <1>0, <1>1, <2>1, <3>2, <3>6, FixupItself
    <3> HIDE DEF Line1, Exe1
    <3> QED
      BY <3>3, <3>4, <3>5, <3>6
  <2>2. CASE cur.argv # <<>>
    <3>1. PICK a, t : a = cur.argv[1] /\ t = Tail(cur.argv)
      OBVIOUS
    <3>2. a \in Seq(Chars) /\ t \in Argvs
      BY <2>2, <3>1, FirstAndRest DEF Asked, Fits, Heads
    <3>3. argv = <<l, Dash, a, path>> \o t
      BY <1>0, <2>2, <3>1 DEF LinkerArgv, Dash
    <3>4. Laid(argv, l, a, path, t)
      BY <1>1, <3>2, <3>3, IsLaid
    <3>5. argv[1] = l
      BY <3>4 DEF Laid
    <3>6. SeenBy(argv)[1] = a
      <4>1. SeenBy(argv) = <<a>> \o t
        BY <1>1, <3>2, <3>4, OwnIs DEF Leaves
      <4> QED
        BY <3>2, <4>1, TailLeft
    <3>7. Told(f, argv, a, path, t)
      BY <1>0, <1>1, <3>2, <3>4, FixupNamed
    <3>8. a # l => Line1 /\ Exe1
      BY <1>0, <3>5, <3>7 DEF Told
    <3>9. a = l /\ ~IsPrefix(Root, a) => ~f.wild
      BY <3>5, <3>7 DEF Told
    <3> HIDE DEF Line1, Exe1
    <3> QED
      BY <3>5, <3>6, <3>8, <3>9
  <2> HIDE DEF Line1, Exe1
  <2> QED
    BY <2>1, <2>2
<1>5. n <= CmdlineBuf /\ f.wild => Deceived(argv)
  <2>1. n <= CmdlineBuf /\ Line1 => ~f.wild
    BY DEF Tidied
  <2> HIDE DEF Line1, Exe1
  <2> QED
    BY <1>4, <2>1 DEF Deceived
<1> QED
  BY <1>0, <1>4, <1>5

LEMMA TellsLine ==
  ASSUME BindsBeside, CwdInside, NoneHidden, TellInv
  PROVE  CmdlineTold
<1> SUFFICES ASSUME image.kind = "linker", Has(image.env, "LD_PRELOAD"),
                    Len(Line(image.argv)) <= CmdlineBuf
             PROVE  /\ pc = "undefined" => Deceived(image.argv)
                    /\ pc = "running" /\ SeenBy(image.argv)[1] # image.argv[1] =>
                         /\ ran.line = Line(ran.argv)
                                         \o [i \in 1..Len(ran.line) - Len(Line(ran.argv)) |-> NUL]
                         /\ image.argv[1] \in LdLinux /\ ~IsPrefix(Root \o Root, Text(Place(cur.path))) =>
                              Place(ran.exe) = Place(cur.path)
  BY DEF CmdlineTold, Deceived
<1>1. PICK argv, f : argv = image.argv /\ f = Fixup(argv)
  OBVIOUS
<1>2. /\ Asked /\ Place(cur.path) \in DOMAIN host.files /\ Linked(argv)
      /\ Fixed(f)
  BY <1>1 DEF TellInv
<1>3. PICK l \in Seq(Chars) : Absolute(l) /\ argv = LinkerArgv(l, Expand(cur.path), cur.argv)
  BY <1>2 DEF Linked
<1>4. /\ argv[1] = l /\ (f.wild => Deceived(argv))
      /\ SeenBy(argv)[1] # argv[1] =>
           /\ \E V : Tidied(f, V, Len(Line(argv)))
           /\ f.exe = IF l \in LdLinux THEN Unexpand(Realpath(Unexpand(Expand(cur.path)))) ELSE <<>>
  BY <1>1, <1>2, <1>3, LineTold
<1>5. pc = "undefined" => Deceived(image.argv)
  BY <1>1, <1>2, <1>4 DEF Fixed
<1> SUFFICES ASSUME pc = "running", SeenBy(argv)[1] # argv[1]
             PROVE  /\ ran.line = Line(ran.argv) \o [i \in 1..Len(ran.line) - Len(Line(ran.argv)) |-> NUL]
                    /\ argv[1] \in LdLinux /\ ~IsPrefix(Root \o Root, Text(Place(cur.path))) =>
                         Place(ran.exe) = Place(cur.path)
  BY <1>1, <1>5
<1>6. PICK V : Tidied(f, V, Len(Line(argv)))
  BY <1>4
<1>7. ran.line = Line(ran.argv) \o [i \in 1..Len(ran.line) - Len(Line(ran.argv)) |-> NUL]
  <2>1. f.argv = V /\ f.line = Line(V) \o [i \in 1..Len(f.line) - Len(Line(V)) |-> NUL]
    BY <1>1, <1>6 DEF Tidied
  <2>2. ran.argv = V /\ ran.line = f.line
    BY <1>2, <2>1 DEF Fixed
  <2> QED
    BY <2>1, <2>2
<1>8. ASSUME argv[1] \in LdLinux, ~IsPrefix(Root \o Root, Text(Place(cur.path)))
      PROVE  Place(ran.exe) = Place(cur.path)
  <2>1. ran.exe = Unexpand(Realpath(Unexpand(Expand(cur.path))))
    BY <1>2, <1>4, <1>8 DEF Fixed
  <2>2. InSight(Place(cur.path)) /\ cur.path \in Texts
    BY <1>2 DEF NoneHidden, TellInv, ArgInv, Asked, Fits
  <2>3. Place(Unexpand(Realpath(Unexpand(Expand(cur.path))))) = Place(cur.path)
    BY <1>8, <2>2, ExeReturns
  <2> QED
    BY <2>1, <2>3
<1> QED
  BY <1>7, <1>8

\* HandleElf64 (exec.c) and HxFixupArgv (fixup_argv.c): for programs with
\* arguments of any number and length, and without, whose command line fits
\* the buffer it is read into, no write leaves the command line unless argv[0]
\* is the linker's own path and below the root; and unless it is the linker's
\* path, /proc shows what the program sees and nothing of the linker, and the
\* path kept of the program leads to the file that was started.
THEOREM CommandLineTold ==
  ASSUME PlainCalls, BindsBeside, CwdInside, NoneHidden
  PROVE  Spec => []CmdlineTold
<1>1. TellInv => CmdlineTold
  BY TellsLine
<1>2. TellInv /\ [Next]_vars => TellInv'
  BY ToldOn
<1> QED
  BY <1>1, <1>2, ToldAtFirst, PTL DEF Spec
=============================================================================
