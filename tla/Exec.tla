--------------------------------- MODULE Exec ---------------------------------
(***************************************************************************)
(* How a program is started (exec.c, elfutil.c, ldlib.c, fixup_argv.c).    *)
(* execve() reads the file: a script leads to another execve() for its     *)
(* interpreter, a program with an interpreter is given to a dynamic linker *)
(* of the host, and one without to proot.  execvpe() searches PATH with    *)
(* that execve().  In the new program the constructor HxFixupArgv hides    *)
(* the linker from the command line.                                       *)
(*                                                                         *)
(* A text is a sequence of tokens, and lengths are counted in tokens.  The *)
(* variables of the environment other than the two that matter here are in *)
(* ExecEnv.                                                                *)
(***************************************************************************)
EXTENDS Cmdline

CONSTANTS
  Termux,           \* the linker tried last
  Bionic,           \* the linkers of bionic, known by their names
  SearchPath,       \* PATH, a sequence of directories
  NameMax, LibBuf,  \* NAME_MAX, and the buffer of 512 bytes
  MaxDepth          \* bound: scripts run by scripts before the stack is full

ASSUME ExecAssumption ==
  /\ SearchPath \in Seq(Seq(Letters)) /\ SearchPath # <<>>
  /\ NameMax \in Nat /\ LibBuf \in Nat /\ CmdlineBuf \in Nat /\ MaxDepth \in Nat

ASSUME PlacesAssumption ==
  Root \in Seq(Letters) /\ Cwd \in Seq(Labels) /\ Termux \in Seq(Letters) /\ Absolute(Termux)

VARIABLES
  host,    \* [files, linker, proot, environ, backup]: what is in every place,
           \* HxLinker, whether HxProot is set, environ and HxEnviron
  job,     \* the call: [fn, path, argv, env] and the caller's other arguments
  pc,
  cur,     \* the arguments of the execve() under way, and its nesting
  stage,   \* what execvpe() is at
  dirs,    \* what is left of PATH
  eacces,  \* seen_eacces
  err,     \* errno
  lib, todo,   \* HxLdlib, and the directories to be added to it
  image,   \* what the kernel starts: [kind, argv, env]
  ran      \* what the program sees: [argv, line, exe]

search == <<stage, dirs, eacces>>
start  == <<lib, todo, image, ran>>
execVars == <<host, job, pc, cur, search, err, start>>

Shell == <<"/", "bin", "/", "sh">>

\* That a literal is a string, which the provers do not know.
ASSUME ShellAssumption == Shell \in Seq(Letters)

-----------------------------------------------------------------------------
(* Files.                                                                  *)

File(path) ==
  LET p == Place(path) IN
    IF p \in DOMAIN host.files THEN host.files[p]
    ELSE IF \E q \in DOMAIN host.files : IsStrictPrefix(q, p) /\ host.files[q].kind # "dir"
    THEN [kind |-> "beyond"] ELSE [kind |-> "none"]

\* A directory is opened, and cannot be read.  Other errors of open() (ELOOP,
\* EMFILE) end a search as EISDIR does.
OpenErr(path) ==
  LET k == File(path).kind IN
    IF k = "none" THEN "ENOENT" ELSE IF k = "beyond" THEN "ENOTDIR"
    ELSE IF k = "denied" THEN "EACCES" ELSE IF k = "dir" THEN "EISDIR" ELSE "0"

\* access(path, X_OK) and the kernel's execve() of a linker.
Runs(path) == Names(path) \in DOMAIN host.files /\ host.files[Names(path)].kind = "linker"

-----------------------------------------------------------------------------
(* ELF files.  Of the parts of a file "has" are there, "big" are larger    *)
(* than is read, or begin beyond their table, and "short" are cut off.  A  *)
(* dynamic section has its end.                                            *)

\* HxParseElfInfo64, HxReadInterp64, HxReadRpath64: the parts in the order
\* they are read in.
Reads(f) ==
  LET If(part) == IF part \in f.has THEN <<part>> ELSE <<>>
  IN  <<"sections", "names">> \o If("interp") \o <<"segments">> \o If("dynamic")
        \o (IF {"dynamic", "strings"} \subseteq f.has THEN <<"strings", "rpath">> ELSE <<>>)

ParseErr(f) ==
  LET bad == SelectSeq(Reads(f), LAMBDA x : x \in f.big \cup f.short) IN
    IF bad = <<>> THEN "0" ELSE IF Head(bad) \in f.big THEN "E2BIG" ELSE "ENODATA"

\* rpath, then runpath.  One that is there and empty is a single empty path.
LibDirs(f) == IF {"dynamic", "strings"} \subseteq f.has THEN f.rpath ELSE <<>>

\* HxHandleElf64: the linker.
Linker(f) ==
  IF host.linker # <<>> THEN host.linker
  ELSE IF Runs(Expand(f.interp)) THEN Expand(f.interp)
  ELSE IF Runs(f.interp) THEN f.interp
  ELSE IF Runs(Termux) THEN Termux
  ELSE Expand(f.interp)

-----------------------------------------------------------------------------
(* The environment.                                                        *)

Has(env, v) == \E i \in DOMAIN env : env[i].var = v
Find(env, v) == CHOOSE i \in DOMAIN env : env[i].var = v /\ \A j \in 1..i - 1 : env[j].var # v

Kept(v) == IF Has(host.environ, v) THEN <<host.environ[Find(host.environ, v)]>>
           ELSE IF Has(host.backup, v) THEN <<host.backup[Find(host.backup, v)]>> ELSE <<>>

\* The variables of PRESERVE_ENV that are missing follow the others.
Missing(env, v) == IF Has(env, v) THEN <<>> ELSE Kept(v)
Preserve(env) == env \o Missing(env, "LD_PRELOAD") \o Missing(env, "LD_LIBRARY_PATH")

Without(env, gone) == SelectSeq(env, LAMBDA e : e.var \notin gone)

Larger(a, b) == IF a > b THEN a ELSE b

\* HxLdlib: a text in a buffer.  "cut" once its end does not fit, "wild" once
\* it is written outside.
NoLib == [text |-> <<>>, pos |-> 0, siz |-> 0, cut |-> FALSE, wild |-> FALSE]

LdlibSet(text) ==
  [text |-> text, pos |-> Len(text), siz |-> Larger(Len(text) + 1, LibBuf), cut |-> FALSE, wild |-> FALSE]

\* Mutant: the separator is forgotten.
LdlibAppendBare(l, s) ==
  IF l.pos = 0 THEN LdlibSet(<<"LD_LIBRARY_PATH=">> \o s) ELSE LdlibSet(l.text \o s)

\* The buffer grows until s fits, and ":" and the end are written as well.
LdlibAppend(l, s) ==
  IF l.pos = 0 THEN LdlibSet(<<"LD_LIBRARY_PATH=">> \o s)
  ELSE LET siz == IF Len(s) <= l.siz - l.pos THEN l.siz
                  ELSE CHOOSE n \in {l.siz * 2^k : k \in 1..Len(s)} :
                         Len(s) <= n - l.pos /\ Len(s) > n \div 2 - l.pos
           room == siz - l.pos - 1
           full == <<":">> \o s
       IN  IF l.wild \/ l.pos > l.siz THEN [l EXCEPT !.wild = TRUE]
           ELSE [text |-> IF l.cut THEN l.text ELSE l.text \o SubSeq(full, 1, Least(room, Len(full))),
                 pos |-> l.pos + Len(full), siz |-> siz,
                 cut |-> l.cut \/ Len(full) > room, wild |-> FALSE]

\* The directories that an expanded path leads to.
Listed(f) ==
  LET listed[n \in 0..Len(LibDirs(f))] ==
        IF n = 0 THEN <<>>
        ELSE IF ShouldExpand(LibDirs(f)[n]) THEN Append(listed[n - 1], Expand(LibDirs(f)[n]))
        ELSE listed[n - 1]
  IN  listed[Len(LibDirs(f))]

\* LD_LIBRARY_PATH is looked for in the new environment, and its text taken
\* from the caller's at the same index, beyond its end if it was preserved.
Astray(env, f) ==
  LibDirs(f) # <<>> /\ Has(Preserve(env), "LD_LIBRARY_PATH") /\ ~Has(env, "LD_LIBRARY_PATH")

\* What the list starts with.
FirstLib(env, f) ==
  IF LibDirs(f) # <<>> /\ Has(env, "LD_LIBRARY_PATH")
  THEN LdlibSet(<<"LD_LIBRARY_PATH=">> \o env[Find(env, "LD_LIBRARY_PATH")].val) ELSE NoLib

NewEnv(env) ==
  LET kept == Preserve(env)
      list == [var |-> "LD_LIBRARY_PATH", val |-> Tail(lib.text)]
  IN  IF lib = NoLib THEN kept
      ELSE IF Has(env, "LD_LIBRARY_PATH") THEN [kept EXCEPT ![Find(kept, "LD_LIBRARY_PATH")] = list]
      ELSE Append(kept, list)

-----------------------------------------------------------------------------
(* execve().                                                               *)

\* -1 is returned; execvpe() goes on unless it was to run a shell.
Fails(e) ==
  /\ err' = e
  /\ pc' = IF stage \in {"file", "path"} THEN "search" ELSE "failed"
  /\ UNCHANGED <<host, job, cur, search, start>>

\* Undefined behaviour: anything may follow.
Undefined ==
  pc' = "undefined" /\ UNCHANGED <<host, job, cur, search, err, start>>

Is(kind) == pc = "execve" /\ File(cur.path).kind = kind

Calls(path, argv, depth) == pc' = "execve" /\ cur' = [path |-> path, argv |-> argv, depth |-> depth]

Starts(kind, argv, env) ==
  /\ image' = [kind |-> kind, argv |-> argv, env |-> env] /\ pc' = "started"
  /\ UNCHANGED <<host, job, cur, search, err, lib, todo, ran>>

OpenFails == pc = "execve" /\ OpenErr(cur.path) # "0" /\ Fails(OpenErr(cur.path))

NotExec == Is("text") /\ Fails("ENOEXEC")

Interpreter(f) == IF f.interp = <<>> THEN Shell ELSE f.interp

\* Mutant: argv[0] is passed on with the others.
ShebangArgvAll(f) == <<<<Last(Interpreter(f))>>>> \o f.arg \o <<cur.path>> \o cur.argv

\* The interpreter's name, its argument, the script; argv[0] is left out.
ShebangArgv(f) == <<<<Last(Interpreter(f))>>>> \o f.arg \o <<cur.path>> \o Tail(cur.argv)

\* An empty argv is left without an end.
HandleShebang ==
  /\ Is("script")
  /\ LET f == File(cur.path) IN
       IF cur.argv = <<>> \/ cur.depth = MaxDepth THEN Undefined
       ELSE /\ Calls(Interpreter(f), ShebangArgv(f), cur.depth + 1)
            /\ UNCHANGED <<host, job, search, err, start>>

\* Without section headers the name table is read from outside the array.
ParseFails ==
  /\ Is("elf64")
  /\ LET f == File(cur.path) IN
       IF "sections" \notin f.has THEN Undefined
       ELSE ParseErr(f) # "0" /\ Fails(ParseErr(f))

Parsed(f) == "sections" \in f.has /\ ParseErr(f) = "0"

HandleProot ==
  /\ \/ Is("elf32")
     \/ Is("elf64") /\ Parsed(File(cur.path)) /\ "interp" \notin File(cur.path).has
  /\ IF ~host.proot THEN Fails("ENOENT")
     ELSE IF cur.argv = <<>> THEN Undefined
     ELSE Starts("proot", <<cur.path>> \o Tail(cur.argv),
                 Without(job.env, {"LD_PRELOAD", "LD_LIBRARY_PATH"}))

\* Mutant: argv[0] is not told to the linker.
LinkerArgvNoName(linker, path, argv) ==
  IF argv = <<>> THEN <<linker, path>> ELSE <<linker, path>> \o Tail(argv)

LinkerArgv(linker, path, argv) ==
  IF argv = <<>> THEN <<linker, path>>
  ELSE <<linker, <<"--argv0">>, argv[1], path>> \o Tail(argv)

\* The environment is copied, and the list of libraries begun.
HandleElf64 ==
  /\ Is("elf64") /\ Parsed(File(cur.path)) /\ "interp" \in File(cur.path).has
  /\ LET f == File(cur.path) IN
       IF Astray(job.env, f) THEN Undefined
       ELSE /\ pc' = "libraries" /\ lib' = FirstLib(job.env, f) /\ todo' = Listed(f)
            /\ UNCHANGED <<host, job, cur, search, err, image, ran>>

AddLibrary ==
  /\ pc = "libraries" /\ todo # <<>>
  /\ lib' = LdlibAppend(lib, Head(todo)) /\ todo' = Tail(todo)
  /\ UNCHANGED <<host, job, pc, cur, search, err, image, ran>>

\* bionic's linker is found by the kernel.
StartLinker ==
  /\ pc = "libraries" /\ todo = <<>>
  /\ LET f == File(cur.path)
         linker == Linker(f)
     IN  IF lib.wild THEN Undefined
         ELSE IF ~Runs(IF linker \in Bionic THEN f.interp ELSE linker) THEN Fails("ENOENT")
         ELSE IF linker \in Bionic
         THEN Starts("bionic", cur.argv, Without(NewEnv(job.env), {"LD_PRELOAD"}))
         ELSE Starts("linker", LinkerArgv(linker, Expand(cur.path), cur.argv), NewEnv(job.env))

-----------------------------------------------------------------------------
(* execvpe().                                                              *)

Candidate(dir) == IF dir = <<>> THEN job.path ELSE dir \o <<"/">> \o job.path

\* Mutant: the directory that was tried is not left.
TryForever(rest) ==
  /\ Calls(Candidate(Head(rest)), job.argv, 0)
  /\ dirs' = rest /\ stage' = "path"
  /\ UNCHANGED <<host, job, start>>

Try(rest) ==
  /\ Calls(Candidate(Head(rest)), job.argv, 0)
  /\ dirs' = Tail(rest) /\ stage' = "path"
  /\ UNCHANGED <<host, job, start>>

Gives(e) ==
  /\ pc' = "failed" /\ err' = e
  /\ UNCHANGED <<host, job, cur, search, start>>

\* The length is looked at only before PATH is searched.
TryPath ==
  IF Len(job.path) > NameMax THEN Gives("ENAMETOOLONG")
  ELSE Try(SearchPath) /\ UNCHANGED <<eacces, err>>

\* HxShellExecute: the shell is given argv as it is.
HxShellExecute ==
  /\ pc = "search" /\ err = "ENOEXEC"
  /\ Calls(Shell, IF job.argv = <<>> THEN <<Shell, cur.path>> ELSE <<Shell>> \o job.argv, 0)
  /\ stage' = "shell"
  /\ UNCHANGED <<host, job, dirs, eacces, err, start>>

\* A file with a slash that fails is looked for in PATH as well.
AfterFile ==
  /\ pc = "search" /\ err # "ENOEXEC" /\ stage = "file"
  /\ TryPath

\* Mutant: the search stops where permission is denied.
GoOnStrict == {"ENOENT", "ENOTDIR"}

\* The errors the search goes on after.
GoOn == {"EACCES", "ENOENT", "ENOTDIR"}

AfterCandidate ==
  /\ pc = "search" /\ err # "ENOEXEC" /\ stage = "path"
  /\ LET seen == eacces \/ err = "EACCES" IN
       IF err \notin GoOn THEN Gives(err)
       ELSE IF dirs = <<>> THEN Gives(IF seen THEN "EACCES" ELSE err)
       ELSE Try(dirs) /\ eacces' = seen /\ UNCHANGED err

\* execve(), and the execv(), execl() and execle() that lead to it.
BeginExecve ==
  /\ Calls(job.path, job.argv, 0)
  /\ UNCHANGED <<host, job, search, err, start>>

\* execvpe(), and execvp() and execlp().
BeginExecvpe ==
  IF job.path = <<>> THEN Gives("ENOENT")
  ELSE IF "/" \in Range(job.path)
  THEN /\ Calls(job.path, job.argv, 0) /\ stage' = "file"
       /\ UNCHANGED <<host, job, dirs, eacces, err, start>>
  ELSE TryPath

Begin == IF job.fn = "execve" THEN BeginExecve ELSE BeginExecvpe

-----------------------------------------------------------------------------
(* The new program, with the library if it is preloaded.                   *)

Shows(argv, line, exe) ==
  /\ ran' = [argv |-> argv, line |-> line, exe |-> exe] /\ pc' = "running"
  /\ UNCHANGED <<host, job, cur, search, err, lib, todo, image>>

RunsAlone ==
  /\ pc = "started" /\ (image.kind # "linker" \/ ~Has(image.env, "LD_PRELOAD"))
  /\ Shows(IF image.kind = "linker" THEN SeenBy(image.argv) ELSE image.argv,
           Line(image.argv), <<>>)

RunsFixed ==
  /\ pc = "started" /\ image.kind = "linker" /\ Has(image.env, "LD_PRELOAD")
  /\ \E f \in {Fixup(image.argv)} : IF f.wild THEN Undefined ELSE Shows(f.argv, f.line, f.exe)

-----------------------------------------------------------------------------
ExecInit(h, j) ==
  /\ host = h /\ job = j /\ pc = "idle"
  /\ cur = [path |-> <<>>, argv |-> <<>>, depth |-> 0]
  /\ stage = "none" /\ dirs = <<>> /\ eacces = FALSE /\ err = "0"
  /\ lib = NoLib /\ todo = <<>>
  /\ image = [kind |-> "none", argv |-> <<>>, env |-> <<>>]
  /\ ran = [argv |-> <<>>, line |-> <<>>, exe |-> <<>>]

\* The steps from execve() or execvpe() to the start of a program or an error.
ExecNext ==
  \/ OpenFails \/ NotExec \/ HandleShebang \/ ParseFails \/ HandleProot
  \/ HandleElf64 \/ AddLibrary \/ StartLinker
  \/ HxShellExecute \/ AfterFile \/ AfterCandidate

\* The new program's first steps.
ProgramNext == RunsAlone \/ RunsFixed

-----------------------------------------------------------------------------
(* What execve() of a path comes to, in one step: an error, "starts", or   *)
(* "undefined".                                                            *)

Tried == {job.path, Shell} \cup {Candidate(SearchPath[i]) : i \in DOMAIN SearchPath}
           \cup {Interpreter(host.files[p]) : p \in {q \in DOMAIN host.files : host.files[q].kind = "script"}}

ElfResult(f) ==
  IF "sections" \notin f.has THEN "undefined"
  ELSE IF ParseErr(f) # "0" THEN ParseErr(f)
  ELSE IF "interp" \notin f.has THEN IF host.proot THEN "starts" ELSE "ENOENT"
  ELSE IF Astray(job.env, f) THEN "undefined"
  ELSE IF Runs(IF Linker(f) \in Bionic THEN f.interp ELSE Linker(f)) THEN "starts" ELSE "ENOENT"

\* Of a script, what becomes of its interpreter.
Outcome(path, script) ==
  LET f == File(path) IN
    IF OpenErr(path) # "0" THEN OpenErr(path)
    ELSE IF f.kind = "script" THEN script
    ELSE IF f.kind = "elf64" THEN ElfResult(f)
    ELSE IF f.kind = "elf32" THEN IF host.proot THEN "starts" ELSE "ENOENT"
    ELSE "ENOEXEC"

\* With so many scripts that the stack has room for.
Results ==
  LET result[d \in 0..MaxDepth] ==
        [p \in Tried |->
           Outcome(p, IF d = 0 THEN "undefined" ELSE result[d - 1][Interpreter(File(p))])]
  IN  result

Result(path) == Results[MaxDepth][path]

\* The file that the caller's name led to.
Named == IF stage = "path" THEN Candidate(SearchPath[Len(SearchPath) - Len(dirs)]) ELSE job.path

-----------------------------------------------------------------------------
\* execvpe() of a name runs the first program of PATH that execve() starts,
\* stops at the first error it may not go on after, and tells EACCES when any
\* directory had that.
SearchRight ==
  job.fn = "execvpe" /\ "/" \notin Range(job.path) /\ Len(job.path) \in 1..NameMax /\ job.argv # <<>>
    /\ pc \in {"running", "failed"} =>
    LET r == [i \in DOMAIN SearchPath |-> Result(Candidate(SearchPath[i]))]
        skips == {"EACCES", "ENOENT", "ENOTDIR"}
        Stops(i) == r[i] \notin skips /\ \A j \in 1..i - 1 : r[j] \in skips
    IN  /\ \A i \in DOMAIN r : Stops(i) =>
             \/ r[i] = "starts" /\ pc = "running" /\ Named = Candidate(SearchPath[i])
             \/ r[i] = "ENOEXEC" /\ stage = "shell"
             \/ r[i] \notin {"starts", "ENOEXEC"} /\ pc = "failed" /\ err = r[i]
        /\ (\A i \in DOMAIN r : ~Stops(i)) =>
             pc = "failed" /\ err = IF "EACCES" \in Range(r) THEN "EACCES" ELSE Last(r)

\* The arguments arrive: a program sees the caller's, behind the linker's own
\* (only an argv[0] in the root is changed); a script's interpreter sees the
\* script and then the arguments; a program under proot sees its file.
ArgvArrives ==
  pc = "running" /\ job.argv # <<>> =>
    /\ IsSuffix(Tail(job.argv), ran.argv)
    /\ stage # "shell" /\ cur.depth > 0 => IsSuffix(<<Named>> \o Tail(job.argv), ran.argv)
    /\ stage # "shell" /\ cur.depth = 0 =>
         /\ Len(ran.argv) = Len(job.argv)
         /\ image.kind = "proot" => ran.argv[1] = Named
         /\ image.kind # "proot" /\ ~IsPrefix(Root, job.argv[1]) => ran.argv[1] = job.argv[1]

\* With the library loaded, and a command line that could be read whole: /proc
\* shows a program's arguments and nothing of the linker; the library knows
\* its file, unless that lies in a directory of the guest with the root's own
\* name; and nothing behind the command line is written to.  The exception is
\* an argv[0] that is the linker's own path: it is taken for the start of the
\* command line, so that nothing is hidden, and if it is below the root memory
\* behind the command line is cleared.
CmdlineTold ==
  image.kind = "linker" /\ Has(image.env, "LD_PRELOAD") /\ Len(Line(image.argv)) <= CmdlineBuf =>
    LET own == SeenBy(image.argv)[1] IN
    /\ pc = "undefined" => own = image.argv[1] /\ IsPrefix(Root, own)
    /\ pc = "running" /\ own # image.argv[1] =>
         /\ ran.line = Line(ran.argv) \o [i \in 1..Len(ran.line) - Len(Line(ran.argv)) |-> NUL]
         /\ image.argv[1] \in LdLinux /\ ~IsPrefix(Root \o Root, Text(Place(cur.path))) =>
              Place(ran.exe) = Place(cur.path)

\* What the caller's own value of LD_LIBRARY_PATH is, if it has one, and so
\* many paths as one text.
Callers(env) ==
  IF Has(env, "LD_LIBRARY_PATH") THEN <<env[Find(env, "LD_LIBRARY_PATH")].val>> ELSE <<>>

ListTexts(paths) ==
  LET list[n \in 0..Len(paths)] ==
        IF n = 0 THEN <<>>
        ELSE IF n = 1 THEN paths[1] ELSE list[n - 1] \o <<":">> \o paths[n]
  IN  list

\* A program that the host's linker starts is told every directory of its
\* rpath that only the guest's path names, behind the caller's own, as long
\* as the text fits the first buffer.
LibrariesListed ==
  image.kind = "linker" =>
    LET paths == Callers(job.env) \o Listed(File(cur.path))
        text  == ListTexts(paths)[Len(paths)]
    IN  Listed(File(cur.path)) # <<>> /\ Len(text) + 2 <= LibBuf =>
          /\ Has(image.env, "LD_LIBRARY_PATH")
          /\ image.env[Find(image.env, "LD_LIBRARY_PATH")].val = text
=============================================================================
