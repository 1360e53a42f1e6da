------------------------------- MODULE GuestFs -------------------------------
(***************************************************************************)
(* The path wrappers.  Each puts the root before an absolute path that no  *)
(* bind excludes, makes the real call, and takes the root off the paths    *)
(* that come back (util.c).  The functions of one source file are one      *)
(* definition; one call is one step, for the wrappers keep no state of     *)
(* their own.                                                              *)
(*                                                                         *)
(* Link counts are in L2s, open() as a fake root in DacOverride, chroot()  *)
(* in ExecEnv.                                                             *)
(***************************************************************************)
EXTENDS Files, Translate

CONSTANTS
  FakeUid, FakeGid,    \* HxUid and HxGid, or -1
  Calls,        \* the calls the guest makes
  HostTrees,    \* the trees the host has at first
  Starts,       \* the places a program starts in
  SunPathMax,   \* UNIX_PATH_MAX
  ProcStat, ProcExe,   \* "/proc/stat" and "/proc/self/exe"
  Exe,          \* HxExe, or <<>> if it is not set
  MaxCalls

VARIABLES
  sys,      \* the host's files, and the guest's directories
  last,     \* the guest's last call, and what it returned
  calls,
  strayed   \* a record of where the guest's calls have led it (Strays)

vars == <<sys, last, calls, strayed>>

ASSUME GuestAssumption ==
  /\ HostTrees # {}
  /\ \A t, u \in HostTrees : t[RootPlace].kind = "dir" /\ DOMAIN t = DOMAIN u
  /\ \A t \in HostTrees : /\ t \in [DOMAIN t -> Nodes] /\ DOMAIN t \subseteq Seq(Labels)
                         /\ \A h \in DOMAIN t : Formed(t[h].to) /\ Undotted(h)
  /\ Calls \subseteq [op : STRING, path : Seq(Tokens), at : {"cwd", "fd"}, follow : BOOLEAN,
                     arg : STRING, target : Seq(Tokens), size : Nat]
  /\ \A c \in Calls : Formed(c.target)
  /\ Starts \subseteq Seq(Labels) /\ TempNames \subseteq Labels \ Dots /\ Exe \in Seq(Tokens)
  /\ MaxCalls \in Nat /\ SunPathMax \in Nat /\ MaxSteps \in Nat /\ MaxLinks \in Nat

-----------------------------------------------------------------------------
(* The host's places and the guest's.                                      *)

Bound(place)  == \E b \in Binds : IsPrefix(Names(b), place)
HostOf(place) == IF Bound(place) THEN place ELSE RootPlace \o place
GuestOf(host) == IF IsPrefix(RootPlace, host) THEN SubSeq(host, Len(RootPlace) + 1, Len(host))
                 ELSE host

\* Where a file system of the guest's own would have its root, and nothing
\* above it.
Tops == {RootPlace} \cup {Names(b) : b \in Binds}

\* What is below the root where a bind is mounted: no absolute path of the
\* guest begins with its name, but the kernel knows nothing of binds.
Hidden(place) == IsPrefix(RootPlace, place) /\ Bound(GuestOf(place))

\* Where the look-ups of a real call lead that a guest's would not: up from the
\* root or a bind, which the kernel takes for directories like any other, or
\* to what a bind hides.
Strays(k) ==
  LET took == UNION {w.took : w \in LookUps(sys, k)}
  IN  {way \in {"up", "hidden"} : \E t \in took :
         CASE way = "up"     -> t[1] \in Tops /\ t[2] = ".."
           [] way = "hidden" -> Hidden(Append(t[1], t[2]))}

-----------------------------------------------------------------------------
(* How a wrapper makes its call: c is the guest's, k the real one.         *)

Reply(c, s, err, val, ways) ==
  /\ sys' = s /\ last' = [call |-> c, ret |-> [err |-> err, val |-> val]]
  /\ calls' = calls + 1 /\ strayed' = strayed \cup ways

Expanded(c) == [c EXCEPT !.path = Expand(@)]

Pass(c, k) == \E o \in Kernel(sys, k) : Reply(c, o.sys, o.ret.err, o.ret.val, Strays(k))

\* The same, with what is returned changed.
Change(c, k, F(_)) ==
  \E o \in Kernel(sys, k) :
    Reply(c, o.sys, o.ret.err, IF o.ret.err = "0" THEN F(o.ret.val) ELSE o.ret.val, Strays(k))

ByOp == [op \in {c.op : c \in Calls} |-> {c \in Calls : c.op = op}]
Of(op) == IF calls < MaxCalls /\ op \in DOMAIN ByOp THEN ByOp[op] ELSE {}
With(op, arg) == {c \in Of(op) : c.arg = arg}

Simple(C) == \E c \in C : Pass(c, Expanded(c))

-----------------------------------------------------------------------------
(* Files and directories.                                                  *)

Access  == Simple(Of("look"))
Statvfs == Simple(Of("look"))

\* The link count is left out (a file beside a link's target that is named like
\* its link file is what makes it differ, or fail: L2s).
Stat    == \E c \in Of("stat") :
             Change(c, Expanded(c), LAMBDA v : <<v[1], IF FakeUid # -1 THEN FakeUid ELSE v[2]>>)

Setmntent == Simple(Of("read"))

\* /proc/stat is a text in memory.
Fopen ==
  \/ \E c \in Of("read") : IF c.path = ProcStat THEN Reply(c, sys, "0", {}, {}) ELSE Pass(c, Expanded(c))
  \/ Simple(Of("write"))
Freopen == Simple(Of("read")) \/ Simple(Of("write"))
Creat == Simple(Of("write"))

Chmod  == Simple(With("mark", "mode"))
Utime  == Simple(With("mark", "time"))
Xattr  == Simple(With("mark", "xattr")) \/ Simple(Of("read"))
Attr   == Simple(With("mark", "xattr")) \/ Simple(Of("read"))

\* Faked root only asks whether the file is there: access() and faccessat().
FakeRoot == FakeUid = 0 /\ FakeGid = 0

Chown ==
  \E c \in With("mark", "owner") :
    IF FakeRoot THEN Pass(c, [Expanded(c) EXCEPT !.op = "look"]) ELSE Pass(c, Expanded(c))

Mkdir   == Simple(With("make", "dir"))
Mkfifo  == Simple(With("make", "fifo"))
Rmdir   == Simple(Of("rmdir"))
Opendir == Simple(Of("opendir"))
Scandir == Simple(Of("scandir"))

\* The copy of the template gets the name, and its last tokens are copied to
\* the caller's.
Mktemp ==
  \E c \in Of("temp") :
    Change(c, Expanded(c), LAMBDA v : [i \in DOMAIN c.path |-> v[Len(v) - Len(c.path) + i]])

-----------------------------------------------------------------------------
(* Links and names.                                                        *)

\* Mutant: the target is left as it is.
SymlinkRaw == Simple(Of("symlink"))

\* Both the link and its target are expanded.
Symlink == \E c \in Of("symlink") : Pass(c, [Expanded(c) EXCEPT !.target = Expand(@)])

\* Mutant: the text is returned as it was read.
ReadlinkHost ==
  \E c \in Of("readlink") : Pass(c, [Expanded(c) EXCEPT !.size = @ - 1])

\* One byte less than the buffer holds is read, so that what was cut short
\* is never noticed.  A faked /proc/self/exe is copied with the byte that
\* ends it.
FakedExe(c) == Exe # <<>> /\ c.path = ProcExe

Readlink ==
  \E c \in Of("readlink") :
    IF FakedExe(c)
    THEN Reply(c, sys, "0", SubSeq(Append(Exe, "NUL"), 1,
                                   IF c.size > Len(Exe) + 1 THEN Len(Exe) + 1 ELSE c.size), {})
    ELSE Change(c, [Expanded(c) EXCEPT !.size = @ - 1], Unexpand)

Realpath == \E c \in Of("realpath") : Change(c, Expanded(c), Unexpand)

\* Mutant: the path is not expanded.
ChdirRaw == \E c \in Of("chdir") : Pass(c, c)

Chdir == Simple(Of("chdir"))
Getcwd == \E c \in Of("getcwd") : Change(c, c, Unexpand)

Unexpanded(paths) == {Unexpand(p) : p \in paths}
Glob    == \E c \in Of("glob") : Change(c, Expanded(c), Unexpanded)
Wordexp == \E c \in Of("glob") : Change(c, Expanded(c), Unexpanded)

-----------------------------------------------------------------------------
(* Sockets and libraries.                                                  *)

\* sun_path has no room for every path that is expanded.
ToSocket(c) ==
  IF ExpandedLen(c.path) > SunPathMax THEN Reply(c, sys, "E2BIG", <<>>, {}) ELSE Pass(c, Expanded(c))

Bind    == \E c \in With("make", "sock") : ToSocket(c)
Connect == \E c \in Of("connect") : ToSocket(c)

Dlopen == Simple(Of("load"))

\* The loader's own text is changed in place.  If what is left of it begins
\* with the root once more, the next call takes that off too.
Dladdr ==
  \E c \in Of("dladdr") : \E o \in Kernel(sys, c) :
    LET name == IF o.sys.lib = <<>> THEN <<>> ELSE Unexpand(o.sys.lib)
    IN  Reply(c, [o.sys EXCEPT !.lib = name], o.ret.err,
              IF o.ret.err = "0" THEN Unexpand(o.ret.val) ELSE o.ret.val,
              IF IsPrefix(Root, name) THEN {"renamed"} ELSE {})

-----------------------------------------------------------------------------
NoCall == [call |-> [op |-> "none"], ret |-> [err |-> "none"]]

Init ==
  /\ \E t \in HostTrees, d \in Starts : sys = [tree |-> t, cwd |-> d, fd |-> d, lib |-> <<>>]
  /\ last = NoCall /\ calls = 0 /\ strayed = {}

Next ==
  \/ Access \/ Statvfs \/ Stat \/ Setmntent \/ Fopen \/ Freopen \/ Creat
  \/ Chmod \/ Utime \/ Xattr \/ Attr \/ Chown
  \/ Mkdir \/ Mkfifo \/ Rmdir \/ Opendir \/ Scandir \/ Mktemp
  \/ Symlink \/ Readlink \/ Realpath \/ Chdir \/ Getcwd \/ Glob \/ Wordexp
  \/ Bind \/ Connect \/ Dlopen \/ Dladdr

Spec == Init /\ [][Next]_vars

-----------------------------------------------------------------------------
(* The guest's file system, out of the host's.                             *)

\* The places a guest has, and where the host keeps each.
HostPlaces == DOMAIN (CHOOSE t \in HostTrees : TRUE)
Places ==
  LET inside == {GuestOf(h) : h \in {x \in HostPlaces : IsPrefix(RootPlace, x)}}
      seen   == {p \in inside : ~Bound(p)} \cup {h \in HostPlaces : Bound(h)}
  IN  [p \in seen |-> HostOf(p)]

View(s) ==
  [tree |-> [p \in DOMAIN Places |->
               LET node == s.tree[Places[p]]
               IN  IF node.kind = "link" THEN [node EXCEPT !.to = Unexpand(@)] ELSE node],
   cwd |-> GuestOf(s.cwd), fd |-> GuestOf(s.fd),
   lib |-> IF s.lib = <<>> THEN <<>> ELSE Unexpand(s.lib)]

Rooted == INSTANCE RootedFs WITH
  sys <- View(sys), astray <- strayed # {}, Slack <- Len(Root) + 1,
  Owner <- IF FakeUid # -1 THEN FakeUid ELSE Owner

\* The guest has a file system of its own: every wrapper does to the view of
\* the host's tree what the plain call does to a tree, and returns the same,
\* up to the first call that leads the guest up from its root or a bind (".."),
\* or to what a bind hides (a relative path, ".." or "//"), or that leaves the
\* loader a name of the guest's own that begins like the root.
IsRooted == Rooted!Spec

\* A guest that never went up from its root or a bind changes nothing outside
\* them, whatever links, binds and relative paths it uses.
Confined ==
  [][\A h \in DOMAIN sys.tree :
       sys'.tree[h] # sys.tree[h] => IsPrefix(RootPlace, h) \/ Bound(h) \/ "up" \in strayed']_vars

\* The working directory, and a directory held open, are directories that the
\* guest can name: getcwd() gives a path that leads back.  The exceptions are
\* a guest that has gone up from its root or a bind, and a directory that a
\* bind hides, whose name leads to the host's instead.
CwdNameable ==
  \A d \in {sys.cwd, sys.fd} : "up" \notin strayed =>
    /\ At(sys.tree, d).kind = "dir"
    /\ LET w == Walk(sys, [path |-> Expand(Unexpand(Text(d))), at |-> "cwd", follow |-> TRUE])
       IN  Hidden(d) \/ (w.err = "0" /\ w.at = d)

\* readlink() never returns more than the buffer holds, and with room for the
\* root, what it returns is the start of the target a larger buffer gives.
ReadlinkStart ==
  last # NoCall /\ last.call.op = "readlink" /\ last.ret.err = "0" =>
    /\ Len(last.ret.val) <= last.call.size
    /\ ~FakedExe(last.call) /\ last.call.size > Len(Root) =>
         \A more \in {0, 1, 2, 100} :
           \E o \in Kernel(sys, [Expanded(last.call) EXCEPT !.size = @ + more]) :
             IsPrefix(last.ret.val, Unexpand(o.ret.val))
=============================================================================
