------------------------------ MODULE MCGuestFs ------------------------------
(***************************************************************************)
(* A guest below /r, with /d bound.  The host has a tree of its own with   *)
(* the same names beside it, the guest has a directory named like its      *)
(* root, and a directory where /d is mounted, which the bind hides.        *)
(***************************************************************************)
EXTENDS GuestFs, TLC

A(names) == Text(names)

MCRoot  == A(<<"r">>)
MCBinds == {A(<<"d">>)}
MCExe   == A(<<"s", "f">>)
MCProcExe  == A(<<"d", "exe">>)
MCProcStat == A(<<"d", "f">>)

Dirs  == {<<>>, <<"r">>, <<"r", "s">>, <<"r", "r">>, <<"r", "d">>, <<"d">>, <<"s">>}
Filed == {<<"r", "f">>, <<"r", "s", "f">>, <<"r", "r", "f">>, <<"d", "f">>, <<"s", "f">>}
Free  == {<<"n">>, <<"s", "n">>} \cup
         {<<"r", "n">>, <<"r", "s", "n">>, <<"d", "n">>, <<"r", "d", "n">>, <<"r", "l">>, <<"r", "a">>, <<"r", "b">>}

MCTree == [h \in Dirs \cup Filed \cup Free |->
             IF h \in Dirs THEN Node("dir") ELSE IF h \in Filed THEN Node("file") ELSE NoNode]

MCTrees == {MCTree}
MCStarts == {<<"r">>, <<"r", "s">>}

C(op, path, at, follow, arg, target, size) ==
  [op |-> op, path |-> path, at |-> at, follow |-> follow, arg |-> arg,
   target |-> target, size |-> size]

Plain(op, paths, at) == {C(op, p, at, TRUE, "", <<>>, 0) : p \in paths}

\* Existing files, new ones and paths through a link "l", from the root, from
\* a bind, and relative; up and down again, up from the root, and to what the
\* bind hides.
To(x, y) == <<x, "/", y>>

Old  == {A(<<>>), A(<<"f">>), A(<<"r", "f">>), A(<<"d", "f">>), A(<<"l">>),
         A(<<"l", "f">>), <<"l">>, To("..", "f"), To(".", "f")}
New  == {A(<<"n">>), A(<<"s", "n">>), A(<<"d", "n">>), A(<<"l", "n">>), <<"n">>, To("d", "n")}
Goes == {A(<<>>), A(<<"s">>), A(<<"r">>), A(<<"d">>), A(<<"l">>), A(<<"n">>), <<"l">>,
         <<"d">>, <<"..">>, A(<<"s", "..">>), A(<<"..">>)}
Targets == {A(<<"s">>), A(<<"d">>), A(<<>>), A(<<"l">>), A(<<"r", "f">>), <<"f">>,
            <<"d">>, To("s", "..")}

MCCalls ==
  UNION {
    Plain("look", Old, "cwd"),
    Plain("stat", {A(<<"f">>), A(<<"l">>)}, "cwd"),
    {C("stat", A(<<"l">>), "cwd", FALSE, "", <<>>, 0)},
    Plain("read", {A(<<"f">>), A(<<"d", "f">>), A(<<"l">>)}, "cwd"),
    Plain("write", {A(<<"n">>), A(<<"l">>), A(<<"l", "n">>), A(<<"d", "n">>), A(<<"..", "n">>), To("d", "n")}, "cwd"),
    {C("mark", A(<<"l">>), "cwd", fo, m, <<>>, 0) : fo \in BOOLEAN, m \in {"mode", "owner"}},
    {C("mark", A(<<"d", "f">>), "cwd", TRUE, m, <<>>, 0) : m \in {"mode", "time", "xattr", "owner"}},
    {C("make", p, at, FALSE, "dir", <<>>, 0) : p \in New, at \in {"fd"}},
    {C("make", A(<<"n">>), "cwd", FALSE, "fifo", <<>>, 0)},
    {C("make", p, "cwd", FALSE, "sock", <<>>, 0) : p \in {A(<<"n">>), A(<<"s", "n">>), <<"n">>}},
    Plain("connect", {A(<<"n">>), A(<<"s", "n">>), A(<<"f">>), <<"n">>}, "cwd"),
    {C("rmdir", p, "cwd", FALSE, "", <<>>, 0) : p \in {A(<<"n">>), A(<<"s">>), A(<<"d", "n">>)}},
    Plain("opendir", {A(<<"s">>), A(<<>>), A(<<"l">>), <<"d">>}, "cwd"),
    Plain("scandir", {A(<<>>), A(<<"l">>), <<"s">>}, "fd"),
    {C("temp", p, "cwd", FALSE, "file", <<>>, 0) : p \in {A(<<"X">>), <<"X">>}},
    {C("symlink", p, "cwd", FALSE, "", t, 0) : p \in {A(<<"l">>), <<"l">>}, t \in Targets},
    {C("readlink", p, "cwd", FALSE, "", <<>>, n) : p \in {A(<<"l">>), <<"l">>, MCProcExe}, n \in {1, 4, 9}},
    Plain("realpath", {A(<<>>), <<"l">>, A(<<"d", "f">>), <<"/">> \o A(<<"d">>)}, "cwd"),
    Plain("chdir", Goes, "cwd"),
    {C("getcwd", <<>>, "cwd", TRUE, "", <<>>, 0), C("dladdr", <<>>, "cwd", TRUE, "", <<>>, 0)},
    Plain("glob", {A(<<"*">>), A(<<"l", "*">>), A(<<"d", "*">>), <<"*">>}, "cwd"),
    Plain("load", {A(<<"f">>), A(<<"l">>), A(<<"r", "f">>)}, "cwd") }
=============================================================================
