------------------------------- MODULE MCSpawn -------------------------------
(***************************************************************************)
(* A guest below /r with a program of every kind, on hosts that differ in  *)
(* their linkers, in proot and in the environment.                         *)
(***************************************************************************)
EXTENDS Spawn, TLC

A(names) == Text(names)

MCRoot  == A(<<"r">>)
MCBinds == {A(<<"d">>)}
MCCwd   == <<"r", "w">>
MCTermux == A(<<"termux">>)
MCBionic == {A(<<"linker">>)}
MCLdLinux == {A(<<"r", "ld">>), A(<<"ld">>), A(<<"termux">>)}
MCSearchPath == <<A(<<"f">>), A(<<"usr">>), A(<<"bin">>), <<>>>>

Only(kind) == [kind |-> kind]
Script(interp, arg) == [kind |-> "script", interp |-> interp, arg |-> arg]
Whole == {"sections", "interp", "dynamic", "strings"}
Elf(interp, has, big, short) ==
  [kind |-> "elf64", interp |-> interp, has |-> has, big |-> big, short |-> short,
   rpath |-> <<A(<<"l">>), A(<<"d", "l">>), A(<<"m">>), A(<<"n">>)>>]

Plain == Elf(A(<<"ld">>), Whole \ {"dynamic"}, {}, {})
Rpath == Elf(A(<<"ld">>), Whole, {}, {})
Shorter(n) == [Rpath EXCEPT !.rpath = SubSeq(@, 1, n)]

\* The guest's files, by their names in the guest.
Guest ==
     <<"bin">> :> Only("dir") @@ <<"usr">> :> Only("dir") @@ <<"w">> :> Only("dir")
  @@ <<"f">> :> Only("text")
  @@ <<"bin", "t">> :> Plain @@ <<"usr", "t">> :> Only("denied")
  @@ <<"bin", "lib">> :> Rpath @@ <<"bin", "lib2">> :> Shorter(3) @@ <<"bin", "lib1">> :> Shorter(2)
  @@ <<"bin", "lib0">> :> [Rpath EXCEPT !.rpath = <<<<>>>>]
  @@ <<"bin", "s">> :> Script(A(<<"bin", "t">>), <<<<"-x">>>>) @@ <<"usr", "s">> :> Only("dir")
  @@ <<"bin", "ss">> :> Script(A(<<"bin", "s">>), <<>>)
  @@ <<"bin", "shs">> :> Script(<<>>, <<>>)
  @@ <<"bin", "loop">> :> Script(A(<<"bin", "loop">>), <<>>)
  @@ <<"bin", "x">> :> Only("text")
  @@ <<"bin", "n">> :> Plain @@ <<"usr", "n">> :> Script(A(<<"no">>), <<>>)
  @@ <<"usr", "big">> :> Elf(A(<<"ld">>), Whole, {"segments"}, {"strings"}) @@ <<"bin", "big">> :> Plain
  @@ <<"bin", "cut">> :> Elf(A(<<"ld">>), Whole, {"strings"}, {"interp"})
  @@ <<"bin", "far">> :> Elf(A(<<"ld">>), Whole, {"rpath"}, {})
  @@ <<"bin", "bare">> :> Elf(A(<<"ld">>), {}, {}, {})
  @@ <<"bin", "st">> :> Elf(A(<<"ld">>), {"sections"}, {}, {})
  @@ <<"bin", "sst">> :> Script(A(<<"bin", "st">>), <<>>)
  @@ <<"bin", "e32">> :> Only("elf32")
  @@ <<"w", "c">> :> Plain @@ <<"usr", "q">> :> Only("denied")
  @@ <<"r", "t">> :> Plain

Below(files) == [p \in {<<"r">> \o q : q \in DOMAIN files} |-> files[SubSeq(p, 2, Len(p))]]

Preload == [var |-> "LD_PRELOAD", val |-> <<"hx">>]
LibPath == [var |-> "LD_LIBRARY_PATH", val |-> A(<<"h">>)]
LongLib == [var |-> "LD_LIBRARY_PATH", val |-> A(<<"h", "h", "h", "h">>)]

Host(linkers, more, linker, proot, environ, backup) ==
  [files |-> Below(Guest @@ more) @@ (<<"d", "t">> :> Plain)
               @@ [p \in linkers |-> Only("linker")],
   linker |-> linker, proot |-> proot, environ |-> environ, backup |-> backup]

Sh == <<"bin", "sh">> :> Plain

\* The guest has a linker; HxLinker is set, or bionic's; only the host, or
\* termux, has one; nobody has, and no shell.
MCHosts == {
  Host({<<"r", "ld">>}, Sh, <<>>, TRUE, <<Preload>>, <<Preload>>),
  Host({<<"r", "ld">>}, Sh, <<>>, TRUE, <<>>, <<Preload, LibPath>>),
  Host({<<"lx">>}, Sh, A(<<"lx">>), FALSE, <<Preload>>, <<Preload>>),
  Host({<<"ld">>, <<"linker">>}, Sh, A(<<"linker">>), FALSE, <<Preload>>, <<Preload>>),
  Host({<<"ld">>}, Sh, <<>>, TRUE, <<>>, <<>>),
  Host({<<"termux">>}, Sh, <<>>, TRUE, <<Preload>>, <<Preload>>),
  Host({}, <<>>, <<>>, FALSE, <<Preload>>, <<Preload>>) }

Job(fn, path, argv, env, spawn, given, list) ==
  [fn |-> fn, path |-> path, argv |-> argv, env |-> env, spawn |-> spawn, given |-> given,
   acts |-> list]

Long == [i \in 1..30 |-> "a"]
Argvs == {<<>>, <<<<"p">>>>, <<<<"p">>, <<"a">>, <<"b", "c">>>>, <<A(<<"r", "p">>), <<"a">>>>,
          <<<<"p">>, Long>>, <<MCRoot \o A(<<"ld">>), <<"a">>>>,
          <<A(<<"lx">>), <<"a">>>>}
Envs == {<<>>, <<Preload>>, <<LibPath, Preload>>, <<Preload, LongLib>>}

Files == {<<"bin", n>> : n \in {"t", "lib", "lib0", "lib1", "lib2", "s", "ss", "sst", "shs", "loop", "x", "cut", "far", "bare", "st", "e32", "z"}}
           \cup {<<"usr", "s">>, <<"r", "t">>, <<"d", "t">>, <<"f", "t">>}
Searched == {"t", "s", "ss", "x", "n", "c", "z", "big", "q"}

Act(tag, fd, newfd, file, cloexec) ==
  [tag |-> tag, fd |-> fd, newfd |-> newfd, file |-> file, cloexec |-> cloexec]
Steps == {Act("close", 0, 0, "none", FALSE), Act("dup2", 2, 0, "none", FALSE), Act("dup2", 0, 1, "none", FALSE),
          Act("dup2", 2, 2, "none", FALSE), Act("open", 1, 0, "f", FALSE), Act("open", 3, 0, "f", FALSE),
          Act("open", 3, 0, "f", TRUE), Act("open", 0, 0, "gone", FALSE)}

MCJobs ==
  {Job("execve", A(p), a, e, FALSE, TRUE, <<>>) : p \in Files, a \in Argvs, e \in Envs}
  \cup {Job("execvpe", p, a, <<Preload>>, FALSE, TRUE, <<>>) :
          p \in {<<n>> : n \in Searched} \cup {<<"t", "t", "t", "t", "t">>, <<>>, A(<<"bin", "t">>), A(<<"bin", "x">>), A(<<"t">>)},
          a \in {<<>>, <<<<"p">>, <<"a">>>>}}
  \cup {Job("execve", A(<<"bin", n>>), <<<<"p">>>>, <<Preload>>, TRUE, TRUE, list) :
          n \in {"t", "z"}, list \in UNION {[1..k -> Steps] : k \in 0..2}}
  \cup {Job("execvpe", <<"t">>, <<<<"p">>>>, <<Preload>>, TRUE, given, <<>>) : given \in BOOLEAN}

MCFirstFds == [f \in Fds |-> IF f = 0 THEN Open("a", FALSE) ELSE IF f = 2 THEN Open("b", TRUE) ELSE Closed]
=============================================================================
