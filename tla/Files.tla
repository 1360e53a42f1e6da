-------------------------------- MODULE Files --------------------------------
(***************************************************************************)
(* The kernel and libc calls the path wrappers lead to, on one tree of     *)
(* files.  They are no part of this repository: this is what the wrappers  *)
(* rely on.                                                                *)
(*                                                                         *)
(* A system is a record                                                    *)
(*   tree  what is at every place                                          *)
(*   cwd   the working directory        fd   a directory held open         *)
(*   lib   the name the loader has for the library loaded last             *)
(* and a call is a record with its op, path, at (what a relative path      *)
(* starts from), follow (whether a link at the end is followed), and, by   *)
(* its op, arg (a mode), target (of a link) and size (of a buffer).        *)
(***************************************************************************)
EXTENDS FiniteSets, Paths

CONSTANTS TempNames,   \* the names mkstemp() puts in place of "X"
          MaxLinks,    \* how many links a look-up follows
          MaxSteps,    \* and how many names and links, where PATH_MAX is reached
          Owner        \* the owner stat() shows

NoNode == [kind |-> "none", to |-> <<>>, marks |-> {}]
Node(k) == [kind |-> k, to |-> <<>>, marks |-> {}]
Link(t) == [kind |-> "link", to |-> t, marks |-> {}]
Nodes == [kind : STRING \cup {"none", "dir", "file", "link"}, to : Seq(Tokens),
          marks : SUBSET (STRING \cup {"data"})]

At(tree, place) == IF place \in DOMAIN tree THEN tree[place] ELSE NoNode

-----------------------------------------------------------------------------
(* Look-up, one name at a time.  What is looked up goes on from a place    *)
(* (at) by the names that are left (rest); took are the names taken so far,*)
(* each with the place it was taken in.                                    *)

Up(place) == IF place = <<>> THEN <<>> ELSE Front(place)

\* Where a name leads in a directory.
Into(place, name) == CASE name = "."  -> place
                       [] name = ".." -> Up(place)
                       [] OTHER       -> Append(place, name)

Step(tree, follow, w) ==
  IF w.err # "0" \/ w.rest = <<>> THEN w
  ELSE LET name == Head(w.rest)
           more == Tail(w.rest)
           next == Into(w.at, name)
           node == At(tree, next)
           took == w.took \cup {<<w.at, name>>}
       IN  IF At(tree, w.at).kind # "dir" THEN [w EXCEPT !.err = "ENOENT"]
           ELSE IF node.kind = "link" /\ (more # <<>> \/ follow)
           THEN IF w.left = 0 THEN [w EXCEPT !.err = "ELOOP"]
                ELSE [w EXCEPT !.at = IF Absolute(node.to) THEN <<>> ELSE @, !.took = took,
                               !.rest = Names(node.to) \o more, !.left = @ - 1]
           ELSE [w EXCEPT !.at = next, !.rest = more, !.took = took]

\* Every step uses up a name or a link.
Walk(s, c) ==
  LET start == [at |-> IF Absolute(c.path) THEN <<>> ELSE IF c.at = "fd" THEN s.fd ELSE s.cwd,
                rest |-> Names(c.path), left |-> MaxLinks, took |-> {},
                err |-> IF c.path = <<>> THEN "ENOENT" ELSE "0"]
      walk[i \in 0..MaxSteps] ==
        IF i = 0 THEN start ELSE Step(s.tree, c.follow, walk[i - 1])
      end == walk[MaxSteps]
  IN  IF end.err = "0" /\ end.rest # <<>> THEN [end EXCEPT !.err = "ENAMETOOLONG"] ELSE end

\* The end of a walk as the place of an existing file.
Found(s, w) ==
  IF w.err = "0" /\ At(s.tree, w.at).kind = "none" THEN [w EXCEPT !.err = "ENOENT"] ELSE w

\* The end of a walk as the place for a new file.
Vacant(s, w) ==
  IF w.err # "0" THEN w
  ELSE IF At(s.tree, w.at).kind # "none" THEN [w EXCEPT !.err = "EEXIST"]
  ELSE IF w.at \notin DOMAIN s.tree THEN [w EXCEPT !.err = "ENOSPC"]
  ELSE w

Entries(tree, place) ==
  {Last(x) : x \in {y \in DOMAIN tree : Len(y) = Len(place) + 1 /\ Front(y) = place
                                        /\ tree[y].kind # "none"}}

-----------------------------------------------------------------------------
(* Calls: the set of outcomes, each the system after it and what it        *)
(* returns.                                                                *)

Outcome(s, err, val) == [sys |-> s, ret |-> [err |-> err, val |-> val]]
Fails(s, err) == {Outcome(s, err, <<>>)}
Put(s, place, node) == [s EXCEPT !.tree[place] = node]

Make(s, w, node) ==
  IF w.err # "0" THEN Fails(s, w.err) ELSE {Outcome(Put(s, w.at, node), "0", <<>>)}

\* open(O_CREAT | O_TRUNC).
Write(s, w) ==
  LET node == At(s.tree, w.at)
  IN  IF w.err # "0" THEN Fails(s, w.err)
      ELSE IF node.kind = "none" THEN Make(s, Vacant(s, w), Node("file"))
      ELSE IF node.kind = "dir" THEN Fails(s, "EISDIR")
      ELSE {Outcome([s EXCEPT !.tree[w.at].marks = @ \cup {"data"}], "0", <<>>)}

\* mkstemp(): a name that is free, at the end of the template, which has to be
\* "X"; its path is written to the template.  A link of that name is not
\* followed (O_EXCL).
Named(c, x) == [c EXCEPT !.path = Append(Front(@), x), !.follow = FALSE]

Temp(s, c, kind) ==
  LET place(x) == Vacant(s, Walk(s, Named(c, x)))
      free == {x \in TempNames : place(x).err = "0"}
  IN  IF c.path = <<>> \/ Last(c.path) # "X" THEN Fails(s, "EINVAL")
      ELSE IF free = {} THEN Fails(s, "EEXIST")
      ELSE {Outcome(Put(s, place(x).at, Node(kind)), "0", Named(c, x).path) : x \in free}

\* glob() of the entries of a directory: "*" is the pattern's last token.
Match(s, c) ==
  LET dir == Front(c.path)
      w   == IF dir = <<>> THEN [err |-> "0", at |-> s.cwd] ELSE Found(s, Walk(s, [c EXCEPT !.path = dir]))
      got == {Append(dir, x) : x \in Entries(s.tree, w.at)}
  IN  IF w.err # "0" \/ got = {} THEN Fails(s, "NOMATCH") ELSE {Outcome(s, "0", got)}

\* chdir() and opendir().
GoTo(s, w, what) ==
  IF w.err # "0" THEN Fails(s, w.err)
  ELSE IF s.tree[w.at].kind # "dir" THEN Fails(s, "ENOTDIR")
  ELSE {Outcome([s EXCEPT ![what] = w.at], "0", Entries(s.tree, w.at))}

\* rmdir(), of a directory nobody stands in.
RemoveDir(s, w) ==
  IF w.err # "0" THEN Fails(s, w.err)
  ELSE IF s.tree[w.at].kind # "dir" THEN Fails(s, "ENOTDIR")
  ELSE IF Entries(s.tree, w.at) # {} \/ w.at \in {s.cwd, s.fd} THEN Fails(s, "ENOTEMPTY")
  ELSE {Outcome(Put(s, w.at, NoNode), "0", <<>>)}

\* Calls on a file that exists.
OnFile(s, c, w) ==
  LET node == s.tree[w.at]
  IN  IF w.err # "0" THEN Fails(s, w.err)
      ELSE CASE c.op = "look"     -> {Outcome(s, "0", <<>>)}
             [] c.op = "read"     -> {Outcome(s, "0", node.marks)}
             [] c.op = "stat"     -> {Outcome(s, "0", <<node.kind, Owner>>)}
             [] c.op = "mark"     -> {Outcome([s EXCEPT !.tree[w.at].marks = @ \cup {c.arg}], "0", <<>>)}
             [] c.op = "connect"  -> IF node.kind = "sock" THEN {Outcome(s, "0", <<>>)}
                                     ELSE Fails(s, "ECONNREFUSED")
             [] c.op = "realpath" -> {Outcome(s, "0", Text(w.at))}
             [] c.op = "load"     -> IF node.kind # "file" THEN Fails(s, "dlerror")
                                     ELSE {Outcome([s EXCEPT !.lib = c.path], "0", <<>>)}
             [] c.op = "scandir"  -> IF node.kind # "dir" THEN Fails(s, "ENOTDIR")
                                     ELSE {Outcome(s, "0", Entries(s.tree, w.at))}
             [] c.op = "readlink" ->
                  IF node.kind # "link" \/ c.size <= 0 THEN Fails(s, "EINVAL")
                  ELSE {Outcome(s, "0", SubSeq(node.to, 1, IF c.size < Len(node.to) THEN c.size
                                                           ELSE Len(node.to)))}

\* The look-ups a call makes.
LookUps(s, c) ==
  CASE c.op \in {"getcwd", "dladdr"} -> {}
    [] c.op = "temp" -> {Walk(s, Named(c, x)) : x \in TempNames}
    [] c.op = "glob" -> {Walk(s, [c EXCEPT !.path = Front(@)])}
    [] OTHER         -> {Walk(s, c)}

Kernel(s, c) ==
  CASE c.op = "make"    -> Make(s, Vacant(s, Walk(s, c)), Node(c.arg))
    [] c.op = "symlink" -> Make(s, Vacant(s, Walk(s, c)), Link(c.target))
    [] c.op = "write"   -> Write(s, Walk(s, c))
    [] c.op = "temp"    -> Temp(s, c, c.arg)
    [] c.op = "glob"    -> Match(s, c)
    [] c.op = "chdir"   -> GoTo(s, Found(s, Walk(s, c)), "cwd")
    [] c.op = "opendir" -> GoTo(s, Found(s, Walk(s, c)), "fd")
    [] c.op = "rmdir"   -> RemoveDir(s, Found(s, Walk(s, c)))
    [] c.op = "getcwd"  -> {Outcome(s, "0", Text(s.cwd))}
    [] c.op = "dladdr"  -> {Outcome(s, IF s.lib = <<>> THEN "none" ELSE "0", s.lib)}
    [] OTHER            -> OnFile(s, c, Found(s, Walk(s, c)))
=============================================================================
