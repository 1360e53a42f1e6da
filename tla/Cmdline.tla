------------------------------- MODULE Cmdline -------------------------------
(***************************************************************************)
(* The constructor HxFixupArgv (fixup_argv.c).  A program was started as   *)
(*     linker --argv0 argv[0] program argv[1] ...                          *)
(* or, without arguments, as "linker program".  The linker shows it the    *)
(* arguments that are its own; the constructor moves their texts to the    *)
(* start of the command line, which others read from /proc, and overwrites *)
(* the rest.                                                               *)
(*                                                                         *)
(* Memory is a sequence of tokens, and a pointer an index.                 *)
(***************************************************************************)
EXTENDS Translate

CONSTANTS
  Cwd,          \* the working directory, a place of the host
  LdLinux,      \* the linkers with "ld-linux-" in their names
  CmdlineBuf    \* how much of the command line is read, 4096

NUL == "NUL"
Letters == STRING \ {NUL}

\* The kernel's layout of the arguments: of the first so many, of all of them,
\* and where one begins.
Lines(argv) ==
  LET line[n \in 0..Len(argv)] ==
        IF n = 0 THEN <<>> ELSE line[n - 1] \o Append(argv[n], NUL)
  IN  line
Line(argv) == Lines(argv)[Len(argv)]
Offset(argv, i) == 1 + Len(Lines(argv)[i - 1])

\* Which arguments the linker leaves to the program.
Own(argv) == IF argv[2] = <<"--argv0">> THEN <<3>> \o [i \in 1..Len(argv) - 4 |-> i + 4]
             ELSE [i \in 1..Len(argv) - 1 |-> i + 1]
SeenBy(argv) == [i \in DOMAIN Own(argv) |-> argv[Own(argv)[i]]]

\* The text at a pointer.
EndOf(mem, p) == CHOOSE q \in p..Len(mem) : mem[q] = NUL /\ \A r \in p..q - 1 : mem[r] # NUL
Str(mem, p) == SubSeq(mem, p, EndOf(mem, p) - 1)

Put(mem, p, text) ==
  [i \in DOMAIN mem |-> IF i \in p..p + Len(text) - 1 THEN text[i - p + 1] ELSE mem[i]]

\* Where a path of the guest leads to, and realpath() of this library.
Place(path) == IF Absolute(path) THEN Names(Expand(path)) ELSE Cwd \o Names(path)
Realpath(path) == Unexpand(Text(Place(path)))

Least(a, b) == IF a < b THEN a ELSE b

\* Where a text is found last, up to a pointer.
LastAt(mem, text, upto) ==
  CHOOSE p \in 1..upto : Str(mem, p) = text /\ \A q \in p + 1..upto : Str(mem, q) # text

\* argv[1] and those after it, moved as one block to "to".
Shifted(mem, ptr, to) ==
  IF Len(ptr) = 1 THEN [mem |-> mem, ptr |-> ptr, len |-> 0]
  ELSE LET last == ptr[Len(ptr)]
           len  == last - ptr[2] + Len(Str(mem, last)) + 1
       IN  [mem |-> Put(mem, to, SubSeq(mem, ptr[2], ptr[2] + len - 1)),
            ptr |-> [i \in DOMAIN ptr |-> IF i = 1 THEN ptr[1] ELSE ptr[i] - (ptr[2] - to)],
            len |-> len]

\* Mutant: nothing is overwritten.
ZeroedNot(mem, used, size) == mem

\* What was read of the command line is cleared behind the arguments.
Zeroed(mem, used, size) == [i \in DOMAIN mem |-> IF i > used /\ i <= size THEN NUL ELSE mem[i]]

\* The root is taken off argv[0] by moving its pointer, and off the program's
\* name in memory.  Without arguments these two are one text.  The count of
\* what is to be cleared is unsigned, and taken from where argv[0] went.
Fixup(argv) ==
  LET mem0 == Line(argv)
      ptr0 == [i \in DOMAIN Own(argv) |-> Offset(argv, Own(argv)[i])]
      name == IF IsPrefix(Root, Str(mem0, ptr0[1])) THEN ptr0[1] + Len(Root) ELSE ptr0[1]
      real == LastAt(mem0, argv[1], ptr0[1])
      known == argv[1] \in LdLinux
      After(p) == p + Len(Str(mem0, p)) + 1
      exe  == IF Str(mem0, After(real)) = <<"--argv0">> THEN After(After(After(real)))
              ELSE After(real)
      path == Unexpand(Str(mem0, exe))
      mem1 == IF known /\ path # Str(mem0, exe) THEN Put(mem0, exe, Append(path, NUL)) ELSE mem0
      arg0 == Append(Str(mem1, name), NUL)
      rest == Shifted(Put(mem1, real, arg0), [ptr0 EXCEPT ![1] = real], real + Len(arg0))
      used == Len(arg0) + rest.len
      size == Least(CmdlineBuf, Len(mem0))
      mem2 == Zeroed(rest.mem, real - 1 + used, real - 1 + size)
  IN  IF real = name
      THEN [argv |-> SeenBy(argv), line |-> mem0, exe |-> <<>>, wild |-> FALSE]
      ELSE [argv |-> [i \in DOMAIN rest.ptr |-> Str(mem2, rest.ptr[i])],
            line |-> mem2,
            exe  |-> IF known THEN Unexpand(Realpath(path)) ELSE <<>>,
            wild |-> used > size \/ real > 1]
=============================================================================
