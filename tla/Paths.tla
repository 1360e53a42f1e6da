-------------------------------- MODULE Paths --------------------------------
(***************************************************************************)
(* A path is a sequence of tokens: "/" and names.  The place it leads to in*)
(* a tree without links is the sequence of its names, if no name is a dot  *)
(* or two.                                                                 *)
(***************************************************************************)
EXTENDS Integers, Sequences, SequencesExt

Labels == STRING \ {"/"}
Tokens == STRING \cup {"/"}

\* The names no file has: a directory itself, and the one it is in.
Dots == {".", ".."}
Undotted(path) == \A i \in DOMAIN path : path[i] \notin Dots

NamesIn(path) ==
  LET names[n \in 0..Len(path)] ==
        IF n = 0 THEN <<>>
        ELSE IF path[n] = "/" THEN names[n - 1] ELSE Append(names[n - 1], path[n])
  IN  names[Len(path)]

\* A function's argument is computed once, however often the recursion reads it.
Names(path) == [p \in {path} |-> NamesIn(p)][path]

\* Between two names of a path is a slash.
Formed(path) == \A i \in 1..Len(path) - 1 : "/" \in {path[i], path[i + 1]}

Absolute(path) == path # <<>> /\ path[1] = "/"

\* The shortest absolute path to a place.
Text(place) == IF place = <<>> THEN <<"/">>
               ELSE [i \in 1..2 * Len(place) |-> IF i % 2 = 1 THEN "/" ELSE place[i \div 2]]
=============================================================================
