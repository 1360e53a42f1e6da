------------------------------ MODULE HardLinks ------------------------------
(***************************************************************************)
(* What the hard link emulation of link.c, unlink.c and rename.c promises  *)
(* its guest: a directory of names, each naming at most one file, in which *)
(* several names may name the same file.  There are no storage names, no   *)
(* symlinks and no count files here.                                       *)
(*                                                                         *)
(* rename() is promised as what it is in this code: the removal of an      *)
(* existing destination followed by the move, as two steps.                *)
(***************************************************************************)
CONSTANTS Names, Files, Absent

VARIABLE names      \* the file each name names, or Absent

Type == names \in [Names -> Files \cup {Absent}]

Init == Type

\* link(old, new): a further name for an existing file, never over a name.
Link(o, n) ==
  /\ names[o] # Absent
  /\ names[n] = Absent
  /\ names' = [names EXCEPT ![n] = names[o]]

\* unlink(n), and the destination that rename() removes first.
Unlink(n) ==
  /\ names[n] # Absent
  /\ names' = [names EXCEPT ![n] = Absent]

\* the move of rename(old, new), whose destination is gone by now.
Move(o, n) ==
  /\ o # n
  /\ names[o] # Absent
  /\ names[n] = Absent
  /\ names' = [names EXCEPT ![n] = names[o], ![o] = Absent]

Next == \/ \E o, n \in Names : Link(o, n) \/ Move(o, n)
        \/ \E n \in Names : Unlink(n)

Spec == Init /\ [][Next]_names
=============================================================================
