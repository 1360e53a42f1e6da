-------------------------------- MODULE MCL2s --------------------------------
(* Instances of L2s: the directories the runs start in, and which names     *)
(* each process removes.                                                    *)
EXTENDS L2s, TLC

CONSTANTS p, q, a, b, c, d, s, t, f, g, i1, i2, i3

Dir(e) == [x \in Paths |-> IF x \in DOMAIN e THEN e[x] ELSE Absent]

AnyStor == [x \in Paths |-> Stor]

\* Two plain files.
TwoFiles == {Dir([x \in {a, b} |-> IF x = a THEN f ELSE g])}
\* ... or one file and a symlink to it.
FileAndSymlink == {Dir([x \in {a, b} |-> IF x = a THEN f ELSE a])}
\* ... or a stored file with two names.
Linked == {Dir([x \in {a, b, s} |-> IF x = s THEN f ELSE s])}
\* ... or one with a single name left, beside a plain file.
Lone == {Dir([x \in {a, c, s} |-> CASE x = a -> s [] x = c -> g [] x = s -> f])}
Mixed == TwoFiles \cup FileAndSymlink \cup Linked \cup Lone
FilesOrLinked == TwoFiles \cup Linked

\* Inodes are interchangeable, and so are processes that own the same names.
Symmetry == Permutations(Inodes) \cup Permutations(Procs)

\* Every process may touch every name.
AllOwned == [r \in Procs |-> Names]
\* Every process has names of its own, and a belongs to none.
OwnNames == [r \in Procs |-> IF r = p THEN {b, c} ELSE {d}]
=============================================================================
