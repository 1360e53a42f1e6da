------------------------------ MODULE MCSemMap ------------------------------
(***************************************************************************)
(* Model values for SemMap.                                                *)
(***************************************************************************)
EXTENDS SemMap, TLC

CONSTANTS t1, t2, t3, s1, s2, s3

TwoThreads   == {t1, t2}
ThreeThreads == {t1, t2, t3}
ThreeSets    == {s1, s2, s3}

\* Threads and sets are interchangeable in the safety runs.
Symmetry == Permutations(Threads) \cup Permutations(Sets)
=============================================================================
