--------------------------- MODULE MCDacOverride ---------------------------
(***************************************************************************)
(* Model values for DacOverride.                                           *)
(***************************************************************************)
EXTENDS DacOverride, TLC

CONSTANTS root1, root2, user, file1, file2
=============================================================================
