------------------------------ MODULE MCExecEnv ------------------------------
(***************************************************************************)
(* A host with a guest tree /r that holds a further tree /r/x with a       *)
(* rootfs, a tree /x beside it, and the ways to launch the first program.  *)
(***************************************************************************)
EXTENDS ExecEnv, TLC

HostDirs == {<<>>, <<"r">>, <<"r", "x">>, <<"r", "x", "rootfs">>, <<"x">>}

\* Nothing but LD_PRELOAD; a root in one or in both variables, or "/" itself; an
\* identity; a hard link mode and a proot.
LaunchEnvs ==
  {[v \in Vars |-> CASE v = "LD_PRELOAD" -> "lib"
                     [] v = "FAKECHROOT" -> fake
                     [] v = "FAKECHROOT_BASE" -> given[1]
                     [] v = "HxRoot" -> given[2]
                     [] v = "HxUid" -> id
                     [] v = "HxL2s" -> mode[1]
                     [] v = "HxProot" -> mode[2]] :
     fake \in {Unset, "true"}, id \in {Unset, 7},
     given \in {<<Unset, Unset>>, <<<<"r">>, <<"r", "x">>>>, <<Unset, <<"r", "x">>>>, <<<<>>, Unset>>},
     mode \in {<<Unset, "proot">>, <<"1", Unset>>, <<"on", "proot">>}}
=============================================================================
