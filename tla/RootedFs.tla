------------------------------- MODULE RootedFs -------------------------------
(***************************************************************************)
(* What a guest is promised: a file system of its own.  Every call does to *)
(* one tree, with a working directory in it, what the kernel does, and     *)
(* returns what the kernel returns.  Where fakechroot falls short of that  *)
(* by design the promise is weaker:                                        *)
(*   chown() by a faked root succeeds on any file and changes nothing;     *)
(*   a socket's path may be too long once it is expanded;                  *)
(*   readlink() is exact only with Slack more room than the target needs;  *)
(*   the text of /proc/self/exe may be followed by more, and /proc/stat is *)
(*   a text of its own.                                                    *)
(* And it is only made to a guest that does not go astray: the promise ends*)
(* with the first call that leads it there.                                *)
(***************************************************************************)
EXTENDS Files

CONSTANTS Calls, Slack, FakeRoot, ProcStat, ProcExe, Exe

VARIABLES sys, last, astray

Socket(c) == c.op = "connect" \/ (c.op = "make" /\ c.arg = "sock")

Plain(c) == IF c.op = "mark" /\ c.arg = "owner" /\ FakeRoot THEN [c EXCEPT !.op = "look"] ELSE c

\* The target a link has, whatever the buffer.
Target(c) == CHOOSE o \in Kernel(sys, [c EXCEPT !.size = 100]) : TRUE

Does(c) ==
  \/ \E o \in Kernel(sys, Plain(c)) : last'.ret = o.ret /\ sys' = o.sys
  \/ Socket(c) /\ last'.ret = [err |-> "E2BIG", val |-> <<>>] /\ UNCHANGED sys

Reads(c) ==
  /\ IF Exe # <<>> /\ c.path = ProcExe
     THEN last'.ret.err = "0" /\ (c.size >= Len(Exe) => IsPrefix(Exe, last'.ret.val))
     ELSE LET o == Target(c) IN
            /\ c.size > 1 => last'.ret.err = o.ret.err
            /\ c.size >= Len(o.ret.val) + Slack => last'.ret.val = o.ret.val
  /\ UNCHANGED sys

Init == At(sys.tree, sys.cwd).kind = "dir" /\ At(sys.tree, sys.fd).kind = "dir"

Keeps ==
  LET c == last'.call IN
    /\ c \in Calls
    /\ IF c.op = "readlink" THEN Reads(c)
       ELSE IF c.op = "read" /\ c.path = ProcStat THEN last'.ret.err = "0" /\ UNCHANGED sys
       ELSE Does(c)

Next == astray' \/ Keeps

Spec == Init /\ [][Next]_<<sys, last>>
=============================================================================
