------------------------------- MODULE ExecEnv -------------------------------
(***************************************************************************)
(* How a guest keeps its root and its identity: the settings HxDoInit      *)
(* (hxroot.c) takes from the environment when a program starts, the calls  *)
(* that change them (chroot.c, setuid.c), and the environment execve()     *)
(* (exec.c, HxHandleElf64) gives to the next program.                      *)
(*                                                                         *)
(* One process is followed through its programs.  The guest may clear its  *)
(* environment, remove variables, and pass an environment it copied        *)
(* earlier.  gid is handled like uid throughout and is left out.  A path is*)
(* the sequence of its components, behind "." where it is relative.        *)
(***************************************************************************)
EXTENDS Integers, Sequences, SequencesExt

CONSTANTS
  Dirs,         \* the directories of the host
  IntMax,       \* the largest int, 2^31 - 1; a uid_t goes up to twice that and 1
  Uids,         \* the user ids the guest asks for
  Launches,     \* the environments the first program is started with
  Unset, NoRoot,
  MaxCalls      \* bound on the number of calls

\* The variables that matter here, all of them in PRESERVE_ENV.
Vars == {"LD_PRELOAD", "FAKECHROOT", "FAKECHROOT_BASE", "HxRoot", "HxUid", "HxL2s", "HxProot"}

Cleared == [v \in Vars |-> Unset]

Ints == -(IntMax + 1)..IntMax

\* A path that does not begin with a slash.
Relative(p) == p \notin {Unset, NoRoot, <<>>} /\ Head(p) = "."

ASSUME EnvAssumption ==
  /\ Dirs \subseteq Seq(STRING) /\ <<>> \in Dirs /\ "." \in STRING
  /\ \A d \in Dirs : (d = <<>> \/ Front(d) \in Dirs) /\ ~Relative(d)
  /\ IntMax \in Nat /\ Uids \subseteq 0..2 * IntMax + 1 /\ MaxCalls \in Nat
  /\ \A e \in Launches : /\ DOMAIN e = Vars /\ e["LD_PRELOAD"] # Unset
                         /\ e["HxUid"] \in Ints \cup {Unset}
  /\ Unset \notin Int

VARIABLES
  loaded,     \* whether the program has the library loaded
  root,       \* HxRoot
  uid,        \* HxUid, -1 when no user is faked
  l2s,        \* HxL2s
  proot,      \* whether HxProot is set
  cwd,        \* the working directory, as a host path
  env,        \* environ
  backup,     \* HxEnviron: environ as it was when the program started
  saved,      \* an environment the program copied
  \* What properties compare with:
  last,       \* the last call
  chrooted,   \* whether chroot() succeeded in this program
  calls

vars == <<loaded, root, uid, l2s, proot, cwd, env, backup, saved, last, chrooted, calls>>

-----------------------------------------------------------------------------
(* Paths.  An absolute guest path is expanded by putting the root before   *)
(* it; a host path is unexpanded by removing the root where it starts with *)
(* it.  With "/" for a root that is the slash, and the path that is left is*)
(* relative.                                                               *)

Expand(r, p) == IF r = NoRoot \/ Relative(p) THEN p ELSE r \o p

Unexpand(r, p) ==
  IF r = NoRoot \/ ~IsPrefix(r, p) THEN p
  ELSE IF r = <<>> /\ p # <<>> THEN <<".">> \o p
  ELSE SubSeq(p, Len(r) + 1, Len(p))

\* Where a path leads to from the working directory d.
Resolved(p, d) == IF Relative(p) THEN d \o Tail(p) ELSE p

\* check_dir: the subdirectory that takes the place of a root.  A root that is
\* not there stays as it is.
Preferred(r, d) ==
  LET host == Resolved(r, d)
  IN  IF host \o <<"rootfs">> \in Dirs THEN host \o <<"rootfs">>
      ELSE IF host \o <<"ROOT">> \in Dirs THEN host \o <<"ROOT">>
      ELSE IF host \in Dirs THEN host ELSE r

\* rootfs, ../rootfs, ROOT and ../ROOT from the working directory.
Parent(d) == IF d = <<>> THEN d ELSE Front(d)
Detected(d) ==
  LET tried == <<d \o <<"rootfs">>, Parent(d) \o <<"rootfs">>,
                 d \o <<"ROOT">>, Parent(d) \o <<"ROOT">>>>
      found == {i \in 1..4 : tried[i] \in Dirs}
  IN  IF found = {} THEN NoRoot ELSE tried[CHOOSE i \in found : \A j \in found : i <= j]

-----------------------------------------------------------------------------
(* HxDoInit.                                                               *)

\* Mutant: the sign is skipped.
AtoiSkipsSign(n) == IF n < 0 THEN -n ELSE n

\* simple_atoi stops at the first character that is no digit, so the text of
\* a negative number gives 0.
Atoi(n) == IF n < 0 THEN 0 ELSE n

Base(e) == IF e["FAKECHROOT_BASE"] # Unset THEN e["FAKECHROOT_BASE"] ELSE e["HxRoot"]

RootOf(e, d) == IF Base(e) # Unset THEN Preferred(Base(e), d) ELSE Detected(d)

\* A root that is detected is exported.
EnvOf(e, d) ==
  IF Base(e) # Unset \/ Detected(d) = NoRoot THEN e
  ELSE [e EXCEPT !["FAKECHROOT_BASE"] = Detected(d), !["HxRoot"] = Detected(d)]

UidOf(e, d) ==
  IF e["HxUid"] # Unset THEN Atoi(e["HxUid"])
  ELSE IF RootOf(e, d) # NoRoot \/ e["FAKECHROOT"] # Unset THEN 0 ELSE -1

\* The hard link mode is on when nothing is said, and for the value 1.
LinksOn(e) == e["HxL2s"] \in {Unset, "1"}

\* The globals, from environment e in the working directory d.
Settings(e, d) ==
  /\ root' = RootOf(e, d) /\ uid' = UidOf(e, d)
  /\ l2s' = LinksOn(e) /\ proot' = (e["HxProot"] # Unset)

\* Mutant: the backup is empty.
StartNoBackup(e, d) ==
  /\ loaded' = (e["LD_PRELOAD"] # Unset) /\ Settings(e, d)
  /\ env' = EnvOf(e, d) /\ backup' = Cleared
  /\ saved' = Cleared /\ chrooted' = FALSE

\* A program starts with environment e: the library's constructor runs.
Starts(e, d) ==
  /\ loaded' = (e["LD_PRELOAD"] # Unset) /\ Settings(e, d)
  /\ env' = EnvOf(e, d) /\ backup' = EnvOf(e, d)
  /\ saved' = Cleared /\ chrooted' = FALSE

-----------------------------------------------------------------------------
(* Calls of the guest.                                                     *)

Call(c) == loaded /\ calls < MaxCalls /\ calls' = calls + 1 /\ last' = c

settings == <<loaded, root, uid, l2s, proot>>

\* The guest removes one variable, clears environ, or copies it.
Unsetenv ==
  /\ Call("other")
  /\ \E v \in Vars : env' = [env EXCEPT ![v] = Unset]
  /\ UNCHANGED <<settings, cwd, backup, saved, chrooted>>

Clearenv ==
  /\ Call("other")
  /\ env' = Cleared
  /\ UNCHANGED <<settings, cwd, backup, saved, chrooted>>

Copyenv ==
  /\ Call("other")
  /\ saved' = env
  /\ UNCHANGED <<settings, cwd, env, backup, chrooted>>

Chdir ==
  /\ Call("other")
  /\ cwd' \in Dirs
  /\ UNCHANGED <<settings, env, backup, saved, chrooted>>

\* A uid_t in an int.
ToInt(u) == IF u > IntMax THEN u - 2 * (IntMax + 1) ELSE u

\* HxSetUid: the int is exported as "%d", a number with its sign.
\* setreuid(-1, ...) calls nothing.
Setuid(u) ==
  /\ Call("other")
  /\ uid' = ToInt(u)
  /\ env' = IF uid = ToInt(u) THEN env ELSE [env EXCEPT !["HxUid"] = ToInt(u)]
  /\ UNCHANGED <<loaded, root, l2s, proot, cwd, backup, saved, chrooted>>

\* realpath() of this library: the path is expanded, resolved, unexpanded.
Resolves(host) == Resolved(host, cwd) \in Dirs

EnterRoot(p) ==
  /\ root' = p
  /\ env' = [env EXCEPT !["HxRoot"] = p, !["FAKECHROOT_BASE"] = p]
  /\ chrooted' = TRUE

\* chroot(p), p absolute: chroot() expands it, and so does the realpath() it
\* calls.
ChrootTo(p) ==
  /\ Call("chroot")
  /\ LET host == Expand(root, Expand(root, p)) IN
       IF Resolves(host) THEN EnterRoot(Unexpand(root, Resolved(host, cwd)))
       ELSE UNCHANGED <<root, env, chrooted>>
  /\ UNCHANGED <<loaded, uid, l2s, proot, cwd, backup, saved>>

\* chroot("."): a relative path is not expanded, and realpath() gives the
\* working directory as a guest path.
ChrootHere ==
  /\ Call("chroot")
  /\ EnterRoot(Unexpand(root, cwd))
  /\ UNCHANGED <<loaded, uid, l2s, proot, cwd, backup, saved>>

-----------------------------------------------------------------------------
(* execve().                                                               *)

\* Mutant: the identity comes from the backup, like every other variable.
PreserveStale(e) ==
  [v \in Vars |-> IF e[v] # Unset THEN e[v]
                  ELSE IF env[v] # Unset THEN env[v] ELSE backup[v]]

\* Mutant: variables are looked up in environ only.
PreserveEnvironOnly(e) ==
  [v \in Vars |-> IF e[v] # Unset THEN e[v] ELSE IF v = "HxUid" THEN uid ELSE env[v]]

\* The variables of PRESERVE_ENV the guest's environment lacks: the identity
\* from the globals, the others from environ, then from its backup.
Preserve(e) ==
  [v \in Vars |-> IF e[v] # Unset THEN e[v]
                  ELSE IF v = "HxUid" THEN uid
                  ELSE IF env[v] # Unset THEN env[v] ELSE backup[v]]

\* An ELF program for this libc, directly or as a script's interpreter.
ExecElf(e) ==
  /\ Call("exec")
  /\ Starts(Preserve(e), cwd)
  /\ UNCHANGED cwd

\* The next program runs without the library.
Escapes ==
  /\ loaded' = FALSE
  /\ UNCHANGED <<root, uid, l2s, proot, cwd, env, backup, saved, chrooted>>

\* A program for the bionic linker: LD_PRELOAD is removed.
ExecBionic == Call("other") /\ Escapes

\* A static or 32-bit program is run by proot, likewise; without HxProot the
\* call fails.
ExecProot ==
  /\ Call("other")
  /\ IF proot THEN Escapes
     ELSE UNCHANGED <<settings, cwd, env, backup, saved, chrooted>>

-----------------------------------------------------------------------------
Init ==
  /\ cwd \in Dirs
  /\ \E e \in Launches :
       /\ env = EnvOf(e, cwd) /\ backup = EnvOf(e, cwd)
       /\ root = RootOf(e, cwd) /\ uid = UidOf(e, cwd)
       /\ l2s = LinksOn(e) /\ proot = (e["HxProot"] # Unset)
  /\ loaded = TRUE /\ saved = Cleared /\ last = "other" /\ chrooted = FALSE /\ calls = 0

\* What the guest passes to execve().
Envs == {env, Cleared, saved}

Next ==
  \/ Unsetenv \/ Clearenv \/ Copyenv \/ Chdir
  \/ \E u \in Uids : Setuid(u)
  \/ \E p \in Dirs : ChrootTo(p)
  \/ ChrootHere
  \/ \E e \in Envs : ExecElf(e)
  \/ ExecBionic \/ ExecProot

Spec == Init /\ [][Next]_vars

-----------------------------------------------------------------------------
\* A directory as seen from one above it, and the same as a relative path.
Tails(d) == {SubSeq(d, n, Len(d)) : n \in 1..Len(d) + 1}
Forms(d) == Tails(d) \cup {<<".">> \o t : t \in Tails(d)}

\* The identities there can be: those asked for, root, and none.
Ids == {ToInt(u) : u \in Uids} \cup {-1, 0}

\* The settings have their types.
EnvTypeOK ==
  /\ loaded \in BOOLEAN /\ l2s \in BOOLEAN /\ proot \in BOOLEAN /\ chrooted \in BOOLEAN
  /\ root = NoRoot \/ \E d \in Dirs : root \in Forms(d)
  /\ uid \in Ids /\ cwd \in Dirs /\ calls \in Nat
  /\ last \in {"exec", "chroot", "other"}
  /\ \A e \in {env, backup, saved} : DOMAIN e = Vars

\* A program of this libc always has the library, and the hard link mode and
\* the proot of the program that started it, however the guest mangled its
\* environment.
StaysLoaded ==
  [][\A e \in Envs : ExecElf(e) =>
       loaded' /\ (e \in {env, Cleared} => l2s' = l2s /\ proot' = proot)]_vars

\* The faked identity survives execve(), whether the guest passes its environ
\* or an empty environment, after any setuid() and unsetenv().  One exception:
\* an id above INT_MAX is a negative int, its text is read as 0, and the next
\* program plays root; so it does after a program without a faked identity
\* (-1).
IdentitySurvives ==
  [][\A e \in {env, Cleared} : ExecElf(e) => uid' = IF uid < 0 THEN 0 ELSE uid]_vars

\* The root survives execve() in the same way, in a program that did not
\* call chroot(), and was not given its root as a relative path by one that
\* did.
RootSurvives ==
  [][\A e \in {env, Cleared} :
       ExecElf(e) /\ root # NoRoot /\ ~chrooted /\ ~Relative(Base(backup)) => root' = root]_vars

\* README.md:21, "Intercepts chroot(path) syscalls at runtime, dynamically
\* updating FAKECHROOT_BASE": chroot() to a directory of the guest moves the
\* root there.  (From "/" it does, to a relative path.)
ChrootMovesRoot ==
  [][\A p \in Dirs : ChrootTo(p) /\ root # <<>> /\ Expand(root, p) \in Dirs
       => root' = Expand(root, p)]_vars
=============================================================================
