---------------------------- MODULE ExecEnvProof ----------------------------
(***************************************************************************)
(* Theorems about ExecEnv, for any directories, identities, launches and   *)
(* any number of calls: whatever a guest does to its environment, the      *)
(* programs it executes have the library, its hard link mode and the       *)
(* identity it set.                                                        *)
(***************************************************************************)
EXTENDS ExecEnv, TLAPS

\* An environment's variables, and an identity in it.
Environment(e) == DOMAIN e = Vars /\ e["HxUid"] \in Int \cup {Unset}

\* An identity as it is read from its text: a negative one is root.
AsRead(n) == IF n < 0 THEN 0 ELSE n

\* The globals agree with what the variables would give at the next start;
\* a variable the guest removed is still in the backup.
Agrees ==
  /\ uid \in Int
  /\ Environment(env) /\ Environment(saved)
  /\ env["HxUid"] # Unset => AsRead(env["HxUid"]) = AsRead(uid)
  /\ backup["LD_PRELOAD"] # Unset
  /\ env["HxL2s"] \in {Unset, backup["HxL2s"]}
  /\ l2s = LinksOn(backup)
  /\ env["HxProot"] \in {Unset, backup["HxProot"]}
  /\ proot = (backup["HxProot"] # Unset)

\* How a start takes its settings from an environment.
LEMMA ExportedOnly ==
  ASSUME NEW e, Environment(e), NEW d
  PROVE  /\ Environment(EnvOf(e, d))
         /\ \A v \in {"HxUid", "HxL2s", "HxProot", "LD_PRELOAD"} : EnvOf(e, d)[v] = e[v]
  BY DEF EnvOf, Environment, Vars

LEMMA IdentityTaken ==
  ASSUME NEW e, Environment(e), NEW d
  PROVE  /\ UidOf(e, d) \in Int
         /\ e["HxUid"] # Unset => /\ UidOf(e, d) = AsRead(e["HxUid"])
                                 /\ AsRead(UidOf(e, d)) = AsRead(e["HxUid"])
  BY DEF Environment, UidOf, Atoi, AsRead

LEMMA ClearedIsOne == Environment(Cleared)
  BY DEF Environment, Cleared, Vars

LEMMA AgreesAtFirst == Init => Agrees
<1> SUFFICES ASSUME Init PROVE Agrees
  OBVIOUS
<1> PICK e \in Launches :
      /\ env = EnvOf(e, cwd) /\ backup = EnvOf(e, cwd)
      /\ root = RootOf(e, cwd) /\ uid = UidOf(e, cwd)
      /\ l2s = LinksOn(e) /\ proot = (e["HxProot"] # Unset)
  BY DEF Init
<1>1. e["LD_PRELOAD"] # Unset /\ e["HxUid"] \in Int \cup {Unset} /\ DOMAIN e = Vars
  BY EnvAssumption DEF Ints
<1>2. Environment(EnvOf(e, cwd)) /\ Environment(e)
        /\ \A v \in {"HxUid", "HxL2s", "HxProot", "LD_PRELOAD"} : EnvOf(e, cwd)[v] = e[v]
  BY <1>1, ExportedOnly DEF Environment
<1> QED
  BY <1>1, <1>2, IdentityTaken, ClearedIsOne DEF Agrees, Init, LinksOn

\* A program's start with an environment that has the library and an identity.
LEMMA AgreesAfterStart ==
  ASSUME NEW e, Environment(e), e["LD_PRELOAD"] # Unset, NEW d, Starts(e, d)
  PROVE  Agrees'
<1>1. Environment(EnvOf(e, d)) /\ \A v \in {"HxUid", "HxL2s", "HxProot", "LD_PRELOAD"} : EnvOf(e, d)[v] = e[v]
  BY ExportedOnly
<1> QED
  BY <1>1, IdentityTaken, ClearedIsOne DEF Starts, Settings, Agrees, LinksOn

\* What execve() passes on.
LEMMA PassedOn ==
  ASSUME Agrees, NEW e, Environment(e)
  PROVE  /\ Environment(Preserve(e)) /\ Preserve(e)["HxUid"] # Unset
         /\ Preserve(e)["HxUid"] = IF e["HxUid"] # Unset THEN e["HxUid"] ELSE uid
         /\ Preserve(e)["LD_PRELOAD"] # Unset
         /\ \A v \in {"HxL2s", "HxProot"} :
              e[v] \in {Unset, backup[v]} => Preserve(e)[v] = backup[v]
<1>1. uid \in Int /\ uid # Unset
  BY EnvAssumption DEF Agrees
<1>2. {"HxUid", "HxL2s", "HxProot", "LD_PRELOAD"} \subseteq Vars
  BY DEF Vars
<1> QED
  BY <1>1, <1>2 DEF Preserve, Environment, Agrees

LEMMA AgreesKept == Agrees /\ [Next]_vars => Agrees'
<1> SUFFICES ASSUME Agrees, [Next]_vars PROVE Agrees'
  OBVIOUS
<1>0. /\ \A u \in Uids : ToInt(u) \in Int
      /\ Unset \notin Int
      /\ {"HxUid", "HxL2s", "HxProot", "LD_PRELOAD", "HxRoot", "FAKECHROOT_BASE"} \subseteq Vars
  BY EnvAssumption DEF Vars, ToInt
<1>1. CASE Unsetenv
  <2> PICK v \in Vars : env' = [env EXCEPT ![v] = Unset]
    BY <1>1 DEF Unsetenv
  <2> QED
    BY <1>0, <1>1 DEF Unsetenv, settings, Agrees, Environment
<1>2. CASE Clearenv
  <2>1. \A v \in {"HxUid", "HxL2s", "HxProot"} : Cleared[v] = Unset
    BY <1>0 DEF Cleared
  <2> QED
    BY <1>2, <2>1, ClearedIsOne DEF Clearenv, settings, Agrees
<1>3. CASE Copyenv
  BY <1>3 DEF Copyenv, settings, Agrees
<1>4. CASE Chdir
  BY <1>4 DEF Chdir, settings, Agrees
<1>5. ASSUME NEW u \in Uids, Setuid(u) PROVE Agrees'
  <2> DEFINE n == ToInt(u)
  <2>1. n \in Int /\ uid' = n /\ env' = IF uid = n THEN env ELSE [env EXCEPT !["HxUid"] = n]
    BY <1>0, <1>5 DEF Setuid
  <2>2. /\ saved' = saved /\ backup' = backup /\ l2s' = l2s /\ proot' = proot
    BY <1>5 DEF Setuid
  <2> HIDE DEF n
  <2>3. CASE uid = n
    BY <2>1, <2>2, <2>3 DEF Agrees
  <2>4. CASE uid # n
    BY <1>0, <2>1, <2>2, <2>4 DEF Agrees, Environment, LinksOn
  <2> QED
    BY <2>3, <2>4
<1>6. ASSUME NEW p \in Dirs, ChrootTo(p) PROVE Agrees'
  BY <1>0, <1>6 DEF ChrootTo, EnterRoot, Agrees, Environment
<1>7. CASE ChrootHere
  BY <1>0, <1>7 DEF ChrootHere, EnterRoot, Agrees, Environment
<1>8. ASSUME NEW e \in Envs, ExecElf(e) PROVE Agrees'
  <2>1. Environment(e)
    BY ClearedIsOne DEF Envs, Agrees
  <2> QED
    BY <1>8, <2>1, PassedOn, AgreesAfterStart DEF ExecElf
<1>9. CASE ExecBionic \/ ExecProot
  BY <1>9 DEF ExecBionic, ExecProot, Escapes, settings, Agrees
<1>10. CASE UNCHANGED vars
  BY <1>10 DEF vars, Agrees
<1> QED
  BY <1>1, <1>2, <1>3, <1>4, <1>5, <1>6, <1>7, <1>8, <1>9, <1>10 DEF Next

LEMMA AgreesAlways == Spec => []Agrees
  BY AgreesAtFirst, AgreesKept, PTL DEF Spec

\* The environment a program passes, its own or an empty one, gives the next
\* program the identity it has itself, and none from a stale backup; but for a
\* negative one, which no digits are read from, and which is root then: -1,
\* for none, and what an id above INT_MAX is as an int.
THEOREM IdentityIsPassedOn == Spec => IdentitySurvives
<1>1. ASSUME Agrees, NEW e \in {env, Cleared}, ExecElf(e)
      PROVE  uid' = IF uid < 0 THEN 0 ELSE uid
  <2>1. Environment(e) /\ Cleared["HxUid"] = Unset
    BY <1>1, ClearedIsOne DEF Agrees, Cleared, Vars
  <2>2. uid' = AsRead(Preserve(e)["HxUid"])
    BY <1>1, <2>1, PassedOn, IdentityTaken DEF ExecElf, Starts, Settings
  <2>3. AsRead(Preserve(e)["HxUid"]) = AsRead(uid)
    BY <1>1, <2>1, PassedOn DEF Agrees
  <2> QED
    BY <2>2, <2>3 DEF AsRead
<1>2. Agrees /\ [Next]_vars
        => [\A e \in {env, Cleared} : ExecElf(e) => uid' = IF uid < 0 THEN 0 ELSE uid]_vars
  BY <1>1
<1> QED
  BY <1>2, AgreesAlways, PTL DEF Spec, IdentitySurvives

\* It always has the library, and the hard link mode and the proot of the
\* program before it unless the guest passes an environment it kept from
\* earlier.
THEOREM LibraryIsPassedOn == Spec => StaysLoaded
<1>1. ASSUME Agrees, NEW e \in Envs, ExecElf(e)
      PROVE  loaded' /\ (e \in {env, Cleared} => l2s' = l2s /\ proot' = proot)
  <2>1. Environment(e)
    BY <1>1, ClearedIsOne DEF Agrees, Envs
  <2>2. Cleared["HxL2s"] = Unset /\ Cleared["HxProot"] = Unset
    BY DEF Cleared, Vars
  <2> QED
    BY <1>1, <2>1, <2>2, PassedOn DEF ExecElf, Starts, Settings, Agrees, LinksOn
<1>2. Agrees /\ [Next]_vars
        => [\A e \in Envs : ExecElf(e) =>
              loaded' /\ (e \in {env, Cleared} => l2s' = l2s /\ proot' = proot)]_vars
  BY <1>1
<1> QED
  BY <1>2, AgreesAlways, PTL DEF Spec, StaysLoaded

-----------------------------------------------------------------------------
(* The root.                                                               *)

RootVars == {"FAKECHROOT_BASE", "HxRoot"}

\* Until a program calls chroot() the variables that name its root, where the
\* guest left them, are those it started with, and a start with them would
\* take the same root again.
RootAgrees ==
  /\ cwd \in Dirs
  /\ ~chrooted => \A v \in RootVars : env[v] \in {Unset, backup[v]}
  /\ ~chrooted /\ root # NoRoot =>
       /\ Base(backup) # Unset
       /\ ~Relative(Base(backup)) => Preferred(Base(backup), cwd) = root

\* No directory that HxDoInit would detect as a root holds a rootfs or a ROOT
\* of its own.  (Where it does, the program that detected it has it as its
\* root, and the programs it executes, which find it in FAKECHROOT_BASE, go
\* through check_dir and have the directory inside.)
PlainRoots ==
  \A d \in Dirs : Detected(d) # NoRoot => /\ Detected(d) # Unset
                                         /\ Preferred(Detected(d), d) = Detected(d)

\* Where an absolute path leads to does not depend on the working directory.
LEMMA PreferredFromAnywhere ==
  ASSUME NEW r, ~Relative(r), NEW c, NEW d
  PROVE  Preferred(r, c) = Preferred(r, d)
  BY DEF Preferred, Resolved

LEMMA StartRoot ==
  ASSUME PlainRoots, NEW e, DOMAIN e = Vars, NEW d \in Dirs
  PROVE  RootOf(e, d) # NoRoot =>
            /\ Base(EnvOf(e, d)) # Unset
            /\ Preferred(Base(EnvOf(e, d)), d) = RootOf(e, d)
<1> SUFFICES ASSUME RootOf(e, d) # NoRoot
             PROVE  /\ Base(EnvOf(e, d)) # Unset
                    /\ Preferred(Base(EnvOf(e, d)), d) = RootOf(e, d)
  OBVIOUS
<1>1. CASE Base(e) # Unset
  BY <1>1 DEF EnvOf, RootOf
<1>2. CASE Base(e) = Unset
  <2>1. RootOf(e, d) = Detected(d) /\ Detected(d) # NoRoot
    BY <1>2 DEF RootOf
  <2>2. Base(EnvOf(e, d)) = Detected(d)
    BY <1>2, <2>1 DEF EnvOf, Base, PlainRoots, Vars
  <2> QED
    BY <2>1, <2>2 DEF PlainRoots
<1> QED
  BY <1>1, <1>2

LEMMA RootAgreesKept ==
  ASSUME PlainRoots
  PROVE  Agrees /\ RootAgrees /\ [Next]_vars => RootAgrees'
<1> SUFFICES ASSUME Agrees, RootAgrees, [Next]_vars
             PROVE  RootAgrees'
  OBVIOUS
<1>0. RootVars \subseteq Vars /\ "HxUid" \notin RootVars /\ DOMAIN env = Vars
  BY DEF Vars, RootVars, Agrees, Environment
<1>1. CASE Unsetenv
  BY <1>0, <1>1 DEF Unsetenv, settings, RootAgrees
<1>2. CASE Clearenv
  BY <1>0, <1>2 DEF Clearenv, settings, RootAgrees, Cleared
<1>3. CASE Copyenv
  BY <1>3 DEF Copyenv, settings, RootAgrees
<1>4. CASE Chdir
  BY <1>4, PreferredFromAnywhere DEF Chdir, settings, RootAgrees
<1>5. ASSUME NEW u \in Uids, Setuid(u) PROVE RootAgrees'
  <2>1. \A v \in RootVars : env'[v] = env[v]
    BY <1>0, <1>5 DEF Setuid
  <2> QED
    BY <1>5, <2>1 DEF Setuid, RootAgrees
<1>6. ASSUME NEW p \in Dirs, ChrootTo(p) PROVE RootAgrees'
  BY <1>6 DEF ChrootTo, EnterRoot, RootAgrees
<1>7. CASE ChrootHere
  BY <1>7 DEF ChrootHere, EnterRoot, RootAgrees
<1>8. ASSUME NEW e \in Envs, ExecElf(e) PROVE RootAgrees'
  <2>1. DOMAIN Preserve(e) = Vars
    BY DEF Preserve
  <2>2. env' = backup' /\ backup' = EnvOf(Preserve(e), cwd) /\ root' = RootOf(Preserve(e), cwd)
    BY <1>8 DEF ExecElf, Starts, Settings
  <2>3. cwd' = cwd
    BY <1>8 DEF ExecElf
  <2> QED
    BY <2>1, <2>2, <2>3, StartRoot DEF RootAgrees, Base
<1>9. CASE ExecBionic \/ ExecProot
  BY <1>9 DEF ExecBionic, ExecProot, Escapes, settings, RootAgrees
<1>10. CASE UNCHANGED vars
  BY <1>10 DEF vars, RootAgrees
<1> QED
  BY <1>1, <1>2, <1>3, <1>4, <1>5, <1>6, <1>7, <1>8, <1>9, <1>10 DEF Next

LEMMA RootAgreesAlways == ASSUME PlainRoots PROVE Spec => []RootAgrees
<1>1. Init => RootAgrees
  <2> SUFFICES ASSUME Init PROVE RootAgrees
    OBVIOUS
  <2> PICK e \in Launches :
        /\ env = EnvOf(e, cwd) /\ backup = EnvOf(e, cwd) /\ root = RootOf(e, cwd)
    BY DEF Init
  <2>1. cwd \in Dirs /\ DOMAIN e = Vars
    BY EnvAssumption DEF Init
  <2> QED
    BY <2>1, StartRoot DEF RootAgrees
<1>2. Agrees /\ RootAgrees /\ [Next]_vars => RootAgrees'
  BY RootAgreesKept
<1> QED
  BY <1>1, <1>2, AgreesAlways, PTL DEF Spec

\* The root a program has, given to it or detected, is the root of the
\* programs it executes with its environment or an empty one, as long as it
\* did not call chroot(), and the root is not given as a relative path (which
\* chroot() in "/" writes): a root is never half passed on.
THEOREM RootIsPassedOn == ASSUME PlainRoots PROVE Spec => RootSurvives
<1>1. ASSUME Agrees, RootAgrees, NEW e \in {env, Cleared}, ExecElf(e),
             root # NoRoot, ~chrooted, ~Relative(Base(backup))
      PROVE  root' = root
  <2>1. RootVars \subseteq Vars /\ "HxUid" \notin RootVars
    BY DEF Vars, RootVars
  <2>2. \A v \in RootVars : e[v] \in {Unset, backup[v]} /\ env[v] \in {Unset, backup[v]}
    BY <1>1, <2>1 DEF RootAgrees, Cleared
  <2>3. \A v \in RootVars : Preserve(e)[v] = backup[v]
    BY <2>1, <2>2 DEF Preserve
  <2>4. Base(Preserve(e)) = Base(backup)
    BY <2>3 DEF Base, RootVars
  <2> QED
    BY <1>1, <2>4 DEF ExecElf, Starts, Settings, RootOf, RootAgrees
<1>2. Agrees /\ RootAgrees /\ [Next]_vars
        => [\A e \in {env, Cleared} :
              ExecElf(e) /\ root # NoRoot /\ ~chrooted /\ ~Relative(Base(backup)) => root' = root]_vars
  BY <1>1
<1>3. Spec => []RootAgrees
  BY RootAgreesAlways
<1> QED
  BY <1>2, <1>3, AgreesAlways, PTL DEF Spec, RootSurvives

-----------------------------------------------------------------------------
(* The values the settings can have.                                       *)

\* A root: a directory as seen from one above it (chroot() is given a path
\* below the root, and keeps the guest's form of it), or, from "/", the same as
\* a relative path.
Roots == {r \in Seq(STRING) : \E d \in Dirs : r \in Forms(d)}

\* The first program is started with an identity a guest could set, or none,
\* and with a directory for its root, or none.
PlainLaunches ==
  \A e \in Launches : /\ e["HxUid"] \in Ids \cup {Unset}
                      /\ \A v \in RootVars : e[v] \in Dirs \cup {Unset}

\* An environment whose variables have the values this library writes.
Written(e) ==
  /\ DOMAIN e = Vars
  /\ e["HxUid"] \in Ids \cup {Unset}
  /\ \A v \in RootVars : e[v] \in Roots \cup {Unset}

EnvInv ==
  /\ EnvTypeOK
  /\ root \in Roots \cup {NoRoot}
  /\ Written(env) /\ Written(backup) /\ Written(saved)

LEMMA IdsAreInts == Ids \subseteq Int
  BY EnvAssumption DEF Ids, ToInt

LEMMA TailOfTail ==
  ASSUME NEW d \in Seq(STRING), NEW m \in 1..Len(d) + 1
  PROVE  SubSeq(d, m, Len(d)) \in Seq(STRING) /\ Len(SubSeq(d, m, Len(d))) \in Nat
  OBVIOUS

LEMMA DirsAreRoots == Dirs \subseteq Roots
<1> SUFFICES ASSUME NEW d \in Dirs PROVE d \in Roots
  OBVIOUS
<1>1. d \in Seq(STRING)
  BY EnvAssumption
<1>2. SubSeq(d, 1, Len(d)) = d /\ 1 \in 1..Len(d) + 1
  BY <1>1
<1>3. d \in Tails(d)
  BY <1>2 DEF Tails
<1> QED
  BY <1>1, <1>3 DEF Roots, Forms

\* From "/" a directory is a relative path.
LEMMA RelativeIsRoot == \A d \in Dirs : <<".">> \o d \in Roots
<1> SUFFICES ASSUME NEW d \in Dirs PROVE <<".">> \o d \in Roots
  OBVIOUS
<1>1. d \in Seq(STRING) /\ "." \in STRING
  BY EnvAssumption
<1>2. SubSeq(d, 1, Len(d)) = d /\ 1 \in 1..Len(d) + 1
  BY <1>1
<1>3. d \in Tails(d)
  BY <1>2 DEF Tails
<1>4. <<".">> \o d \in Seq(STRING)
  BY <1>1
<1>5. <<".">> \o d \in Forms(d)
  BY <1>3 DEF Forms
<1> QED
  BY <1>4, <1>5 DEF Roots

\* What the translations give for a host directory.
LEMMA UnexpandedIsRoot ==
  ASSUME NEW r \in Roots \cup {NoRoot}, NEW d \in Dirs
  PROVE  Unexpand(r, d) \in Roots
<1>1. d \in Seq(STRING) /\ d \in Roots
  BY EnvAssumption, DirsAreRoots
<1>2. CASE r = NoRoot \/ ~IsPrefix(r, d)
  BY <1>1, <1>2 DEF Unexpand
<1>4. CASE r # NoRoot /\ IsPrefix(r, d) /\ r = <<>> /\ d # <<>>
  BY <1>4, RelativeIsRoot DEF Unexpand
<1>3. CASE r # NoRoot /\ IsPrefix(r, d) /\ ~(r = <<>> /\ d # <<>>)
  <2>1. Len(r) \in Nat /\ Len(r) <= Len(d) /\ Len(d) \in Nat
    BY <1>1, <1>3 DEF IsPrefix, Roots
  <2>2. Len(r) + 1 \in 1..Len(d) + 1
    BY <2>1
  <2>3. SubSeq(d, Len(r) + 1, Len(d)) \in Tails(d)
    BY <2>2 DEF Tails
  <2>4. SubSeq(d, Len(r) + 1, Len(d)) \in Seq(STRING)
    BY <1>1, <2>2
  <2> QED
    BY <1>3, <2>3, <2>4 DEF Unexpand, Roots, Forms
<1> QED
  BY <1>2, <1>3, <1>4

LEMMA DetectedIsDir ==
  ASSUME NEW d
  PROVE  Detected(d) \in Dirs \cup {NoRoot}
<1> DEFINE tried == <<d \o <<"rootfs">>, Parent(d) \o <<"rootfs">>,
                      d \o <<"ROOT">>, Parent(d) \o <<"ROOT">>>>
           found == {i \in 1..4 : tried[i] \in Dirs}
           first == CHOOSE i \in found : \A j \in found : i <= j
<1>1. Detected(d) = IF found = {} THEN NoRoot ELSE tried[first]
  BY DEF Detected
<1>2. found # {} => first \in found
  <2>1. found \subseteq 1..4
    OBVIOUS
  <2> HIDE DEF found
  <2>2. found # {} => \E i \in found : \A j \in found : i <= j
    <3>1. CASE 1 \in found
      BY <2>1, <3>1
    <3>2. CASE 1 \notin found /\ 2 \in found
      BY <2>1, <3>2
    <3>3. CASE 1 \notin found /\ 2 \notin found /\ 3 \in found
      BY <2>1, <3>3
    <3>4. CASE 1 \notin found /\ 2 \notin found /\ 3 \notin found
      <4>1. \A i \in found : i = 4
        BY <2>1, <3>4
      <4> QED
        BY <4>1
    <3> QED
      BY <3>1, <3>2, <3>3, <3>4
  <2> QED
    BY <2>2
<1>3. first \in found => tried[first] \in Dirs
  OBVIOUS
<1> HIDE DEF first, found, tried
<1> QED
  BY <1>1, <1>2, <1>3

\* A program's settings from an environment this library has written.
LEMMA StartWritten ==
  ASSUME NEW e, Written(e), NEW d
  PROVE  /\ Written(EnvOf(e, d))
         /\ RootOf(e, d) \in Roots \cup {NoRoot}
         /\ UidOf(e, d) \in Ids
<1>0. Ids \subseteq Int /\ Unset \notin Int /\ RootVars \subseteq Vars /\ "HxUid" \notin RootVars
  BY EnvAssumption, IdsAreInts DEF RootVars, Vars
<1>1. Base(e) \in Roots \cup {Unset}
  BY DEF Base, Written, RootVars
<1>2. Detected(d) \in Roots \cup {NoRoot}
  BY DetectedIsDir, DirsAreRoots
<1>3. Base(e) # Unset => Preferred(Base(e), d) \in Roots
  BY <1>1, DirsAreRoots DEF Preferred
<1>4. RootOf(e, d) \in Roots \cup {NoRoot}
  BY <1>2, <1>3 DEF RootOf
<1>5. Written(EnvOf(e, d))
  <2>1. CASE EnvOf(e, d) = e
    BY <2>1
  <2>2. CASE Base(e) = Unset /\ Detected(d) # NoRoot
    <3> DEFINE g == [e EXCEPT !["FAKECHROOT_BASE"] = Detected(d), !["HxRoot"] = Detected(d)]
    <3>1. EnvOf(e, d) = g /\ Detected(d) \in Roots
      BY <1>2, <2>2 DEF EnvOf
    <3>2. DOMAIN g = Vars /\ g["HxUid"] = e["HxUid"]
      <4>1. DOMAIN e = Vars /\ "HxUid" \in Vars
        BY DEF Written, Vars
      <4> QED
        BY <4>1
    <3>3. \A v \in RootVars : g[v] = Detected(d)
      BY <1>0 DEF Written, RootVars
    <3> HIDE DEF g
    <3> QED
      BY <3>1, <3>2, <3>3 DEF Written
  <2> QED
    BY <2>1, <2>2 DEF EnvOf
<1>6. UidOf(e, d) \in Ids
  BY <1>0 DEF UidOf, Atoi, Written, Ids
<1> QED
  BY <1>4, <1>5, <1>6

LEMMA ModesTyped == \A e : LinksOn(e) \in BOOLEAN
  BY DEF LinksOn

LEMMA RootsTyped == \A r \in Roots \cup {NoRoot} : r = NoRoot \/ \E d \in Dirs : r \in Forms(d)
  BY DEF Roots

LEMMA ClearedIsWritten == Written(Cleared)
  BY DEF Written, Cleared, Vars, RootVars

LEMMA EnvInvAtFirst == ASSUME PlainLaunches PROVE Init => EnvInv
<1> SUFFICES ASSUME Init PROVE EnvInv
  OBVIOUS
<1> PICK e \in Launches :
      /\ env = EnvOf(e, cwd) /\ backup = EnvOf(e, cwd)
      /\ root = RootOf(e, cwd) /\ uid = UidOf(e, cwd)
      /\ l2s = LinksOn(e) /\ proot = (e["HxProot"] # Unset)
  BY DEF Init
<1>1. Written(e)
  BY EnvAssumption, DirsAreRoots DEF Written, PlainLaunches
<1> QED
  BY <1>1, StartWritten, ClearedIsWritten, RootsTyped, ModesTyped DEF EnvInv, EnvTypeOK, Init, Written

LEMMA EnvInvKept == EnvInv /\ [Next]_vars => EnvInv'
<1> SUFFICES ASSUME EnvInv, [Next]_vars PROVE EnvInv'
  OBVIOUS
<1>0. /\ Ids \subseteq Int /\ Unset \notin Int
      /\ RootVars \subseteq Vars /\ "HxUid" \notin RootVars /\ "HxUid" \in Vars
      /\ MaxCalls \in Nat
  BY EnvAssumption, IdsAreInts DEF RootVars, Vars
<1>c. \A c : Call(c) /\ c \in {"exec", "chroot", "other"}
        => calls' \in Nat /\ last' \in {"exec", "chroot", "other"}
  BY DEF Call, EnvInv, EnvTypeOK
<1>1. CASE Unsetenv
  <2>1. Written(env')
    BY <1>0, <1>1 DEF Unsetenv, Written, EnvInv
  <2> QED
    BY <1>1, <1>c, <2>1 DEF Unsetenv, settings, EnvInv, EnvTypeOK, Written
<1>2. CASE Clearenv
  BY <1>2, <1>c, ClearedIsWritten DEF Clearenv, settings, EnvInv, EnvTypeOK, Written
<1>3. CASE Copyenv
  BY <1>3, <1>c DEF Copyenv, settings, EnvInv, EnvTypeOK, Written
<1>4. CASE Chdir
  BY <1>4, <1>c DEF Chdir, settings, EnvInv, EnvTypeOK, Written
<1>5. ASSUME NEW u \in Uids, Setuid(u) PROVE EnvInv'
  <2>0. ToInt(u) \in Ids
    BY DEF Ids
  <2>1. Written(env')
    BY <1>0, <1>5, <2>0 DEF Setuid, Written, EnvInv
  <2> QED
    BY <1>5, <1>c, <2>0, <2>1 DEF Setuid, EnvInv, EnvTypeOK, Written
<1>6. ASSUME NEW r \in Roots, EnterRoot(r)
      PROVE  /\ Written(env') /\ root' \in Roots /\ chrooted' \in BOOLEAN
  BY <1>0, <1>6 DEF EnterRoot, Written, EnvInv
<1>7. ASSUME NEW p \in Dirs, ChrootTo(p) PROVE EnvInv'
  <2> DEFINE host == Resolved(Expand(root, Expand(root, p)), cwd)
  <2>1. host \in Dirs => Unexpand(root, host) \in Roots
    BY UnexpandedIsRoot DEF EnvInv
  <2>2. /\ Written(env') /\ root' \in Roots \cup {NoRoot} /\ chrooted' \in BOOLEAN
    <3>1. CASE host \in Dirs
      <4>1. EnterRoot(Unexpand(root, host))
        BY <1>7, <3>1 DEF ChrootTo, Resolves
      <4> QED
        BY <1>6, <2>1, <3>1, <4>1
    <3>2. CASE host \notin Dirs
      BY <1>7, <3>2 DEF ChrootTo, Resolves, EnvInv, EnvTypeOK
    <3> QED
      BY <3>1, <3>2
  <2> QED
    BY <1>7, <1>c, <2>2, RootsTyped DEF ChrootTo, EnvInv, EnvTypeOK, Written
<1>8. CASE ChrootHere
  <2>1. Unexpand(root, cwd) \in Roots
    BY UnexpandedIsRoot DEF EnvInv, EnvTypeOK
  <2>2. Written(env') /\ root' \in Roots /\ chrooted' \in BOOLEAN
    BY <1>6, <1>8, <2>1 DEF ChrootHere
  <2> QED
    BY <1>8, <1>c, <2>2, RootsTyped DEF ChrootHere, EnvInv, EnvTypeOK, Written
<1>9. ASSUME NEW e \in Envs, ExecElf(e) PROVE EnvInv'
  <2>1. Written(e)
    BY ClearedIsWritten DEF Envs, EnvInv
  <2>2. uid \in Ids
    BY DEF EnvInv, EnvTypeOK
  <2>3. Written(Preserve(e))
    BY <1>0, <2>1, <2>2 DEF Preserve, Written, EnvInv
  <2>4. Starts(Preserve(e), cwd) /\ cwd' \in Dirs /\ calls' \in Nat /\ last' \in {"exec", "chroot", "other"}
    BY <1>9, <1>c DEF ExecElf, EnvInv, EnvTypeOK
  <2>5. /\ Written(env') /\ Written(backup') /\ Written(saved')
        /\ root' \in Roots \cup {NoRoot} /\ uid' \in Ids
    BY <2>3, <2>4, StartWritten, ClearedIsWritten DEF Starts, Settings
  <2>6. loaded' \in BOOLEAN /\ l2s' \in BOOLEAN /\ proot' \in BOOLEAN /\ chrooted' \in BOOLEAN
    BY <2>4, ModesTyped DEF Starts, Settings
  <2> QED
    BY <2>4, <2>5, <2>6, RootsTyped DEF EnvInv, EnvTypeOK, Written
<1>10. CASE ExecBionic \/ ExecProot
  BY <1>10, <1>c DEF ExecBionic, ExecProot, Escapes, settings, EnvInv, EnvTypeOK, Written
<1>11. CASE UNCHANGED vars
  BY <1>11 DEF vars, EnvInv, EnvTypeOK, Written
<1> QED
  BY <1>1, <1>2, <1>3, <1>4, <1>5, <1>7, <1>8, <1>9, <1>10, <1>11 DEF Next

\* Every program's settings have their types: a root is a directory of the
\* host as seen from one above it, and an identity one that some setuid()
\* asked for, root, or none, whatever environments are passed on.
THEOREM EnvTypes == ASSUME PlainLaunches PROVE Spec => []EnvTypeOK
<1>1. Init => EnvInv
  BY EnvInvAtFirst
<1>2. EnvInv => EnvTypeOK
  BY DEF EnvInv
<1> QED
  BY <1>1, <1>2, EnvInvKept, PTL DEF Spec
=============================================================================
