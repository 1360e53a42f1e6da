------------------------------ MODULE Databases ------------------------------
(***************************************************************************)
(* The user, group and shadow databases: passwd.c, group.c, shadow.c.      *)
(*                                                                         *)
(* Every call reads the guest's own /etc/passwd, /etc/group or /etc/shadow *)
(* through the fopen() of this library.  An iteration (get*ent) keeps one  *)
(* FILE per database, opened by its first call; a look-up (get*nam, get*id)*)
(* opens a FILE of its own and scans it.  Meanwhile an administrator       *)
(* replaces the files, by rename() as passwd(1) and vipw(8) do, and the    *)
(* program may call chroot().                                              *)
(*                                                                         *)
(* An entry is a record: name, id, the members of a group, and whether its *)
(* line is too long for the 256 bytes the calls without _r give it.        *)
(***************************************************************************)
EXTENDS Integers, Sequences, FiniteSets, SequencesExt

CONSTANTS
  Roots,        \* the trees chroot() moves between
  Tables,       \* the contents a database may have
  FirstTables,  \* the contents it has at first
  NoTable,      \* no such file
  Users, Ids,   \* what is looked up
  Closed, Null, \* no FILE, no entry
  MaxCalls, MaxReplaced   \* bounds on the calls and on the replaced files

Dbs   == {"passwd", "group", "shadow"}
Sizes == {"small", "large"}     \* 256 bytes, or as many as the line needs

Entries == UNION {ToSet(t) : t \in Tables}

ASSUME DbAssumption ==
  /\ Tables \subseteq Seq([name : Users, id : Ids, members : Seq(Users), long : BOOLEAN])
  /\ FirstTables \subseteq Tables /\ Ids \subseteq Nat
  /\ NoTable \notin Tables /\ Null \notin Entries
  /\ Closed \notin [root : Roots, version : Nat \ {0}, pos : Nat \ {0}]
  /\ MaxCalls \in Nat /\ MaxReplaced \in Nat

VARIABLES
  root,       \* where fopen("/etc/...") leads
  versions,   \* the versions of each file, the last one being in place
  cursor,     \* HxPwdFile, HxGrpFile, HxSpFile
  delivered,  \* the entries the iteration has returned since it began
  scan,       \* the look-up that is under way
  answer,     \* what the last look-up returned
  list,       \* what the last getgrouplist() returned
  calls

vars == <<root, versions, cursor, delivered, scan, answer, list, calls>>

-----------------------------------------------------------------------------
(* Files.                                                                  *)

Contents(d, f) == versions[f.root][d][f.version]
Current(d)     == versions[root][d][Len(versions[root][d])]

\* fopen() of the database in the guest's tree.
Fopen(d) == [root |-> root, version |-> Len(versions[root][d]), pos |-> 1]

\* What fget*ent_r() makes of the next line: at the end ENOENT, and ERANGE,
\* without moving on, at a line the buffer cannot hold.
Fget(d, f, size) ==
  LET t == Contents(d, f) IN
    IF f.pos > Len(t) THEN [err |-> "ENOENT", entry |-> Null]
    ELSE IF t[f.pos].long /\ size = "small" THEN [err |-> "ERANGE", entry |-> Null]
    ELSE [err |-> "0", entry |-> t[f.pos]]

Call == calls < MaxCalls /\ calls' = calls + 1

-----------------------------------------------------------------------------
(* Iterations.                                                             *)

\* Mutant: the iteration reads on in the file that is in place.
GetentReopens(d, size) ==
  LET f == IF cursor[d] = Closed THEN Fopen(d)
           ELSE [Fopen(d) EXCEPT !.pos = cursor[d].pos]
      got == Fget(d, f, size)
  IN  /\ Call
      /\ Current(d) # NoTable
      /\ cursor' = [cursor EXCEPT ![d] = [f EXCEPT !.pos = @ + IF got.err = "0" THEN 1 ELSE 0]]
      /\ delivered' = IF got.err = "0"
                      THEN [delivered EXCEPT ![d] = Append(@, got.entry)] ELSE delivered
      /\ UNCHANGED <<root, versions, scan, answer, list>>

\* get*ent_r(): the first call opens the file.
Getent(d, size) ==
  LET f   == IF cursor[d] = Closed THEN Fopen(d) ELSE cursor[d]
      got == Fget(d, f, size)
  IN  /\ Call
      /\ cursor[d] = Closed => Current(d) # NoTable   \* otherwise nothing changes
      /\ cursor' = [cursor EXCEPT ![d] = [f EXCEPT !.pos = @ + IF got.err = "0" THEN 1 ELSE 0]]
      /\ delivered' = IF got.err = "0"
                      THEN [delivered EXCEPT ![d] = Append(@, got.entry)] ELSE delivered
      /\ UNCHANGED <<root, versions, scan, answer, list>>

\* set*ent(): the same FILE from its start.
Setent(d) ==
  /\ Call /\ cursor[d] # Closed
  /\ cursor' = [cursor EXCEPT ![d].pos = 1]
  /\ delivered' = [delivered EXCEPT ![d] = <<>>]
  /\ UNCHANGED <<root, versions, scan, answer, list>>

Endent(d) ==
  /\ Call /\ cursor[d] # Closed
  /\ cursor' = [cursor EXCEPT ![d] = Closed]
  /\ delivered' = [delivered EXCEPT ![d] = <<>>]
  /\ UNCHANGED <<root, versions, scan, answer, list>>

-----------------------------------------------------------------------------
(* Look-ups.                                                               *)

NoScan   == [state |-> "none"]
NoAnswer == [err |-> "none"]

Matches(entry, key) == entry[key.by] = key.val

\* The look-up opens a file of its own.
Lookup(d, key, size) ==
  /\ Call /\ scan = NoScan
  /\ IF Current(d) = NoTable
     THEN /\ answer' = [err |-> "ENOENT", entry |-> Null, key |-> key, db |-> d,
                        size |-> size, table |-> <<>>]
          /\ UNCHANGED scan
     ELSE /\ scan' = [state |-> "reading", db |-> d, key |-> key, size |-> size,
                      file |-> Fopen(d), table |-> Current(d)]
          /\ UNCHANGED answer
  /\ UNCHANGED <<root, versions, cursor, delivered, list>>

Answered(err, entry) ==
  /\ answer' = [err |-> err, entry |-> entry, key |-> scan.key, db |-> scan.db,
                size |-> scan.size, table |-> scan.table]
  /\ scan' = NoScan

\* Mutant: the end of the file is not told from a match.
ScanNoCheck ==
  /\ scan # NoScan
  /\ LET got == Fget(scan.db, scan.file, scan.size) IN
       IF got.err # "0" /\ scan.file.pos > 1
       THEN Answered("0", Contents(scan.db, scan.file)[scan.file.pos - 1])
       ELSE IF got.err # "0" THEN Answered(got.err, Null)
       ELSE IF Matches(got.entry, scan.key) THEN Answered("0", got.entry)
       ELSE scan' = [scan EXCEPT !.file.pos = @ + 1] /\ UNCHANGED answer
  /\ UNCHANGED <<root, versions, cursor, delivered, list, calls>>

\* One turn of its loop: a match or an error ends it and closes the file.
Scan ==
  /\ scan # NoScan
  /\ LET got == Fget(scan.db, scan.file, scan.size) IN
       IF got.err # "0" THEN Answered(got.err, Null)
       ELSE IF Matches(got.entry, scan.key) THEN Answered("0", got.entry)
       ELSE scan' = [scan EXCEPT !.file.pos = @ + 1] /\ UNCHANGED answer
  /\ UNCHANGED <<root, versions, cursor, delivered, list, calls>>

ByName == {[by |-> "name", val |-> u] : u \in Users}
ById   == {[by |-> "id", val |-> i] : i \in Ids}

-----------------------------------------------------------------------------
(* getgrouplist().                                                         *)

NoList == [ret |-> -2]

\* The entries before the first one 256 bytes cannot hold.
Readable(t) ==
  LET long == {i \in DOMAIN t : t[i].long}
  IN  SubSeq(t, 1, IF long = {} THEN Len(t) ELSE (CHOOSE i \in long : \A j \in long : i <= j) - 1)

\* A group's id, once for every time its line names the user.
IdsFor(entry, user, group) ==
  IF entry.id = group THEN <<>>
  ELSE [i \in 1..Cardinality({j \in DOMAIN entry.members : entry.members[j] = user}) |-> entry.id]

\* The groups that are counted: the given one first.
GroupsOf(t, user, group) ==
  LET read == Readable(t)
      ids[n \in 0..Len(read)] ==
        IF n = 0 THEN <<group>> ELSE ids[n - 1] \o IdsFor(read[n], user, group)
  IN  ids[Len(read)]

Upto(ids, n) == SubSeq(ids, 1, IF n < Len(ids) THEN n ELSE Len(ids))

\* Mutant: the given group is stored and not counted.
StoredOne(ids, n) == [ret |-> IF Len(ids) > n + 1 THEN -1 ELSE Len(ids) - 1,
                      ngroups |-> Len(ids) - 1, groups |-> Upto(ids, n)]

\* Mutant: the caller is told what was stored.
StoredCapped(ids, n) == [ret |-> IF Len(ids) > n THEN -1 ELSE Len(ids),
                         ngroups |-> Len(Upto(ids, n)), groups |-> Upto(ids, n)]

\* As many as the caller's array has room for; all of them are counted.
Stored(ids, n) == [ret |-> IF Len(ids) > n THEN -1 ELSE Len(ids),
                   ngroups |-> Len(ids), groups |-> Upto(ids, n)]

\* The caller gives room for one group, and after -1 for as many as were
\* counted.
Getgrouplist(user, group) ==
  LET n   == IF list # NoList /\ list.ret = -1 /\ list.user = user /\ list.group = group
             THEN list.ngroups ELSE 1
      out == IF Current("group") = NoTable THEN [ret |-> 0, ngroups |-> 0, groups |-> <<>>]
             ELSE Stored(GroupsOf(Current("group"), user, group), n)
  IN  /\ Call
      /\ list' = [user |-> user, group |-> group, n |-> n, table |-> Current("group"),
                  ret |-> out.ret, ngroups |-> out.ngroups, groups |-> out.groups]
      /\ UNCHANGED <<root, versions, cursor, delivered, scan, answer>>

-----------------------------------------------------------------------------
(* The three files of calls.  get*ent() reads into 256 static bytes, the   *)
(* _r calls into the caller's buffer; getspent() uses fgetspent(), whose   *)
(* buffer grows.                                                           *)

PasswdCalls ==
  \/ \E s \in Sizes : Getent("passwd", s) \/ \E k \in ByName \cup ById : Lookup("passwd", k, s)
  \/ Setent("passwd") \/ Endent("passwd")

GroupCalls ==
  \/ \E s \in Sizes : Getent("group", s) \/ \E k \in ByName \cup ById : Lookup("group", k, s)
  \/ Setent("group") \/ Endent("group")

ShadowCalls ==
  \/ \E s \in Sizes : Getent("shadow", s) \/ \E k \in ByName : Lookup("shadow", k, s)
  \/ Setent("shadow") \/ Endent("shadow")

\* Another process replaces a database, or removes it (each at most once).
Replace(r, d) ==
  /\ Cardinality({x \in Roots \X Dbs : Len(versions[x[1]][x[2]]) > 1}) < MaxReplaced
  /\ Len(versions[r][d]) = 1
  /\ \E t \in Tables \cup {NoTable} : versions' = [versions EXCEPT ![r][d] = Append(@, t)]
  /\ UNCHANGED <<root, cursor, delivered, scan, answer, list, calls>>

Chroot ==
  /\ Call /\ root' \in Roots \ {root}
  /\ UNCHANGED <<versions, cursor, delivered, scan, answer, list>>

-----------------------------------------------------------------------------
Init ==
  /\ root \in Roots
  /\ versions \in [Roots -> [Dbs -> {<<t>> : t \in FirstTables}]]
  /\ cursor = [d \in Dbs |-> Closed] /\ delivered = [d \in Dbs |-> <<>>]
  /\ scan = NoScan /\ answer = NoAnswer /\ list = NoList /\ calls = 0

Next ==
  \/ PasswdCalls \/ GroupCalls \/ ShadowCalls
  \/ Scan
  \/ \E u \in Users, g \in Ids : Getgrouplist(u, g)
  \/ \E r \in Roots, d \in Dbs : Replace(r, d)
  \/ Chroot

Spec == Init /\ [][Next]_vars

-----------------------------------------------------------------------------
\* An iteration returns the entries of one version of one tree's file, in
\* their order and each once, whatever look-ups, replacements and chroot()
\* calls come between its calls.
IterationInOrder ==
  \A d \in Dbs :
    IF cursor[d] = Closed THEN delivered[d] = <<>>
    ELSE /\ cursor[d].root \in Roots
         /\ cursor[d].version \in DOMAIN versions[cursor[d].root][d]
         /\ cursor[d].pos \in 1..Len(Contents(d, cursor[d])) + 1
         /\ delivered[d] = SubSeq(Contents(d, cursor[d]), 1, cursor[d].pos - 1)

FirstMatch(t, key, e) ==
  \E i \in DOMAIN t : t[i] = e /\ Matches(e, key) /\ \A j \in 1..i - 1 : ~Matches(t[j], key)

\* A look-up answers from the file that was in place in the guest's tree when
\* it began: with the first entry that matches, with ENOENT only when no
\* entry does, with ERANGE only when a long line comes before any match or is
\* the match, and the buffer is the small one.
LookupsAreRight ==
  answer # NoAnswer =>
    LET t == answer.table
        matching == {i \in DOMAIN t : Matches(t[i], answer.key)}
    IN  CASE answer.err = "0"      -> FirstMatch(t, answer.key, answer.entry)
          [] answer.err = "ENOENT" -> matching = {}
          [] answer.err = "ERANGE" -> /\ answer.size = "small"
                                      /\ \E i \in DOMAIN t : t[i].long /\ \A j \in matching : i <= j

\* A list that getgrouplist() calls complete holds the given group and every
\* group of the file that names the user, when no line of it is long.
GroupListComplete ==
  list # NoList /\ list.ret # -1 /\ list.table # NoTable
    /\ (\A i \in DOMAIN list.table : ~list.table[i].long)
  => ToSet(list.groups) = {list.group} \cup
       {list.table[i].id : i \in {j \in DOMAIN list.table : list.user \in ToSet(list.table[j].members)}}

\* A caller whose array was too small succeeds with the number it was told,
\* unless the file was changed in between.
GroupListRetry ==
  [][\A u \in Users, g \in Ids :
       Getgrouplist(u, g) /\ list # NoList /\ list.ret = -1 /\ list.user = u
         /\ list.group = g /\ list.table = Current("group")
       => list'.ret = Len(list'.groups)]_vars
=============================================================================
