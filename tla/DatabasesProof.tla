--------------------------- MODULE DatabasesProof ---------------------------
(***************************************************************************)
(* Theorems about Databases, for any trees, files and number of calls: an  *)
(* iteration returns the entries of one file in their order, and a look-up *)
(* answers from the file that was in place when it began.                  *)
(***************************************************************************)
EXTENDS Databases, Lemmas, FiniteSetTheorems

Lines == [name : Users, id : Ids, members : Seq(Users), long : BOOLEAN]
FILEs == [root : Roots, version : Nat \ {0}, pos : Nat \ {0}]

\* Versions of files are only ever added.
Kept ==
  /\ root \in Roots
  /\ versions \in [Roots -> [Dbs -> Seq(Tables \cup {NoTable})]]
  /\ \A r \in Roots, d \in Dbs : Len(versions[r][d]) >= 1

\* An open FILE reads a version that is a table, somewhere in it or at its end.
Reads(d, f) ==
  /\ f \in FILEs
  /\ f.version \in 1..Len(versions[f.root][d])
  /\ Contents(d, f) \in Tables
  /\ f.pos \in 1..Len(Contents(d, f)) + 1

Iterations ==
  /\ cursor \in [Dbs -> FILEs \cup {Closed}]
  /\ delivered \in [Dbs -> Seq(Lines)]
  /\ \A d \in Dbs :
       IF cursor[d] = Closed THEN delivered[d] = <<>>
       ELSE /\ Reads(d, cursor[d])
            /\ delivered[d] = SubSeq(Contents(d, cursor[d]), 1, cursor[d].pos - 1)

LEMMA TableLines ==
  ASSUME NEW t \in Tables
  PROVE  t \in Seq(Lines) /\ \A i \in 1..Len(t) : t[i] \in Lines
<1>1. Tables \subseteq Seq(Lines)
  BY DbAssumption DEF Lines
<1>2. t \in Seq(Lines)
  BY <1>1
<1> QED
  BY <1>2

LEMMA ClosedIsNoFILE == Closed \notin FILEs
  BY DbAssumption DEF FILEs

\* What fopen() gives.
LEMMA Opened ==
  ASSUME Kept, NEW d \in Dbs, Current(d) # NoTable
  PROVE  Reads(d, Fopen(d)) /\ Fopen(d).pos = 1 /\ Contents(d, Fopen(d)) = Current(d)
<1> DEFINE n == Len(versions[root][d])
<1>1. versions[root][d] \in Seq(Tables \cup {NoTable}) /\ n \in Nat /\ n >= 1
  BY DEF Kept
<1>2. Fopen(d) = [root |-> root, version |-> n, pos |-> 1] /\ Fopen(d) \in FILEs
  BY <1>1 DEF Fopen, FILEs, Kept
<1>3. Contents(d, Fopen(d)) = Current(d) /\ Current(d) \in Tables
  BY <1>1, <1>2 DEF Contents, Current
<1>4. Len(Current(d)) \in Nat
  BY <1>3, TableLines
<1> QED
  BY <1>1, <1>2, <1>3, <1>4 DEF Reads

\* What fget*ent_r() gives.
LEMMA Got ==
  ASSUME NEW d \in Dbs, NEW f, Reads(d, f), NEW size \in Sizes
  PROVE  LET t == Contents(d, f) got == Fget(d, f, size) IN
           /\ t \in Seq(Lines) /\ Len(t) \in Nat /\ f.pos \in Nat \ {0}
           /\ got.err \in {"0", "ENOENT", "ERANGE"}
           /\ got.err = "0" => f.pos <= Len(t) /\ got.entry = t[f.pos] /\ t[f.pos] \in Lines
           /\ got.err = "ENOENT" => f.pos = Len(t) + 1
           /\ got.err = "ERANGE" => f.pos <= Len(t) /\ t[f.pos].long /\ size = "small"
           /\ got.err = "0" => (t[f.pos].long => size # "small")
<1>1. Contents(d, f) \in Seq(Lines) /\ Len(Contents(d, f)) \in Nat /\ f.pos \in Nat \ {0}
        /\ f.pos \in 1..Len(Contents(d, f)) + 1
        /\ \A i \in 1..Len(Contents(d, f)) : Contents(d, f)[i] \in Lines
  BY TableLines DEF Reads, FILEs
<1> QED
  BY <1>1 DEF Fget

LEMMA NextLine ==
  ASSUME NEW t \in Seq(Lines), NEW n \in 1..Len(t)
  PROVE  Append(SubSeq(t, 1, n - 1), t[n]) = SubSeq(t, 1, n)
<1> DEFINE a == SubSeq(t, 1, n - 1)
           b == SubSeq(t, 1, n)
<1>1. a \in Seq(Lines) /\ b \in Seq(Lines) /\ Len(a) = n - 1 /\ Len(b) = n /\ t[n] \in Lines
  OBVIOUS
<1>2. Append(a, t[n]) \in Seq(Lines) /\ Len(Append(a, t[n])) = n
  BY <1>1
<1>3. \A i \in 1..n : Append(a, t[n])[i] = b[i]
  BY <1>1
<1> QED
  BY <1>1, <1>2, <1>3

LEMMA TwoLevels ==
  ASSUME NEW R, NEW D, NEW V, NEW v, v = [r \in R |-> [d \in D |-> v[r][d]]],
         \A r \in R, d \in D : v[r][d] \in V
  PROVE  v \in [R -> [D -> V]]
<1>1. \A r \in R : [d \in D |-> v[r][d]] \in [D -> V]
  OBVIOUS
<1> QED
  BY <1>1

\* Replacing a file adds a version and leaves those there were.
LEMMA Replaced ==
  ASSUME Kept, NEW r0 \in Roots, NEW d0 \in Dbs, Replace(r0, d0)
  PROVE  /\ Kept'
         /\ \A r \in Roots, d \in Dbs : \A n \in 1..Len(versions[r][d]) :
              n \in 1..Len(versions'[r][d]) /\ versions'[r][d][n] = versions[r][d][n]
<1> PICK t \in Tables \cup {NoTable} :
      versions' = [versions EXCEPT ![r0][d0] = Append(versions[r0][d0], t)]
  BY DEF Replace
<1>1. ASSUME NEW r \in Roots, NEW d \in Dbs
      PROVE  /\ versions'[r][d] \in Seq(Tables \cup {NoTable})
             /\ Len(versions'[r][d]) >= 1
             /\ \A n \in 1..Len(versions[r][d]) :
                  n \in 1..Len(versions'[r][d]) /\ versions'[r][d][n] = versions[r][d][n]
  <2>1. versions[r][d] \in Seq(Tables \cup {NoTable}) /\ Len(versions[r][d]) >= 1
    BY DEF Kept
  <2>2. CASE r = r0 /\ d = d0
    <3>1. versions'[r][d] = Append(versions[r][d], t)
      BY <2>2 DEF Kept
    <3> QED
      BY <2>1, <3>1
  <2>3. CASE ~(r = r0 /\ d = d0)
    <3>1. versions'[r][d] = versions[r][d]
      BY <2>3 DEF Kept
    <3> QED
      BY <2>1, <3>1
  <2> QED
    BY <2>2, <2>3
<1>2. versions' \in [Roots -> [Dbs -> Seq(Tables \cup {NoTable})]]
  <2>1. versions' = [r \in Roots |-> [d \in Dbs |-> versions'[r][d]]]
    <3>1. versions \in [Roots -> [Dbs -> Seq(Tables \cup {NoTable})]]
      BY DEF Kept
    <3> DEFINE added == Append(versions[r0][d0], t)
    <3>2. versions' = [r \in Roots |-> IF r = r0 THEN [versions[r0] EXCEPT ![d0] = added] ELSE versions[r]]
      BY <3>1
    <3> HIDE DEF added
    <3>3. \A r \in Roots : versions'[r] = [d \in Dbs |-> versions'[r][d]]
      BY <3>1, <3>2
    <3> QED
      BY <3>2, <3>3
  <2> DEFINE V == Seq(Tables \cup {NoTable})
  <2>2. \A r \in Roots, d \in Dbs : versions'[r][d] \in V
    BY <1>1
  <2> HIDE DEF V
  <2>3. PICK v : v = versions'
    OBVIOUS
  <2>4. v = [r \in Roots |-> [d \in Dbs |-> v[r][d]]] /\ \A r \in Roots, d \in Dbs : v[r][d] \in V
    BY <2>1, <2>2, <2>3, Zenon
  <2>5. v \in [Roots -> [Dbs -> V]]
    BY <2>4, TwoLevels, Zenon
  <2> QED
    BY <2>3, <2>5, Zenon DEF V
<1>3. root' = root
  BY DEF Replace
<1> QED
  BY <1>1, <1>2, <1>3 DEF Kept

-----------------------------------------------------------------------------
LEMMA IterationsAtFirst == Init => Kept /\ Iterations
<1> SUFFICES ASSUME Init PROVE Kept /\ Iterations
  OBVIOUS
<1>1. \A r \in Roots, d \in Dbs : \E t \in Tables : versions[r][d] = <<t>>
  BY DbAssumption DEF Init
<1>2. versions \in [Roots -> [Dbs -> Seq(Tables \cup {NoTable})]]
  <2>1. \A t \in Tables : <<t>> \in Seq(Tables \cup {NoTable})
    OBVIOUS
  <2>2. versions = [r \in Roots |-> [d \in Dbs |-> versions[r][d]]]
    BY DEF Init
  <2> QED
    BY <1>1, <2>1, <2>2
<1>3. \A r \in Roots, d \in Dbs : Len(versions[r][d]) >= 1
  <2>1. \A t \in Tables : Len(<<t>>) = 1
    OBVIOUS
  <2> QED
    BY <1>1, <2>1
<1>4. cursor \in [Dbs -> FILEs \cup {Closed}] /\ delivered \in [Dbs -> Seq(Lines)]
        /\ \A d \in Dbs : cursor[d] = Closed /\ delivered[d] = <<>>
  BY DEF Init
<1> QED
  BY <1>2, <1>3, <1>4 DEF Init, Kept, Iterations

\* A call that does not iterate, on files that stay.
LEMMA IterationsAlone ==
  ASSUME Kept, Iterations, UNCHANGED <<cursor, delivered, versions>>, root' \in Roots
  PROVE  Kept' /\ Iterations'
  BY DEF Kept, Iterations, Reads, Contents

LEMMA GetentKept ==
  ASSUME Kept, Iterations, NEW d \in Dbs, NEW size \in Sizes, Getent(d, size)
  PROVE  Kept' /\ Iterations'
<1> DEFINE f == IF cursor[d] = Closed THEN Fopen(d) ELSE cursor[d]
           t == Contents(d, f)
           got == Fget(d, f, size)
           g == [f EXCEPT !.pos = @ + IF got.err = "0" THEN 1 ELSE 0]
<1>1. /\ cursor[d] = Closed => Current(d) # NoTable
      /\ cursor' = [cursor EXCEPT ![d] = g]
      /\ delivered' = IF got.err = "0" THEN [delivered EXCEPT ![d] = Append(delivered[d], got.entry)]
                      ELSE delivered
      /\ UNCHANGED <<root, versions>>
  BY DEF Getent
<1>2. Reads(d, f) /\ delivered[d] = SubSeq(t, 1, f.pos - 1)
  <2>1. CASE cursor[d] = Closed
    <3>1. Reads(d, f) /\ f.pos = 1 /\ delivered[d] = <<>>
      BY <1>1, <2>1, Opened DEF Iterations
    <3>2. t \in Seq(Lines)
      BY <3>1, TableLines DEF Reads
    <3> QED
      BY <3>1, <3>2
  <2>2. CASE cursor[d] # Closed
    BY <2>2 DEF Iterations
  <2> QED
    BY <2>1, <2>2
<1>3. /\ t \in Seq(Lines) /\ Len(t) \in Nat /\ f.pos \in Nat \ {0}
      /\ got.err = "0" => f.pos <= Len(t) /\ got.entry = t[f.pos] /\ t[f.pos] \in Lines
  BY <1>2, Got
<1>4. g \in FILEs /\ g.root = f.root /\ g.version = f.version
        /\ g.pos = IF got.err = "0" THEN f.pos + 1 ELSE f.pos
  <2>1. f \in FILEs
    BY <1>2 DEF Reads
  <2> QED
    BY <1>3, <2>1 DEF FILEs
<1>5. Contents(d, g) = t /\ g.version \in 1..Len(versions[g.root][d]) /\ t \in Tables
        /\ g.pos \in 1..Len(t) + 1
  <2>1. Contents(d, g) = t
    BY <1>4 DEF Contents
  <2>2. f.version \in 1..Len(versions[f.root][d]) /\ t \in Tables /\ f.pos \in 1..Len(t) + 1
    BY <1>2 DEF Reads
  <2> QED
    BY <1>3, <1>4, <2>1, <2>2
<1>6. Append(delivered[d], got.entry) = SubSeq(t, 1, f.pos) \/ got.err # "0"
  <2> SUFFICES ASSUME got.err = "0" PROVE Append(SubSeq(t, 1, f.pos - 1), t[f.pos]) = SubSeq(t, 1, f.pos)
    BY <1>2, <1>3
  <2>1. f.pos \in 1..Len(t)
    BY <1>3
  <2> HIDE DEF t, f
  <2> QED
    BY <1>3, <2>1, NextLine
<1>7. cursor'[d] = g /\ cursor' \in [Dbs -> FILEs \cup {Closed}]
        /\ \A e \in Dbs : e # d => cursor'[e] = cursor[e]
  BY <1>1, <1>4 DEF Iterations
<1>8. delivered' \in [Dbs -> Seq(Lines)] /\ delivered'[d] = SubSeq(t, 1, g.pos - 1)
        /\ \A e \in Dbs : e # d => delivered'[e] = delivered[e]
  <2>1. CASE got.err = "0"
    <3>1. SubSeq(t, 1, f.pos) \in Seq(Lines) /\ g.pos - 1 = f.pos
      BY <1>3, <1>4, <2>1
    <3>2. delivered' = [delivered EXCEPT ![d] = SubSeq(t, 1, f.pos)]
      BY <1>1, <1>6, <2>1
    <3> QED
      BY <3>1, <3>2 DEF Iterations
  <2>2. CASE got.err # "0"
    BY <1>1, <1>2, <1>4, <2>2 DEF Iterations
  <2> QED
    BY <2>1, <2>2
<1>9. cursor'[d] # Closed
  BY <1>4, <1>7, ClosedIsNoFILE
<1>10. ASSUME NEW e \in Dbs
       PROVE  IF cursor'[e] = Closed THEN delivered'[e] = <<>>
              ELSE /\ Reads(e, cursor[e])'
                   /\ delivered'[e] = SubSeq(Contents(e, cursor[e])', 1, cursor'[e].pos - 1)
  <2>1. CASE e = d
    <3>1. Contents(e, cursor[e])' = t
      BY <1>1, <1>5, <1>7, <2>1 DEF Contents
    <3> QED
      BY <1>1, <1>4, <1>5, <1>7, <1>8, <1>9, <2>1, <3>1 DEF Reads
  <2>2. CASE e # d
    BY <1>1, <1>7, <1>8, <2>2 DEF Iterations, Reads, Contents
  <2> QED
    BY <2>1, <2>2
<1> QED
  BY <1>1, <1>7, <1>8, <1>10 DEF Kept, Iterations

LEMMA IterationsKept == Kept /\ Iterations /\ [Next]_vars => Kept' /\ Iterations'
<1> SUFFICES ASSUME Kept, Iterations, [Next]_vars PROVE Kept' /\ Iterations'
  OBVIOUS
<1>0. root \in Roots
  BY DEF Kept
<1>1. ASSUME NEW d \in Dbs, NEW s \in Sizes, Getent(d, s) PROVE Kept' /\ Iterations'
  BY <1>1, GetentKept
<1>2. ASSUME NEW d \in Dbs, NEW k, NEW s \in Sizes, Lookup(d, k, s) PROVE Kept' /\ Iterations'
  BY <1>0, <1>2, IterationsAlone DEF Lookup
<1>3. ASSUME NEW d \in Dbs, Setent(d) PROVE Kept' /\ Iterations'
  <2>1. /\ cursor[d] # Closed /\ Reads(d, cursor[d]) /\ cursor[d] \in FILEs
        /\ cursor' = [cursor EXCEPT ![d] = [cursor[d] EXCEPT !.pos = 1]]
        /\ delivered' = [delivered EXCEPT ![d] = <<>>] /\ UNCHANGED <<root, versions>>
    BY <1>3 DEF Setent, Iterations
  <2> DEFINE g == [cursor[d] EXCEPT !.pos = 1]
  <2>2. g \in FILEs /\ g.root = cursor[d].root /\ g.version = cursor[d].version /\ g.pos = 1
    BY <2>1 DEF FILEs
  <2>3. /\ cursor'[d] = g /\ cursor' \in [Dbs -> FILEs \cup {Closed}]
        /\ delivered'[d] = <<>> /\ delivered' \in [Dbs -> Seq(Lines)]
        /\ \A e \in Dbs : e # d => cursor'[e] = cursor[e] /\ delivered'[e] = delivered[e]
    BY <2>1, <2>2 DEF Iterations
  <2>4. Contents(d, cursor[d])' = Contents(d, cursor[d])
    BY <2>1, <2>2, <2>3 DEF Contents
  <2>5. Contents(d, cursor[d]) \in Seq(Lines) /\ Len(Contents(d, cursor[d])) \in Nat
    BY <2>1, TableLines DEF Reads
  <2>6. Reads(d, cursor[d])'
    BY <2>1, <2>2, <2>3, <2>4, <2>5 DEF Reads
  <2>7. SubSeq(Contents(d, cursor[d]), 1, 1 - 1) = <<>>
    BY <2>5
  <2>8. ASSUME NEW e \in Dbs, e # d, cursor[e] # Closed
        PROVE  Reads(e, cursor[e])' /\ Contents(e, cursor[e])' = Contents(e, cursor[e])
    BY <2>1, <2>3, <2>8 DEF Iterations, Reads, Contents
  <2> QED
    BY <2>1, <2>2, <2>3, <2>4, <2>6, <2>7, <2>8, ClosedIsNoFILE DEF Kept, Iterations
<1>4. ASSUME NEW d \in Dbs, Endent(d) PROVE Kept' /\ Iterations'
  <2>1. /\ UNCHANGED <<root, versions>>
        /\ cursor'[d] = Closed /\ cursor' \in [Dbs -> FILEs \cup {Closed}]
        /\ delivered'[d] = <<>> /\ delivered' \in [Dbs -> Seq(Lines)]
        /\ \A e \in Dbs : e # d => cursor'[e] = cursor[e] /\ delivered'[e] = delivered[e]
    BY <1>4 DEF Endent, Iterations
  <2> QED
    BY <2>1 DEF Kept, Iterations, Reads, Contents
<1>5. CASE Scan
  BY <1>0, <1>5, IterationsAlone DEF Scan
<1>6. ASSUME NEW u \in Users, NEW g \in Ids, Getgrouplist(u, g) PROVE Kept' /\ Iterations'
  BY <1>0, <1>6, IterationsAlone DEF Getgrouplist
<1>7. ASSUME NEW r \in Roots, NEW d \in Dbs, Replace(r, d) PROVE Kept' /\ Iterations'
  <2>1. cursor' = cursor /\ delivered' = delivered
    BY <1>7 DEF Replace
  <2>2. ASSUME NEW e \in Dbs, cursor[e] # Closed
        PROVE  Contents(e, cursor[e])' = Contents(e, cursor[e]) /\ Reads(e, cursor[e])'
    <3>1. Reads(e, cursor[e]) /\ cursor[e].root \in Roots
      BY <2>2 DEF Iterations, FILEs
    <3>2. /\ cursor[e].version \in 1..Len(versions'[cursor[e].root][e])
          /\ versions'[cursor[e].root][e][cursor[e].version]
               = versions[cursor[e].root][e][cursor[e].version]
      BY <1>7, <3>1, Replaced DEF Reads
    <3> QED
      BY <2>1, <3>1, <3>2 DEF Reads, Contents
  <2> QED
    BY <1>7, <2>1, <2>2, Replaced DEF Iterations
<1>8. CASE Chroot
  BY <1>8, IterationsAlone DEF Chroot
<1>9. CASE UNCHANGED vars
  BY <1>0, <1>9, IterationsAlone DEF vars
<1> QED
  BY <1>1, <1>2, <1>3, <1>4, <1>5, <1>6, <1>7, <1>8, <1>9
  DEF Next, PasswdCalls, GroupCalls, ShadowCalls, Dbs

LEMMA IterationsAlways == Spec => [](Kept /\ Iterations)
  BY IterationsAtFirst, IterationsKept, PTL DEF Spec

\* What an iteration of get*ent() has returned is the beginning of one file,
\* whatever look-ups, replacements and chroot() calls come in between.
THEOREM IterationsAreInOrder == Spec => []IterationInOrder
<1>1. Kept /\ Iterations => IterationInOrder
  <2> SUFFICES ASSUME Kept, Iterations, NEW d \in Dbs, cursor[d] # Closed
               PROVE  /\ cursor[d].root \in Roots
                      /\ cursor[d].version \in DOMAIN versions[cursor[d].root][d]
                      /\ cursor[d].pos \in 1..Len(Contents(d, cursor[d])) + 1
                      /\ delivered[d] = SubSeq(Contents(d, cursor[d]), 1, cursor[d].pos - 1)
    BY DEF IterationInOrder, Iterations
  <2>1. Reads(d, cursor[d]) /\ cursor[d].root \in Roots
    BY DEF Iterations, FILEs
  <2>2. versions[cursor[d].root][d] \in Seq(Tables \cup {NoTable})
    BY <2>1 DEF Kept
  <2> QED
    BY <2>1, <2>2 DEF Iterations, Reads
<1> QED
  BY <1>1, IterationsAlways, PTL

-----------------------------------------------------------------------------
\* A look-up under way reads the file that was in place when it began, and no
\* line before the one it is at matches, nor is too long for its buffer.
Keys == [by : {"name"}, val : Users] \cup [by : {"id"}, val : Ids]

Scanning ==
  scan # NoScan =>
    /\ scan \in [state : {"reading"}, db : Dbs, key : Keys, size : Sizes, file : FILEs,
                 table : Tables]
    /\ Reads(scan.db, scan.file)
    /\ scan.table = Contents(scan.db, scan.file)
    /\ \A j \in 1..scan.file.pos - 1 :
         ~Matches(scan.table[j], scan.key) /\ (scan.table[j].long => scan.size # "small")

LEMMA ScanKept ==
  ASSUME Scanning, LookupsAreRight, Scan
  PROVE  Scanning' /\ LookupsAreRight'
<1> DEFINE got == Fget(scan.db, scan.file, scan.size)
           t == scan.table
           n == scan.file.pos
<1>1. /\ scan # NoScan
      /\ scan \in [state : {"reading"}, db : Dbs, key : Keys, size : Sizes, file : FILEs,
                   table : Tables]
      /\ Reads(scan.db, scan.file) /\ t = Contents(scan.db, scan.file)
      /\ \A j \in 1..n - 1 : ~Matches(t[j], scan.key) /\ (t[j].long => scan.size # "small")
  BY DEF Scan, Scanning
<1>2. /\ t \in Seq(Lines) /\ Len(t) \in Nat /\ n \in Nat \ {0}
      /\ got.err \in {"0", "ENOENT", "ERANGE"}
      /\ got.err = "0" => n <= Len(t) /\ got.entry = t[n] /\ t[n] \in Lines
      /\ got.err = "ENOENT" => n = Len(t) + 1
      /\ got.err = "ERANGE" => n <= Len(t) /\ t[n].long /\ scan.size = "small"
      /\ got.err = "0" => (t[n].long => scan.size # "small")
  BY <1>1, Got
<1>3. DOMAIN t = 1..Len(t)
  BY <1>2
<1>4. ASSUME NEW err \in {"0", "ENOENT", "ERANGE"}, NEW entry, Answered(err, entry),
             err = "0" => n <= Len(t) /\ t[n] = entry /\ Matches(entry, scan.key),
             err = "ENOENT" => n = Len(t) + 1,
             err = "ERANGE" => n <= Len(t) /\ t[n].long /\ scan.size = "small"
      PROVE  Scanning' /\ LookupsAreRight'
  <2>1. scan' = NoScan /\ answer' = [err |-> err, entry |-> entry, key |-> scan.key, db |-> scan.db,
                                     size |-> scan.size, table |-> t]
    BY <1>4 DEF Answered
  <2>2. NoScan' = NoScan /\ Scanning'
    BY <2>1 DEF Scanning, NoScan
  <2>3. CASE err = "0"
    <3>1. FirstMatch(t, scan.key, entry)
      BY <1>1, <1>2, <1>3, <1>4, <2>3 DEF FirstMatch
    <3> QED
      BY <2>1, <2>2, <2>3, <3>1 DEF LookupsAreRight
  <2>4. CASE err = "ENOENT"
    <3>1. {i \in DOMAIN t : Matches(t[i], scan.key)} = {}
      BY <1>1, <1>2, <1>3, <1>4, <2>4
    <3> QED
      BY <2>1, <2>2, <2>4, <3>1 DEF LookupsAreRight
  <2>5. CASE err = "ERANGE"
    <3>1. n \in DOMAIN t /\ t[n].long /\ \A j \in {i \in DOMAIN t : Matches(t[i], scan.key)} : n <= j
      BY <1>1, <1>2, <1>3, <1>4, <2>5
    <3> QED
      BY <1>4, <2>1, <2>2, <2>5, <3>1 DEF LookupsAreRight
  <2> QED
    BY <2>3, <2>4, <2>5
<1>5. CASE got.err # "0"
  <2>1. Answered(got.err, Null)
    BY <1>5 DEF Scan
  <2> HIDE DEF got
  <2> QED
    BY <1>2, <1>4, <1>5, <2>1
<1>6. CASE got.err = "0" /\ Matches(got.entry, scan.key)
  <2>1. Answered("0", got.entry)
    BY <1>6 DEF Scan
  <2> HIDE DEF got
  <2> QED
    BY <1>2, <1>4, <1>6, <2>1
<1>7. CASE got.err = "0" /\ ~Matches(got.entry, scan.key)
  <2>1. scan' = [scan EXCEPT !.file.pos = n + 1] /\ answer' = answer /\ versions' = versions
    BY <1>7 DEF Scan
  <2>2. /\ scan' \in [state : {"reading"}, db : Dbs, key : Keys, size : Sizes, file : FILEs,
                      table : Tables]
        /\ scan'.db = scan.db /\ scan'.key = scan.key /\ scan'.size = scan.size /\ scan'.table = t
        /\ scan'.file.root = scan.file.root /\ scan'.file.version = scan.file.version
        /\ scan'.file.pos = n + 1
    <3> DEFINE g == [scan.file EXCEPT !.pos = n + 1]
    <3>1. g \in FILEs /\ g.root = scan.file.root /\ g.version = scan.file.version /\ g.pos = n + 1
      BY <1>1, <1>2 DEF FILEs
    <3>2. scan' = [scan EXCEPT !.file = g]
      BY <2>1
    <3> HIDE DEF g
    <3> QED
      BY <1>1, <3>1, <3>2
  <2>3. Contents(scan.db, scan.file)' = t
    BY <1>1, <2>1, <2>2 DEF Contents
  <2>4. Reads(scan.db, scan.file)'
    <3>1. /\ scan.file.version \in 1..Len(versions[scan.file.root][scan.db])
          /\ t \in Tables /\ n + 1 \in 1..Len(t) + 1
      BY <1>1, <1>2, <1>7 DEF Reads
    <3>2. scan'.file \in FILEs /\ versions'[scan'.file.root][scan'.db] = versions[scan.file.root][scan.db]
      BY <2>1, <2>2
    <3> QED
      BY <2>2, <2>3, <3>1, <3>2 DEF Reads
  <2>5. ASSUME NEW j \in 1..scan'.file.pos - 1
        PROVE  ~Matches(t[j], scan.key) /\ (t[j].long => scan.size # "small")
    BY <1>1, <1>2, <1>7, <2>2
  <2> QED
    BY <2>1, <2>2, <2>3, <2>4, <2>5 DEF Scanning, LookupsAreRight, NoAnswer, FirstMatch, Matches
<1> QED
  BY <1>2, <1>5, <1>6, <1>7

LEMMA LookupKept ==
  ASSUME Kept, Scanning, LookupsAreRight,
         NEW d \in Dbs, NEW k \in ByName \cup ById, NEW s \in Sizes, Lookup(d, k, s)
  PROVE  Scanning' /\ LookupsAreRight'
<1>1. k \in Keys
  BY DEF ByName, ById, Keys
<1>2. CASE Current(d) = NoTable
  <2>1. answer' = [err |-> "ENOENT", entry |-> Null, key |-> k, db |-> d, size |-> s, table |-> <<>>]
          /\ scan' = scan /\ scan = NoScan
    BY <1>2 DEF Lookup
  <2>2. {i \in DOMAIN <<>> : Matches(<<>>[i], k)} = {}
    OBVIOUS
  <2> QED
    BY <2>1, <2>2 DEF Scanning, LookupsAreRight, NoScan
<1>3. CASE Current(d) # NoTable
  <2>1. /\ scan' = [state |-> "reading", db |-> d, key |-> k, size |-> s, file |-> Fopen(d),
                    table |-> Current(d)]
        /\ answer' = answer /\ versions' = versions
    BY <1>3 DEF Lookup
  <2>2. Reads(d, Fopen(d)) /\ Fopen(d).pos = 1 /\ Contents(d, Fopen(d)) = Current(d)
    BY <1>3, Opened
  <2>3. Fopen(d) \in FILEs /\ Current(d) \in Tables
    BY <2>2 DEF Reads
  <2>4. Scanning'
    BY <1>1, <2>1, <2>2, <2>3 DEF Scanning, Reads, Contents
  <2> QED
    BY <2>1, <2>4 DEF LookupsAreRight, NoAnswer
<1> QED
  BY <1>2, <1>3

\* Calls other than look-ups, on files that stay or are only added to.
LEMMA ScanAlone ==
  ASSUME Scanning, LookupsAreRight, UNCHANGED <<scan, answer>>,
         \A r \in Roots, d \in Dbs : \A n \in 1..Len(versions[r][d]) :
           n \in 1..Len(versions'[r][d]) /\ versions'[r][d][n] = versions[r][d][n]
  PROVE  Scanning' /\ LookupsAreRight'
<1>1. ASSUME scan # NoScan
      PROVE  Contents(scan.db, scan.file)' = Contents(scan.db, scan.file)
               /\ Reads(scan.db, scan.file)'
  <2> DEFINE f == scan.file
  <2>1. Reads(scan.db, f) /\ f.root \in Roots /\ scan.db \in Dbs
    BY <1>1 DEF Scanning, FILEs
  <2>2. /\ f.version \in 1..Len(versions'[f.root][scan.db])
        /\ versions'[f.root][scan.db][f.version] = versions[f.root][scan.db][f.version]
    BY <2>1 DEF Reads
  <2>3. Contents(scan.db, scan.file)' = Contents(scan.db, scan.file)
    BY <2>2 DEF Contents
  <2> QED
    BY <2>1, <2>2, <2>3 DEF Reads
<1> QED
  BY <1>1 DEF Scanning, LookupsAreRight

LEMMA ScanningKept ==
  ASSUME Kept, Scanning, LookupsAreRight, [Next]_vars
  PROVE  Scanning' /\ LookupsAreRight'
<1>1. ASSUME NEW d \in Dbs, NEW k \in ByName \cup ById, NEW s \in Sizes, Lookup(d, k, s)
      PROVE  Scanning' /\ LookupsAreRight'
  BY <1>1, LookupKept
<1>2. CASE Scan
  BY <1>2, ScanKept
<1>3. ASSUME NEW r \in Roots, NEW d \in Dbs, Replace(r, d)
      PROVE  Scanning' /\ LookupsAreRight'
  BY <1>3, Replaced, ScanAlone DEF Replace
<1>4. CASE UNCHANGED <<scan, answer, versions>>
  BY <1>4, ScanAlone
<1>5. ASSUME NEW d \in Dbs, (\E s \in Sizes : Getent(d, s)) \/ Setent(d) \/ Endent(d)
      PROVE  UNCHANGED <<scan, answer, versions>>
  BY <1>5 DEF Getent, Setent, Endent
<1>6. ASSUME NEW u \in Users, NEW g \in Ids, Getgrouplist(u, g)
      PROVE  UNCHANGED <<scan, answer, versions>>
  BY <1>6 DEF Getgrouplist
<1>7. ASSUME Chroot \/ UNCHANGED vars PROVE UNCHANGED <<scan, answer, versions>>
  BY <1>7 DEF Chroot, vars
<1> QED
  BY <1>1, <1>2, <1>3, <1>4, <1>5, <1>6, <1>7
  DEF Next, PasswdCalls, GroupCalls, ShadowCalls, Dbs

\* A look-up answers with the first entry that matches in the file that was
\* in place when it began, and says that there is none only when that is so.
THEOREM LookupsAnswerRight == Spec => []LookupsAreRight
<1>1. Init => Scanning /\ LookupsAreRight
  BY DEF Init, Scanning, LookupsAreRight
<1>2. Kept /\ Scanning /\ LookupsAreRight /\ [Next]_vars => Scanning' /\ LookupsAreRight'
  BY ScanningKept
<1> QED
  BY <1>1, <1>2, IterationsAlways, PTL DEF Spec

-----------------------------------------------------------------------------
(* getgrouplist().                                                         *)

\* The lines that are read are a beginning of the file: all of it when no
\* line is long.
LEMMA ReadableLines ==
  ASSUME NEW t \in Seq(Lines)
  PROVE  /\ Readable(t) \in Seq(Lines)
         /\ (\A i \in DOMAIN t : ~t[i].long) => Readable(t) = t
<1> DEFINE long == {i \in DOMAIN t : t[i].long}
           first == CHOOSE i \in long : \A j \in long : i <= j
<1>1. Readable(t) = SubSeq(t, 1, IF long = {} THEN Len(t) ELSE first - 1)
  BY DEF Readable
<1>2. long # {} => first \in 1..Len(t)
  <2>1. long \subseteq Nat /\ long \subseteq 1..Len(t)
    OBVIOUS
  <2> HIDE DEF long
  <2>2. long # {} => first \in long
    BY <2>1, LeastElement
  <2> QED
    BY <2>1, <2>2
<1>3. SubSeq(t, 1, Len(t)) = t
  OBVIOUS
<1>4. (\A i \in DOMAIN t : ~t[i].long) => long = {}
  OBVIOUS
<1> HIDE DEF long, first
<1>5. CASE long = {}
  BY <1>1, <1>3, <1>5
<1>6. CASE long # {}
  BY <1>1, <1>2, <1>4, <1>6
<1> QED
  BY <1>5, <1>6

\* What one line adds to the list.
LEMMA IdsOfLine ==
  ASSUME NEW e \in Lines, NEW u, NEW g
  PROVE  /\ IdsFor(e, u, g) \in Seq(Ids)
         /\ ToSet(IdsFor(e, u, g))
              = IF e.id # g /\ u \in ToSet(e.members) THEN {e.id} ELSE {}
<1> DEFINE named == {j \in DOMAIN e.members : e.members[j] = u}
           c == Cardinality(named)
<1>1. e.members \in Seq(Users) /\ e.id \in Ids
  BY DEF Lines
<1>2. IsFiniteSet(1..Len(e.members)) /\ Len(e.members) \in Nat
  BY <1>1, FS_Interval
<1>3. named \subseteq 1..Len(e.members)
  BY <1>1
<1>4. IsFiniteSet(named)
  <2> HIDE DEF named
  <2> QED
    BY <1>2, <1>3, FS_Subset
<1>5. c \in Nat /\ (c = 0 <=> named = {})
  <2> HIDE DEF named
  <2> QED
    BY <1>4, FS_CardinalityType, FS_EmptySet
<1>6. named = {} <=> u \notin ToSet(e.members)
  BY <1>1 DEF ToSet
<1>7. CASE e.id = g
  BY <1>7 DEF IdsFor, ToSet
<1>8. CASE e.id # g
  <2>1. IdsFor(e, u, g) = [i \in 1..c |-> e.id]
    BY <1>8 DEF IdsFor
  <2> HIDE DEF c, named
  <2>2. IdsFor(e, u, g) \in Seq(Ids)
    BY <1>1, <1>5, <2>1
  <2>3. \A x \in ToSet(IdsFor(e, u, g)) : x = e.id /\ c # 0
    BY <1>5, <2>1 DEF ToSet
  <2>4. c # 0 => e.id \in ToSet(IdsFor(e, u, g))
    <3>1. c # 0 => 1 \in 1..c
      BY <1>5
    <3> QED
      BY <2>1, <3>1 DEF ToSet
  <2> QED
    BY <1>5, <1>6, <1>8, <2>2, <2>3, <2>4
<1> QED
  BY <1>7, <1>8

LEMMA Joined ==
  ASSUME NEW T, NEW a \in Seq(T), NEW b \in Seq(T)
  PROVE  a \o b \in Seq(T) /\ ToSet(a \o b) = ToSet(a) \cup ToSet(b)
<1>1. /\ a \o b \in Seq(T) /\ Len(a) \in Nat /\ Len(b) \in Nat
      /\ Len(a \o b) = Len(a) + Len(b)
      /\ \A i \in 1..Len(a) : (a \o b)[i] = a[i] /\ i \in 1..Len(a \o b)
      /\ \A i \in 1..Len(b) : (a \o b)[Len(a) + i] = b[i] /\ Len(a) + i \in 1..Len(a \o b)
  OBVIOUS
<1>2. \A q \in Seq(T) : \A x : x \in ToSet(q) <=> \E i \in 1..Len(q) : q[i] = x
  BY DEF ToSet
<1>3. ASSUME NEW i \in 1..Len(a \o b)
      PROVE  \/ i \in 1..Len(a)
             \/ i - Len(a) \in 1..Len(b) /\ Len(a) + (i - Len(a)) = i
  BY <1>1
<1>4. ASSUME NEW x, x \in ToSet(a \o b) PROVE x \in ToSet(a) \/ x \in ToSet(b)
  <2> PICK i \in 1..Len(a \o b) : (a \o b)[i] = x
    BY <1>1, <1>2, <1>4
  <2>1. CASE i \in 1..Len(a)
    BY <1>1, <1>2, <2>1
  <2>2. CASE i - Len(a) \in 1..Len(b) /\ Len(a) + (i - Len(a)) = i
    BY <1>1, <1>2, <2>2
  <2> QED
    BY <1>3, <2>1, <2>2
<1>5. ASSUME NEW x, x \in ToSet(a) \/ x \in ToSet(b) PROVE x \in ToSet(a \o b)
  <2>1. CASE x \in ToSet(a)
    <3> PICK i \in 1..Len(a) : a[i] = x
      BY <1>2, <2>1
    <3> QED
      BY <1>1, <1>2
  <2>2. CASE x \in ToSet(b)
    <3> PICK i \in 1..Len(b) : b[i] = x
      BY <1>2, <2>2
    <3>1. Len(a) + i \in 1..Len(a \o b) /\ (a \o b)[Len(a) + i] = x
      BY <1>1
    <3> QED
      BY <1>1, <1>2, <3>1
  <2> QED
    BY <1>5, <2>1, <2>2
<1> QED
  BY <1>1, <1>4, <1>5

\* The groups that are counted are a list, and hold the given group and those
\* of the lines read that name the user.
LEMMA GroupsCounted ==
  ASSUME NEW t \in Seq(Lines), NEW u, NEW g \in Ids
  PROVE  /\ GroupsOf(t, u, g) \in Seq(Ids)
         /\ LET read == Readable(t) IN
              ToSet(GroupsOf(t, u, g)) = {g} \cup
                {read[i].id : i \in {j \in DOMAIN read : u \in ToSet(read[j].members)}}
<1> DEFINE read == Readable(t)
           N == Len(read)
<1>1. read \in Seq(Lines) /\ N \in Nat /\ \A i \in 1..N : read[i] \in Lines
  BY ReadableLines
<1> HIDE DEF read, N
<1> DEFINE F == [x \in Nat \X Seq(Ids) |->
                   IF x[1] + 1 \in 1..N THEN x[2] \o IdsFor(read[x[1] + 1], u, g) ELSE x[2]]
           H(f, n) == IF n = 0 THEN <<g>> ELSE f[n - 1] \o IdsFor(read[n], u, g)
           ids == CHOOSE f : f = [n \in 0..N |-> H(f, n)]
<1>2. F \in [Nat \X Seq(Ids) -> Seq(Ids)]
  <2>1. ASSUME NEW x \in Nat \X Seq(Ids) PROVE F[x] \in Seq(Ids)
    <3>1. F[x] = IF x[1] + 1 \in 1..N THEN x[2] \o IdsFor(read[x[1] + 1], u, g) ELSE x[2]
      OBVIOUS
    <3>2. x[2] \in Seq(Ids)
      OBVIOUS
    <3>3. x[1] + 1 \in 1..N => IdsFor(read[x[1] + 1], u, g) \in Seq(Ids)
      BY <1>1, IdsOfLine
    <3> HIDE DEF F
    <3> QED
      BY <3>1, <3>2, <3>3
  <2> QED
    BY <2>1
<1>3. PICK W \in [Nat -> Seq(Ids)] :
        W[0] = <<g>> /\ \A n \in Nat : W[n + 1] = F[<<n, W[n]>>]
  <2> DEFINE X == Seq(Ids)
             x0 == <<g>>
  <2>1. x0 \in X /\ F \in [Nat \X X -> X]
    BY <1>2
  <2> HIDE DEF F, X, x0
  <2>2. \E W : Recursive(W, X, x0, F)
    BY <2>1, Recurses
  <2> QED
    BY <2>2 DEF X, x0, Recursive
<1>4. \E f : f = [n \in 0..N |-> H(f, n)]
  <2> DEFINE f == [n \in 0..N |-> W[n]]
  <2>1. ASSUME NEW n \in 0..N PROVE f[n] = H(f, n)
    <3>1. CASE n = 0
      BY <1>3, <3>1
    <3>2. CASE n # 0
      <4>1. n - 1 \in Nat /\ n - 1 \in 0..N /\ (n - 1) + 1 = n /\ n \in 1..N
        BY <1>1, <3>2
      <4>2. W[n] = F[<<n - 1, W[n - 1]>>]
        <5> HIDE DEF F, f, H
        <5>1. W[(n - 1) + 1] = F[<<n - 1, W[n - 1]>>]
          BY <1>3, <4>1
        <5> QED
          BY <4>1, <5>1
      <4>3. F[<<n - 1, W[n - 1]>>] = W[n - 1] \o IdsFor(read[n], u, g)
        <5>1. W[n - 1] \in Seq(Ids)
          BY <4>1
        <5> QED
          BY <4>1, <5>1
      <4>4. f[n - 1] = W[n - 1] /\ f[n] = W[n]
        BY <4>1
      <4> QED
        BY <3>2, <4>2, <4>3, <4>4
    <3> QED
      BY <3>1, <3>2
  <2>2. f = [n \in 0..N |-> H(f, n)]
    <3>1. f = [n \in 0..N |-> f[n]]
      OBVIOUS
    <3> HIDE DEF f, H
    <3> QED
      BY <2>1, <3>1
  <2> QED
    BY <2>2
<1>5. ids = [n \in 0..N |-> H(ids, n)]
  <2> HIDE DEF H
  <2> QED
    BY <1>4
<1>6. GroupsOf(t, u, g) = ids[N]
  BY DEF GroupsOf, read, N
<1> DEFINE upto(n) == {g} \cup {read[i].id : i \in {j \in 1..n : u \in ToSet(read[j].members)}}
           Right(n) == ids[n] \in Seq(Ids) /\ ToSet(ids[n]) = upto(n)
           S == {n \in Nat : n <= N => Right(n)}
<1>7. \A n \in 0..N : ids[n] = H(ids, n)
  <2> HIDE DEF ids, H
  <2> QED
    BY <1>5
<1> HIDE DEF ids
<1>8. 0 \in S
  <2>1. ids[0] = <<g>> /\ N >= 0
    <3>1. 0 \in 0..N
      BY <1>1
    <3>2. ids[0] = H(ids, 0)
      BY <1>7, <3>1
    <3> QED
      BY <1>1, <3>2
  <2>2. ToSet(<<g>>) = {g} /\ <<g>> \in Seq(Ids)
    BY DEF ToSet
  <2>3. upto(0) = {g}
    OBVIOUS
  <2> QED
    BY <2>1, <2>2, <2>3
<1>9. ASSUME NEW n \in Nat, n \in S, n + 1 <= N
      PROVE  Right(n + 1)
  <2> DEFINE a == ids[n]
             b == IdsFor(read[n + 1], u, g)
  <2>1. n <= N /\ n + 1 \in 1..N /\ n + 1 \in 0..N /\ (n + 1) - 1 = n
    BY <1>1, <1>9
  <2>2. a \in Seq(Ids) /\ ToSet(a) = upto(n)
    <3> HIDE DEF upto
    <3> QED
      BY <1>9, <2>1
  <2>3. ids[n + 1] = a \o b
    <3>1. ids[n + 1] = H(ids, n + 1)
      BY <1>7, <2>1
    <3>2. n + 1 # 0
      OBVIOUS
    <3> QED
      BY <2>1, <3>1, <3>2
  <2>0. read[n + 1] \in Lines
    BY <1>1, <2>1
  <2>4. b \in Seq(Ids)
    BY <2>0, IdsOfLine
  <2>5. ToSet(b) = IF read[n + 1].id # g /\ u \in ToSet(read[n + 1].members)
                   THEN {read[n + 1].id} ELSE {}
    BY <2>0, IdsOfLine
  <2> HIDE DEF a, b
  <2>6. a \o b \in Seq(Ids) /\ ToSet(a \o b) = ToSet(a) \cup ToSet(b)
    BY <2>2, <2>4, Joined, SMTT(40)
  <2>7. upto(n + 1) = upto(n) \cup ToSet(b)
    <3>1. \A j \in 1..n + 1 : j \in 1..n \/ j = n + 1
      OBVIOUS
    <3>2. \A j \in 1..n : j \in 1..n + 1
      OBVIOUS
    <3>3. n + 1 \in 1..n + 1
      OBVIOUS
    <3> QED
      BY <2>5, <3>1, <3>2, <3>3
  <2> QED
    BY <2>2, <2>3, <2>6, <2>7
<1>10. ids[N] \in Seq(Ids) /\ ToSet(ids[N]) = upto(N)
  <2>0. \A n \in Nat : n \in S => n + 1 \in S
    <3> HIDE DEF Right
    <3> SUFFICES ASSUME NEW n \in Nat, n \in S PROVE n + 1 \in S
      OBVIOUS
    <3>1. CASE n + 1 <= N
      BY <1>9, <3>1
    <3>2. CASE ~(n + 1 <= N)
      BY <3>2
    <3> QED
      BY <3>1, <3>2
  <2> HIDE DEF S
  <2>1. N \in S
    BY <1>1, <1>8, <2>0, Induct
  <2>2. N <= N
    BY <1>1
  <2> HIDE DEF upto
  <2> QED
    BY <2>1, <2>2 DEF S
<1>11. DOMAIN read = 1..N
  BY <1>1 DEF N
<1> QED
  BY <1>6, <1>10, <1>11 DEF read

\* The array a caller passed and what it was told.
Listed ==
  \/ list = NoList
  \/ /\ list.table = NoTable /\ list.ret = 0
     /\ list.user \in Users /\ list.group \in Ids
  \/ /\ list.table \in Tables
     /\ list.user \in Users /\ list.group \in Ids
     /\ LET ids == GroupsOf(list.table, list.user, list.group) IN
          /\ list.ngroups = Len(ids)
          /\ list.ret = -1 \/ (list.ret = Len(ids) /\ list.groups = ids)

\* What getgrouplist() tells and stores of the groups it counted.
LEMMA StoredGroups ==
  ASSUME NEW T, NEW ids \in Seq(T), NEW n \in Nat
  PROVE  LET out == Stored(ids, n) IN
           /\ out.ngroups = Len(ids)
           /\ \/ out.ret = -1 /\ n < Len(ids)
              \/ out.ret = Len(ids) /\ Len(ids) <= n /\ out.groups = ids
<1>1. Len(ids) \in Nat /\ SubSeq(ids, 1, Len(ids)) = ids
  OBVIOUS
<1>2. Stored(ids, n).ngroups = Len(ids)
        /\ Stored(ids, n).ret = (IF Len(ids) > n THEN -1 ELSE Len(ids))
        /\ Stored(ids, n).groups = Upto(ids, n)
  BY DEF Stored
<1>3. CASE Len(ids) > n
  BY <1>1, <1>2, <1>3
<1>4. CASE Len(ids) <= n
  <2>1. Upto(ids, n) = ids
    <3>1. \A len, room \in Nat : len <= room => ~(room < len)
      OBVIOUS
    <3>2. ~(n < Len(ids))
      BY <1>1, <1>4, <3>1
    <3>3. Upto(ids, n) = SubSeq(ids, 1, Len(ids))
      BY <3>2 DEF Upto
    <3> QED
      BY <1>1, <3>3
  <2> QED
    BY <1>1, <1>2, <1>4, <2>1
<1> QED
  BY <1>1, <1>3, <1>4

\* One call, with the room it was given.
LEMMA ListedCall ==
  ASSUME Kept, Listed, NEW u \in Users, NEW g \in Ids, Getgrouplist(u, g)
  PROVE  /\ Listed'
         /\ list # NoList /\ list.ret = -1 /\ list.user = u /\ list.group = g
              /\ list.table = Current("group")
            => list'.ret = Len(list'.groups)
<1> DEFINE now == Current("group")
           n == IF list # NoList /\ list.ret = -1 /\ list.user = u /\ list.group = g
                THEN list.ngroups ELSE 1
           ids == GroupsOf(now, u, g)
           out == IF now = NoTable THEN [ret |-> 0, ngroups |-> 0, groups |-> <<>>] ELSE Stored(ids, n)
<1>1. list' = [user |-> u, group |-> g, n |-> n, table |-> now,
               ret |-> out.ret, ngroups |-> out.ngroups, groups |-> out.groups]
  BY DEF Getgrouplist
<1>2. now \in Tables \cup {NoTable}
  <2>1. "group" \in Dbs /\ root \in Roots
    BY DEF Dbs, Kept
  <2>2. versions[root]["group"] \in Seq(Tables \cup {NoTable}) /\ Len(versions[root]["group"]) >= 1
    BY <2>1 DEF Kept
  <2> QED
    BY <2>2 DEF Current
<1>3. \A t \in Tables : t \in Seq(Lines)
  BY TableLines
<1>4. now \in Tables => ids \in Seq(Ids) /\ Len(ids) \in Nat
  BY <1>3, GroupsCounted
<1>5. n \in Nat
  <2>1. CASE list # NoList /\ list.ret = -1
    <3>1. list.table \in Tables /\ list.user \in Users /\ list.group \in Ids
            /\ list.ngroups = Len(GroupsOf(list.table, list.user, list.group))
      BY <2>1 DEF Listed
    <3>2. GroupsOf(list.table, list.user, list.group) \in Seq(Ids)
      BY <1>3, <3>1, GroupsCounted
    <3> QED
      BY <3>1, <3>2
  <2>2. CASE ~(list # NoList /\ list.ret = -1)
    BY <2>2
  <2> QED
    BY <2>1, <2>2
<1>6. NoTable \notin Tables
  BY DbAssumption
<1> HIDE DEF n, now, ids
<1>7. CASE now = NoTable
  <2>1. /\ list'.table = NoTable /\ list'.ret = 0 /\ list'.groups = <<>>
        /\ list'.user = u /\ list'.group = g
    BY <1>1, <1>7
  <2> QED
    BY <2>1 DEF Listed
<1>8. CASE now \in Tables
  <2>1. out = Stored(ids, n)
    BY <1>6, <1>8
  <2>2. /\ out.ngroups = Len(ids)
        /\ \/ out.ret = -1 /\ n < Len(ids)
           \/ out.ret = Len(ids) /\ Len(ids) <= n /\ out.groups = ids
    BY <1>4, <1>5, <1>8, <2>1, StoredGroups
  <2> HIDE DEF out
  <2>3. /\ list'.table = now /\ list'.user = u /\ list'.group = g
        /\ list'.ret = out.ret /\ list'.ngroups = out.ngroups /\ list'.groups = out.groups
    BY <1>1
  <2>4. Listed'
    BY <1>8, <2>2, <2>3 DEF Listed, ids
  <2>5. ASSUME list # NoList, list.ret = -1, list.user = u, list.group = g, list.table = now
        PROVE  list'.ret = Len(list'.groups)
    <3>1. n = Len(ids)
      BY <1>6, <1>8, <2>5 DEF Listed, n, ids
    <3> QED
      BY <1>4, <1>8, <2>2, <2>3, <3>1
  <2> QED
    BY <2>4, <2>5 DEF now
<1> QED
  BY <1>2, <1>7, <1>8

LEMMA ListedKept == Kept /\ Listed /\ [Next]_vars => Listed'
<1> SUFFICES ASSUME Kept, Listed, [Next]_vars PROVE Listed'
  OBVIOUS
<1>1. ASSUME NEW u \in Users, NEW g \in Ids, Getgrouplist(u, g) PROVE Listed'
  BY <1>1, ListedCall
<1>2. CASE UNCHANGED list
  BY <1>2 DEF Listed
<1>3. ASSUME NEW d, \/ \E s \in Sizes : Getent(d, s) \/ \E k \in ByName \cup ById : Lookup(d, k, s)
                    \/ Setent(d) \/ Endent(d) \/ \E r \in Roots : Replace(r, d)
      PROVE  UNCHANGED list
  BY <1>3 DEF Getent, Lookup, Setent, Endent, Replace
<1>4. ASSUME Scan \/ Chroot \/ UNCHANGED vars PROVE UNCHANGED list
  BY <1>4 DEF Scan, Chroot, vars
<1> QED
  BY <1>1, <1>2, <1>3, <1>4 DEF Next, PasswdCalls, GroupCalls, ShadowCalls

LEMMA ListedAlways == Spec => [](Kept /\ Listed)
<1>1. Init => Listed
  BY DEF Init, Listed
<1> QED
  BY <1>1, ListedKept, IterationsAlways, PTL DEF Spec

\* getgrouplist() (group.c) counts right: a list it calls complete is the
\* given group with every group whose line names the user, whatever the
\* file, as long as no line is longer than its buffer.
THEOREM GroupListsAreComplete == Spec => []GroupListComplete
<1>1. Listed => GroupListComplete
  <2> SUFFICES ASSUME Listed, list # NoList, list.ret # -1, list.table # NoTable,
                      \A i \in DOMAIN list.table : ~list.table[i].long
               PROVE  ToSet(list.groups) = {list.group} \cup
                        {list.table[i].id : i \in {j \in DOMAIN list.table :
                                                     list.user \in ToSet(list.table[j].members)}}
    BY DEF GroupListComplete
  <2>1. list.table \in Tables /\ list.user \in Users /\ list.group \in Ids
          /\ list.groups = GroupsOf(list.table, list.user, list.group)
    BY DEF Listed
  <2>2. list.table \in Seq(Lines)
    BY <2>1, TableLines
  <2>3. Readable(list.table) = list.table
    BY <2>2, ReadableLines
  <2> QED
    BY <2>1, <2>2, <2>3, GroupsCounted
<1> QED
  BY <1>1, ListedAlways, PTL

\* A caller that is told -1 and the number of its groups succeeds when it
\* comes back with that much room and the file is the same.
THEOREM RetriesSucceed == Spec => GroupListRetry
<1>1. Kept /\ Listed /\ [Next]_vars
        => [\A u \in Users, g \in Ids :
              Getgrouplist(u, g) /\ list # NoList /\ list.ret = -1 /\ list.user = u
                /\ list.group = g /\ list.table = Current("group")
              => list'.ret = Len(list'.groups)]_vars
  BY ListedCall
<1> QED
  BY <1>1, ListedAlways, PTL DEF Spec, GroupListRetry
=============================================================================
