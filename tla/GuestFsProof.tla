---------------------------- MODULE GuestFsProof ----------------------------
(***************************************************************************)
(* The path wrappers, for any root and binds, any tree of the host and any *)
(* calls: nothing outside the root and the binds is changed, the directory *)
(* the guest is in has a name that leads back to it, and readlink() never  *)
(* says more than the buffer holds, nor anything but the start of what the *)
(* link leads to.                                                          *)
(*                                                                         *)
(* All but the last hold while the guest does not go up from its root or a *)
(* bind (strayed).                                                         *)
(*                                                                         *)
(* The inductive invariant (Sound) is about links: inside the root and the *)
(* binds an absolute link leads inside, on the way to them there is none,  *)
(* and what exists is in a directory.  Then a walk that begins inside ends *)
(* inside (WalkArrives), every wrapper makes a call that begins inside     *)
(* (NextWent), and every such call keeps the invariant and what is outside *)
(* (KernelKeeps).                                                          *)
(***************************************************************************)
EXTENDS GuestFs, Lemmas

-----------------------------------------------------------------------------
(* The kernel's walk.                                                      *)

Walks == [at : LabelSeqs, rest : LabelSeqs, left : Nat, took : SUBSET (LabelSeqs \X Labels),
          err : STRING \cup {"0", "ENOENT", "ELOOP", "ENAMETOOLONG"}]

Trees == [HostPlaces -> Nodes]

Begins(s, c) ==
  [at |-> IF Absolute(c.path) THEN <<>> ELSE IF c.at = "fd" THEN s.fd ELSE s.cwd,
   rest |-> Names(c.path), left |-> MaxLinks, took |-> {},
   err |-> IF c.path = <<>> THEN "ENOENT" ELSE "0"]

\* A walk, name by name.
Walked(s, c, walk) ==
  /\ walk \in [0..MaxSteps -> Walks] /\ walk[0] = Begins(s, c)
  /\ \A i \in 1..MaxSteps : walk[i] = Step(s.tree, c.follow, walk[i - 1])

Ended(w) == IF w.err = "0" /\ w.rest # <<>> THEN [w EXCEPT !.err = "ENAMETOOLONG"] ELSE w

LEMMA HostTyped ==
  /\ HostPlaces \subseteq LabelSeqs
  /\ \A h \in HostPlaces : Undotted(h)
  /\ \A t \in HostTrees : t \in Trees /\ DOMAIN t = HostPlaces /\ \A h \in HostPlaces : Formed(t[h].to)
<1>1. (CHOOSE t \in HostTrees : TRUE) \in HostTrees
  BY GuestAssumption
<1> QED
  BY <1>1, GuestAssumption DEF HostPlaces, Trees, LabelSeqs

LEMMA IntoIs ==
  ASSUME NEW p \in LabelSeqs, NEW x \in Labels
  PROVE  /\ Up(p) \in LabelSeqs /\ (p # <<>> => Up(p) = Front(p)) /\ (p = <<>> => Up(p) = p)
         /\ Into(p, x) \in LabelSeqs
         /\ x = "." => Into(p, x) = p
         /\ x = ".." => Into(p, x) = Up(p)
         /\ x \notin Dots => Into(p, x) = Append(p, x)
<1>1. Up(p) \in LabelSeqs /\ (p # <<>> => Up(p) = Front(p)) /\ (p = <<>> => Up(p) = p)
  BY FrontAppend DEF Up, LabelSeqs
<1>2. Append(p, x) \in LabelSeqs
  BY DEF LabelSeqs
<1>3. CASE x = "."
  BY <1>1, <1>3 DEF Into, Dots
<1>4. CASE x = ".."
  BY <1>1, <1>4 DEF Into, Dots
<1>5. CASE x \notin Dots
  BY <1>1, <1>2, <1>5 DEF Into, Dots
<1> QED
  BY <1>3, <1>4, <1>5 DEF Dots

\* A step takes a name, and follows a link that is there.
Takes(tree, w, name, more, next, node, took) ==
  /\ name = Head(w.rest) /\ more = Tail(w.rest) /\ next = Into(w.at, name)
  /\ node = At(tree, next) /\ took = w.took \cup {<<w.at, name>>}

Links(follow, node, more) == node.kind = "link" /\ (more # <<>> \/ follow)

Follows(w, node, more, took) ==
  [w EXCEPT !.at = IF Absolute(node.to) THEN <<>> ELSE @, !.took = took,
            !.rest = Names(node.to) \o more, !.left = @ - 1]

Halts(w, v) == v = [w EXCEPT !.err = "ENOENT"] \/ v = [w EXCEPT !.err = "ELOOP"]

Advances(w, v, next, more, took) == v = [w EXCEPT !.at = next, !.rest = more, !.took = took]

\* The step from w to v.
Stepped(tree, follow, w, v, name, more, next, node, took) ==
  /\ Takes(tree, w, name, more, next, node, took) /\ Append(w.at, name) \o more = w.at \o w.rest
  /\ Names(node.to) \in LabelSeqs /\ Names(node.to) \o more \in LabelSeqs
  /\ \/ Halts(w, v)
     \/ /\ At(tree, w.at).kind = "dir" /\ Links(follow, node, more) /\ w.left # 0
        /\ v = Follows(w, node, more, took)
     \/ /\ At(tree, w.at).kind = "dir" /\ ~Links(follow, node, more)
        /\ Advances(w, v, next, more, took)

LEMMA StepIs ==
  ASSUME NEW tree \in Trees, NEW follow, NEW w \in Walks, w.err = "0", w.rest # <<>>
  PROVE  \E name \in Labels, more \in LabelSeqs, next \in LabelSeqs, node \in Nodes,
            took \in SUBSET (LabelSeqs \X Labels) :
           Stepped(tree, follow, w, Step(tree, follow, w), name, more, next, node, took)
<1>1. PICK at, rest : at = w.at /\ rest = w.rest
  OBVIOUS
<1>2. at \in LabelSeqs /\ rest \in LabelSeqs /\ rest # <<>> /\ w.took \in SUBSET (LabelSeqs \X Labels)
  BY <1>1 DEF Walks
<1>3. PICK name, more : name = Head(rest) /\ more = Tail(rest)
  OBVIOUS
<1>4. name \in Labels /\ more \in LabelSeqs /\ Append(at, name) \o more = at \o rest
  BY <1>2, <1>3, NextName DEF LabelSeqs
<1>5. PICK next : next = Into(at, name)
  OBVIOUS
<1>6. next \in LabelSeqs
  BY <1>2, <1>4, <1>5, IntoIs
<1>7. PICK node : node = At(tree, next)
  OBVIOUS
<1>8. node \in Nodes
  BY <1>7 DEF At, Trees, Nodes, NoNode
<1>9. PICK took : took = w.took \cup {<<at, name>>}
  OBVIOUS
<1>10. took \in SUBSET (LabelSeqs \X Labels)
  BY <1>2, <1>4, <1>9
<1>11. Takes(tree, w, name, more, next, node, took)
  BY <1>1, <1>3, <1>5, <1>7, <1>9 DEF Takes
<1>12. Names(node.to) \in LabelSeqs
  BY <1>8, NamesTyped DEF Nodes, Texts
<1>13. Names(node.to) \o more \in LabelSeqs
  BY <1>4, <1>12 DEF LabelSeqs
<1>14. PICK v : v = Step(tree, follow, w)
  OBVIOUS
<1>15. \/ Halts(w, v)
       \/ /\ At(tree, w.at).kind = "dir" /\ Links(follow, node, more) /\ w.left # 0
          /\ v = Follows(w, node, more, took)
       \/ /\ At(tree, w.at).kind = "dir" /\ ~Links(follow, node, more)
          /\ Advances(w, v, next, more, took)
  BY <1>1, <1>3, <1>5, <1>7, <1>9, <1>14 DEF Step, Follows, Links, Halts, Advances
<1>16. Stepped(tree, follow, w, v, name, more, next, node, took)
  BY <1>1, <1>4, <1>11, <1>12, <1>13, <1>15 DEF Stepped
<1> QED
  BY <1>4, <1>6, <1>8, <1>10, <1>14, <1>16

\* What a step that follows a link leads to.
Followed(w, node, more, took, v) ==
  /\ v \in Walks /\ v.rest = Names(node.to) \o more /\ v.took = took /\ v.err = w.err
  /\ v.at = IF Absolute(node.to) THEN <<>> ELSE w.at

LEMMA FollowsIs ==
  ASSUME NEW w \in Walks, w.left # 0, NEW node, NEW more, Names(node.to) \o more \in LabelSeqs,
         NEW took \in SUBSET (LabelSeqs \X Labels)
  PROVE  Followed(w, node, more, took, Follows(w, node, more, took))
<1>1. PICK a, r, n : /\ a = (IF Absolute(node.to) THEN <<>> ELSE w.at) /\ r = Names(node.to) \o more
                     /\ n = w.left - 1
  OBVIOUS
<1>2. a \in LabelSeqs /\ r \in LabelSeqs /\ n \in Nat
  BY <1>1 DEF Walks, LabelSeqs
<1>3. Follows(w, node, more, took) = [w EXCEPT !.at = a, !.took = took, !.rest = r, !.left = n]
  BY <1>1 DEF Follows, Walks
<1>4. PICK v : v = [w EXCEPT !.at = a, !.took = took, !.rest = r, !.left = n]
  OBVIOUS
<1>5. v \in Walks /\ v.at = a /\ v.rest = r /\ v.took = took /\ v.err = w.err
  BY <1>2, <1>4 DEF Walks
<1>6. Followed(w, node, more, took, v)
  BY <1>1, <1>5 DEF Followed
<1> QED
  BY <1>3, <1>4, <1>6

LEMMA StepTyped ==
  ASSUME NEW tree \in Trees, NEW follow, NEW w \in Walks
  PROVE  Step(tree, follow, w) \in Walks /\ w.took \subseteq Step(tree, follow, w).took
<1>1. CASE w.err # "0" \/ w.rest = <<>>
  BY <1>1 DEF Step
<1>2. CASE w.err = "0" /\ w.rest # <<>>
  <2>1. PICK name \in Labels, more \in LabelSeqs, next \in LabelSeqs, node \in Nodes,
             took \in SUBSET (LabelSeqs \X Labels) :
          Stepped(tree, follow, w, Step(tree, follow, w), name, more, next, node, took)
    BY <1>2, StepIs
  <2>2. PICK v : v = Step(tree, follow, w)
    OBVIOUS
  <2>3. w.took \subseteq took /\ Names(node.to) \o more \in LabelSeqs
    BY <2>1 DEF Stepped, Takes
  <2>4. CASE Halts(w, v)
    <3>1. v \in Walks /\ v.took = w.took
      BY <2>4 DEF Halts, Walks
    <3> QED
      BY <2>2, <3>1
  <2>5. CASE w.left # 0 /\ v = Follows(w, node, more, took)
    <3>0. Followed(w, node, more, took, Follows(w, node, more, took))
      BY <2>3, <2>5, FollowsIs
    <3>1. v \in Walks /\ v.took = took
      BY <2>5, <3>0 DEF Followed
    <3> QED
      BY <2>2, <2>3, <3>1
  <2>6. CASE Advances(w, v, next, more, took)
    <3>1. v \in Walks /\ v.took = took
      BY <2>6 DEF Advances, Walks
    <3> QED
      BY <2>2, <2>3, <3>1
  <2> QED
    BY <2>1, <2>2, <2>4, <2>5, <2>6 DEF Stepped
<1> QED
  BY <1>1, <1>2

LEMMA WalkIs ==
  ASSUME NEW s, NEW c, s.tree \in Trees, Begins(s, c) \in Walks
  PROVE  \E walk : Walked(s, c, walk) /\ Walk(s, c) = Ended(walk[MaxSteps])
<1> DEFINE F == [w \in Walks |-> Step(s.tree, c.follow, w)]
           b == Begins(s, c)
           H(f, i) == IF i = 0 THEN b ELSE Step(s.tree, c.follow, f[i - 1])
           walk == CHOOSE f : f = [i \in 0..MaxSteps |-> H(f, i)]
<1>0. MaxSteps \in Nat
  BY GuestAssumption
<1>1. F \in [Walks -> Walks]
  BY StepTyped
<1>2. PICK W : Iterated(W, Walks, b, F)
  <2> HIDE DEF F, b
  <2> QED
    BY <1>1, Iterates DEF b
<1>3. W \in [Nat -> Walks] /\ W[0] = b /\ \A n \in Nat : W[n + 1] = Step(s.tree, c.follow, W[n])
  <2>1. W \in [Nat -> Walks] /\ W[0] = b /\ \A n \in Nat : W[n + 1] = F[W[n]]
    BY <1>2 DEF Iterated
  <2>2. \A w \in Walks : F[w] = Step(s.tree, c.follow, w)
    OBVIOUS
  <2> HIDE DEF F, b
  <2> QED
    BY <2>1, <2>2
<1>4. ASSUME NEW n \in 0..MaxSteps PROVE W[n] = H(W, n)
  <2>1. CASE n = 0
    BY <1>3, <2>1
  <2>2. CASE n # 0
    <3>1. n - 1 \in Nat /\ (n - 1) + 1 = n
      BY <1>0, <2>2
    <3> HIDE DEF b
    <3> QED
      BY <1>3, <2>2, <3>1
  <2> QED
    BY <2>1, <2>2
<1>5. \E f : f = [i \in 0..MaxSteps |-> H(f, i)]
  <2> DEFINE f == [i \in 0..MaxSteps |-> W[i]]
  <2>1. ASSUME NEW n \in 0..MaxSteps PROVE f[n] = H(f, n)
    <3>1. CASE n = 0
      BY <1>4, <3>1
    <3>2. CASE n # 0
      <4>1. n - 1 \in 0..MaxSteps
        BY <1>0, <3>2
      <4>2. f[n] = W[n] /\ f[n - 1] = W[n - 1]
        BY <4>1
      <4> HIDE DEF f, b
      <4> QED
        BY <1>4, <3>2, <4>2
    <3> QED
      BY <3>1, <3>2
  <2>2. f = [i \in 0..MaxSteps |-> H(f, i)]
    <3>1. f = [i \in 0..MaxSteps |-> f[i]]
      OBVIOUS
    <3> HIDE DEF f, H
    <3> QED
      BY <2>1, <3>1
  <2> QED
    BY <2>2
<1>6. walk = [i \in 0..MaxSteps |-> H(walk, i)]
  <2> HIDE DEF H
  <2> QED
    BY <1>5
<1>7. Walk(s, c) = Ended(walk[MaxSteps])
  BY DEF Walk, Ended, Begins
<1>8. \A i \in 0..MaxSteps : walk[i] = H(walk, i)
  <2> HIDE DEF walk, H
  <2> QED
    BY <1>6
<1>9. walk = [i \in 0..MaxSteps |-> walk[i]]
  <2> HIDE DEF walk, H
  <2>1. \A g : walk = [i \in 0..MaxSteps |-> H(g, i)] => walk = [i \in 0..MaxSteps |-> walk[i]]
    OBVIOUS
  <2> QED
    BY <1>6, <2>1
<1> HIDE DEF walk
<1> DEFINE S == {n \in Nat : n <= MaxSteps => walk[n] \in Walks}
<1>10. 0 \in S
  <2>1. walk[0] = b
    BY <1>0, <1>8
  <2> QED
    BY <2>1
<1>11. ASSUME NEW n \in Nat, n \in S PROVE n + 1 \in S
  <2> SUFFICES ASSUME n + 1 <= MaxSteps PROVE walk[n + 1] \in Walks
    OBVIOUS
  <2>1. n + 1 \in 0..MaxSteps /\ n + 1 # 0 /\ (n + 1) - 1 = n /\ walk[n] \in Walks
    BY <1>0, <1>11
  <2>2. walk[n + 1] = Step(s.tree, c.follow, walk[n])
    BY <1>8, <2>1
  <2> QED
    BY <2>1, <2>2, StepTyped
<1>12. \A n \in Nat : n \in S
  <2> HIDE DEF S
  <2> QED
    BY <1>10, <1>11, Induct
<1>13. walk \in [0..MaxSteps -> Walks]
  BY <1>0, <1>9, <1>12
<1>14. walk[0] = b /\ \A i \in 1..MaxSteps : walk[i] = Step(s.tree, c.follow, walk[i - 1])
  <2>1. ASSUME NEW i \in 1..MaxSteps PROVE walk[i] = Step(s.tree, c.follow, walk[i - 1])
    <3>1. i \in 0..MaxSteps /\ i # 0
      BY <1>0
    <3> QED
      BY <1>8, <3>1
  <2> QED
    BY <1>0, <1>8, <2>1
<1> QED
  BY <1>7, <1>13, <1>14 DEF Walked

\* What a walk has at first and every step keeps, it has at the end.
LEMMA WalkKeeps ==
  ASSUME NEW s, NEW c, s.tree \in Trees, NEW J, Begins(s, c) \in Walks \cap J,
         \A w \in Walks \cap J : Step(s.tree, c.follow, w) \in J
  PROVE  \E w \in Walks \cap J : Walk(s, c) = Ended(w)
<1>0. MaxSteps \in Nat
  BY GuestAssumption
<1>1. PICK walk : Walked(s, c, walk) /\ Walk(s, c) = Ended(walk[MaxSteps])
  BY WalkIs
<1> DEFINE S == {n \in Nat : n <= MaxSteps => walk[n] \in Walks \cap J}
<1>2. 0 \in S
  BY <1>1 DEF Walked
<1>3. ASSUME NEW n \in Nat, n \in S PROVE n + 1 \in S
  <2> SUFFICES ASSUME n + 1 <= MaxSteps PROVE walk[n + 1] \in Walks \cap J
    OBVIOUS
  <2>1. n + 1 \in 1..MaxSteps /\ (n + 1) - 1 = n /\ walk[n] \in Walks \cap J
    BY <1>0, <1>3
  <2>2. walk[n + 1] = Step(s.tree, c.follow, walk[n])
    BY <1>1, <2>1 DEF Walked
  <2> QED
    BY <2>1, <2>2, StepTyped
<1>4. \A n \in Nat : n \in S
  <2> HIDE DEF S
  <2> QED
    BY <1>2, <1>3, Induct
<1> QED
  BY <1>0, <1>1, <1>4

-----------------------------------------------------------------------------
(* The invariant.                                                          *)

\* In what the guest has of the host.
Inside(place) == \E P \in Tops : IsPrefix(P, place)

\* Inside, an absolute link leads inside; on the way to it there is no link.
Inward(tree) ==
  \A h \in HostPlaces :
    tree[h].kind = "link" /\ Inside(h) /\ Absolute(tree[h].to) => Inside(Names(tree[h].to))
Straight(tree) ==
  \A h \in HostPlaces : tree[h].kind = "link" => Inside(h) \/ \A P \in Tops : ~IsPrefix(h, P)

\* What is there is in a directory.
Grown(tree) ==
  \A h \in HostPlaces : tree[h].kind # "none" /\ h # <<>> => At(tree, Front(h)).kind = "dir"

Spelt(tree) == \A h \in HostPlaces : Formed(tree[h].to)

Systems == [tree : Trees, cwd : LabelSeqs, fd : LabelSeqs, lib : Texts]

Sound(s) ==
  /\ s \in Systems
  /\ Inward(s.tree) /\ Straight(s.tree) /\ Grown(s.tree) /\ Spelt(s.tree)
  /\ \A d \in {s.cwd, s.fd} : Inside(d) /\ At(s.tree, d).kind = "dir"

\* The root and the binds are not replaced by links.
Still(tree) == \A P \in Tops : At(tree, P).kind # "link"

-----------------------------------------------------------------------------
(* A walk that begins inside ends inside.                                  *)

Led(k) == k.path \in Texts /\ (Absolute(k.path) => Inside(Names(k.path)))

OnItsWay(tree, w) ==
  w.err = "0" => /\ Inside(w.at \o w.rest)
                 /\ w.at = <<>> \/ At(tree, Front(w.at)).kind = "dir"

\* A walk that went up from the root or a bind.
WentUp(w) == \E t \in w.took : t[1] \in Tops /\ t[2] = ".."

\* A call none of whose look-ups did.
Level(s, k) == \A w \in LookUps(s, k) : ~WentUp(w)

LEMMA TopsTyped == Tops \subseteq LabelSeqs
<1>1. Root \in Texts /\ \A b \in Binds : b \in Texts
  BY TranslateAssumption DEF Texts
<1> QED
  BY <1>1, NamesTyped DEF Tops, RootPlace

\* Neither the root nor a bind has a name of dots.
LEMMA TopsUndotted == \A P \in Tops : Undotted(P)
<1>1. ASSUME NEW p \in LabelSeqs, Undotted(Text(p)) PROVE Undotted(p)
  <2> SUFFICES ASSUME NEW i \in DOMAIN p PROVE p[i] \notin Dots
    BY DEF Undotted
  <2>1. Len(p) \in Nat /\ i \in 1..Len(p) /\ p # <<>>
    BY DEF LabelSeqs
  <2>2. PICK n : n = 2 * i
    OBVIOUS
  <2>3. n \in 1..2 * Len(p) /\ n % 2 = 0 /\ n \div 2 = i
    BY <2>1, <2>2
  <2>4. Text(p) = [j \in 1..2 * Len(p) |-> IF j % 2 = 1 THEN "/" ELSE p[j \div 2]]
    BY <2>1 DEF Text
  <2>5. n \in DOMAIN Text(p) /\ Text(p)[n] = p[i]
    BY <2>3, <2>4
  <2> QED
    BY <1>1, <2>5 DEF Undotted
<1>2. Undotted(Text(RootPlace)) /\ \A b \in Binds : Undotted(Text(Names(b)))
  BY TranslateAssumption
<1> QED
  BY <1>1, <1>2, TopsTyped DEF Tops

\* What is inside if a name of dots follows, is inside without it.
LEMMA DotsInside ==
  ASSUME NEW at \in LabelSeqs, NEW x \in Labels, x \in Dots, NEW more \in LabelSeqs,
         Inside(Append(at, x) \o more)
  PROVE  \E P \in Tops : IsPrefix(P, at)
<1>1. PICK P \in Tops : IsPrefix(P, Append(at, x) \o more)
  BY DEF Inside
<1>2. P \in LabelSeqs /\ Undotted(P)
  BY TopsTyped, TopsUndotted
<1>3. IsPrefix(P, at) \/ IsPrefix(Append(at, x), P)
  BY <1>1, <1>2, PrefixOrLonger DEF LabelSeqs
<1>4. ~IsPrefix(Append(at, x), P)
  <2>1. PICK q : q = Append(at, x)
    OBVIOUS
  <2>2. q \in LabelSeqs /\ Len(q) = Len(at) + 1 /\ Len(at) \in Nat /\ q[Len(at) + 1] = x
    BY <2>1 DEF LabelSeqs
  <2>3. ASSUME IsPrefix(q, P) PROVE FALSE
    <3>1. Len(q) <= Len(P) /\ \A i \in 1..Len(q) : q[i] = P[i]
      BY <1>2, <2>2, <2>3, PrefixItems DEF LabelSeqs
    <3>2. PICK n : n = Len(at) + 1
      OBVIOUS
    <3>3. n \in 1..Len(q) /\ q[n] = x /\ Len(P) \in Nat /\ DOMAIN P = 1..Len(P)
      BY <1>2, <2>2, <3>2 DEF LabelSeqs
    <3>4. n \in DOMAIN P /\ P[n] = x
      BY <2>2, <3>1, <3>3
    <3> QED
      BY <1>2, <3>4 DEF Undotted
  <2> QED
    BY <2>1, <2>3
<1> QED
  BY <1>1, <1>3, <1>4

LEMMA InsideConcat ==
  ASSUME NEW p \in LabelSeqs, NEW q \in LabelSeqs, Inside(p)
  PROVE  Inside(p \o q) /\ p \o q \in LabelSeqs
<1>1. PICK P \in Tops : IsPrefix(P, p)
  BY DEF Inside
<1>2. P \in LabelSeqs
  BY TopsTyped
<1>3. IsPrefix(P, p \o q)
  BY <1>1, <1>2, PrefixConcat DEF LabelSeqs
<1> QED
  BY <1>3 DEF Inside, LabelSeqs

LEMMA InsideAppend ==
  ASSUME NEW p \in LabelSeqs, NEW x \in Labels, Inside(p)
  PROVE  Inside(Append(p, x))
<1>1. Append(p, x) = p \o <<x>> /\ <<x>> \in LabelSeqs
  BY AppendIsConcat DEF LabelSeqs
<1> QED
  BY <1>1, InsideConcat

LEMMA FrontOfAppend ==
  ASSUME NEW T, NEW q \in Seq(T), NEW x \in T
  PROVE  Front(Append(q, x)) = q /\ Last(Append(q, x)) = x
<1>1. PICK a : a = Append(q, x)
  OBVIOUS
<1>2. a \in Seq(T) /\ Len(a) = Len(q) + 1 /\ Len(q) \in Nat /\ a[Len(q) + 1] = x
      /\ \A i \in 1..Len(q) : a[i] = q[i]
  BY <1>1
<1>3. SubSeq(a, 1, Len(q)) \in Seq(T) /\ Len(SubSeq(a, 1, Len(q))) = Len(q)
      /\ \A i \in 1..Len(q) : SubSeq(a, 1, Len(q))[i] = a[i]
  <2>1. \A i \in 1..Len(q) : a[i] \in T
    BY <1>2
  <2>2. SubSeq(a, 1, Len(q)) \in Seq(T)
    BY <1>2, <2>1, SubSeqProperties
  <2> QED
    BY <1>2, <2>2
<1>4. SubSeq(a, 1, Len(q)) = q
  BY <1>2, <1>3, SeqEqual
<1>5. Front(a) = SubSeq(a, 1, Len(a) - 1) /\ Last(a) = a[Len(a)]
  BY DEF Front, Last
<1>6. Len(a) - 1 = Len(q)
  BY <1>2
<1> QED
  BY <1>1, <1>2, <1>4, <1>5, <1>6

\* A link on the way is below the root or a bind.
LEMMA LinkInside ==
  ASSUME NEW tree \in Trees, Straight(tree), Still(tree),
         NEW at \in LabelSeqs, NEW x \in Labels, NEW more \in LabelSeqs,
         Inside(Append(at, x) \o more), At(tree, Append(at, x)).kind = "link"
  PROVE  Inside(at) /\ Append(at, x) \in HostPlaces
<1> DEFINE next == Append(at, x)
<1>1. next \in LabelSeqs
  BY DEF LabelSeqs
<1>2. next \in HostPlaces /\ tree[next].kind = "link"
  BY DEF At, NoNode, Trees
<1>3. PICK P \in Tops : IsPrefix(P, next \o more)
  BY DEF Inside
<1>4. P \in LabelSeqs
  BY TopsTyped
<1>5. IsPrefix(P, at) \/ IsPrefix(next, P)
  BY <1>3, <1>4, PrefixOrLonger DEF LabelSeqs
<1>6. CASE IsPrefix(P, at)
  BY <1>2, <1>6 DEF Inside
<1>7. CASE IsPrefix(next, P)
  <2>1. Inside(next)
    BY <1>2, <1>7 DEF Straight
  <2>2. PICK Q \in Tops : IsPrefix(Q, next)
    BY <2>1 DEF Inside
  <2>3. Q \in LabelSeqs
    BY TopsTyped
  <2>4. Q # next
    BY DEF Still
  <2>5. IsPrefix(Q, at)
    BY <2>2, <2>3, <2>4, PrefixOfAppend DEF LabelSeqs
  <2> QED
    BY <1>2, <2>5 DEF Inside
<1> QED
  BY <1>5, <1>6, <1>7

\* The directory a place is in is there, if the place is.
LEMMA UpIsThere ==
  ASSUME NEW tree \in Trees, Grown(tree), NEW p \in LabelSeqs, At(tree, p).kind = "dir"
  PROVE  Up(p) = <<>> \/ At(tree, Up(p)).kind = "dir"
<1>1. p \in HostPlaces /\ tree[p].kind # "none"
  BY DEF At, NoNode, Trees
<1> QED
  BY <1>1, IntoIs DEF Grown, Up

\* A name of dots: the directory stays, or the one it is in follows.
LEMMA DotsOnTheWay ==
  ASSUME NEW tree \in Trees, Grown(tree), NEW at \in LabelSeqs, At(tree, at).kind = "dir",
         NEW x \in Labels, x \in Dots, NEW more \in LabelSeqs, Inside(Append(at, x) \o more),
         NEW next, next = Into(at, x), at \in Tops => x # ".."
  PROVE  /\ next \in LabelSeqs /\ Inside(next \o more) /\ At(tree, next).kind # "link"
         /\ next = <<>> \/ At(tree, Front(next)).kind = "dir"
<1>1. PICK P \in Tops : IsPrefix(P, at)
  BY DotsInside
<1>2. P \in LabelSeqs
  BY TopsTyped
<1>3. at # <<>> => At(tree, Front(at)).kind = "dir"
  <2>1. at \in HostPlaces /\ tree[at].kind # "none"
    BY DEF At, NoNode, Trees
  <2> QED
    BY <2>1 DEF Grown
<1>4. CASE x = "."
  <2>1. next = at
    BY <1>4, IntoIs
  <2>2. Inside(at)
    BY <1>1 DEF Inside
  <2> QED
    BY <1>3, <2>1, <2>2, InsideConcat
<1>5. CASE x = ".."
  <2>1. next = Up(at) /\ next \in LabelSeqs
    BY <1>5, IntoIs
  <2>2. P # at
    BY <1>1, <1>5
  <2>3. at # <<>>
    <3>1. Len(P) <= Len(at) /\ Len(P) \in Nat /\ (Len(P) = 0 => P = <<>>)
      BY <1>1, <1>2, PrefixItems DEF LabelSeqs
    <3> QED
      BY <1>1, <1>2, <2>2, <3>1
  <2>4. next = Front(at)
    BY <2>1, <2>3, IntoIs
  <2>5. PICK y \in Labels : at = Append(next, y)
    BY <2>3, <2>4, FrontAppend DEF LabelSeqs
  <2>6. IsPrefix(P, next)
    <3>1. IsPrefix(P, Append(next, y)) /\ P # Append(next, y)
      BY <1>1, <2>2, <2>5, Zenon
    <3>2. P \in Seq(Labels) /\ next \in Seq(Labels)
      BY <1>2, <2>1, Zenon DEF LabelSeqs
    <3>3. IsPrefix(P, next) \/ P = Append(next, y)
      BY <3>1, <3>2, PrefixOfAppend
    <3> QED
      BY <3>1, <3>3, Zenon
  <2>7. Inside(next \o more)
    BY <1>1, <2>1, <2>6, InsideConcat DEF Inside
  <2>8. At(tree, next).kind = "dir"
    BY <1>3, <2>3, <2>4
  <2>9. next = <<>> \/ At(tree, Front(next)).kind = "dir"
    <3>1. next \in LabelSeqs /\ (next # <<>> => Up(next) = Front(next))
      BY <2>1 DEF Up
    <3>2. Up(next) = <<>> \/ At(tree, Up(next)).kind = "dir"
      BY <2>8, <3>1, UpIsThere
    <3>3. next \in HostPlaces /\ tree[next].kind # "none"
      BY <2>8 DEF At, NoNode, Trees
    <3> QED
      BY <3>3 DEF Grown
  <2> QED
    BY <2>1, <2>7, <2>8, <2>9
<1> QED
  BY <1>4, <1>5 DEF Dots

LEMMA StepOnItsWay ==
  ASSUME NEW tree \in Trees, Inward(tree), Straight(tree), Still(tree), Grown(tree),
         NEW follow, NEW w \in Walks, OnItsWay(tree, w), ~WentUp(Step(tree, follow, w))
  PROVE  OnItsWay(tree, Step(tree, follow, w))
<1>1. CASE w.err # "0" \/ w.rest = <<>>
  BY <1>1 DEF Step
<1>2. CASE w.err = "0" /\ w.rest # <<>>
  <2>1. PICK x \in Labels, more \in LabelSeqs, next \in LabelSeqs, node \in Nodes,
             took \in SUBSET (LabelSeqs \X Labels) :
          Stepped(tree, follow, w, Step(tree, follow, w), x, more, next, node, took)
    BY <1>2, StepIs
  <2>2. PICK a, v, t : a = w.at /\ v = Step(tree, follow, w) /\ t = <<a, x>>
    OBVIOUS
  <2>3. a \in LabelSeqs /\ w.rest \in LabelSeqs
    BY <2>2 DEF Walks
  <2>4. /\ next = Into(a, x) /\ node = At(tree, next) /\ t \in took
        /\ Names(node.to) \in LabelSeqs /\ Names(node.to) \o more \in LabelSeqs
        /\ Append(a, x) \o more = a \o w.rest
    BY <2>1, <2>2 DEF Stepped, Takes
  <2>5. Inside(Append(a, x) \o more) /\ (a = <<>> \/ At(tree, Front(a)).kind = "dir")
    BY <1>2, <2>2, <2>4 DEF OnItsWay
  <2>6. ASSUME v.took = took PROVE a \in Tops => x # ".."
    <3>1. t[1] = a /\ t[2] = x
      BY <2>2
    <3> QED
      BY <2>2, <2>4, <2>6, <3>1 DEF WentUp
  <2>7. CASE Halts(w, v)
    <3>1. v.err # "0"
      BY <2>7 DEF Halts, Walks
    <3> QED
      BY <2>2, <3>1 DEF OnItsWay
  <2>8. CASE At(tree, a).kind = "dir" /\ Links(follow, node, more) /\ w.left # 0 /\ v = Follows(w, node, more, took)
    <3>1. PICK r : r = Names(node.to) \o more
      OBVIOUS
    <3>2. v.at = (IF Absolute(node.to) THEN <<>> ELSE a) /\ v.rest = r /\ v.took = took /\ r \in LabelSeqs
      <4>1. Followed(w, node, more, took, Follows(w, node, more, took))
        BY <2>4, <2>8, FollowsIs
      <4> QED
        BY <2>2, <2>4, <2>8, <3>1, <4>1 DEF Followed
    <3>3. x \notin Dots
      <4>1. ASSUME x \in Dots PROVE At(tree, next).kind # "link"
        <5>1. a \in Tops => x # ".."
          BY <2>6, <3>2
        <5>2. next = Into(a, x) /\ At(tree, a).kind = "dir" /\ Inside(Append(a, x) \o more)
          BY <2>4, <2>5, <2>8
        <5> QED
          BY <2>3, <4>1, <5>1, <5>2, DotsOnTheWay
      <4> QED
        BY <2>4, <2>8, <4>1 DEF Links
    <3>4. next = Append(a, x)
      BY <2>3, <2>4, <3>3, IntoIs
    <3>5. Inside(a) /\ next \in HostPlaces /\ node = tree[next]
      <4>1. At(tree, Append(a, x)).kind = "link"
        BY <2>4, <2>8, <3>4 DEF Links
      <4>2. Inside(a) /\ Append(a, x) \in HostPlaces
        BY <2>3, <2>5, <4>1, LinkInside
      <4> QED
        BY <2>4, <3>4, <4>2 DEF At, Trees
    <3>6. CASE ~Absolute(node.to)
      <4>1. Inside(a \o r)
        BY <2>3, <3>2, <3>5, InsideConcat
      <4>2. v.at = a
        BY <3>2, <3>6
      <4> QED
        BY <2>2, <2>5, <3>2, <4>1, <4>2 DEF OnItsWay
    <3>7. CASE Absolute(node.to)
      <4>1. Inside(next)
        BY <2>3, <3>4, <3>5, InsideAppend
      <4>2. Inside(Names(node.to))
        BY <2>8, <3>5, <3>7, <4>1 DEF Inward, Links
      <4>3. Inside(r)
        BY <2>4, <3>1, <4>2, InsideConcat
      <4>4. v.at = <<>> /\ <<>> \o r = r
        BY <3>2, <3>7 DEF LabelSeqs
      <4>5. Inside(v.at \o v.rest)
        BY <3>2, <4>3, <4>4
      <4> QED
        BY <2>2, <4>4, <4>5 DEF OnItsWay
    <3> QED
      BY <3>6, <3>7
  <2>9. CASE At(tree, a).kind = "dir" /\ ~Links(follow, node, more) /\ Advances(w, v, next, more, took)
    <3>1. v.at = next /\ v.rest = more /\ v.took = took
      BY <2>9 DEF Advances, Walks
    <3>2. Inside(next \o more) /\ (next = <<>> \/ At(tree, Front(next)).kind = "dir")
      <4>1. CASE x \in Dots
        <5>1. a \in Tops => x # ".."
          BY <2>6, <3>1
        <5>2. next = Into(a, x) /\ At(tree, a).kind = "dir" /\ Inside(Append(a, x) \o more)
          BY <2>4, <2>5, <2>9
        <5> QED
          BY <2>3, <4>1, <5>1, <5>2, DotsOnTheWay
      <4>2. CASE x \notin Dots
        <5>1. next = Append(a, x)
          BY <2>3, <2>4, <4>2, IntoIs
        <5>2. Front(next) = a
          BY <2>3, <5>1, FrontOfAppend DEF LabelSeqs
        <5> QED
          BY <2>5, <2>9, <5>1, <5>2
      <4> QED
        BY <4>1, <4>2
    <3> QED
      BY <2>2, <3>1, <3>2 DEF OnItsWay
  <2> QED
    BY <2>1, <2>2, <2>7, <2>8, <2>9 DEF Stepped
<1> QED
  BY <1>1, <1>2

LEMMA BeginsOnItsWay ==
  ASSUME NEW s, Sound(s), NEW k, Led(k)
  PROVE  Begins(s, k) \in Walks /\ OnItsWay(s.tree, Begins(s, k))
<1>1. Names(k.path) \in LabelSeqs /\ <<>> \in LabelSeqs
  BY NamesTyped DEF Led, LabelSeqs
<1>2. s.cwd \in LabelSeqs /\ s.fd \in LabelSeqs /\ s.tree \in Trees
  BY DEF Sound, Systems
<1>3. PICK b : b = Begins(s, k)
  OBVIOUS
<1>4. /\ b.at = IF Absolute(k.path) THEN <<>> ELSE IF k.at = "fd" THEN s.fd ELSE s.cwd
      /\ b.rest = Names(k.path) /\ b.left = MaxLinks
      /\ b.err = IF k.path = <<>> THEN "ENOENT" ELSE "0"
  BY <1>3 DEF Begins
<1>5. b \in Walks
  BY <1>1, <1>2, <1>3, GuestAssumption DEF Begins, Walks
<1>6. CASE Absolute(k.path)
  <2>1. b.at \o b.rest = Names(k.path)
    BY <1>1, <1>4, <1>6 DEF LabelSeqs
  <2> QED
    BY <1>3, <1>4, <1>5, <1>6, <2>1 DEF OnItsWay, Led
<1>7. CASE ~Absolute(k.path)
  <2>1. b.at \in {s.cwd, s.fd}
    BY <1>4, <1>7
  <2>2. Inside(b.at) /\ At(s.tree, b.at).kind = "dir" /\ b.at \in LabelSeqs
    BY <1>2, <2>1 DEF Sound
  <2>3. Inside(b.at \o b.rest)
    BY <1>1, <1>4, <2>2, InsideConcat
  <2>4. b.at \in HostPlaces /\ s.tree[b.at].kind # "none"
    BY <1>2, <2>2 DEF At, NoNode, Trees
  <2>5. b.at = <<>> \/ At(s.tree, Front(b.at)).kind = "dir"
    BY <2>4 DEF Sound, Grown
  <2> QED
    BY <1>3, <1>5, <2>3, <2>5 DEF OnItsWay
<1> QED
  BY <1>6, <1>7

\* A led call, from a sound system, ends inside, in a directory that is there.
Arrived(s, w) ==
  /\ w \in Walks
  /\ w.err = "0" => /\ Inside(w.at)
                    /\ w.at = <<>> \/ At(s.tree, Front(w.at)).kind = "dir"

LEMMA WalkArrives ==
  ASSUME NEW s, Sound(s), Still(s.tree), NEW k, Led(k), ~WentUp(Walk(s, k))
  PROVE  Arrived(s, Walk(s, k))
<1> DEFINE J == {w \in Walks : WentUp(w) \/ OnItsWay(s.tree, w)}
<1>1. s.tree \in Trees /\ Inward(s.tree) /\ Straight(s.tree) /\ Grown(s.tree)
  BY DEF Sound, Systems
<1>2. ASSUME NEW w \in Walks, w \in J PROVE Step(s.tree, k.follow, w) \in J
  <2>1. Step(s.tree, k.follow, w) \in Walks /\ w.took \subseteq Step(s.tree, k.follow, w).took
    BY <1>1, StepTyped
  <2>2. CASE WentUp(w)
    BY <2>1, <2>2 DEF WentUp
  <2>3. CASE OnItsWay(s.tree, w)
    BY <1>1, <2>1, <2>3, StepOnItsWay
  <2> QED
    BY <1>2, <2>2, <2>3
<1>3. Begins(s, k) \in Walks \cap J
  BY BeginsOnItsWay
<1>4. PICK w \in Walks \cap J : Walk(s, k) = Ended(w)
  <2> HIDE DEF J
  <2> QED
    BY <1>1, <1>2, <1>3, WalkKeeps
<1>5. CASE w.err = "0" /\ w.rest # <<>>
  <2>1. Walk(s, k) = [w EXCEPT !.err = "ENAMETOOLONG"]
    BY <1>4, <1>5 DEF Ended
  <2> QED
    BY <2>1 DEF Arrived, Walks
<1>6. CASE ~(w.err = "0" /\ w.rest # <<>>)
  <2>1. Walk(s, k) = w /\ OnItsWay(s.tree, w)
    BY <1>4, <1>6 DEF Ended
  <2>2. w.err = "0" => w.at \o w.rest = w.at
    BY <1>6 DEF Walks, LabelSeqs
  <2> QED
    BY <2>1, <2>2 DEF Arrived, OnItsWay
<1> QED
  BY <1>5, <1>6

-----------------------------------------------------------------------------
(* What the wrappers pass on leads inside.                                 *)

\* The templates of mkstemp() end in "X", and no bind does.
PlainBinds == \A b \in Binds : Names(b) # <<>> /\ Last(b) # "X"

LEMMA RootTyped ==
  /\ Root \in Texts /\ RootPlace \in LabelSeqs /\ RootPlace \in Tops
  /\ \A b \in Binds : b \in Texts /\ Names(b) \in LabelSeqs /\ Names(b) \in Tops
  BY TranslateAssumption, NamesTyped DEF Texts, Tops, RootPlace

LEMMA InsideTop ==
  ASSUME NEW P \in Tops, NEW q \in LabelSeqs
  PROVE  P \in LabelSeqs /\ Inside(P \o q) /\ P \o q \in LabelSeqs
<1>1. P \in LabelSeqs
  BY TopsTyped
<1>2. IsPrefix(P, P \o q)
  BY <1>1, PrefixOfConcat DEF LabelSeqs
<1> QED
  BY <1>1, <1>2 DEF Inside, LabelSeqs

\* An absolute path that is not expanded begins with a bind.
LEMMA NotExpanded ==
  ASSUME NEW path \in Texts, Absolute(path), ~ShouldExpand(path)
  PROVE  \E b \in Binds, r \in Texts : path = b \o r /\ (Len(b) = Len(path) => path = b)
<1>1. PICK b \in Binds : IsPrefix(b, path)
  BY DEF ShouldExpand
<1>2. b \in Seq(Tokens) /\ path \in Seq(Tokens)
  BY RootTyped DEF Texts
<1>3. PICK r \in Seq(Tokens) : path = b \o r /\ (Len(b) = Len(path) => r = <<>>)
  BY <1>1, <1>2, PrefixRest
<1>4. b \o <<>> = b
  BY <1>2
<1> QED
  BY <1>3, <1>4 DEF Texts

LEMMA ExpandInside ==
  ASSUME NEW path \in Texts
  PROVE  Expand(path) \in Texts /\ (Absolute(Expand(path)) => Inside(Names(Expand(path))))
<1>1. CASE ShouldExpand(path)
  <2>1. Expand(path) = Root \o path
    BY <1>1 DEF Expand
  <2>2. Names(Root \o path) = RootPlace \o Names(path) /\ Root \o path \in Texts
    BY RootTyped, NamesOfConcat DEF RootPlace
  <2> QED
    BY <2>1, <2>2, RootTyped, NamesTyped, InsideTop
<1>2. CASE ~ShouldExpand(path)
  <2>1. Expand(path) = path
    BY <1>2 DEF Expand
  <2>2. ASSUME Absolute(path) PROVE Inside(Names(path))
    <3>1. PICK b \in Binds, r \in Texts : path = b \o r
      BY <1>2, <2>2, NotExpanded
    <3>2. Names(path) = Names(b) \o Names(r)
      BY <3>1, RootTyped, NamesOfConcat
    <3> QED
      BY <3>2, RootTyped, NamesTyped, InsideTop
  <2> QED
    BY <2>1, <2>2
<1> QED
  BY <1>1, <1>2

LEMMA ExpandFormed ==
  ASSUME NEW path \in Texts, Formed(path)
  PROVE  Formed(Expand(path))
<1>1. CASE ShouldExpand(path)
  <2>1. path[1] = "/" /\ path # <<>>
    BY <1>1 DEF ShouldExpand, Absolute
  <2>2. PICK e : e = Root \o path
    OBVIOUS
  <2>3. Formed(Root)
    BY TranslateAssumption, RootTyped, TextFormed
  <2>4. /\ Len(Root) \in Nat /\ Len(path) \in Nat /\ Len(e) = Len(Root) + Len(path)
        /\ \A i \in 1..Len(Root) : e[i] = Root[i]
        /\ \A i \in Len(Root) + 1..Len(Root) + Len(path) : e[i] = path[i - Len(Root)]
    BY <2>2, RootTyped DEF Texts
  <2>5. ASSUME NEW i \in 1..Len(e) - 1 PROVE "/" \in {e[i], e[i + 1]}
    <3>1. CASE i < Len(Root)
      <4>1. i \in 1..Len(Root) - 1 /\ i \in 1..Len(Root) /\ i + 1 \in 1..Len(Root)
        BY <2>4, <3>1
      <4> QED
        BY <2>3, <2>4, <4>1 DEF Formed
    <3>2. CASE i = Len(Root)
      <4>1. e[i + 1] = path[1]
        BY <2>4, <3>2
      <4> QED
        BY <2>1, <4>1
    <3>3. CASE i > Len(Root)
      <4>1. /\ i - Len(Root) \in 1..Len(path) - 1 /\ (i + 1) - Len(Root) = (i - Len(Root)) + 1
            /\ i \in Len(Root) + 1..Len(Root) + Len(path) /\ i + 1 \in Len(Root) + 1..Len(Root) + Len(path)
        BY <2>4, <3>3
      <4>2. "/" \in {path[i - Len(Root)], path[(i - Len(Root)) + 1]}
        BY <4>1 DEF Formed
      <4>3. e[i] = path[i - Len(Root)] /\ e[i + 1] = path[(i + 1) - Len(Root)]
        BY <2>4, <4>1
      <4> QED
        BY <4>1, <4>2, <4>3
    <3> QED
      BY <2>4, <3>1, <3>2, <3>3
  <2> QED
    BY <1>1, <2>2, <2>5 DEF Expand, Formed
<1>2. CASE ~ShouldExpand(path)
  BY <1>2 DEF Expand
<1> QED
  BY <1>1, <1>2

LEMMA FrontOfConcat ==
  ASSUME NEW T, NEW p \in Seq(T), NEW q \in Seq(T), q # <<>>
  PROVE  Front(p \o q) = p \o Front(q) /\ Front(q) \in Seq(T)
<1>1. Front(q) \in Seq(T) /\ Last(q) \in T /\ q = Append(Front(q), Last(q))
  BY FrontAppend
<1>2. PICK f \in Seq(T), x \in T : f = Front(q) /\ x = Last(q)
  BY <1>1
<1>3. p \o Append(f, x) = Append(p \o f, x) /\ p \o f \in Seq(T)
  BY AppendConcat
<1>4. Front(Append(p \o f, x)) = p \o f
  BY <1>3, FrontOfAppend
<1> QED
  BY <1>1, <1>2, <1>3, <1>4

\* The copy of a template is inside as the template is.
LEMMA TemplateInside ==
  ASSUME PlainBinds, NEW path \in Texts, Expand(path) # <<>>, Last(Expand(path)) = "X",
         NEW x \in Labels
  PROVE  LET named == Append(Front(Expand(path)), x) IN
           named \in Texts /\ (Absolute(named) => Inside(Names(named)))
<1>0. x \in Tokens /\ x # "/"
  BY LabelsAreTokens DEF Labels
<1>1. ASSUME NEW p \in Texts, Names(p) \in LabelSeqs, NEW q \in Texts, q # <<>>,
             NEW P \in Tops, Names(p) = P,
             NEW named, named = Append(Front(p \o q), x)
      PROVE  named \in Texts /\ Inside(Names(named))
  <2>1. Front(p \o q) = p \o Front(q) /\ Front(q) \in Texts
    BY <1>1, FrontOfConcat DEF Texts
  <2>2. p \o Front(q) \in Texts /\ Names(p \o Front(q)) = P \o Names(Front(q))
    BY <1>1, <2>1, NamesOfConcat
  <2>3. Inside(Names(p \o Front(q))) /\ Names(p \o Front(q)) \in LabelSeqs
    BY <2>1, <2>2, NamesTyped, InsideTop
  <2>4. named = Append(p \o Front(q), x)
    BY <1>1, <2>1
  <2>5. Names(named) = Append(Names(p \o Front(q)), x) /\ named \in Texts
    BY <1>0, <2>2, <2>4, NamesOfAppend
  <2> QED
    BY <2>3, <2>5, InsideAppend
<1>2. CASE ShouldExpand(path)
  <2>1. Expand(path) = Root \o path /\ path # <<>>
    BY <1>2 DEF Expand, ShouldExpand, Absolute
  <2> QED
    BY <1>1, <2>1, RootTyped DEF RootPlace
<1>3. CASE ~ShouldExpand(path)
  <2>1. Expand(path) = path /\ path # <<>> /\ Last(path) = "X"
    BY <1>3 DEF Expand
  <2>2. Front(path) \in Texts /\ path = Append(Front(path), Last(path)) /\ Last(path) \in Tokens
    BY <2>1, FrontAppend DEF Texts
  <2>3. CASE Absolute(path)
    <3>1. PICK b \in Binds, r \in Texts : path = b \o r /\ (Len(b) = Len(path) => path = b)
      BY <1>3, <2>3, NotExpanded
    <3>2. path # b
      BY <2>1 DEF PlainBinds
    <3>3. r # <<>>
      <4>1. b \o <<>> = b
        BY RootTyped DEF Texts
      <4> QED
        BY <3>1, <3>2, <4>1
    <3> QED
      BY <1>1, <2>1, <3>1, <3>3, RootTyped
  <2>4. CASE ~Absolute(path)
    <3>1. PICK f, named : f = Front(path) /\ named = Append(f, x)
      OBVIOUS
    <3>2. f \in Texts
      BY <2>2, <3>1
    <3>3. named \in Texts
      BY <1>0, <3>1, <3>2 DEF Texts
    <3>4. ~Absolute(named)
      <4>1. CASE f = <<>>
        <5>1. named[1] = x
          BY <3>1, <4>1
        <5> QED
          BY <1>0, <5>1 DEF Absolute
      <4>2. CASE f # <<>>
        <5>1. named[1] = f[1] /\ path[1] = f[1]
          BY <2>2, <3>1, <3>2, <4>2 DEF Texts
        <5> QED
          BY <2>1, <2>4, <5>1 DEF Absolute
      <4> QED
        BY <4>1, <4>2
    <3> QED
      BY <2>1, <3>1, <3>3, <3>4
  <2> QED
    BY <2>3, <2>4
<1> QED
  BY <1>2, <1>3

-----------------------------------------------------------------------------
(* What a change of the system keeps.                                      *)

Kept(s, t) == \A h \in HostPlaces : t.tree[h] # s.tree[h] => Inside(h)

LEMMA StayKeeps == ASSUME NEW s, Sound(s) PROVE Kept(s, s)
  BY DEF Kept

\* The tree with another node in one place.
Puts(s, t, p, node) ==
  t \in Systems /\ t.cwd = s.cwd /\ t.fd = s.fd /\ t.tree = [s.tree EXCEPT ![p] = node]

LEMMA PutIs ==
  ASSUME NEW s \in Systems, NEW p \in HostPlaces, NEW node \in Nodes
  PROVE  Puts(s, Put(s, p, node), p, node)
<1>1. [s.tree EXCEPT ![p] = node] \in Trees
  BY DEF Systems, Trees
<1> QED
  BY <1>1 DEF Puts, Put, Systems

\* A node that may be put inside: a link leads inside.
Fits(node) ==
  /\ node \in Nodes /\ Formed(node.to)
  /\ node.kind = "link" /\ Absolute(node.to) => Inside(Names(node.to))

LEMMA PutsKeep ==
  ASSUME NEW s, Sound(s), NEW p \in HostPlaces, Inside(p), NEW node, Fits(node),
         NEW t, Puts(s, t, p, node),
         \/ p = <<>> \/ At(s.tree, Front(p)).kind = "dir" \/ node.kind = "none",
         \/ s.tree[p].kind = "none"
         \/ s.tree[p].kind = node.kind
         \/ p \notin {s.cwd, s.fd} /\ \A h \in HostPlaces : h # <<>> /\ Front(h) = p => s.tree[h].kind = "none"
  PROVE  Sound(t) /\ Kept(s, t)
<1>0. /\ s \in Systems /\ s.tree \in Trees /\ t \in Systems /\ t.tree \in Trees
      /\ t.cwd = s.cwd /\ t.fd = s.fd
      /\ t.tree[p] = node /\ \A h \in HostPlaces : h # p => t.tree[h] = s.tree[h]
  BY DEF Sound, Systems, Puts, Trees
<1>1. Kept(s, t)
  BY <1>0 DEF Kept
<1>2. Inward(t.tree)
  BY <1>0 DEF Inward, Fits, Sound
<1>3. Straight(t.tree)
  BY <1>0 DEF Straight, Sound
<1>4. Spelt(t.tree)
  BY <1>0 DEF Spelt, Sound, Fits
<1>5. \A q : q # p => At(t.tree, q) = At(s.tree, q)
  BY <1>0 DEF At, Trees
<1>6. At(s.tree, p) = s.tree[p] /\ At(t.tree, p) = node
  BY <1>0 DEF At, Trees
<1>7. ASSUME NEW h \in HostPlaces, h # <<>>, t.tree[h].kind # "none"
      PROVE  At(t.tree, Front(h)).kind = "dir"
  <2>1. Front(h) # h
    <3>1. h \in LabelSeqs
      BY HostTyped
    <3>2. Len(Front(h)) = Len(h) - 1 /\ Len(h) \in Nat
      BY <1>7, <3>1, FrontAppend DEF LabelSeqs
    <3> QED
      BY <3>2
  <2>2. CASE h = p
    <3>1. At(s.tree, Front(h)).kind = "dir"
      BY <1>0, <1>7, <2>2
    <3> QED
      BY <1>5, <2>1, <2>2, <3>1
  <2>3. CASE h # p
    <3>1. s.tree[h].kind # "none"
      BY <1>0, <1>7, <2>3
    <3>2. At(s.tree, Front(h)).kind = "dir"
      BY <1>7, <3>1 DEF Sound, Grown
    <3>3. CASE Front(h) # p
      BY <1>5, <3>2, <3>3
    <3>4. CASE Front(h) = p
      <4>1. s.tree[p].kind = "dir"
        BY <1>6, <3>2, <3>4
      <4>2. s.tree[p].kind = node.kind
        BY <1>7, <3>1, <3>4, <4>1
      <4> QED
        BY <1>6, <3>4, <4>1, <4>2
    <3> QED
      BY <3>3, <3>4
  <2> QED
    BY <2>2, <2>3
<1>8. ASSUME NEW d \in {t.cwd, t.fd} PROVE Inside(d) /\ At(t.tree, d).kind = "dir"
  <2>1. d \in {s.cwd, s.fd} /\ Inside(d) /\ At(s.tree, d).kind = "dir"
    BY <1>0, <1>8 DEF Sound
  <2>2. CASE d # p
    BY <1>5, <2>1, <2>2
  <2>3. CASE d = p
    <3>1. s.tree[p].kind = node.kind
      BY <1>6, <2>1, <2>3
    <3> QED
      BY <1>6, <2>1, <2>3, <3>1
  <2> QED
    BY <2>2, <2>3
<1>9. Grown(t.tree)
  BY <1>7 DEF Grown
<1> QED
  BY <1>0, <1>1, <1>2, <1>3, <1>4, <1>8, <1>9 DEF Sound

\* What is put in the place of nothing.
LEMMA MakeKeeps ==
  ASSUME NEW s, Sound(s), NEW w, Arrived(s, w), NEW node, Fits(node),
         NEW o \in Make(s, Vacant(s, w), node)
  PROVE  Sound(o.sys) /\ Kept(s, o.sys)
<1>1. CASE Vacant(s, w).err # "0"
  <2>1. o.sys = s
    BY <1>1 DEF Make, Fails, Outcome
  <2> QED
    BY <2>1, StayKeeps
<1>2. CASE Vacant(s, w).err = "0"
  <2>1. o.sys = Put(s, Vacant(s, w).at, node)
    BY <1>2 DEF Make, Outcome
  <2>2. Vacant(s, w) = w /\ w.err = "0" /\ At(s.tree, w.at).kind = "none" /\ w.at \in DOMAIN s.tree
    BY <1>2 DEF Vacant, Arrived, Walks
  <2>3. w.at \in HostPlaces /\ s.tree[w.at].kind = "none" /\ s \in Systems
    BY <2>2 DEF Sound, Systems, Trees, At
  <2>4. Puts(s, o.sys, w.at, node)
    BY <2>1, <2>2, <2>3, PutIs DEF Fits
  <2>5. Inside(w.at) /\ (w.at = <<>> \/ At(s.tree, Front(w.at)).kind = "dir")
    BY <2>2 DEF Arrived
  <2> QED
    BY <2>3, <2>4, <2>5, PutsKeep
<1> QED
  BY <1>1, <1>2

\* A mark on what is there.
LEMMA MarkKeeps ==
  ASSUME NEW s, Sound(s), NEW w, Arrived(s, w), w.err = "0", w.at \in HostPlaces,
         s.tree[w.at].kind # "none", NEW m \in STRING \cup {"data"},
         NEW t, t = [s EXCEPT !.tree[w.at].marks = @ \cup {m}]
  PROVE  Sound(t) /\ Kept(s, t)
<1>1. PICK p, node : p = w.at /\ node = [s.tree[p] EXCEPT !.marks = @ \cup {m}]
  OBVIOUS
<1>2. s.tree \in [HostPlaces -> Nodes] /\ s \in Systems /\ p \in HostPlaces
  BY <1>1 DEF Sound, Systems, Trees
<1>3. s.tree[p] \in Nodes
  BY <1>2
<1>4. node \in Nodes /\ node.kind = s.tree[p].kind /\ node.to = s.tree[p].to
  BY <1>1, <1>3 DEF Nodes
<1>5. t = Put(s, p, node)
  BY <1>1, <1>2 DEF Put, Systems
<1>6. Puts(s, t, p, node)
  BY <1>2, <1>4, <1>5, PutIs
<1>7. Inside(p) /\ (p = <<>> \/ At(s.tree, Front(p)).kind = "dir")
  BY <1>1 DEF Arrived
<1>8. Fits(node)
  BY <1>2, <1>4, <1>7 DEF Fits, Sound, Inward, Spelt
<1> QED
  BY <1>2, <1>4, <1>6, <1>7, <1>8, PutsKeep

\* A directory that nobody stands in and that has no entries is removed.
LEMMA RemoveKeeps ==
  ASSUME NEW s, Sound(s), NEW w, Arrived(s, w), w.err = "0", w.at \in HostPlaces,
         Entries(s.tree, w.at) = {}, w.at \notin {s.cwd, s.fd}
  PROVE  Sound(Put(s, w.at, NoNode)) /\ Kept(s, Put(s, w.at, NoNode))
<1>1. s \in Systems /\ s.tree \in Trees /\ DOMAIN s.tree = HostPlaces
  BY DEF Sound, Systems, Trees
<1>2. NoNode \in Nodes /\ NoNode.kind = "none" /\ NoNode.to = <<>>
  BY DEF NoNode, Nodes
<1>3. Fits(NoNode)
  BY <1>2 DEF Fits, Formed
<1>4. Puts(s, Put(s, w.at, NoNode), w.at, NoNode)
  BY <1>1, <1>2, PutIs
<1>5. ASSUME NEW h \in HostPlaces, h # <<>>, Front(h) = w.at PROVE s.tree[h].kind = "none"
  <2>1. h \in Seq(Labels)
    BY HostTyped DEF LabelSeqs
  <2>2. Len(h) = Len(w.at) + 1
    <3>1. Len(Front(h)) = Len(h) - 1 /\ Len(h) \in Nat
      BY <1>5, <2>1, FrontAppend
    <3> QED
      BY <1>5, <3>1
  <2>3. s.tree[h].kind # "none" => Last(h) \in Entries(s.tree, w.at)
    BY <1>1, <1>5, <2>2 DEF Entries
  <2> QED
    BY <2>3
<1>6. Inside(w.at)
  BY DEF Arrived
<1> QED
  BY <1>2, <1>3, <1>4, <1>5, <1>6, PutsKeep

\* Another working directory, or directory held open.
LEMMA GoKeeps ==
  ASSUME NEW s, Sound(s), NEW w, Arrived(s, w), w.err = "0", w.at \in HostPlaces,
         s.tree[w.at].kind = "dir",
         NEW t, t \in {[s EXCEPT !["cwd"] = w.at], [s EXCEPT !["fd"] = w.at]}
  PROVE  Sound(t) /\ Kept(s, t)
<1>1. s \in Systems /\ w.at \in LabelSeqs /\ s.tree \in Trees
  BY DEF Sound, Systems, Arrived, Walks
<1>2. t \in Systems /\ t.tree = s.tree /\ {t.cwd, t.fd} \subseteq {s.cwd, s.fd, w.at}
  BY <1>1 DEF Systems
<1>3. Inside(w.at) /\ At(s.tree, w.at).kind = "dir"
  BY <1>1 DEF Arrived, At, Trees
<1>4. \A d \in {t.cwd, t.fd} : Inside(d) /\ At(t.tree, d).kind = "dir"
  BY <1>2, <1>3 DEF Sound
<1> QED
  BY <1>2, <1>4 DEF Sound, Kept

\* Another library.
LEMMA LoadKeeps ==
  ASSUME NEW s, Sound(s), NEW x \in Texts
  PROVE  Sound([s EXCEPT !.lib = x]) /\ Kept(s, [s EXCEPT !.lib = x])
<1>1. PICK t : t = [s EXCEPT !.lib = x]
  OBVIOUS
<1>2. t \in Systems /\ t.tree = s.tree /\ t.cwd = s.cwd /\ t.fd = s.fd
  BY <1>1 DEF Sound, Systems
<1>3. Sound(t) /\ Kept(s, t)
  BY <1>2 DEF Sound, Kept
<1> QED
  BY <1>1, <1>3

-----------------------------------------------------------------------------
(* Calls of the kernel.                                                    *)

LEMMA FoundIsThere ==
  ASSUME NEW s, Sound(s), NEW w, Arrived(s, w)
  PROVE  /\ Arrived(s, Found(s, w))
         /\ Found(s, w).err = "0" => /\ Found(s, w) = w /\ w.at \in HostPlaces
                                     /\ s.tree[w.at].kind # "none" /\ At(s.tree, w.at) = s.tree[w.at]
<1>1. CASE w.err = "0" /\ At(s.tree, w.at).kind = "none"
  <2>1. Found(s, w) = [w EXCEPT !.err = "ENOENT"]
    BY <1>1 DEF Found
  <2> QED
    BY <2>1 DEF Arrived, Walks
<1>2. CASE ~(w.err = "0" /\ At(s.tree, w.at).kind = "none")
  <2>1. Found(s, w) = w
    BY <1>2 DEF Found
  <2> QED
    BY <1>2, <2>1 DEF Sound, Systems, Trees, At, NoNode
<1> QED
  BY <1>1, <1>2

LEMMA WriteKeeps ==
  ASSUME NEW s, Sound(s), NEW w, Arrived(s, w), NEW o \in Write(s, w)
  PROVE  Sound(o.sys) /\ Kept(s, o.sys)
<1>1. Fits(Node("file"))
  BY DEF Fits, Node, Nodes, Formed
<1>2. CASE w.err # "0" \/ At(s.tree, w.at).kind = "dir"
  <2>1. o.sys = s
    BY <1>2 DEF Write, Fails, Outcome
  <2> QED
    BY <2>1, StayKeeps
<1>3. CASE w.err = "0" /\ At(s.tree, w.at).kind = "none"
  <2>1. o \in Make(s, Vacant(s, w), Node("file"))
    BY <1>3 DEF Write
  <2> QED
    BY <1>1, <2>1, MakeKeeps
<1>4. CASE w.err = "0" /\ At(s.tree, w.at).kind \notin {"none", "dir"}
  <2>1. o.sys = [s EXCEPT !.tree[w.at].marks = @ \cup {"data"}]
    BY <1>4 DEF Write, Outcome
  <2>2. w.at \in HostPlaces /\ s.tree[w.at].kind # "none"
    BY <1>4 DEF At, NoNode, Sound, Systems, Trees
  <2> QED
    BY <1>4, <2>1, <2>2, MarkKeeps
<1> QED
  BY <1>2, <1>3, <1>4

LEMMA GoToKeeps ==
  ASSUME NEW s, Sound(s), NEW w, Arrived(s, w),
         NEW o \in GoTo(s, Found(s, w), "cwd") \cup GoTo(s, Found(s, w), "fd")
  PROVE  Sound(o.sys) /\ Kept(s, o.sys)
<1>1. PICK f : f = Found(s, w)
  OBVIOUS
<1>2. Arrived(s, f) /\ (f.err = "0" => f.at \in HostPlaces)
  BY <1>1, FoundIsThere
<1>3. o.sys = s \/ /\ f.err = "0" /\ s.tree[f.at].kind = "dir"
                   /\ o.sys \in {[s EXCEPT !["cwd"] = f.at], [s EXCEPT !["fd"] = f.at]}
  BY <1>1 DEF GoTo, Fails, Outcome
<1> QED
  BY <1>2, <1>3, StayKeeps, GoKeeps

LEMMA RemoveDirKeeps ==
  ASSUME NEW s, Sound(s), NEW w, Arrived(s, w), NEW o \in RemoveDir(s, Found(s, w))
  PROVE  Sound(o.sys) /\ Kept(s, o.sys)
<1>1. PICK f : f = Found(s, w)
  OBVIOUS
<1>2. Arrived(s, f) /\ (f.err = "0" => f.at \in HostPlaces)
  BY <1>1, FoundIsThere
<1>3. o.sys = s \/ /\ f.err = "0" /\ Entries(s.tree, f.at) = {} /\ f.at \notin {s.cwd, s.fd}
                   /\ o.sys = Put(s, f.at, NoNode)
  BY <1>1 DEF RemoveDir, Fails, Outcome
<1> QED
  BY <1>2, <1>3, StayKeeps, RemoveKeeps

OnFileOps == {"look", "read", "stat", "mark", "connect", "realpath", "load", "scandir", "readlink"}

LEMMA OnFileKeeps ==
  ASSUME NEW s, Sound(s), NEW w, Arrived(s, w), NEW k, k.op \in OnFileOps,
         k.path \in Texts, k.arg \in STRING, NEW o \in OnFile(s, k, Found(s, w))
  PROVE  Sound(o.sys) /\ Kept(s, o.sys)
<1>1. PICK f : f = Found(s, w)
  OBVIOUS
<1>2. Arrived(s, f) /\ (f.err = "0" => f.at \in HostPlaces /\ s.tree[f.at].kind # "none")
  BY <1>1, FoundIsThere
<1>3. CASE f.err # "0"
  <2>1. o.sys = s
    BY <1>1, <1>3 DEF OnFile, Fails, Outcome
  <2> QED
    BY <2>1, StayKeeps
<1>4. CASE f.err = "0" /\ k.op = "mark"
  <2>1. o.sys = [s EXCEPT !.tree[f.at].marks = @ \cup {k.arg}]
    BY <1>1, <1>4 DEF OnFile, Outcome
  <2> QED
    BY <1>2, <1>4, <2>1, MarkKeeps
<1>5. CASE f.err = "0" /\ k.op = "load"
  <2>1. o.sys = s \/ o.sys = [s EXCEPT !.lib = k.path]
    BY <1>1, <1>5 DEF OnFile, Outcome, Fails
  <2> QED
    BY <2>1, StayKeeps, LoadKeeps
<1>6. CASE f.err = "0" /\ k.op \notin {"mark", "load"}
  <2>1. o.sys = s
    BY <1>1, <1>6 DEF OnFile, Outcome, Fails, OnFileOps
  <2> QED
    BY <2>1, StayKeeps
<1> QED
  BY <1>3, <1>4, <1>5, <1>6

Ops == OnFileOps \cup {"make", "symlink", "write", "temp", "glob", "chdir", "opendir", "rmdir",
                       "getcwd", "dladdr"}

\* A call, with all it may be made of.
Asked(k) ==
  /\ k \in [op : STRING \cup Ops, path : Texts, at : {"cwd", "fd"}, follow : BOOLEAN,
            arg : STRING, target : Texts, size : Int]
  /\ k.op \in Ops /\ Formed(k.target)

\* A call that leads inside.
Sent(k) ==
  /\ Asked(k)
  /\ k.op \notin {"getcwd", "dladdr"} => Led(k)
  /\ k.op = "symlink" /\ Absolute(k.target) => Inside(Names(k.target))
  /\ k.op = "temp" /\ k.path # <<>> /\ Last(k.path) = "X" =>
       \A x \in TempNames : Led(Named(k, x))

LEMMA TempKeeps ==
  ASSUME NEW s, Sound(s), Still(s.tree), NEW k, Sent(k), Level(s, k), k.op = "temp", NEW o \in Temp(s, k, k.arg)
  PROVE  Sound(o.sys) /\ Kept(s, o.sys)
<1>1. CASE k.path = <<>> \/ Last(k.path) # "X"
  <2>1. o.sys = s
    BY <1>1 DEF Temp, Fails, Outcome
  <2> QED
    BY <2>1, StayKeeps
<1>2. CASE k.path # <<>> /\ Last(k.path) = "X"
  <2>1. \/ o.sys = s
        \/ \E x \in TempNames :
             LET w == Walk(s, Named(k, x)) IN
               Vacant(s, w).err = "0" /\ o.sys = Put(s, Vacant(s, w).at, Node(k.arg))
    BY <1>2 DEF Temp, Fails, Outcome
  <2>2. CASE o.sys = s
    BY <2>2, StayKeeps
  <2>3. ASSUME NEW x \in TempNames,
               NEW w, w = Walk(s, Named(k, x)),
               Vacant(s, w).err = "0", o.sys = Put(s, Vacant(s, w).at, Node(k.arg))
        PROVE  Sound(o.sys) /\ Kept(s, o.sys)
    <3>1. Led(Named(k, x))
      BY <1>2 DEF Sent, Asked
    <3>5. ~WentUp(w)
      BY <2>3 DEF Level, LookUps
    <3>2. Arrived(s, w)
      BY <2>3, <3>1, <3>5, WalkArrives
    <3>3. Fits(Node(k.arg))
      <4>1. PICK n : n = Node(k.arg)
        OBVIOUS
      <4>2. n \in Nodes /\ n.to = <<>>
        BY <4>1 DEF Node, Nodes, Sent, Asked
      <4>3. Fits(n)
        BY <4>2 DEF Fits, Formed, Absolute
      <4> QED
        BY <4>1, <4>3
    <3>4. \E u \in Make(s, Vacant(s, w), Node(k.arg)) : u.sys = o.sys
      BY <2>3 DEF Make, Outcome
    <3> QED
      BY <3>2, <3>3, <3>4, MakeKeeps
  <2> QED
    BY <2>1, <2>2, <2>3
<1> QED
  BY <1>1, <1>2

LEMMA KernelKeeps ==
  ASSUME NEW s, Sound(s), Still(s.tree), NEW k, Sent(k), Level(s, k), NEW o \in Kernel(s, k)
  PROVE  Sound(o.sys) /\ Kept(s, o.sys)
<1>1. PICK w : w = Walk(s, k)
  OBVIOUS
<1>2. k.op \notin {"getcwd", "dladdr", "temp", "glob"} => Arrived(s, w)
  BY <1>1, WalkArrives DEF Sent, Asked, Level, LookUps
<1>3. CASE k.op = "make"
  <2>1. o \in Make(s, Vacant(s, w), Node(k.arg))
    BY <1>1, <1>3 DEF Kernel
  <2>2. PICK n : n = Node(k.arg)
    OBVIOUS
  <2>3. n \in Nodes /\ n.to = <<>>
    BY <2>2 DEF Node, Nodes, Sent, Asked
  <2>4. Fits(n)
    BY <2>3 DEF Fits, Formed, Absolute
  <2> QED
    BY <1>2, <1>3, <2>1, <2>2, <2>4, MakeKeeps
<1>4. CASE k.op = "symlink"
  <2>1. o \in Make(s, Vacant(s, w), Link(k.target))
    BY <1>1, <1>4 DEF Kernel
  <2>2. Fits(Link(k.target))
    BY <1>4 DEF Fits, Link, Nodes, Sent, Asked, Texts
  <2> QED
    BY <1>2, <1>4, <2>1, <2>2, MakeKeeps
<1>5. CASE k.op = "write"
  <2>1. o \in Write(s, w)
    BY <1>1, <1>5 DEF Kernel
  <2> QED
    BY <1>2, <1>5, <2>1, WriteKeeps
<1>6. CASE k.op = "temp"
  <2>1. o \in Temp(s, k, k.arg)
    BY <1>6 DEF Kernel
  <2> QED
    BY <1>6, <2>1, TempKeeps
<1>7. CASE k.op \in {"glob", "getcwd", "dladdr"}
  <2>1. o.sys = s
    BY <1>7 DEF Kernel, Match, Fails, Outcome
  <2> QED
    BY <2>1, StayKeeps
<1>8. CASE k.op \in {"chdir", "opendir"}
  <2>1. o \in GoTo(s, Found(s, w), "cwd") \cup GoTo(s, Found(s, w), "fd")
    BY <1>1, <1>8 DEF Kernel
  <2> QED
    BY <1>2, <1>8, <2>1, GoToKeeps
<1>9. CASE k.op = "rmdir"
  <2>1. o \in RemoveDir(s, Found(s, w))
    BY <1>1, <1>9 DEF Kernel
  <2> QED
    BY <1>2, <1>9, <2>1, RemoveDirKeeps
<1>10. CASE k.op \in OnFileOps
  <2>1. o \in OnFile(s, k, Found(s, w))
    BY <1>1, <1>10 DEF Kernel, OnFileOps
  <2>2. k.op \notin {"getcwd", "dladdr", "temp", "glob"} /\ k.path \in Texts /\ k.arg \in STRING
    BY <1>10 DEF OnFileOps, Sent, Asked
  <2> QED
    BY <1>2, <1>10, <2>1, <2>2, OnFileKeeps
<1> QED
  BY <1>3, <1>4, <1>5, <1>6, <1>7, <1>8, <1>9, <1>10 DEF Sent, Asked, Ops

-----------------------------------------------------------------------------
(* Every wrapper sends a call that leads inside.                           *)

\* The call a wrapper makes.
Ready(k) == Asked(k) /\ (PlainBinds => Sent(k))

\* A system is changed by such a call, whose look-ups are recorded, or is the
\* same but for lib.
Sends(k) == strayed' = strayed \cup Strays(k) /\ \E o \in Kernel(sys, k) : sys' = o.sys
Stays == strayed' = strayed /\ sys' = sys

Went ==
  /\ strayed \subseteq strayed'
  /\ \/ sys' = sys
     \/ \E k : Ready(k) /\ Strays(k) \subseteq strayed' /\ \E o \in Kernel(sys, k) : sys' = o.sys
     \/ \E x \in Texts : sys' = [sys EXCEPT !.lib = x]

LEMMA SendsWent == ASSUME NEW k, Ready(k), Sends(k) PROVE Went
  BY DEF Sends, Went

LEMMA StaysWent == Stays => Went
  BY DEF Stays, Went

LEMMA PassSends == ASSUME NEW c, NEW k, Pass(c, k) PROVE Sends(k)
  BY DEF Pass, Reply, Sends

CallsFor(ops) == {c \in Calls : c.op \in ops}

LEMMA OfCalls ==
  ASSUME NEW op PROVE Of(op) \subseteq CallsFor({op}) /\ \A arg : With(op, arg) \subseteq CallsFor({op})
  BY DEF Of, With, ByOp, CallsFor

LEMMA CallTyped ==
  ASSUME NEW c \in Calls
  PROVE  /\ c \in [op : STRING, path : Texts, at : {"cwd", "fd"}, follow : BOOLEAN,
                   arg : STRING, target : Texts, size : Nat]
         /\ Formed(c.target)
         /\ Expand(c.path) \in Texts /\ (Absolute(Expand(c.path)) => Inside(Names(Expand(c.path))))
<1>1. c \in [op : STRING, path : Texts, at : {"cwd", "fd"}, follow : BOOLEAN,
             arg : STRING, target : Texts, size : Nat] /\ Formed(c.target)
  BY GuestAssumption DEF Texts
<1>2. c.path \in Texts
  BY <1>1
<1> QED
  BY <1>1, <1>2, ExpandInside

LEMMA SimpleSent ==
  ASSUME NEW c \in Calls, c.op \in Ops \ {"symlink"}
  PROVE  Ready(Expanded(c))
<1>0. PICK k : k = Expanded(c)
  OBVIOUS
<1>1. /\ c \in [op : STRING, path : Texts, at : {"cwd", "fd"}, follow : BOOLEAN,
                arg : STRING, target : Texts, size : Nat]
      /\ Expand(c.path) \in Texts /\ (Absolute(Expand(c.path)) => Inside(Names(Expand(c.path))))
  BY CallTyped
<1>2. /\ k \in [op : STRING \cup Ops, path : Texts, at : {"cwd", "fd"}, follow : BOOLEAN,
                arg : STRING, target : Texts, size : Int]
      /\ k.op = c.op /\ k.target = c.target /\ k.path = Expand(c.path)
  BY <1>0, <1>1 DEF Expanded
<1>3. Led(k)
  BY <1>1, <1>2 DEF Led
<1>4. ASSUME PlainBinds, k.path # <<>>, Last(k.path) = "X", NEW x \in TempNames
      PROVE  Led(Named(k, x))
  <2>1. PICK named : named = Append(Front(k.path), x)
    OBVIOUS
  <2>2. Named(k, x).path = named
    BY <1>2, <2>1 DEF Named
  <2>3. x \in Labels /\ c.path \in Texts
    BY <1>1, GuestAssumption
  <2>4. named \in Texts /\ (Absolute(named) => Inside(Names(named)))
    BY <1>2, <1>4, <2>1, <2>3, TemplateInside
  <2> QED
    BY <2>2, <2>4 DEF Led
<1>5. Formed(k.target)
  BY <1>2, CallTyped
<1> QED
  BY <1>0, <1>2, <1>3, <1>4, <1>5 DEF Ready, Sent, Asked

LEMMA SimpleWent ==
  ASSUME NEW C \in SUBSET CallsFor(Ops \ {"symlink"}), Simple(C)
  PROVE  Went
<1>1. PICK c \in C : Sends(Expanded(c))
  BY PassSends DEF Simple
<1>2. Ready(Expanded(c))
  BY SimpleSent DEF CallsFor
<1> QED
  BY <1>1, <1>2, SendsWent

LEMMA OneOpWent ==
  ASSUME NEW op \in Ops \ {"symlink"}
  PROVE  /\ Simple(Of(op)) => Went
         /\ \A arg : Simple(With(op, arg)) => Went
<1>1. Of(op) \in SUBSET CallsFor(Ops \ {"symlink"})
  BY OfCalls DEF CallsFor
<1>2. ASSUME NEW arg PROVE With(op, arg) \in SUBSET CallsFor(Ops \ {"symlink"})
  BY OfCalls DEF CallsFor
<1> QED
  BY <1>1, <1>2, SimpleWent

\* The same call with another size or, of chown(), another name.
LEMMA AsideSent ==
  ASSUME NEW c \in Calls
  PROVE  /\ c.op = "readlink" => Ready([Expanded(c) EXCEPT !.size = @ - 1])
         /\ c.op = "mark" => Ready([Expanded(c) EXCEPT !.op = "look"])
         /\ c.op = "symlink" => Ready([Expanded(c) EXCEPT !.target = Expand(@)])
         /\ c.op \in {"getcwd", "dladdr"} => Ready(c)
<1>1. /\ c \in [op : STRING, path : Texts, at : {"cwd", "fd"}, follow : BOOLEAN,
                arg : STRING, target : Texts, size : Nat]
      /\ Expand(c.path) \in Texts /\ (Absolute(Expand(c.path)) => Inside(Names(Expand(c.path))))
      /\ Formed(c.target)
  BY CallTyped
<1>2. PICK e : e = Expanded(c)
  OBVIOUS
<1>3. /\ e \in [op : STRING \cup Ops, path : Texts, at : {"cwd", "fd"}, follow : BOOLEAN,
                arg : STRING, target : Texts, size : Int]
      /\ e.op = c.op /\ e.target = c.target /\ e.path = Expand(c.path)
  BY <1>1, <1>2 DEF Expanded
<1>4. {"readlink", "mark", "look", "symlink", "getcwd", "dladdr"} \subseteq Ops
  BY DEF Ops, OnFileOps
<1>5. ASSUME c.op = "readlink" PROVE Ready([Expanded(c) EXCEPT !.size = @ - 1])
  <2>1. PICK k : k = [e EXCEPT !.size = @ - 1]
    OBVIOUS
  <2>2. /\ k \in [op : STRING \cup Ops, path : Texts, at : {"cwd", "fd"}, follow : BOOLEAN,
                  arg : STRING, target : Texts, size : Int]
        /\ k.op = "readlink" /\ k.target = c.target /\ k.path = Expand(c.path)
    BY <1>3, <1>5, <2>1
  <2>3. Ready(k)
    BY <1>1, <1>4, <2>2 DEF Ready, Sent, Asked, Led
  <2> QED
    BY <1>2, <2>1, <2>3
<1>6. ASSUME c.op = "mark" PROVE Ready([Expanded(c) EXCEPT !.op = "look"])
  <2>1. PICK k : k = [e EXCEPT !.op = "look"]
    OBVIOUS
  <2>2. /\ k \in [op : STRING \cup Ops, path : Texts, at : {"cwd", "fd"}, follow : BOOLEAN,
                  arg : STRING, target : Texts, size : Int]
        /\ k.op = "look" /\ k.target = c.target /\ k.path = Expand(c.path)
    BY <1>3, <1>4, <2>1
  <2>3. Ready(k)
    BY <1>1, <1>4, <2>2 DEF Ready, Sent, Asked, Led
  <2> QED
    BY <1>2, <2>1, <2>3
<1>7. ASSUME c.op = "symlink" PROVE Ready([Expanded(c) EXCEPT !.target = Expand(@)])
  <2>1. PICK k, x : k = [e EXCEPT !.target = x] /\ x = Expand(e.target)
    OBVIOUS
  <2>0. c.target \in Texts
    BY <1>1
  <2>2. x \in Texts /\ (Absolute(x) => Inside(Names(x))) /\ Formed(x)
    BY <1>1, <1>3, <2>0, <2>1, ExpandInside, ExpandFormed
  <2>3. /\ k \in [op : STRING \cup Ops, path : Texts, at : {"cwd", "fd"}, follow : BOOLEAN,
                  arg : STRING, target : Texts, size : Int]
        /\ k.op = "symlink" /\ k.target = x /\ k.path = Expand(c.path)
    BY <1>3, <1>7, <2>1, <2>2
  <2>4. Ready(k)
    BY <1>1, <1>4, <2>2, <2>3 DEF Ready, Sent, Asked, Led
  <2>5. k = [e EXCEPT !.target = Expand(@)]
    BY <1>3, <2>1
  <2> QED
    BY <1>2, <2>4, <2>5
<1>8. ASSUME c.op \in {"getcwd", "dladdr"} PROVE Ready(c)
  <2>1. c \in [op : STRING \cup Ops, path : Texts, at : {"cwd", "fd"}, follow : BOOLEAN,
               arg : STRING, target : Texts, size : Int]
    BY <1>1
  <2> QED
    BY <1>1, <1>4, <1>8, <2>1 DEF Ready, Sent, Asked
<1> QED
  BY <1>5, <1>6, <1>7, <1>8

LEMMA UnexpandTyped == ASSUME NEW p \in Texts PROVE Unexpand(p) \in Texts
<1>1. CASE p = Root
  <2>1. \A x \in Tokens : <<x>> \in Seq(Tokens)
    OBVIOUS
  <2> QED
    BY <1>1, <2>1, LabelsAreTokens DEF Unexpand, Texts
<1>2. CASE p # Root /\ IsPrefix(Root, p)
  <2>1. Unexpand(p) = SubSeq(p, Len(Root) + 1, Len(p))
    BY <1>2 DEF Unexpand
  <2>2. Len(Root) + 1 \in Int /\ Len(p) \in Int /\ \A i \in Len(Root) + 1..Len(p) : p[i] \in Tokens
    BY RootTyped DEF Texts
  <2> QED
    BY <2>1, <2>2, SubSeqProperties DEF Texts
<1>3. CASE p # Root /\ ~IsPrefix(Root, p)
  BY <1>3 DEF Unexpand
<1> QED
  BY <1>1, <1>2, <1>3

LEMMA NextWent ==
  ASSUME sys \in Systems, Next
  PROVE  Went
<1>0. OnFileOps \cup {"make", "write", "temp", "glob", "chdir", "opendir", "rmdir"} \subseteq Ops \ {"symlink"}
  BY DEF Ops, OnFileOps
<1>a. ASSUME NEW op PROVE \A c \in Of(op) : c \in Calls /\ c.op = op
  BY OfCalls DEF CallsFor
<1>b. ASSUME NEW op, NEW arg PROVE \A c \in With(op, arg) : c \in Calls /\ c.op = op
  BY OfCalls DEF CallsFor
<1>c. {"look", "read", "stat", "mark", "connect", "realpath", "load", "scandir", "readlink",
       "make", "write", "temp", "glob", "chdir", "opendir", "rmdir"} \subseteq Ops \ {"symlink"}
  BY <1>0 DEF OnFileOps
<1>1. CASE Access \/ Statvfs
  BY <1>1, <1>c, OneOpWent DEF Access, Statvfs
<1>2. CASE Setmntent
  BY <1>2, <1>c, OneOpWent DEF Setmntent
<1>3. CASE Freopen \/ Creat
  BY <1>3, <1>c, OneOpWent DEF Freopen, Creat
<1>4. CASE Chmod \/ Utime
  BY <1>4, <1>c, OneOpWent DEF Chmod, Utime
<1>5. CASE Xattr \/ Attr
  BY <1>5, <1>c, OneOpWent DEF Xattr, Attr
<1>6. CASE Mkdir \/ Mkfifo
  BY <1>6, <1>c, OneOpWent DEF Mkdir, Mkfifo
<1>7. CASE Rmdir \/ Opendir \/ Scandir
  BY <1>7, <1>c, OneOpWent DEF Rmdir, Opendir, Scandir
<1>8. CASE Chdir \/ Dlopen
  BY <1>8, <1>c, OneOpWent DEF Chdir, Dlopen
<1>9. CASE Stat
  <2>1. PICK c \in Of("stat") : Sends(Expanded(c))
    BY <1>9 DEF Stat, Change, Reply, Sends
  <2>2. Ready(Expanded(c))
    BY <1>a, <1>c, SimpleSent
  <2> QED
    BY <2>1, <2>2, SendsWent, StaysWent
<1>10. CASE Fopen
  <2>1. CASE Simple(Of("write"))
    BY <1>c, <2>1, OneOpWent
  <2>2. ASSUME NEW c \in Of("read"),
               IF c.path = ProcStat THEN Reply(c, sys, "0", {}, {}) ELSE Pass(c, Expanded(c))
        PROVE  Went
    <3>1. Ready(Expanded(c))
      BY <1>a, <1>c, SimpleSent
    <3>2. Stays \/ Sends(Expanded(c))
      BY <2>2, PassSends DEF Reply, Stays
    <3> QED
      BY <3>1, <3>2, SendsWent, StaysWent
  <2> QED
    BY <1>10, <2>1, <2>2 DEF Fopen
<1>11. CASE Chown
  <2>1. PICK c \in With("mark", "owner") :
          IF FakeRoot THEN Pass(c, [Expanded(c) EXCEPT !.op = "look"]) ELSE Pass(c, Expanded(c))
    BY <1>11 DEF Chown
  <2>2. Ready(Expanded(c)) /\ Ready([Expanded(c) EXCEPT !.op = "look"])
    BY <1>b, <1>c, SimpleSent, AsideSent
  <2>3. PICK k : Pass(c, k) /\ Ready(k)
    BY <2>1, <2>2
  <2> QED
    BY <2>3, PassSends, SendsWent
<1>12. CASE Mktemp
  <2>1. PICK c \in Of("temp") : Sends(Expanded(c))
    BY <1>12 DEF Mktemp, Change, Reply, Sends
  <2>2. Ready(Expanded(c))
    BY <1>a, <1>c, SimpleSent
  <2> QED
    BY <2>1, <2>2, SendsWent, StaysWent
<1>13. CASE Symlink
  <2>1. PICK c \in Of("symlink") : Pass(c, [Expanded(c) EXCEPT !.target = Expand(@)])
    BY <1>13 DEF Symlink
  <2>2. Ready([Expanded(c) EXCEPT !.target = Expand(@)])
    BY <1>a, AsideSent
  <2>3. PICK k : Pass(c, k) /\ Ready(k)
    BY <2>1, <2>2
  <2> QED
    BY <2>3, PassSends, SendsWent
<1>14. CASE Readlink
  <2>1. PICK c \in Of("readlink") :
          Stays \/ Sends([Expanded(c) EXCEPT !.size = @ - 1])
    BY <1>14 DEF Readlink, Change, Reply, Sends, Stays
  <2>2. Ready([Expanded(c) EXCEPT !.size = @ - 1])
    BY <1>a, AsideSent
  <2>3. PICK k : Ready(k) /\ (Stays \/ Sends(k))
    BY <2>1, <2>2
  <2> QED
    BY <2>3, SendsWent, StaysWent
<1>15. CASE Realpath
  <2>1. PICK c \in Of("realpath") : Sends(Expanded(c))
    BY <1>15 DEF Realpath, Change, Reply, Sends
  <2>2. Ready(Expanded(c))
    BY <1>a, <1>c, SimpleSent
  <2> QED
    BY <2>1, <2>2, SendsWent, StaysWent
<1>16. CASE Getcwd
  <2>1. PICK c \in Of("getcwd") : Sends(c)
    BY <1>16 DEF Getcwd, Change, Reply, Sends
  <2>2. Ready(c)
    BY <1>a, AsideSent
  <2> QED
    BY <2>1, <2>2, SendsWent, StaysWent
<1>17. CASE Glob \/ Wordexp
  <2>1. PICK c \in Of("glob") : Sends(Expanded(c))
    BY <1>17 DEF Glob, Wordexp, Change, Reply, Sends
  <2>2. Ready(Expanded(c))
    BY <1>a, <1>c, SimpleSent
  <2> QED
    BY <2>1, <2>2, SendsWent, StaysWent
<1>18. CASE Bind
  <2>1. PICK c \in With("make", "sock") : Stays \/ Sends(Expanded(c))
    BY <1>18, PassSends DEF Bind, ToSocket, Reply, Stays
  <2>2. Ready(Expanded(c))
    BY <1>b, <1>c, SimpleSent
  <2> QED
    BY <2>1, <2>2, SendsWent, StaysWent
<1>19. CASE Connect
  <2>1. PICK c \in Of("connect") : Stays \/ Sends(Expanded(c))
    BY <1>19, PassSends DEF Connect, ToSocket, Reply, Stays
  <2>2. Ready(Expanded(c))
    BY <1>a, <1>c, SimpleSent
  <2> QED
    BY <2>1, <2>2, SendsWent, StaysWent
<1>20. CASE Dladdr
  <2>0. PICK c \in Of("dladdr") : \E o \in Kernel(sys, c) : \E x :
          /\ x = (IF o.sys.lib = <<>> THEN <<>> ELSE Unexpand(o.sys.lib))
          /\ sys' = [o.sys EXCEPT !.lib = x] /\ strayed \subseteq strayed'
    BY <1>20 DEF Dladdr, Reply
  <2>a. PICK o \in Kernel(sys, c) : \E x :
          /\ x = (IF o.sys.lib = <<>> THEN <<>> ELSE Unexpand(o.sys.lib))
          /\ sys' = [o.sys EXCEPT !.lib = x] /\ strayed \subseteq strayed'
    BY <2>0
  <2>1. PICK x :
          /\ x = (IF o.sys.lib = <<>> THEN <<>> ELSE Unexpand(o.sys.lib))
          /\ sys' = [o.sys EXCEPT !.lib = x] /\ strayed \subseteq strayed'
    BY <2>a
  <2>2. c.op = "dladdr"
    BY <1>a
  <2>3. o.sys = sys
    BY <2>2 DEF Kernel, Outcome
  <2>5. x \in Texts
    BY <2>1, <2>3, UnexpandTyped DEF Systems, Texts
  <2> QED
    BY <2>1, <2>3, <2>5 DEF Went
<1> QED
  BY <1>1, <1>2, <1>3, <1>4, <1>5, <1>6, <1>7, <1>8, <1>9, <1>10, <1>11, <1>12, <1>13, <1>14,
     <1>15, <1>16, <1>17, <1>18, <1>19, <1>20 DEF Next

-----------------------------------------------------------------------------
(* Every system is made of paths, whatever links the host has.             *)

Proper(s) == s \in Systems /\ Spelt(s.tree)

LEMMA WalkTyped ==
  ASSUME NEW s, Proper(s), NEW k, k.path \in Texts
  PROVE  Walk(s, k) \in Walks
<1>1. s \in Systems /\ s.tree \in Trees /\ MaxLinks \in Nat /\ <<>> \in LabelSeqs
  BY GuestAssumption DEF Proper, Systems, LabelSeqs
<1>2. Names(k.path) \in LabelSeqs
  BY NamesTyped
<1>3. Begins(s, k) \in Walks
  BY <1>1, <1>2 DEF Begins, Walks, Systems
<1>4. PICK walk : Walked(s, k, walk) /\ Walk(s, k) = Ended(walk[MaxSteps])
  BY <1>1, <1>3, WalkIs
<1>5. walk[MaxSteps] \in Walks
  BY <1>4, GuestAssumption DEF Walked
<1> QED
  BY <1>4, <1>5 DEF Ended, Walks

LEMMA PutProper ==
  ASSUME NEW s, Proper(s), NEW p \in HostPlaces, NEW node \in Nodes, Formed(node.to)
  PROVE  Proper(Put(s, p, node))
<1>1. PICK t : t = Put(s, p, node)
  OBVIOUS
<1>2. Puts(s, t, p, node) /\ s.tree \in Trees
  BY <1>1, PutIs DEF Proper, Systems
<1>3. t \in Systems /\ \A h \in HostPlaces : t.tree[h] \in {node, s.tree[h]}
  BY <1>2 DEF Puts, Trees
<1> QED
  BY <1>1, <1>3 DEF Proper, Spelt

LEMMA FoundTyped ==
  ASSUME NEW s, Proper(s), NEW w \in Walks
  PROVE  /\ Found(s, w) \in Walks
         /\ Found(s, w).err = "0" => w.at \in HostPlaces /\ Found(s, w) = w /\ s.tree[w.at] \in Nodes
         /\ Vacant(s, w).err = "0" => w.at \in HostPlaces /\ Vacant(s, w) = w
<1>1. s.tree \in Trees
  BY DEF Proper, Systems
<1>2. Found(s, w) \in Walks
  BY DEF Found, Walks
<1>3. Found(s, w).err = "0" => Found(s, w) = w /\ (w.at \in HostPlaces /\ s.tree[w.at] \in Nodes)
  BY <1>1 DEF Found, Walks, At, NoNode, Trees
<1>4. Vacant(s, w).err = "0" => w.at \in HostPlaces /\ Vacant(s, w) = w
  BY <1>1 DEF Vacant, Walks, Trees
<1> QED
  BY <1>2, <1>3, <1>4

LEMMA MakeProper ==
  ASSUME NEW s, Proper(s), NEW w \in Walks, NEW node \in Nodes, Formed(node.to),
         NEW o \in Make(s, Vacant(s, w), node)
  PROVE  Proper(o.sys)
<1>1. \/ o.sys = s
      \/ Vacant(s, w).err = "0" /\ o.sys = Put(s, Vacant(s, w).at, node)
  <2>1. CASE Vacant(s, w).err # "0"
    BY <2>1 DEF Make, Fails, Outcome
  <2>2. CASE Vacant(s, w).err = "0"
    BY <2>2 DEF Make, Outcome
  <2> QED
    BY <2>1, <2>2
<1>2. Vacant(s, w).err = "0" => Vacant(s, w).at \in HostPlaces
  BY FoundTyped
<1> QED
  BY <1>1, <1>2, PutProper

LEMMA MarkProper ==
  ASSUME NEW s, Proper(s), NEW p \in HostPlaces, NEW m \in STRING \cup {"data"}
  PROVE  Proper([s EXCEPT !.tree[p].marks = @ \cup {m}])
<1>1. s \in Systems /\ s.tree \in [HostPlaces -> Nodes]
  BY DEF Proper, Systems, Trees
<1>2. s.tree[p] \in Nodes /\ Formed(s.tree[p].to)
  BY <1>1 DEF Proper, Spelt
<1>3. PICK node : node = [s.tree[p] EXCEPT !.marks = @ \cup {m}]
  OBVIOUS
<1>4. node \in Nodes /\ node.to = s.tree[p].to
  BY <1>2, <1>3 DEF Nodes
<1>5. PICK t : t = [s EXCEPT !.tree[p].marks = @ \cup {m}]
  OBVIOUS
<1>6. t = Put(s, p, node)
  BY <1>1, <1>3, <1>5 DEF Put, Systems
<1>7. Proper(Put(s, p, node))
  BY <1>2, <1>4, PutProper
<1> QED
  BY <1>5, <1>6, <1>7

LEMMA NodeTyped ==
  ASSUME NEW x \in STRING \cup {"file"} PROVE Node(x) \in Nodes /\ Formed(Node(x).to)
<1>1. PICK n : n = Node(x)
  OBVIOUS
<1>2. n \in Nodes /\ n.to = <<>>
  BY <1>1 DEF Node, Nodes
<1> QED
  BY <1>1, <1>2 DEF Formed

LEMMA GoProper ==
  ASSUME NEW s, Proper(s), NEW p \in LabelSeqs, NEW x \in Texts
  PROVE  /\ Proper([s EXCEPT !["cwd"] = p]) /\ Proper([s EXCEPT !["fd"] = p])
         /\ Proper([s EXCEPT !.lib = x])
  BY DEF Proper, Systems

LEMMA OnFileProper ==
  ASSUME NEW s, Proper(s), NEW w \in Walks, NEW k, k.op \in OnFileOps,
         k.path \in Texts, k.arg \in STRING, NEW o \in OnFile(s, k, Found(s, w))
  PROVE  Proper(o.sys)
<1>1. PICK f : f = Found(s, w)
  OBVIOUS
<1>2. f.err = "0" => f.at \in HostPlaces
  BY <1>1, FoundTyped
<1>3. \/ o.sys = s
      \/ f.err = "0" /\ o.sys = [s EXCEPT !.tree[f.at].marks = @ \cup {k.arg}]
      \/ o.sys = [s EXCEPT !.lib = k.path]
  <2>1. CASE f.err # "0"
    BY <1>1, <2>1 DEF OnFile, Fails, Outcome
  <2>2. CASE f.err = "0" /\ k.op = "mark"
    BY <1>1, <2>2 DEF OnFile, Outcome
  <2>4. CASE f.err = "0" /\ k.op = "load"
    BY <1>1, <2>4 DEF OnFile, Outcome, Fails
  <2>3. CASE f.err = "0" /\ k.op \notin {"mark", "load"}
    BY <1>1, <2>3 DEF OnFile, Fails, Outcome, OnFileOps
  <2> QED
    BY <2>1, <2>2, <2>3, <2>4
<1>5. <<>> \in LabelSeqs
  BY DEF LabelSeqs
<1>4. Proper([s EXCEPT !.lib = k.path])
  BY <1>5, GoProper
<1> QED
  BY <1>2, <1>3, <1>4, MarkProper

LEMMA TempProper ==
  ASSUME NEW s, Proper(s), NEW k, Asked(k), NEW o \in Temp(s, k, k.arg)
  PROVE  Proper(o.sys)
<1>1. \/ o.sys = s
      \/ /\ k.path # <<>>
         /\ \E x \in TempNames : LET v == Vacant(s, Walk(s, Named(k, x))) IN
              v.err = "0" /\ o.sys = Put(s, v.at, Node(k.arg))
  <2>1. CASE k.path = <<>> \/ Last(k.path) # "X"
    BY <2>1 DEF Temp, Fails, Outcome
  <2>2. CASE k.path # <<>> /\ Last(k.path) = "X"
    BY <2>2 DEF Temp, Fails, Outcome
  <2> QED
    BY <2>1, <2>2
<1>2. ASSUME k.path # <<>>, NEW x \in TempNames, NEW w, w = Walk(s, Named(k, x)),
             Vacant(s, w).err = "0", o.sys = Put(s, Vacant(s, w).at, Node(k.arg))
      PROVE  Proper(o.sys)
  <2>1. PICK named : named = Append(Front(k.path), x)
    OBVIOUS
  <2>2. Named(k, x).path = named
    BY <2>1 DEF Named, Asked
  <2>3. x \in Tokens /\ k.path \in Texts
    BY GuestAssumption, LabelsAreTokens DEF Asked
  <2>4. Front(k.path) \in Seq(Tokens)
    BY <1>2, <2>3, FrontAppend DEF Texts
  <2>5. named \in Texts
    BY <2>1, <2>3, <2>4 DEF Texts
  <2>6. w \in Walks
    BY <1>2, <2>2, <2>5, WalkTyped
  <2>7. Vacant(s, w).at \in HostPlaces
    BY <1>2, <2>6, FoundTyped
  <2>8. k.arg \in STRING
    BY DEF Asked
  <2> QED
    BY <1>2, <2>7, <2>8, NodeTyped, PutProper
<1> QED
  BY <1>1, <1>2

LEMMA KernelProper ==
  ASSUME NEW s, Proper(s), NEW k, Asked(k), NEW o \in Kernel(s, k)
  PROVE  Proper(o.sys)
<1>0. k.path \in Texts /\ k.arg \in STRING /\ k.target \in Texts /\ Formed(k.target) /\ k.op \in Ops
  BY DEF Asked
<1>1. PICK w : w = Walk(s, k)
  OBVIOUS
<1>2. w \in Walks
  BY <1>0, <1>1, WalkTyped
<1>3. CASE k.op = "make"
  <2>1. o \in Make(s, Vacant(s, w), Node(k.arg))
    BY <1>1, <1>3 DEF Kernel
  <2> QED
    BY <1>0, <1>2, <2>1, NodeTyped, MakeProper
<1>4. CASE k.op = "symlink"
  <2>1. o \in Make(s, Vacant(s, w), Link(k.target))
    BY <1>1, <1>4 DEF Kernel
  <2>2. PICK n : n = Link(k.target)
    OBVIOUS
  <2>3. n \in Nodes /\ n.to = k.target
    BY <1>0, <2>2 DEF Link, Nodes, Texts
  <2> QED
    BY <1>0, <1>2, <2>1, <2>2, <2>3, MakeProper
<1>5. CASE k.op = "write"
  <2>1. o \in Write(s, w)
    BY <1>1, <1>5 DEF Kernel
  <2>2. CASE w.err # "0" \/ At(s.tree, w.at).kind = "dir"
    <3>1. o.sys = s
      BY <2>1, <2>2 DEF Write, Fails, Outcome
    <3> QED
      BY <3>1
  <2>3. CASE w.err = "0" /\ At(s.tree, w.at).kind = "none"
    <3>1. o \in Make(s, Vacant(s, w), Node("file"))
      BY <2>1, <2>3 DEF Write
    <3> QED
      BY <1>2, <3>1, NodeTyped, MakeProper
  <2>4. CASE w.err = "0" /\ At(s.tree, w.at).kind \notin {"none", "dir"}
    <3>1. o.sys = [s EXCEPT !.tree[w.at].marks = @ \cup {"data"}]
      BY <2>1, <2>4 DEF Write, Outcome
    <3>2. w.at \in HostPlaces
      BY <2>4 DEF At, NoNode, Proper, Systems, Trees
    <3> QED
      BY <3>1, <3>2, MarkProper
  <2> QED
    BY <2>2, <2>3, <2>4
<1>6. CASE k.op = "temp"
  <2>1. o \in Temp(s, k, k.arg)
    BY <1>6 DEF Kernel
  <2> QED
    BY <2>1, TempProper
<1>7. CASE k.op \in {"glob", "getcwd", "dladdr"}
  <2>1. o.sys = s
    BY <1>7 DEF Kernel, Match, Fails, Outcome
  <2> QED
    BY <2>1
<1>8. CASE k.op \in {"chdir", "opendir"}
  <2>1. PICK f : f = Found(s, w)
    OBVIOUS
  <2>2. f.at \in LabelSeqs
    BY <1>2, <2>1, FoundTyped DEF Walks
  <2>5. o \in GoTo(s, f, "cwd") \cup GoTo(s, f, "fd")
    BY <1>1, <1>8, <2>1 DEF Kernel
  <2>3. o.sys = s \/ o.sys \in {[s EXCEPT !["cwd"] = f.at], [s EXCEPT !["fd"] = f.at]}
    BY <2>5 DEF GoTo, Fails, Outcome
  <2>4. <<>> \in Texts
    BY DEF Texts
  <2>6. Proper([s EXCEPT !["cwd"] = f.at]) /\ Proper([s EXCEPT !["fd"] = f.at])
    BY <2>2, <2>4, GoProper
  <2> QED
    BY <2>3, <2>6
<1>9. CASE k.op = "rmdir"
  <2>1. PICK f : f = Found(s, w)
    OBVIOUS
  <2>2. f.err = "0" => f.at \in HostPlaces
    BY <1>2, <2>1, FoundTyped
  <2>6. o \in RemoveDir(s, f)
    BY <1>1, <1>9, <2>1 DEF Kernel
  <2>3. o.sys = s \/ (f.err = "0" /\ o.sys = Put(s, f.at, NoNode))
    BY <2>6 DEF RemoveDir, Fails, Outcome
  <2>4. NoNode \in Nodes /\ NoNode.to = <<>>
    BY DEF NoNode, Nodes
  <2>5. Formed(NoNode.to)
    BY <2>4 DEF Formed
  <2> QED
    BY <2>2, <2>3, <2>4, <2>5, PutProper
<1>10. CASE k.op \in OnFileOps
  <2>1. o \in OnFile(s, k, Found(s, w))
    BY <1>1, <1>10 DEF Kernel, OnFileOps
  <2> QED
    BY <1>0, <1>2, <1>10, <2>1, OnFileProper
<1> QED
  BY <1>0, <1>3, <1>4, <1>5, <1>6, <1>7, <1>8, <1>9, <1>10 DEF Ops

GuestTypeInv == Proper(sys)

LEMMA TypedAtFirst == Init => GuestTypeInv
<1> SUFFICES ASSUME Init PROVE Proper(sys)
  BY DEF GuestTypeInv
<1>1. PICK t \in HostTrees, d \in Starts : sys = [tree |-> t, cwd |-> d, fd |-> d, lib |-> <<>>]
  BY DEF Init
<1>2. t \in Trees /\ \A h \in HostPlaces : Formed(t[h].to)
  BY HostTyped
<1>3. d \in LabelSeqs /\ <<>> \in Texts
  BY GuestAssumption DEF LabelSeqs, Texts
<1>4. sys \in Systems /\ sys.tree = t
  BY <1>1, <1>2, <1>3 DEF Systems
<1> QED
  BY <1>2, <1>4 DEF Proper, Spelt

LEMMA TypedKept == GuestTypeInv /\ [Next]_vars => GuestTypeInv'
<1> SUFFICES ASSUME Proper(sys), [Next]_vars PROVE Proper(sys')
  BY DEF GuestTypeInv
<1>1. sys \in Systems
  BY DEF Proper
<1>2. Went
  BY <1>1, NextWent DEF vars, Went
<1>3. ASSUME NEW k, Ready(k), NEW o \in Kernel(sys, k), sys' = o.sys PROVE Proper(sys')
  BY <1>3, KernelProper DEF Ready
<1>4. ASSUME NEW x \in Texts, sys' = [sys EXCEPT !.lib = x] PROVE Proper(sys')
  <2>1. <<>> \in LabelSeqs
    BY DEF LabelSeqs
  <2> QED
    BY <1>4, <2>1, GoProper
<1> QED
  BY <1>2, <1>3, <1>4 DEF Went

-----------------------------------------------------------------------------
(* Nothing outside is changed.                                             *)

\* A host whose links inside the guest's tree lead inside, as hxconvert
\* leaves them, and without links on the way there.
PlainHost ==
  \A t \in HostTrees :
    /\ Inward(t) /\ Straight(t) /\ Grown(t)
    /\ \A d \in Starts : Inside(d) /\ At(t, d).kind = "dir"

Stands == Still(sys.tree)

GuestInv == "up" \notin strayed => Sound(sys)

LEMMA GuestAtFirst == ASSUME PlainHost PROVE Init => GuestInv
<1> SUFFICES ASSUME Init PROVE Sound(sys)
  BY DEF GuestInv
<1>1. PICK t \in HostTrees, d \in Starts : sys = [tree |-> t, cwd |-> d, fd |-> d, lib |-> <<>>]
  BY DEF Init
<1>2. t \in Trees /\ \A h \in HostPlaces : Formed(t[h].to)
  BY HostTyped
<1>3. d \in LabelSeqs /\ <<>> \in Texts
  BY GuestAssumption DEF LabelSeqs, Texts
<1>4. sys \in Systems /\ sys.tree = t /\ sys.cwd = d /\ sys.fd = d
  BY <1>1, <1>2, <1>3 DEF Systems
<1> QED
  BY <1>2, <1>4 DEF Sound, Spelt, PlainHost

\* A call of which it is not recorded that it went up did not.
LEMMA LevelCall ==
  ASSUME NEW k, "up" \notin Strays(k)
  PROVE  Level(sys, k)
<1> SUFFICES ASSUME NEW w \in LookUps(sys, k), NEW t \in w.took, t[1] \in Tops, t[2] = ".." PROVE FALSE
  BY DEF Level, WentUp
<1>1. t \in UNION {v.took : v \in LookUps(sys, k)}
  OBVIOUS
<1>2. \E u \in UNION {v.took : v \in LookUps(sys, k)} : u[1] \in Tops /\ u[2] = ".."
  BY <1>1
<1> QED
  BY <1>2 DEF Strays

LEMMA GuestKept ==
  ASSUME PlainBinds
  PROVE  GuestTypeInv /\ GuestInv /\ Stands /\ [Next]_vars =>
           GuestInv' /\ ("up" \notin strayed' => Kept(sys, sys'))
<1> SUFFICES ASSUME Proper(sys), GuestInv, Still(sys.tree), [Next]_vars, "up" \notin strayed'
             PROVE  Sound(sys') /\ Kept(sys, sys')
  BY DEF GuestInv, Stands, GuestTypeInv
<1>1. sys \in Systems
  BY DEF Proper
<1>2. Went
  BY <1>1, NextWent DEF vars, Went
<1>6. Sound(sys)
  BY <1>2 DEF Went, GuestInv
<1>3. CASE sys' = sys
  BY <1>3, <1>6, StayKeeps
<1>4. ASSUME NEW k, Ready(k), Strays(k) \subseteq strayed', NEW o \in Kernel(sys, k), sys' = o.sys
      PROVE  Sound(sys') /\ Kept(sys, sys')
  <2>1. Level(sys, k)
    BY <1>4, LevelCall
  <2> QED
    BY <1>4, <1>6, <2>1, KernelKeeps DEF Ready
<1>5. ASSUME NEW x \in Texts, sys' = [sys EXCEPT !.lib = x]
      PROVE  Sound(sys') /\ Kept(sys, sys')
  BY <1>5, <1>6, LoadKeeps
<1> QED
  BY <1>2, <1>3, <1>4, <1>5 DEF Went

\* A guest that never went up from its root or a bind changes nothing outside
\* them (Confined): whatever it calls with, on a host whose links inside the
\* guest's tree lead inside, as long as neither the root nor a bind is replaced
\* by a link.
THEOREM NothingOutsideChanges ==
  ASSUME PlainHost, PlainBinds
  PROVE  Spec /\ []Stands => Confined
<1>1. Init => GuestInv /\ GuestTypeInv
  BY GuestAtFirst, TypedAtFirst
<1>2. GuestTypeInv /\ GuestInv /\ Stands /\ [Next]_vars => GuestInv' /\ GuestTypeInv'
  BY GuestKept, TypedKept
<1>3. GuestTypeInv /\ GuestInv /\ Stands /\ [Next]_vars =>
        [\A h \in DOMAIN sys.tree :
           sys'.tree[h] # sys.tree[h] => IsPrefix(RootPlace, h) \/ Bound(h) \/ "up" \in strayed']_vars
  <2> SUFFICES ASSUME GuestTypeInv, GuestInv, Stands, [Next]_vars,
                      NEW h \in DOMAIN sys.tree, sys'.tree[h] # sys.tree[h], "up" \notin strayed'
               PROVE  IsPrefix(RootPlace, h) \/ Bound(h)
    OBVIOUS
  <2>1. Kept(sys, sys') /\ h \in HostPlaces
    BY GuestKept DEF GuestTypeInv, Proper, Systems, Trees
  <2> QED
    BY <2>1 DEF Kept, Inside, Tops, Bound
<1> QED
  BY <1>1, <1>2, <1>3, PTL DEF Spec, Confined

-----------------------------------------------------------------------------
(* readlink().                                                             *)

\* A walk does not depend on the rest of a call.
LEMMA SameWalk ==
  ASSUME NEW s, Proper(s), NEW k, NEW j, k.path \in Texts,
         j.path = k.path, j.at = k.at, j.follow = k.follow
  PROVE  Walk(s, j) = Walk(s, k)
<1>0. MaxSteps \in Nat /\ s.tree \in Trees
  BY GuestAssumption DEF Proper, Systems
<1>1. Begins(s, j) = Begins(s, k)
  BY DEF Begins
<1>2. Begins(s, k) \in Walks
  <2>1. MaxLinks \in Nat /\ <<>> \in LabelSeqs /\ Names(k.path) \in LabelSeqs
    BY GuestAssumption, NamesTyped DEF LabelSeqs
  <2> QED
    BY <2>1 DEF Begins, Walks, Proper, Systems
<1>3. PICK v : Walked(s, j, v) /\ Walk(s, j) = Ended(v[MaxSteps])
  BY <1>0, <1>1, <1>2, WalkIs
<1>4. PICK w : Walked(s, k, w) /\ Walk(s, k) = Ended(w[MaxSteps])
  BY <1>0, <1>2, WalkIs
<1> DEFINE S == {n \in Nat : n <= MaxSteps => v[n] = w[n]}
<1>5. 0 \in S
  BY <1>1, <1>3, <1>4 DEF Walked
<1>6. ASSUME NEW n \in Nat, n \in S PROVE n + 1 \in S
  <2> SUFFICES ASSUME n + 1 <= MaxSteps PROVE v[n + 1] = w[n + 1]
    OBVIOUS
  <2>1. n + 1 \in 1..MaxSteps /\ (n + 1) - 1 = n /\ v[n] = w[n]
    BY <1>0, <1>6
  <2>2. v[n + 1] = Step(s.tree, j.follow, v[n]) /\ w[n + 1] = Step(s.tree, k.follow, w[n])
    BY <1>3, <1>4, <2>1 DEF Walked
  <2> QED
    BY <2>1, <2>2
<1>7. \A n \in Nat : n \in S
  <2> HIDE DEF S
  <2> QED
    BY <1>5, <1>6, Induct
<1> QED
  BY <1>0, <1>3, <1>4, <1>7

\* What readlink() says of a link's target with room for n.
Cut(to, n) == SubSeq(to, 1, IF n < Len(to) THEN n ELSE Len(to))

\* The same call with another size.
Sized(k, n) == [k EXCEPT !.size = n]

\* A call is of no link, or of one target, whatever the size.
LEMMA ReadlinkIs ==
  ASSUME NEW s, Proper(s), NEW k, Asked(k), k.op = "readlink"
  PROVE  \/ \A n \in Int : \A o \in Kernel(s, Sized(k, n)) : o.ret.err # "0"
         \/ \E to \in Texts : Formed(to) /\ \A n \in Int :
              Kernel(s, Sized(k, n)) = IF n <= 0 THEN Fails(s, "EINVAL")
                                                ELSE {Outcome(s, "0", Cut(to, n))}
<1>1. PICK f : f = Found(s, Walk(s, k))
  OBVIOUS
<1>2. k.path \in Texts /\ DOMAIN k = {"op", "path", "at", "follow", "arg", "target", "size"}
  BY DEF Asked
<1>3. Walk(s, k) \in Walks
  BY <1>2, WalkTyped
<1>4. f.err = "0" => s.tree[f.at] \in Nodes /\ f.at \in HostPlaces
  BY <1>1, <1>3, FoundTyped
<1>5. PICK node : node = s.tree[f.at]
  OBVIOUS
<1>6. f.err = "0" => node.to \in Texts /\ Formed(node.to)
  BY <1>4, <1>5 DEF Nodes, Texts, Proper, Spelt
<1>7. ASSUME NEW n \in Int, NEW j, j = Sized(k, n)
      PROVE  /\ f.err # "0" => Kernel(s, j) = Fails(s, f.err)
             /\ f.err = "0" => Kernel(s, j) = IF node.kind # "link" \/ n <= 0 THEN Fails(s, "EINVAL")
                                             ELSE {Outcome(s, "0", Cut(node.to, n))}
  <2>1. /\ j.path = k.path /\ j.at = k.at /\ j.follow = k.follow
        /\ j.op = "readlink" /\ j.size = n
    BY <1>2, <1>7 DEF Sized
  <2>2. Walk(s, j) = Walk(s, k)
    BY <1>2, <2>1, SameWalk
  <2>3. Kernel(s, j) = OnFile(s, j, f)
    BY <1>1, <2>1, <2>2 DEF Kernel
  <2>4. ASSUME f.err # "0" PROVE OnFile(s, j, f) = Fails(s, f.err)
    BY <2>4 DEF OnFile
  <2>5. ASSUME f.err = "0"
        PROVE  OnFile(s, j, f) = IF node.kind # "link" \/ n <= 0 THEN Fails(s, "EINVAL")
                                 ELSE {Outcome(s, "0", Cut(node.to, n))}
    BY <1>5, <2>1, <2>5 DEF OnFile, Cut
  <2> QED
    BY <2>3, <2>4, <2>5
<1>8. CASE f.err # "0" \/ node.kind # "link"
  <2>1. ASSUME NEW n \in Int, NEW o \in Kernel(s, Sized(k, n)) PROVE o.ret.err # "0"
    <3>1. (o \in Fails(s, f.err) /\ f.err # "0") \/ o \in Fails(s, "EINVAL")
      BY <1>7, <1>8, <2>1
    <3> QED
      BY <3>1 DEF Fails, Outcome
  <2> QED
    BY <2>1
<1>9. CASE f.err = "0" /\ node.kind = "link"
  <2>1. ASSUME NEW n \in Int
        PROVE  Kernel(s, Sized(k, n)) = IF n <= 0 THEN Fails(s, "EINVAL")
                                                 ELSE {Outcome(s, "0", Cut(node.to, n))}
    BY <1>7, <1>9
  <2> QED
    BY <1>6, <1>9, <2>1
<1> QED
  BY <1>8, <1>9

\* With room for n, the first m tokens are read.
CutAt(to, n, m) ==
  /\ Cut(to, n) = SubSeq(to, 1, m) /\ SubSeq(to, 1, m) \in Texts
  /\ Len(SubSeq(to, 1, m)) = m /\ m <= n /\ (m = Len(to) \/ m = n)
  /\ \A i \in 1..m : SubSeq(to, 1, m)[i] = to[i]

LEMMA CutIs ==
  ASSUME NEW to \in Texts, NEW n \in Int, n > 0
  PROVE  \E m \in 0..Len(to) : CutAt(to, n, m)
<1>1. PICK m : m = IF n < Len(to) THEN n ELSE Len(to)
  OBVIOUS
<1>2. m \in 0..Len(to) /\ m <= n /\ (m = Len(to) \/ m = n)
  BY <1>1 DEF Texts
<1>3. \A i \in 1..m : to[i] \in Tokens
  BY <1>2 DEF Texts
<1>4. SubSeq(to, 1, m) \in Texts /\ Len(SubSeq(to, 1, m)) = m /\ \A i \in 1..m : SubSeq(to, 1, m)[i] = to[i]
  BY <1>2, <1>3, SubSeqProperties DEF Texts
<1> QED
  BY <1>1, <1>2, <1>4 DEF Cut, CutAt

LEMMA UnexpandShort ==
  ASSUME NEW p \in Texts PROVE Unexpand(p) \in Texts /\ Len(Unexpand(p)) <= Len(p)
<1>0. Root \in Texts /\ Root # <<>> /\ Len(Root) \in Nat /\ Len(p) \in Nat /\ Len(Root) > 0
  BY RootTyped, TranslateAssumption DEF Absolute, Texts
<1>1. CASE p = Root
  <2>1. Unexpand(p) = <<"/">> /\ Len(<<"/">>) = 1
    BY <1>1 DEF Unexpand
  <2> QED
    BY <1>0, <1>1, <2>1, UnexpandTyped
<1>2. CASE p # Root /\ IsPrefix(Root, p)
  <2>1. Unexpand(p) = SubSeq(p, Len(Root) + 1, Len(p))
    BY <1>2 DEF Unexpand
  <2>2. Len(SubSeq(p, Len(Root) + 1, Len(p))) <= Len(p)
    BY <1>0 DEF Texts
  <2> QED
    BY <2>1, <2>2, UnexpandTyped
<1>3. CASE p # Root /\ ~IsPrefix(Root, p)
  BY <1>0, <1>3 DEF Unexpand
<1> QED
  BY <1>1, <1>2, <1>3

\* The root ends in a name.
LEMMA RootEnds == Len(Root) \in Nat /\ Len(Root) > 0 /\ Root[Len(Root)] # "/"
<1>1. RootPlace \in LabelSeqs /\ RootPlace # <<>> /\ Root = Text(RootPlace)
  BY RootTyped, TranslateAssumption
<1>2. Len(RootPlace) \in Nat /\ Len(RootPlace) > 0 /\ RootPlace[Len(RootPlace)] \in Labels
  BY <1>1 DEF LabelSeqs
<1>3. Len(Root) = 2 * Len(RootPlace)
  BY <1>1, TextFormed
<1>4. PICK n : n = 2 * Len(RootPlace)
  OBVIOUS
<1>5. n \in 1..2 * Len(RootPlace) /\ n % 2 = 0 /\ n \div 2 = Len(RootPlace)
  BY <1>2, <1>4
<1>6. Root[n] = RootPlace[n \div 2]
  BY <1>1, <1>5 DEF Text
<1> QED
  BY <1>2, <1>3, <1>4, <1>5, <1>6 DEF Labels

\* The root is taken off the start of a text as it is off the whole.
LEMMA UnexpandStart ==
  ASSUME NEW to \in Texts, Formed(to),
         NEW n \in 0..Len(to), NEW m \in n..Len(to), n >= Len(Root) \/ n = m,
         NEW a \in Texts, Len(a) = n, \A i \in 1..n : a[i] = to[i],
         NEW b \in Texts, Len(b) = m, \A i \in 1..m : b[i] = to[i]
  PROVE  IsPrefix(Unexpand(a), Unexpand(b))
<1>1. Root \in Texts /\ Len(to) \in Nat /\ n \in Nat /\ m \in Nat /\ n <= m /\ m <= Len(to)
  BY RootTyped DEF Texts
<1>2. PICK L \in Nat : L = Len(Root) /\ L > 0 /\ Root[L] # "/"
  BY RootEnds
<1>3. ASSUME NEW x \in Texts PROVE IsPrefix(Root, x) <=> L <= Len(x) /\ \A i \in 1..L : Root[i] = x[i]
  BY <1>1, <1>2, PrefixItems DEF Texts
<1>4. IsPrefix(Root, a) <=> L <= n /\ \A i \in 1..L : Root[i] = to[i]
  BY <1>1, <1>2, <1>3
<1>5. IsPrefix(Root, b) <=> L <= m /\ \A i \in 1..L : Root[i] = to[i]
  BY <1>1, <1>2, <1>3
<1>6. Unexpand(a) \in Texts /\ Unexpand(b) \in Texts
  BY UnexpandShort
<1>7. CASE n = m
  <2>1. a = b
    BY <1>1, <1>7, SeqEqual DEF Texts
  <2> QED
    BY <2>1 DEF IsPrefix
<1>8. CASE n < m /\ ~IsPrefix(Root, a)
  <2>1. ~IsPrefix(Root, b)
    BY <1>1, <1>2, <1>4, <1>5, <1>8
  <2>2. a # Root /\ b # Root
    BY <1>8, <2>1 DEF IsPrefix
  <2>3. Unexpand(a) = a /\ Unexpand(b) = b
    BY <1>8, <2>1, <2>2 DEF Unexpand
  <2>4. IsPrefix(a, b)
    <3>1. IsPrefix(a, b) <=> Len(a) <= Len(b) /\ \A i \in 1..Len(a) : a[i] = b[i]
      BY PrefixItems DEF Texts
    <3> QED
      BY <1>1, <3>1
  <2> QED
    BY <2>3, <2>4
<1>9. CASE n < m /\ IsPrefix(Root, a)
  <2>1. IsPrefix(Root, b) /\ L <= n /\ \A i \in 1..L : Root[i] = to[i]
    BY <1>1, <1>4, <1>5, <1>9
  <2>2. b # Root
    BY <1>1, <1>2, <1>9, <2>1
  <2>3. PICK z : z = Unexpand(b)
    OBVIOUS
  <2>4. z \in Texts /\ Len(z) = m - L /\ \A i \in 1..m - L : z[i] = to[L + i]
    <3>1. z = SubSeq(b, L + 1, m)
      BY <1>2, <2>1, <2>2, <2>3 DEF Unexpand
    <3>2. Len(SubSeq(b, L + 1, m)) = m - L /\ \A i \in 1..m - L : SubSeq(b, L + 1, m)[i] = b[L + i]
      BY <1>1, <1>9, <2>1 DEF Texts
    <3>3. \A i \in 1..m - L : b[L + i] = to[L + i]
      BY <1>1, <1>2
    <3> QED
      BY <1>6, <2>3, <3>1, <3>2, <3>3
  <2>5. PICK y : y = Unexpand(a)
    OBVIOUS
  <2>6. y \in Texts /\ Len(y) <= Len(z) /\ \A i \in 1..Len(y) : y[i] = z[i]
    <3>1. CASE a = Root
      <4>1. y = <<"/">> /\ n = L
        BY <1>2, <2>5, <3>1 DEF Unexpand
      <4>2. "/" \in {to[L], to[L + 1]} /\ to[L] = Root[L]
        <5>1. L \in 1..Len(to) - 1 /\ L \in 1..L
          BY <1>1, <1>2, <1>9, <4>1
        <5> QED
          BY <2>1, <5>1 DEF Formed
      <4>3. z[1] = "/"
        BY <1>1, <1>2, <1>9, <2>4, <4>1, <4>2
      <4> QED
        BY <1>1, <1>6, <1>9, <2>4, <2>5, <4>1, <4>3
    <3>2. CASE a # Root
      <4>1. y = SubSeq(a, L + 1, n)
        BY <1>2, <1>9, <2>5, <3>2 DEF Unexpand
      <4>2. Len(SubSeq(a, L + 1, n)) = n - L /\ \A i \in 1..n - L : SubSeq(a, L + 1, n)[i] = a[L + i]
        BY <1>1, <1>2, <2>1 DEF Texts
      <4>3. \A i \in 1..n - L : a[L + i] = to[L + i]
        BY <1>1, <1>2
      <4>4. Len(y) = n - L /\ Len(y) <= Len(z) /\ \A i \in 1..n - L : y[i] = to[L + i]
        BY <1>1, <1>2, <1>9, <2>1, <2>4, <4>1, <4>2, <4>3
      <4>5. \A i \in 1..n - L : z[i] = to[L + i]
        BY <1>1, <1>2, <1>9, <2>4
      <4> QED
        BY <1>6, <2>5, <4>4, <4>5
    <3> QED
      BY <3>1, <3>2
  <2>7. IsPrefix(y, z) <=> Len(y) <= Len(z) /\ \A i \in 1..Len(y) : y[i] = z[i]
    BY <2>4, <2>6, PrefixItems DEF Texts
  <2> QED
    BY <2>3, <2>5, <2>6, <2>7
<1> QED
  BY <1>1, <1>7, <1>8, <1>9

LEMMA OneOpSaid ==
  ASSUME NEW op \in Ops \ {"readlink"}
  PROVE  /\ Simple(Of(op)) => last'.call.op # "readlink"
         /\ \A arg : Simple(With(op, arg)) => last'.call.op # "readlink"
         /\ \A c \in Of(op) : \A s, err, val, ways : Reply(c, s, err, val, ways) => last'.call.op # "readlink"
<1>1. ASSUME NEW c \in CallsFor({op}), NEW s, NEW err, NEW val, NEW ways, Reply(c, s, err, val, ways)
      PROVE  last'.call.op # "readlink"
  BY <1>1 DEF CallsFor, Reply
<1>2. ASSUME NEW C \in SUBSET CallsFor({op}), Simple(C) PROVE last'.call.op # "readlink"
  BY <1>1, <1>2 DEF Simple, Pass
<1> QED
  BY <1>1, <1>2, OfCalls

LEMMA NextSaid == Next => Readlink \/ last'.call.op # "readlink"
<1>0. {"look", "read", "stat", "mark", "connect", "realpath", "load", "scandir",
       "make", "write", "temp", "glob", "chdir", "opendir", "rmdir", "symlink", "getcwd", "dladdr"}
        \subseteq Ops \ {"readlink"}
  BY DEF Ops, OnFileOps
<1>1. ASSUME Access \/ Statvfs \/ Setmntent \/ Freopen \/ Creat \/ Chmod \/ Utime \/ Xattr \/ Attr
      PROVE  last'.call.op # "readlink"
  BY <1>0, <1>1, OneOpSaid DEF Access, Statvfs, Setmntent, Freopen, Creat, Chmod, Utime, Xattr, Attr
<1>2. ASSUME Mkdir \/ Mkfifo \/ Rmdir \/ Opendir \/ Scandir \/ Chdir \/ Dlopen
      PROVE  last'.call.op # "readlink"
  BY <1>0, <1>2, OneOpSaid DEF Mkdir, Mkfifo, Rmdir, Opendir, Scandir, Chdir, Dlopen
<1>3. ASSUME Stat \/ Mktemp \/ Realpath \/ Getcwd \/ Glob \/ Wordexp
      PROVE  last'.call.op # "readlink"
  <2>1. PICK op \in {"stat", "temp", "realpath", "getcwd", "glob"} :
          \E c \in Of(op) : \E s, err, val, ways : Reply(c, s, err, val, ways)
    BY <1>3 DEF Stat, Mktemp, Realpath, Getcwd, Glob, Wordexp, Change
  <2> QED
    BY <1>0, <2>1, OneOpSaid
<1>4. ASSUME Fopen PROVE last'.call.op # "readlink"
  <2>1. Simple(Of("write")) \/ \E c \in Of("read") : \E s, err, val, ways : Reply(c, s, err, val, ways)
    BY <1>4 DEF Fopen, Pass
  <2> QED
    BY <1>0, <2>1, OneOpSaid
<1>5. ASSUME Chown \/ Bind \/ Connect PROVE last'.call.op # "readlink"
  <2>1. PICK op \in {"mark", "make", "connect"} :
          \E c \in Of(op) : \E s, err, val, ways : Reply(c, s, err, val, ways)
    BY <1>5 DEF Chown, Bind, Connect, ToSocket, Pass, With
  <2> QED
    BY <1>0, <2>1, OneOpSaid
<1>6. ASSUME Symlink PROVE last'.call.op # "readlink"
  <2>1. PICK c \in Of("symlink") : \E s, err, val, ways : Reply(c, s, err, val, ways)
    BY <1>6 DEF Symlink, Pass
  <2> QED
    BY <1>0, <2>1, OneOpSaid
<1>7. ASSUME Dladdr PROVE last'.call.op # "readlink"
  <2>1. PICK c \in Of("dladdr") : \E s, err, val, ways : Reply(c, s, err, val, ways)
    BY <1>7 DEF Dladdr
  <2> QED
    BY <1>0, <2>1, OneOpSaid
<1> QED
  BY <1>1, <1>2, <1>3, <1>4, <1>5, <1>6, <1>7 DEF Next

Told(s, c, err, val) ==
  err = "0" =>
    /\ Len(val) <= c.size
    /\ ~FakedExe(c) /\ c.size > Len(Root) =>
         \A more \in {0, 1, 2, 100} :
           \E o \in Kernel(s, [Expanded(c) EXCEPT !.size = @ + more]) :
             IsPrefix(val, Unexpand(o.ret.val))

\* The faked name of the program.
LEMMA ExeTold ==
  ASSUME NEW n \in Nat
  PROVE  Len(SubSeq(Append(Exe, "NUL"), 1, IF n > Len(Exe) + 1 THEN Len(Exe) + 1 ELSE n)) <= n
<1>1. PICK t, m : t = Append(Exe, "NUL") /\ m = IF n > Len(Exe) + 1 THEN Len(Exe) + 1 ELSE n
  OBVIOUS
<1>2. Exe \in Seq(Tokens \cup {"NUL"})
  BY GuestAssumption
<1>3. t \in Seq(Tokens \cup {"NUL"}) /\ Len(t) = Len(Exe) + 1 /\ Len(Exe) \in Nat
  BY <1>1, <1>2
<1>4. m \in 0..Len(t) /\ m <= n
  BY <1>1, <1>3
<1>5. Len(SubSeq(t, 1, m)) = m
  BY <1>3, <1>4
<1> QED
  BY <1>1, <1>4, <1>5

LEMMA LinkTold ==
  ASSUME NEW s, Proper(s), NEW c \in Calls, c.op = "readlink",
         NEW o \in Kernel(s, [Expanded(c) EXCEPT !.size = @ - 1])
  PROVE  Told(s, c, o.ret.err, IF o.ret.err = "0" THEN Unexpand(o.ret.val) ELSE o.ret.val)
<1> SUFFICES ASSUME o.ret.err = "0" PROVE Told(s, c, "0", Unexpand(o.ret.val))
  BY DEF Told
<1>1. PICK e : e = Expanded(c)
  OBVIOUS
<1>2. Asked(e)
  <2>1. c.op \in Ops \ {"symlink"}
    BY DEF Ops, OnFileOps
  <2> QED
    BY <1>1, <2>1, SimpleSent DEF Ready
<1>3. c.size \in Nat /\ e.op = "readlink" /\ e.size = c.size
      /\ DOMAIN e = {"op", "path", "at", "follow", "arg", "target", "size"}
  <2>1. c \in [op : STRING, path : Texts, at : {"cwd", "fd"}, follow : BOOLEAN,
               arg : STRING, target : Texts, size : Nat]
    BY CallTyped
  <2> QED
    BY <1>1, <2>1 DEF Expanded
<1>4. \A d \in Int : [e EXCEPT !.size = @ + d] = Sized(e, c.size + d)
  BY <1>3 DEF Sized
<1>5. [e EXCEPT !.size = @ - 1] = Sized(e, c.size - 1)
  BY <1>3 DEF Sized
<1>6. o \in Kernel(s, Sized(e, c.size - 1)) /\ c.size - 1 \in Int
  BY <1>1, <1>3, <1>5
<1>7. PICK to \in Texts : Formed(to) /\ \A n \in Int :
        Kernel(s, Sized(e, n)) = IF n <= 0 THEN Fails(s, "EINVAL")
                                          ELSE {Outcome(s, "0", Cut(to, n))}
  <2>1. \/ \A n \in Int : \A u \in Kernel(s, Sized(e, n)) : u.ret.err # "0"
        \/ \E to \in Texts : Formed(to) /\ \A n \in Int :
             Kernel(s, Sized(e, n)) = IF n <= 0 THEN Fails(s, "EINVAL")
                                               ELSE {Outcome(s, "0", Cut(to, n))}
    BY <1>2, <1>3, ReadlinkIs
  <2> QED
    BY <1>6, <2>1
<1>8. c.size - 1 > 0 /\ o.ret.val = Cut(to, c.size - 1)
  <2>1. CASE c.size - 1 <= 0
    <3>1. o \in Fails(s, "EINVAL")
      BY <1>6, <1>7, <2>1
    <3> QED
      BY <3>1 DEF Fails, Outcome
  <2>2. CASE ~(c.size - 1 <= 0)
    <3>1. o \in {Outcome(s, "0", Cut(to, c.size - 1))}
      BY <1>6, <1>7, <2>2
    <3> QED
      BY <1>3, <2>2, <3>1 DEF Outcome
  <2> QED
    BY <2>1, <2>2
<1>9. PICK n \in 0..Len(to) : CutAt(to, c.size - 1, n)
  BY <1>6, <1>8, CutIs
<1>a. n <= c.size - 1 /\ (n = Len(to) \/ n = c.size - 1)
  BY <1>9 DEF CutAt
<1>10. PICK a \in Texts : a = o.ret.val /\ Len(a) = n /\ \A i \in 1..n : a[i] = to[i]
  BY <1>8, <1>9 DEF CutAt
<1>11. Len(to) \in Nat /\ Len(Root) \in Nat
  BY RootEnds DEF Texts
<1>12. Len(Unexpand(a)) <= c.size
  <2>1. Len(Unexpand(a)) <= n /\ Len(Unexpand(a)) \in Nat
    BY <1>10, UnexpandShort DEF Texts
  <2> QED
    BY <1>3, <1>a, <1>11, <2>1
<1>13. ASSUME c.size > Len(Root), NEW more \in {0, 1, 2, 100}
       PROVE  \E u \in Kernel(s, [e EXCEPT !.size = @ + more]) : IsPrefix(Unexpand(a), Unexpand(u.ret.val))
  <2>1. c.size + more \in Int /\ c.size + more > 0 /\ more \in Int /\ more >= 0
    BY <1>3, <1>8, <1>13, SMTT(40)
  <2>0. PICK q \in Int : q = c.size + more /\ q > 0
    BY <2>1
  <2>2. PICK m \in 0..Len(to) : CutAt(to, q, m)
    BY <2>0, CutIs
  <2>3. PICK b \in Texts : b = Cut(to, q) /\ Len(b) = m /\ \A i \in 1..m : b[i] = to[i]
    BY <2>2 DEF CutAt
  <2>4. m \in n..Len(to) /\ (n >= Len(Root) \/ n = m)
    <3>1. m = Len(to) \/ m = q
      BY <2>2 DEF CutAt
    <3>2. n <= Len(to) /\ n < q /\ n \in Nat /\ m \in Nat /\ m <= Len(to)
      BY <1>3, <1>a, <1>11, <2>0, <2>1
    <3>3. m \in n..Len(to)
      BY <1>11, <3>1, <3>2
    <3> QED
      BY <1>3, <1>a, <1>11, <1>13, <3>2, <3>3
  <2>5. IsPrefix(Unexpand(a), Unexpand(b))
    BY <1>7, <1>10, <2>3, <2>4, UnexpandStart
  <2>6. Kernel(s, Sized(e, q)) = {Outcome(s, "0", Cut(to, q))}
    <3>1. ~(q <= 0)
      BY <1>3, <2>0
    <3> QED
      BY <1>7, <2>0, <3>1
  <2>7. Outcome(s, "0", b).ret.val = b
    BY DEF Outcome
  <2>8. [e EXCEPT !.size = @ + more] = Sized(e, q)
    BY <1>4, <2>0, <2>1
  <2> QED
    BY <2>3, <2>5, <2>6, <2>7, <2>8
<1> QED
  BY <1>1, <1>10, <1>12, <1>13 DEF Told

LEMMA ReadlinkSays == ASSUME GuestTypeInv, [Next]_vars, ReadlinkStart PROVE ReadlinkStart'
<1>0. Proper(sys)
  BY DEF GuestTypeInv
<1>1. CASE UNCHANGED vars
  <2>1. sys' = sys /\ last' = last
    BY <1>1 DEF vars
  <2> QED
    BY <2>1 DEF ReadlinkStart, NoCall
<1>2. CASE Next /\ last'.call.op # "readlink"
  BY <1>2 DEF ReadlinkStart
<1>3. CASE Readlink
  <2>1. PICK c \in Of("readlink") :
          IF FakedExe(c)
          THEN Reply(c, sys, "0", SubSeq(Append(Exe, "NUL"), 1,
                                         IF c.size > Len(Exe) + 1 THEN Len(Exe) + 1 ELSE c.size), {})
          ELSE Change(c, [Expanded(c) EXCEPT !.size = @ - 1], Unexpand)
    BY <1>3 DEF Readlink
  <2>2. c \in Calls /\ c.op = "readlink"
    BY OfCalls DEF CallsFor
  <2>3. c.size \in Nat
    BY <2>2, CallTyped
  <2>4. ASSUME NEW s, NEW err, NEW val, NEW ways, Reply(c, s, err, val, ways), Told(s, c, err, val)
        PROVE  ReadlinkStart'
    <3>1. sys' = s /\ last'.call = c /\ last'.ret.err = err /\ last'.ret.val = val
      BY <2>4 DEF Reply
    <3> QED
      BY <2>4, <3>1 DEF ReadlinkStart, Told
  <2>5. CASE FakedExe(c)
    <3>1. PICK val : Reply(c, sys, "0", val, {}) /\ Len(val) <= c.size
      BY <2>1, <2>3, <2>5, ExeTold
    <3>2. Told(sys, c, "0", val)
      BY <2>5, <3>1 DEF Told
    <3> QED
      BY <2>4, <3>1, <3>2
  <2>6. CASE ~FakedExe(c)
    <3>1. PICK o \in Kernel(sys, [Expanded(c) EXCEPT !.size = @ - 1]) :
            Reply(c, o.sys, o.ret.err, IF o.ret.err = "0" THEN Unexpand(o.ret.val) ELSE o.ret.val,
                  Strays([Expanded(c) EXCEPT !.size = @ - 1]))
      BY <2>1, <2>6 DEF Change
    <3>2. Told(sys, c, o.ret.err, IF o.ret.err = "0" THEN Unexpand(o.ret.val) ELSE o.ret.val)
      BY <1>0, <2>2, LinkTold
    <3>3. o.sys = sys
      <4>1. PICK k : k = [Expanded(c) EXCEPT !.size = @ - 1]
        OBVIOUS
      <4>2. k.op = "readlink"
        <5>1. c \in [op : STRING, path : Texts, at : {"cwd", "fd"}, follow : BOOLEAN,
                     arg : STRING, target : Texts, size : Nat]
          BY <2>2, CallTyped
        <5> QED
          BY <2>2, <4>1, <5>1 DEF Expanded
      <4>3. o \in OnFile(sys, k, Found(sys, Walk(sys, k)))
        BY <4>1, <4>2 DEF Kernel
      <4> QED
        BY <4>2, <4>3 DEF OnFile, Fails, Outcome
    <3> QED
      BY <2>4, <3>1, <3>2, <3>3
  <2> QED
    BY <2>5, <2>6
<1> QED
  BY <1>1, <1>2, <1>3, NextSaid

\* What readlink() returns is never more than the buffer holds, and is the
\* start of the guest's target, however little of the host's was read.
THEOREM ReadlinkNeverMisleads == Spec => []ReadlinkStart
<1>1. Init => GuestTypeInv
  BY TypedAtFirst
<1>2. GuestTypeInv /\ [Next]_vars => GuestTypeInv'
  BY TypedKept
<1>3. Init => ReadlinkStart
  BY DEF Init, ReadlinkStart
<1>4. GuestTypeInv /\ ReadlinkStart /\ [Next]_vars => ReadlinkStart'
  BY ReadlinkSays
<1> QED
  BY <1>1, <1>2, <1>3, <1>4, PTL DEF Spec

-----------------------------------------------------------------------------
(* The text of a place leads back to it.                                   *)

\* What the lemmas about paths say of the translations of this root and binds.
LEMMA OfPaths ==
  /\ Root = Stem(RootPlace) /\ RootPlace # <<>>
  /\ \A p : Expand(p) = PutUnder(Root, Binds, p) /\ Unexpand(p) = TakenOff(Root, p)
  /\ \A d : Bound(d) <=> Covered(Binds, d)
  /\ PlainBinds => StemBinds(Binds)
<1>1. Root = Stem(RootPlace) /\ RootPlace # <<>>
  BY TranslateAssumption DEF Stem
<1>2. ASSUME PlainBinds, NEW b \in Binds PROVE b \in Texts /\ Names(b) # <<>> /\ b = Stem(Names(b))
  BY <1>2, TranslateAssumption, RootTyped DEF Stem, PlainBinds
<1>3. \A p : Expand(p) = PutUnder(Root, Binds, p) /\ Unexpand(p) = TakenOff(Root, p)
  BY DEF Expand, ShouldExpand, PutUnder, Free, Unexpand, TakenOff
<1> QED
  BY <1>1, <1>2, <1>3 DEF StemBinds, Bound, Covered

\* A path that getcwd() returns is expanded to one that leads back.
LEMMA TextBack ==
  ASSUME PlainBinds, NEW d \in LabelSeqs, Inside(d), ~Hidden(d)
  PROVE  LET path == Expand(Unexpand(Text(d))) IN path \in Texts /\ Absolute(path) /\ Names(path) = d
<1>1. RootPlace \in LabelSeqs /\ RootPlace # <<>> /\ Root = Stem(RootPlace) /\ StemBinds(Binds)
  BY RootTyped, OfPaths
<1>2. d # <<>>
  <2>1. PICK P \in Tops : IsPrefix(P, d)
    BY DEF Inside
  <2>2. P \in LabelSeqs /\ P # <<>>
    BY <1>1, <2>1, TopsTyped DEF Tops, PlainBinds
  <2>3. Len(P) <= Len(d) /\ Len(P) \in Nat /\ Len(P) > 0
    BY <2>1, <2>2, PrefixItems DEF LabelSeqs
  <2> QED
    BY <2>3
<1>3. PICK q \in LabelSeqs : IsPrefix(RootPlace, d) => d = RootPlace \o q /\ ~Covered(Binds, q)
  <2>1. CASE IsPrefix(RootPlace, d)
    <3>1. PICK q \in LabelSeqs : d = RootPlace \o q
      BY <1>1, <2>1, PrefixRest DEF LabelSeqs
    <3>2. GuestOf(d) = q
      BY <1>1, <2>1, <3>1, RestOfConcat DEF GuestOf, LabelSeqs
    <3> QED
      BY <2>1, <3>1, <3>2, OfPaths DEF Hidden
  <2>2. CASE ~IsPrefix(RootPlace, d)
    BY <2>2
  <2> QED
    BY <2>1, <2>2
<1>4. ~IsPrefix(RootPlace, d) => Covered(Binds, d)
  BY OfPaths DEF Inside, Tops, Bound
<1>5. TextLeads(Root, Binds, d)
  BY <1>1, <1>2, <1>3, <1>4, TextReturns
<1> QED
  BY <1>5, OfPaths DEF TextLeads

-----------------------------------------------------------------------------
(* A walk to a directory that is there, down directories.                  *)

\* The next name of what is left of a way.
Onward(at, rest, next, more) ==
  /\ next = Append(at, Head(rest)) /\ more = Tail(rest) /\ next \o more = at \o rest
  /\ Front(next) = at /\ next # <<>>

Shorter(p, q) == Len(p) \in Nat /\ Len(q) \in Nat /\ Len(q) = Len(p) + 1

LEMMA NextPlace ==
  ASSUME NEW at \in LabelSeqs, NEW rest \in LabelSeqs, rest # <<>>
  PROVE  \E next \in LabelSeqs, more \in LabelSeqs :
           Onward(at, rest, next, more) /\ Shorter(more, rest) /\ Shorter(at, next)
<1>1. PICK next, more : next = Append(at, Head(rest)) /\ more = Tail(rest)
  OBVIOUS
<1>2. Head(rest) \in Labels /\ more \in LabelSeqs /\ next \in LabelSeqs /\ next \o more = at \o rest
  BY <1>1, NextName DEF LabelSeqs
<1>3. Shorter(more, rest)
  BY <1>1 DEF LabelSeqs, Shorter
<1>4. Shorter(at, next) /\ next # <<>>
  BY <1>1, <1>2 DEF LabelSeqs, Shorter
<1>5. Front(next) = at
  BY <1>1, <1>2, FrontOfAppend DEF LabelSeqs
<1> QED
  BY <1>1, <1>2, <1>3, <1>4, <1>5 DEF Onward

LEMMA WaysAreDirs ==
  ASSUME NEW tree \in Trees, Grown(tree), NEW d \in LabelSeqs, At(tree, d).kind = "dir"
  PROVE  \A p \in LabelSeqs : IsPrefix(p, d) => At(tree, p).kind = "dir"
<1> DEFINE S == {n \in Nat : \A p \in LabelSeqs : IsPrefix(p, d) /\ Len(d) = Len(p) + n => At(tree, p).kind = "dir"}
<1>1. 0 \in S
  <2> SUFFICES ASSUME NEW p \in LabelSeqs, IsPrefix(p, d), Len(d) = Len(p) PROVE At(tree, p).kind = "dir"
    BY DEF LabelSeqs
  <2>1. p = d
    <3>1. \A i \in 1..Len(p) : p[i] = d[i]
      BY PrefixItems DEF LabelSeqs
    <3> QED
      BY <3>1, SeqEqual DEF LabelSeqs
  <2> QED
    BY <2>1
<1>2. ASSUME NEW n \in Nat, n \in S PROVE n + 1 \in S
  <2>0. n + 1 \in Nat
    BY <1>2
  <2> SUFFICES ASSUME NEW p \in LabelSeqs, IsPrefix(p, d), Len(d) = Len(p) + (n + 1)
               PROVE  At(tree, p).kind = "dir"
    BY <2>0, ZenonT(40)
  <2>1. PICK r \in LabelSeqs : d = p \o r
    BY PrefixRest, ZenonT(30) DEF LabelSeqs
  <2>2. r # <<>>
    <3>1. Len(p \o r) = Len(p) + Len(r) /\ Len(p) \in Nat
      BY <2>1 DEF LabelSeqs
    <3> QED
      BY <2>1, <3>1
  <2>3. PICK q \in LabelSeqs, more \in LabelSeqs :
          Onward(p, r, q, more) /\ Shorter(more, r) /\ Shorter(p, q)
    BY <2>2, NextPlace
  <2>4. q # <<>> /\ Front(q) = p /\ q \o more = d
    BY <2>1, <2>3 DEF Onward
  <2>5. IsPrefix(q, d)
    BY <2>4, PrefixOfConcat DEF LabelSeqs
  <2>8. Len(d) = Len(q) + n
    BY <2>3 DEF Shorter
  <2>6. At(tree, q).kind = "dir"
    BY <1>2, <2>5, <2>8
  <2>7. q \in HostPlaces /\ tree[q].kind # "none"
    BY <2>6 DEF At, NoNode, Trees
  <2> QED
    BY <2>4, <2>7 DEF Grown
<1>3. \A n \in Nat : n \in S
  <2> HIDE DEF S
  <2> QED
    BY <1>1, <1>2, Induct
<1> SUFFICES ASSUME NEW p \in LabelSeqs, IsPrefix(p, d) PROVE At(tree, p).kind = "dir"
  OBVIOUS
<1>4. PICK n \in Nat : Len(d) = Len(p) + n
  <2>1. Len(p) <= Len(d) /\ Len(p) \in Nat /\ Len(d) \in Nat
    BY PrefixItems DEF LabelSeqs
  <2>2. Len(d) - Len(p) \in Nat /\ Len(d) = Len(p) + (Len(d) - Len(p))
    BY <2>1
  <2> QED
    BY <2>2
<1> QED
  BY <1>3, <1>4

\* How far a walk to d is after n steps.
OnRoad(d, n, w) ==
  w.err = "0" /\ w.at \o w.rest = d /\ (w.rest = <<>> \/ Len(w.rest) + n <= Len(d))

LEMMA StepOnRoad ==
  ASSUME NEW tree \in Trees, Grown(tree), NEW d \in LabelSeqs, At(tree, d).kind = "dir", Undotted(d),
         NEW n \in Nat, NEW w \in Walks, OnRoad(d, n, w)
  PROVE  OnRoad(d, n + 1, Step(tree, TRUE, w))
<1>1. CASE w.rest = <<>>
  BY <1>1 DEF Step, OnRoad
<1>2. CASE w.rest # <<>>
  <2>0. w.at \in LabelSeqs /\ w.rest \in LabelSeqs
    BY DEF Walks
  <2>1. PICK next \in LabelSeqs, more \in LabelSeqs :
          Onward(w.at, w.rest, next, more) /\ Shorter(more, w.rest) /\ Shorter(w.at, next)
    BY <1>2, <2>0, NextPlace
  <2>2. next = Append(w.at, Head(w.rest)) /\ more = Tail(w.rest) /\ next \o more = d
    BY <2>1 DEF Onward, OnRoad
  <2>3. IsPrefix(next, d) /\ IsPrefix(w.at, d)
    BY <2>0, <2>2, PrefixOfConcat DEF LabelSeqs, OnRoad
  <2>4. At(tree, next).kind = "dir" /\ At(tree, w.at).kind = "dir"
    BY <2>0, <2>3, WaysAreDirs
  <2>a. PICK x : x = Head(w.rest)
    OBVIOUS
  <2>b. x \in Labels /\ x \notin Dots
    <3>1. x \in Labels
      BY <1>2, <2>0, <2>a DEF LabelSeqs
    <3>2. Len(next) \in 1..Len(next) /\ next[Len(next)] = x
      BY <2>0, <2>1, <2>2, <2>a, <3>1 DEF LabelSeqs, Shorter
    <3>3. Len(next) \in DOMAIN d /\ d[Len(next)] = x
      <4>1. Len(next) <= Len(d) /\ \A i \in 1..Len(next) : next[i] = d[i]
        BY <2>3, PrefixItems DEF LabelSeqs
      <4> QED
        BY <3>2, <4>1 DEF LabelSeqs
    <3> QED
      BY <3>1, <3>3 DEF Undotted
  <2>c. Into(w.at, x) = next
    BY <2>0, <2>2, <2>a, <2>b, IntoIs
  <2>5. Step(tree, TRUE, w) = [w EXCEPT !.at = next, !.rest = more, !.took = w.took \cup {<<w.at, x>>}]
    BY <1>2, <2>2, <2>4, <2>a, <2>c DEF Step, OnRoad
  <2>7. Len(more) + (n + 1) <= Len(d)
    <3>1. Len(w.rest) + n <= Len(d)
      BY <1>2 DEF OnRoad
    <3>2. Len(d) \in Nat
      BY DEF LabelSeqs
    <3> QED
      BY <2>1, <3>1, <3>2 DEF Shorter
  <2>8. PICK v : v = Step(tree, TRUE, w)
    OBVIOUS
  <2>9. v.err = "0" /\ v.at = next /\ v.rest = more
    BY <2>5, <2>8 DEF Walks, OnRoad
  <2> QED
    BY <2>2, <2>7, <2>8, <2>9 DEF OnRoad
<1> QED
  BY <1>1, <1>2

LEMMA WalkGetsThere ==
  ASSUME NEW s, Proper(s), Grown(s.tree), NEW d \in LabelSeqs, At(s.tree, d).kind = "dir",
         Len(d) <= MaxSteps, Undotted(d),
         NEW k, k.path \in Texts, Absolute(k.path), Names(k.path) = d, k.follow = TRUE
  PROVE  Walk(s, k).err = "0" /\ Walk(s, k).at = d
<1>1. s.tree \in Trees /\ MaxLinks \in Nat /\ MaxSteps \in Nat /\ <<>> \in LabelSeqs
  BY GuestAssumption DEF Proper, Systems, LabelSeqs
<1>2. PICK b : b = Begins(s, k)
  OBVIOUS
<1>3. b = [at |-> <<>>, rest |-> d, left |-> MaxLinks, took |-> {}, err |-> "0"]
  BY <1>2 DEF Begins, Absolute
<1>4. b \in Walks
  BY <1>1, <1>3 DEF Walks
<1>5. OnRoad(d, 0, b)
  <2>1. <<>> \o d = d /\ Len(d) \in Nat
    BY DEF LabelSeqs
  <2> QED
    BY <1>3, <2>1 DEF OnRoad
<1>6. PICK walk : Walked(s, k, walk) /\ Walk(s, k) = Ended(walk[MaxSteps])
  BY <1>1, <1>2, <1>4, WalkIs
<1> DEFINE S == {n \in Nat : n <= MaxSteps => OnRoad(d, n, walk[n])}
<1>7. 0 \in S
  BY <1>2, <1>5, <1>6 DEF Walked
<1>8. ASSUME NEW n \in Nat, n \in S PROVE n + 1 \in S
  <2> SUFFICES ASSUME n + 1 <= MaxSteps PROVE OnRoad(d, n + 1, walk[n + 1])
    OBVIOUS
  <2>1. n + 1 \in 1..MaxSteps /\ (n + 1) - 1 = n /\ n \in 0..MaxSteps /\ OnRoad(d, n, walk[n])
    BY <1>1, <1>8
  <2>2. walk[n + 1] = Step(s.tree, TRUE, walk[n]) /\ walk[n] \in Walks
    BY <1>6, <2>1 DEF Walked
  <2> QED
    BY <1>1, <2>1, <2>2, StepOnRoad
<1>9. \A n \in Nat : n \in S
  <2> HIDE DEF S
  <2> QED
    BY <1>7, <1>8, Induct
<1>10. PICK w \in Walks : w = walk[MaxSteps] /\ OnRoad(d, MaxSteps, w)
  <2>1. walk[MaxSteps] \in Walks
    BY <1>1, <1>6 DEF Walked
  <2>2. OnRoad(d, MaxSteps, walk[MaxSteps])
    BY <1>1, <1>9
  <2> QED
    BY <2>1, <2>2
<1>11. w.rest = <<>>
  <2>1. w.rest \in LabelSeqs
    BY DEF Walks
  <2>2. Len(w.rest) \in Nat /\ Len(d) \in Nat /\ (Len(w.rest) = 0 => w.rest = <<>>)
    BY <2>1 DEF LabelSeqs
  <2> QED
    BY <1>1, <1>10, <2>2 DEF OnRoad
<1>12. w.at = d /\ w.err = "0"
  BY <1>10, <1>11 DEF OnRoad, Walks, LabelSeqs
<1> QED
  BY <1>6, <1>10, <1>11, <1>12 DEF Ended

-----------------------------------------------------------------------------
(* The working directory has a name.                                       *)

\* Every place is reached in as many steps as PATH_MAX has room for.
PathsFit == \A h \in HostPlaces : Len(h) <= MaxSteps

LEMMA GuestNames ==
  ASSUME PlainBinds, PathsFit
  PROVE  GuestInv => CwdNameable
<1> SUFFICES ASSUME "up" \notin strayed => Sound(sys) PROVE CwdNameable
  BY DEF GuestInv
<1>1. ASSUME "up" \notin strayed, NEW d \in {sys.cwd, sys.fd}, NEW path, path = Expand(Unexpand(Text(d))),
             NEW w, w = Walk(sys, [path |-> path, at |-> "cwd", follow |-> TRUE])
      PROVE  At(sys.tree, d).kind = "dir" /\ (Hidden(d) \/ (w.err = "0" /\ w.at = d))
  <2>1. /\ d \in LabelSeqs /\ Inside(d) /\ At(sys.tree, d).kind = "dir"
        /\ sys.tree \in Trees /\ Grown(sys.tree) /\ Proper(sys)
    BY <1>1 DEF Sound, Systems, Proper
  <2>2. d \in HostPlaces
    BY <2>1 DEF At, NoNode, Trees
  <2>3. ASSUME ~Hidden(d) PROVE path \in Texts /\ Absolute(path) /\ Names(path) = d
    BY <1>1, <2>1, <2>3, TextBack
  <2>4. PICK k : k = [path |-> path, at |-> "cwd", follow |-> TRUE]
    OBVIOUS
  <2>5. k.path = path /\ k.follow = TRUE
    BY <2>4
  <2>6. Len(d) <= MaxSteps /\ Undotted(d)
    BY <2>2, HostTyped DEF PathsFit
  <2>7. ASSUME ~Hidden(d) PROVE Walk(sys, k).err = "0" /\ Walk(sys, k).at = d
    BY <2>1, <2>3, <2>5, <2>6, <2>7, WalkGetsThere
  <2> QED
    BY <1>1, <2>1, <2>4, <2>7
<1> QED
  BY <1>1 DEF CwdNameable

\* The directory the guest is in exists, and unless a bind hides it its name
\* leads the guest back to it (CwdNameable), as long as the guest never went up
\* from its root or a bind.
THEOREM CwdHasItsName ==
  ASSUME PlainHost, PlainBinds, PathsFit
  PROVE  Spec /\ []Stands => []CwdNameable
<1>1. Init => GuestInv /\ GuestTypeInv
  BY GuestAtFirst, TypedAtFirst
<1>2. GuestTypeInv /\ GuestInv /\ Stands /\ [Next]_vars => GuestInv' /\ GuestTypeInv'
  BY GuestKept, TypedKept
<1>3. GuestInv => CwdNameable
  BY GuestNames
<1> QED
  BY <1>1, <1>2, <1>3, PTL DEF Spec
=============================================================================
