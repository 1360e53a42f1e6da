------------------------------- MODULE Lemmas -------------------------------
(***************************************************************************)
(* What several of the proofs need: induction over the naturals, prefixes  *)
(* of sequences, and the names in a path and the text that names make.     *)
(*                                                                         *)
(* The induction theorems range over sets of naturals.  (Those of the      *)
(* library range over an operator; a set is a value, which every prover    *)
(* can instantiate.)                                                       *)
(***************************************************************************)
EXTENDS Paths, SequenceTheorems, WellFoundedInduction, TLAPS


\* A non-empty set of naturals has a least element.
LEMMA LeastElement ==
  ASSUME NEW T, T \subseteq Nat, T # {}
  PROVE  \E m \in T : \A k \in T : m <= k
<1> DEFINE R == {ss \in Nat \X Nat : ss[1] < ss[2]}
<1>1. IsWellFoundedOn(R, Nat)
  BY NatLessThanWellFounded DEF OpToRel
<1>2. \A k, m \in Nat : k < m => <<k, m>> \in R
  OBVIOUS
<1> HIDE DEF R
<1>3. \E m \in T : \A k \in T : ~(<<k, m>> \in R)
  BY <1>1, WFMin
<1>4. PICK m \in T : \A k \in T : ~(<<k, m>> \in R)
  BY <1>3
<1>5. \A k \in T : ~(k < m)
  BY <1>2, <1>4
<1>6. QED
  BY <1>5

LEMMA Induct ==
  ASSUME NEW S, 0 \in S, \A n \in Nat : n \in S => n + 1 \in S
  PROVE  \A n \in Nat : n \in S
<1> SUFFICES ASSUME NEW n \in Nat, n \notin S PROVE FALSE
  OBVIOUS
<1> DEFINE T == {k \in Nat : k \notin S}
<1>1. PICK m \in T : \A k \in T : m <= k
  <2>1. T \subseteq Nat /\ T # {}
    OBVIOUS
  <2> HIDE DEF T
  <2>2. QED
    BY <2>1, LeastElement
<1>2. m # 0 /\ m \in Nat /\ m \notin S
  OBVIOUS
<1>3. m - 1 \in Nat /\ m - 1 < m
  BY <1>2
<1>4. m - 1 \in S
  BY <1>1, <1>3
<1>5. (m - 1) + 1 \in S
  BY <1>3, <1>4
<1>6. QED
  BY <1>2, <1>5

\* The values a function gives when it is applied again and again, and when
\* it is also told how often it was applied.
Iterated(W, X, x0, F) ==
  W \in [Nat -> X] /\ W[0] = x0 /\ \A n \in Nat : W[n + 1] = F[W[n]]

Recursive(W, X, x0, F) ==
  W \in [Nat -> X] /\ W[0] = x0 /\ \A n \in Nat : W[n + 1] = F[<<n, W[n]>>]

\* A function can be iterated.
LEMMA Iterates ==
  ASSUME NEW X, NEW x0 \in X, NEW F \in [X -> X]
  PROVE  \E W : Iterated(W, X, x0, F)
<1> DEFINE Good(n, g) == /\ g \in [0..n -> X] /\ g[0] = x0
                         /\ \A i \in 0..n : i # n => g[i + 1] = F[g[i]]
<1>1. \A n \in Nat : \E g : Good(n, g)
  <2> DEFINE S == {n \in Nat : \E g : Good(n, g)}
  <2>1. 0 \in S
    <3>1. Good(0, [i \in 0..0 |-> x0])
      OBVIOUS
    <3>2. QED
      BY <3>1
  <2>2. ASSUME NEW n \in Nat, n \in S PROVE n + 1 \in S
    <3>1. PICK g : Good(n, g)
      BY <2>2
    <3> DEFINE h == [i \in 0..(n + 1) |-> IF i = n + 1 THEN F[g[n]] ELSE g[i]]
    <3>2. h \in [0..(n + 1) -> X] /\ h[0] = x0
      BY <3>1
    <3>3. ASSUME NEW i \in 0..(n + 1), i # n + 1 PROVE h[i + 1] = F[h[i]]
      <4>1. i \in 0..n /\ i + 1 \in 0..(n + 1)
        BY <3>3
      <4>2. h[i] = g[i]
        BY <3>3, <4>1
      <4>3. CASE i = n
        BY <4>1, <4>2, <4>3
      <4>4. CASE i # n
        <5>1. i + 1 # n + 1 /\ g[i + 1] = F[g[i]]
          BY <3>1, <4>1, <4>4
        <5>2. QED
          BY <4>1, <4>2, <5>1
      <4>5. QED
        BY <4>3, <4>4
    <3> HIDE DEF h
    <3>4. Good(n + 1, h)
      BY <3>2, <3>3
    <3>5. QED
      BY <3>4
  <2> HIDE DEF S
  <2>3. \A n \in Nat : n \in S
    BY <2>1, <2>2, Induct
  <2>4. QED
    BY <2>3 DEF S
<1>2. ASSUME NEW n \in Nat, NEW g, NEW h, Good(n, g), Good(n + 1, h)
      PROVE  g[n] = h[n]
  <2> DEFINE S == {i \in Nat : i <= n => g[i] = h[i]}
  <2>1. 0 \in S
    BY <1>2
  <2>2. ASSUME NEW i \in Nat, i \in S PROVE i + 1 \in S
    <3> SUFFICES ASSUME i + 1 <= n PROVE g[i + 1] = h[i + 1]
      OBVIOUS
    <3>1. i \in 0..n /\ i # n /\ i \in 0..(n + 1) /\ i # n + 1 /\ i <= n
      OBVIOUS
    <3>2. QED
      BY <1>2, <2>2, <3>1
  <2>3. \A i \in Nat : i \in S
    <3> HIDE DEF S
    <3>1. QED
      BY <2>1, <2>2, Induct
  <2>4. QED
    BY <2>3
<1> DEFINE G(n) == CHOOSE g : Good(n, g)
           W == [n \in Nat |-> G(n)[n]]
<1>3. \A n \in Nat : Good(n, G(n))
  <2> HIDE DEF Good
  <2>1. QED
    BY <1>1
<1>4. W \in [Nat -> X] /\ W[0] = x0
  <2> HIDE DEF G
  <2>1. \A n \in Nat : G(n)[n] \in X
    BY <1>3
  <2>2. QED
    BY <1>3, <2>1
<1>5. ASSUME NEW n \in Nat PROVE W[n + 1] = F[W[n]]
  <2>1. W[n] = G(n)[n] /\ W[n + 1] = G(n + 1)[n + 1]
    OBVIOUS
  <2> HIDE DEF G, W
  <2>2. Good(n, G(n)) /\ Good(n + 1, G(n + 1))
    BY <1>3
  <2>3. G(n)[n] = G(n + 1)[n]
    <3> HIDE DEF Good
    <3>1. QED
      BY <1>2, <2>2
  <2>4. n \in 0..(n + 1) /\ n # n + 1
    OBVIOUS
  <2>5. G(n + 1)[n + 1] = F[G(n + 1)[n]]
    BY <2>2, <2>4
  <2>6. QED
    BY <2>1, <2>3, <2>5
<1>6. Iterated(W, X, x0, F)
  <2> HIDE DEF W
  <2>1. QED
    BY <1>4, <1>5 DEF Iterated
<1>7. QED
  BY <1>6

LEMMA Recurses ==
  ASSUME NEW X, NEW x0 \in X, NEW F \in [Nat \X X -> X]
  PROVE  \E W : Recursive(W, X, x0, F)
<1> DEFINE Y == Nat \X X
           G == [y \in Y |-> <<y[1] + 1, F[y]>>]
           y0 == <<0, x0>>
<1>1. y0 \in Y /\ G \in [Y -> Y]
  OBVIOUS
<1>0. PICK V : Iterated(V, Y, y0, G)
  <2> HIDE DEF Y, G, y0
  <2> QED
    BY <1>1, Iterates
<1>2. V \in [Nat -> Y] /\ V[0] = y0 /\ \A n \in Nat : V[n + 1] = G[V[n]]
  BY <1>0 DEF Iterated
<1>3. \A n \in Nat : V[n] \in Y /\ V[n + 1][1] = V[n][1] + 1 /\ V[n + 1][2] = F[V[n]]
  <2> SUFFICES ASSUME NEW n \in Nat
               PROVE  V[n] \in Y /\ V[n + 1][1] = V[n][1] + 1 /\ V[n + 1][2] = F[V[n]]
    OBVIOUS
  <2>1. V[n] \in Y /\ V[n + 1] = <<V[n][1] + 1, F[V[n]]>>
    BY <1>2
  <2> QED
    BY <2>1
<1>4. \A n \in Nat : V[n][1] = n
  <2> DEFINE S == {n \in Nat : V[n][1] = n}
  <2>1. 0 \in S
    BY <1>2
  <2>2. \A n \in Nat : n \in S => n + 1 \in S
    BY <1>3
  <2>3. \A n \in Nat : n \in S
    <3> HIDE DEF S
    <3> QED
      BY <2>1, <2>2, Induct
  <2> QED
    BY <2>3
<1> DEFINE W == [n \in Nat |-> V[n][2]]
<1>5. W \in [Nat -> X] /\ W[0] = x0
  BY <1>2
<1>6. \A n \in Nat : W[n + 1] = F[<<n, W[n]>>]
  <2> SUFFICES ASSUME NEW n \in Nat PROVE W[n + 1] = F[<<n, W[n]>>]
    OBVIOUS
  <2>1. V[n] \in Nat \X X /\ V[n][1] = n
    BY <1>3, <1>4
  <2>2. V[n] = <<n, V[n][2]>>
    BY <2>1
  <2>3. W[n + 1] = V[n + 1][2] /\ W[n] = V[n][2]
    OBVIOUS
  <2>4. V[n + 1][2] = F[V[n]]
    BY <1>3
  <2> HIDE DEF W
  <2> QED
    BY <2>2, <2>3, <2>4
<1> HIDE DEF W
<1>7. Recursive(W, X, x0, F)
  BY <1>5, <1>6 DEF Recursive
<1> QED
  BY <1>7

-----------------------------------------------------------------------------
(* Prefixes.                                                               *)

LEMMA PrefixItems ==
  ASSUME NEW T, NEW p \in Seq(T), NEW q \in Seq(T)
  PROVE  IsPrefix(p, q) <=> Len(p) <= Len(q) /\ \A i \in 1..Len(p) : p[i] = q[i]
<1>1. Len(p) \in Nat /\ Len(q) \in Nat
  OBVIOUS
<1>2. ASSUME Len(p) <= Len(q) PROVE Len(SubSeq(q, 1, Len(p))) = Len(p) /\ \A i \in 1..Len(p) : SubSeq(q, 1, Len(p))[i] = q[i]
  BY <1>1, <1>2
<1>3. SubSeq(p, 1, Len(p)) = p
  BY SubSeqFull
<1>4. ASSUME Len(p) <= Len(q), \A i \in 1..Len(p) : p[i] = q[i] PROVE SubSeq(q, 1, Len(p)) = p
  <2>1. SubSeq(q, 1, Len(p)) \in Seq(T)
    BY <1>1, <1>4, SubSeqProperties
  <2> QED
    BY <1>2, <1>4, <2>1, SeqEqual
<1> QED
  BY <1>1, <1>2, <1>3, <1>4 DEF IsPrefix

LEMMA PrefixConcat ==
  ASSUME NEW T, NEW p \in Seq(T), NEW q \in Seq(T), NEW r \in Seq(T), IsPrefix(p, q)
  PROVE  IsPrefix(p, q \o r)
<1>1. Len(p) <= Len(q) /\ \A i \in 1..Len(p) : p[i] = q[i]
  BY PrefixItems
<1>0. PICK z : z = q \o r
  OBVIOUS
<1>a. z \in Seq(T)
  BY <1>0
<1>2. Len(z) = Len(q) + Len(r) /\ \A i \in 1..Len(q) : z[i] = q[i]
  BY <1>0, ConcatProperties
<1>3. Len(p) \in Nat /\ Len(q) \in Nat /\ Len(r) \in Nat
  OBVIOUS
<1>4. IsPrefix(p, z) <=> Len(p) <= Len(z) /\ \A i \in 1..Len(p) : p[i] = z[i]
  BY <1>a, PrefixItems
<1>5. IsPrefix(p, z)
  BY <1>1, <1>2, <1>3, <1>4
<1> QED
  BY <1>0, <1>5

LEMMA PrefixOfConcat ==
  ASSUME NEW T, NEW p \in Seq(T), NEW r \in Seq(T)
  PROVE  IsPrefix(p, p \o r)
<1>1. IsPrefix(p, p)
  BY DEF IsPrefix
<1> QED
  BY <1>1, PrefixConcat

LEMMA PrefixRest ==
  ASSUME NEW T, NEW p \in Seq(T), NEW q \in Seq(T), IsPrefix(p, q)
  PROVE  \E r \in Seq(T) : q = p \o r /\ (Len(p) = Len(q) => r = <<>>)
<1>1. /\ Len(p) <= Len(q) /\ \A i \in 1..Len(p) : p[i] = q[i]
      /\ Len(p) \in Nat /\ Len(q) \in Nat
  BY PrefixItems
<1> DEFINE r == SubSeq(q, Len(p) + 1, Len(q))
<1>2. r \in Seq(T) /\ Len(r) = Len(q) - Len(p) /\ \A i \in 1..Len(q) - Len(p) : r[i] = q[Len(p) + i]
  <2>1. \A i \in Len(p) + 1..Len(q) : q[i] \in T
    BY <1>1
  <2>2. Len(r) = IF Len(p) + 1 <= Len(q) THEN Len(q) - (Len(p) + 1) + 1 ELSE 0
    BY <1>1, <2>1, SubSeqProperties
  <2>3. r \in Seq(T) /\ \A i \in 1..Len(q) - (Len(p) + 1) + 1 : r[i] = q[(Len(p) + 1) + i - 1]
    BY <1>1, <2>1, SubSeqProperties
  <2> HIDE DEF r
  <2> QED
    BY <1>1, <2>2, <2>3
<1> HIDE DEF r
<1>3. q = p \o r
  <2>1. p \o r \in Seq(T) /\ Len(p \o r) = Len(q)
    BY <1>1, <1>2
  <2>2. ASSUME NEW i \in 1..Len(q) PROVE q[i] = (p \o r)[i]
    BY <1>1, <1>2, ConcatProperties
  <2> QED
    BY <2>1, <2>2, SeqEqual
<1>4. Len(p) = Len(q) => r = <<>>
  BY <1>2
<1> QED
  BY <1>2, <1>3, <1>4

LEMMA PrefixOrLonger ==
  ASSUME NEW T, NEW p \in Seq(T), NEW at \in Seq(T), NEW x \in T, NEW more \in Seq(T),
         IsPrefix(p, Append(at, x) \o more)
  PROVE  IsPrefix(p, at) \/ IsPrefix(Append(at, x), p)
<1>0. PICK next, all : next = Append(at, x) /\ all = next \o more
  OBVIOUS
<1>1. /\ next \in Seq(T) /\ Len(next) = Len(at) + 1 /\ \A i \in 1..Len(at) : next[i] = at[i]
      /\ Len(at) \in Nat /\ Len(p) \in Nat /\ Len(more) \in Nat
  BY <1>0
<1>2. all \in Seq(T) /\ Len(all) = Len(next) + Len(more) /\ \A i \in 1..Len(next) : all[i] = next[i]
  BY <1>0, <1>1, ConcatProperties
<1>3. Len(p) <= Len(all) /\ \A i \in 1..Len(p) : p[i] = all[i]
  <2>a. all \in Seq(T)
    BY <1>2
  <2>1. IsPrefix(p, all) <=> Len(p) <= Len(all) /\ \A i \in 1..Len(p) : p[i] = all[i]
    BY <2>a, PrefixItems
  <2>2. IsPrefix(p, all)
    BY <1>0
  <2> QED
    BY <2>1, <2>2
<1>4. CASE Len(p) <= Len(at)
  <2>1. \A i \in 1..Len(p) : p[i] = at[i]
    BY <1>0, <1>1, <1>2, <1>3, <1>4
  <2> QED
    BY <1>0, <1>4, <2>1, PrefixItems
<1>5. CASE Len(p) > Len(at)
  <2>1. Len(next) <= Len(p) /\ \A i \in 1..Len(next) : next[i] = p[i]
    BY <1>0, <1>1, <1>2, <1>3, <1>5
  <2> QED
    BY <1>0, <1>1, <2>1, PrefixItems
<1> QED
  BY <1>0, <1>1, <1>4, <1>5

LEMMA PrefixOfAppend ==
  ASSUME NEW T, NEW p \in Seq(T), NEW at \in Seq(T), NEW x \in T, IsPrefix(p, Append(at, x))
  PROVE  IsPrefix(p, at) \/ p = Append(at, x)
<1>0. PICK next : next = Append(at, x)
  OBVIOUS
<1>1. /\ next \in Seq(T) /\ Len(next) = Len(at) + 1 /\ \A i \in 1..Len(at) : next[i] = at[i]
      /\ Len(at) \in Nat /\ Len(p) \in Nat
  BY <1>0
<1>2. Len(p) <= Len(at) + 1 /\ \A i \in 1..Len(p) : p[i] = next[i]
  <2>a. next \in Seq(T)
    BY <1>1
  <2>1. IsPrefix(p, next) <=> Len(p) <= Len(next) /\ \A i \in 1..Len(p) : p[i] = next[i]
    BY <2>a, PrefixItems, SMTT(30)
  <2>2. IsPrefix(p, next)
    BY <1>0, ZenonT(30)
  <2> QED
    BY <1>1, <2>1, <2>2
<1>3. CASE Len(p) <= Len(at)
  <2>1. \A i \in 1..Len(p) : p[i] = at[i]
    BY <1>0, <1>1, <1>2, <1>3
  <2> QED
    BY <1>0, <1>3, <2>1, PrefixItems
<1>4. CASE Len(p) = Len(at) + 1
  BY <1>0, <1>1, <1>2, <1>4, SeqEqual
<1> QED
  BY <1>0, <1>1, <1>2, <1>3, <1>4

LEMMA NextName ==
  ASSUME NEW T, NEW at \in Seq(T), NEW rest \in Seq(T), rest # <<>>
  PROVE  /\ Head(rest) \in T /\ Tail(rest) \in Seq(T)
         /\ Append(at, Head(rest)) \in Seq(T)
         /\ Append(at, Head(rest)) \o Tail(rest) = at \o rest
<1>1. Head(rest) \in T /\ Tail(rest) \in Seq(T) /\ Append(at, Head(rest)) \in Seq(T)
  BY HeadTailProperties
<1>2. Len(rest) \in Nat /\ Len(rest) > 0 /\ Len(at) \in Nat /\ Head(rest) = rest[1]
      /\ Len(Tail(rest)) = Len(rest) - 1 /\ \A i \in 1..Len(rest) - 1 : Tail(rest)[i] = rest[i + 1]
  BY HeadTailProperties
<1> DEFINE a == Append(at, Head(rest)) \o Tail(rest)
           b == at \o rest
<1>3. a \in Seq(T) /\ b \in Seq(T) /\ Len(a) = Len(b) /\ Len(b) = Len(at) + Len(rest)
  BY <1>1, <1>2
<1>4. ASSUME NEW i \in 1..Len(b) PROVE a[i] = b[i]
  <2>1. Len(Append(at, Head(rest))) = Len(at) + 1
        /\ \A j \in 1..Len(at) : Append(at, Head(rest))[j] = at[j]
        /\ Append(at, Head(rest))[Len(at) + 1] = rest[1]
    BY <1>1, <1>2
  <2>2. a[i] = IF i <= Len(at) + 1 THEN Append(at, Head(rest))[i] ELSE Tail(rest)[i - (Len(at) + 1)]
    BY <1>1, <1>2, <1>3, <2>1, ConcatProperties
  <2>3. b[i] = IF i <= Len(at) THEN at[i] ELSE rest[i - Len(at)]
    BY <1>1, <1>2, <1>3, ConcatProperties
  <2> HIDE DEF a, b
  <2> QED
    BY <1>2, <1>3, <2>1, <2>2, <2>3
<1>5. a = b
  <2> HIDE DEF a, b
  <2> QED
    BY <1>3, <1>4, SeqEqual
<1> QED
  BY <1>1, <1>5

-----------------------------------------------------------------------------
(* Paths and their names.                                                  *)

LabelSeqs == Seq(Labels)
Texts == Seq(Tokens)

LEMMA LabelsAreTokens == Labels \subseteq Tokens /\ LabelSeqs \subseteq Texts /\ "/" \in Tokens
<1>1. Labels \subseteq Tokens /\ "/" \in Tokens
  BY DEF Labels, Tokens
<1>2. ASSUME NEW s \in Seq(Labels) PROVE s \in Seq(Tokens)
  <2>1. s \in [1..Len(s) -> Labels] /\ Len(s) \in Nat
    OBVIOUS
  <2> HIDE DEF Labels, Tokens
  <2> QED
    BY <1>1, <2>1
<1> QED
  BY <1>1, <1>2 DEF LabelSeqs, Texts

\* The names in the first tokens of a path.
NamesTo(path, names) ==
  /\ names \in [0..Len(path) -> LabelSeqs] /\ names[0] = <<>>
  /\ \A n \in 1..Len(path) :
       names[n] = IF path[n] = "/" THEN names[n - 1] ELSE Append(names[n - 1], path[n])

LEMMA NamesStep ==
  ASSUME NEW path \in Texts
  PROVE  \E names : NamesTo(path, names) /\ Names(path) = names[Len(path)]
<1> DEFINE N == Len(path)
           X == LabelSeqs
           F == [y \in Nat \X X |-> IF y[1] + 1 \in 1..N /\ path[y[1] + 1] # "/"
                                    THEN Append(y[2], path[y[1] + 1]) ELSE y[2]]
           H(f, n) == IF n = 0 THEN <<>>
                      ELSE IF path[n] = "/" THEN f[n - 1] ELSE Append(f[n - 1], path[n])
           names == CHOOSE f : f = [n \in 0..N |-> H(f, n)]
<1>1. N \in Nat /\ \A i \in 1..N : path[i] # "/" => path[i] \in Labels
  BY DEF Texts, Labels, Tokens
<1> HIDE DEF N
<1>2. F \in [Nat \X X -> X]
  <2>1. ASSUME NEW y \in Nat \X X PROVE F[y] \in X
    <3>1. F[y] = IF y[1] + 1 \in 1..N /\ path[y[1] + 1] # "/"
                 THEN Append(y[2], path[y[1] + 1]) ELSE y[2]
      OBVIOUS
    <3>2. y[2] \in X /\ (y[1] + 1 \in 1..N /\ path[y[1] + 1] # "/" => Append(y[2], path[y[1] + 1]) \in X)
      BY <1>1 DEF LabelSeqs
    <3> HIDE DEF F
    <3> QED
      BY <3>1, <3>2
  <2> QED
    BY <2>1
<1>3. PICK W : Recursive(W, X, <<>>, F)
  <2>1. <<>> \in X
    BY DEF LabelSeqs
  <2> HIDE DEF F, X
  <2> QED
    BY <1>2, <2>1, Recurses
<1>4. W \in [Nat -> X] /\ W[0] = <<>> /\ \A n \in Nat : W[n + 1] = F[<<n, W[n]>>]
  BY <1>3 DEF Recursive
<1>5. ASSUME NEW n \in 0..N PROVE W[n] = H(W, n)
  <2>1. CASE n = 0
    BY <1>4, <2>1
  <2>2. CASE n # 0
    <3>1. n - 1 \in Nat /\ (n - 1) + 1 = n /\ n \in 1..N
      BY <1>1, <2>2
    <3>2. W[n - 1] \in X
      BY <1>4, <3>1
    <3>3. W[(n - 1) + 1] = F[<<n - 1, W[n - 1]>>]
      <4> HIDE DEF F
      <4> QED
        BY <1>4, <3>1
    <3>4. F[<<n - 1, W[n - 1]>>] = IF path[n] # "/" THEN Append(W[n - 1], path[n]) ELSE W[n - 1]
      BY <3>1, <3>2
    <3> QED
      BY <2>2, <3>1, <3>3, <3>4
  <2> QED
    BY <2>1, <2>2
<1>6. \E f : f = [n \in 0..N |-> H(f, n)]
  <2> DEFINE f == [n \in 0..N |-> W[n]]
  <2>1. ASSUME NEW n \in 0..N PROVE f[n] = H(f, n)
    <3>1. CASE n = 0
      BY <1>5, <3>1
    <3>2. CASE n # 0
      <4>1. n - 1 \in 0..N
        BY <1>1, <3>2
      <4>2. f[n] = W[n] /\ f[n - 1] = W[n - 1]
        BY <4>1
      <4> HIDE DEF f
      <4> QED
        BY <1>5, <4>2
    <3> QED
      BY <3>1, <3>2
  <2>2. f = [n \in 0..N |-> H(f, n)]
    <3>1. f = [n \in 0..N |-> f[n]]
      OBVIOUS
    <3> HIDE DEF f, H
    <3> QED
      BY <2>1, <3>1
  <2> QED
    BY <2>2
<1>7. names = [n \in 0..N |-> H(names, n)]
  <2> HIDE DEF H
  <2> QED
    BY <1>6
<1>8. Names(path) = names[N]
  <2>1. Names(path) = NamesIn(path)
    BY DEF Names
  <2>2. NamesIn(path) = names[N]
    BY DEF NamesIn, N
  <2> QED
    BY <2>1, <2>2
<1>9. \A n \in 0..N : names[n] = H(names, n)
  <2> HIDE DEF names, H
  <2> QED
    BY <1>7
<1>10. DOMAIN names = 0..N
  <2> HIDE DEF names, H
  <2> QED
    BY <1>7
<1>11. names = [n \in 0..N |-> names[n]]
  <2> HIDE DEF names, H
  <2>1. \A g : names = [n \in 0..N |-> H(g, n)] => names = [n \in 0..N |-> names[n]]
    OBVIOUS
  <2> QED
    BY <1>7, <2>1
<1> HIDE DEF names
<1> DEFINE S == {n \in Nat : n <= N => names[n] \in LabelSeqs}
<1>12. 0 \in S
  <2>1. 0 \in 0..N
    BY <1>1
  <2>2. names[0] = H(names, 0)
    BY <1>9, <2>1
  <2>3. names[0] = <<>>
    BY <2>2
  <2>4. <<>> \in LabelSeqs
    BY DEF LabelSeqs
  <2> QED
    BY <2>3, <2>4
<1>13. ASSUME NEW n \in Nat, n \in S PROVE n + 1 \in S
  <2> SUFFICES ASSUME n + 1 <= N PROVE names[n + 1] \in LabelSeqs
    OBVIOUS
  <2>1. n <= N /\ n + 1 \in 0..N /\ n + 1 \in 1..N /\ n + 1 # 0 /\ (n + 1) - 1 = n
    BY <1>1
  <2>2. names[n] \in LabelSeqs
    BY <1>13, <2>1
  <2>3. names[n + 1] = IF path[n + 1] = "/" THEN names[n] ELSE Append(names[n], path[n + 1])
    BY <1>9, <2>1
  <2> QED
    BY <1>1, <2>1, <2>2, <2>3 DEF LabelSeqs
<1>14. \A n \in Nat : n \in S
  <2> HIDE DEF S
  <2> QED
    BY <1>12, <1>13, Induct
<1>15. \A n \in 0..N : names[n] \in LabelSeqs
  BY <1>1, <1>14
<1>16. names \in [0..N -> LabelSeqs]
  BY <1>11, <1>15
<1>17. names[0] = <<>>
  BY <1>1, <1>9
<1>18. \A n \in 1..N : names[n] = IF path[n] = "/" THEN names[n - 1] ELSE Append(names[n - 1], path[n])
  <2> SUFFICES ASSUME NEW n \in 1..N
               PROVE names[n] = IF path[n] = "/" THEN names[n - 1] ELSE Append(names[n - 1], path[n])
    OBVIOUS
  <2>1. n \in 0..N /\ n # 0
    BY <1>1
  <2> QED
    BY <1>9, <2>1
<1> QED
  BY <1>8, <1>16, <1>17, <1>18 DEF NamesTo, N

\* They depend on no later token.
LEMMA NamesOfStart ==
  ASSUME NEW path \in Texts, NEW more \in Texts, NEW f, NamesTo(path, f), NEW g, NamesTo(more, g),
         Len(path) <= Len(more), \A i \in 1..Len(path) : path[i] = more[i]
  PROVE  \A n \in 0..Len(path) : f[n] = g[n]
<1> DEFINE S == {n \in Nat : n <= Len(path) => f[n] = g[n]}
<1>1. 0 \in S
  BY DEF NamesTo
<1>2. ASSUME NEW n \in Nat, n \in S PROVE n + 1 \in S
  <2> SUFFICES ASSUME n + 1 <= Len(path) PROVE f[n + 1] = g[n + 1]
    OBVIOUS
  <2>1. Len(path) \in Nat /\ Len(more) \in Nat
    BY DEF Texts
  <2>2. n + 1 \in 1..Len(path) /\ n + 1 \in 1..Len(more) /\ (n + 1) - 1 = n /\ n <= Len(path)
    BY <2>1
  <2>3. f[n] = g[n] /\ path[n + 1] = more[n + 1]
    BY <1>2, <2>2
  <2> QED
    BY <2>2, <2>3 DEF NamesTo
<1>3. \A n \in Nat : n \in S
  <2> HIDE DEF S
  <2> QED
    BY <1>1, <1>2, Induct
<1>4. Len(path) \in Nat
  BY DEF Texts
<1> QED
  BY <1>3, <1>4

LEMMA NamesOfNone == Names(<<>>) = <<>>
<1>1. <<>> \in Texts /\ Len(<<>>) = 0
  BY DEF Texts
<1> QED
  BY <1>1, NamesStep DEF NamesTo

LEMMA NamesOfAppend ==
  ASSUME NEW path \in Texts, NEW x \in Tokens
  PROVE  /\ Append(path, x) \in Texts
         /\ Names(Append(path, x)) = IF x = "/" THEN Names(path) ELSE Append(Names(path), x)
<1> DEFINE more == Append(path, x)
<1>1. more \in Texts /\ Len(more) = Len(path) + 1 /\ more[Len(path) + 1] = x /\ Len(path) \in Nat
      /\ \A i \in 1..Len(path) : path[i] = more[i]
  BY DEF Texts
<1> HIDE DEF more
<1>2. PICK f : NamesTo(path, f) /\ Names(path) = f[Len(path)]
  BY NamesStep
<1>3. PICK g : NamesTo(more, g) /\ Names(more) = g[Len(more)]
  BY <1>1, NamesStep
<1>4. f[Len(path)] = g[Len(path)]
  <2>1. Len(path) \in 0..Len(path) /\ Len(path) <= Len(more)
    BY <1>1
  <2> QED
    BY <1>1, <1>2, <1>3, <2>1, NamesOfStart
<1>5. g[Len(path) + 1] = IF x = "/" THEN g[Len(path)] ELSE Append(g[Len(path)], x)
  <2>1. Len(path) + 1 \in 1..Len(more) /\ (Len(path) + 1) - 1 = Len(path)
    BY <1>1
  <2> QED
    BY <1>1, <1>3, <2>1 DEF NamesTo
<1> QED
  BY <1>1, <1>2, <1>3, <1>4, <1>5 DEF more

LEMMA NamesTyped ==
  ASSUME NEW path \in Texts PROVE Names(path) \in LabelSeqs /\ Names(path) \in Texts
<1>1. PICK f : NamesTo(path, f) /\ Names(path) = f[Len(path)]
  BY NamesStep
<1>2. Len(path) \in 0..Len(path)
  BY DEF Texts
<1> QED
  BY <1>1, <1>2, LabelsAreTokens DEF NamesTo

\* Associativity, one token at a time.
LEMMA AppendConcat ==
  ASSUME NEW T, NEW p \in Seq(T), NEW q \in Seq(T), NEW x \in T
  PROVE  p \o Append(q, x) = Append(p \o q, x)
  OBVIOUS

LEMMA FrontAppend ==
  ASSUME NEW T, NEW q \in Seq(T), q # <<>>
  PROVE  /\ Front(q) \in Seq(T) /\ Last(q) \in T /\ q = Append(Front(q), Last(q))
         /\ Len(q) \in Nat /\ Len(q) > 0 /\ Len(Front(q)) = Len(q) - 1
<1>1. Len(q) \in Nat /\ Len(q) > 0
  OBVIOUS
<1>2. q[Len(q)] \in T
  BY <1>1
<1>3. SubSeq(q, 1, Len(q) - 1) \in Seq(T) /\ Len(SubSeq(q, 1, Len(q) - 1)) = Len(q) - 1
  <2>1. PICK n \in Nat : n = Len(q) - 1
    BY <1>1
  <2>2. Len(SubSeq(q, 1, n)) = n /\ \A i \in 1..n : SubSeq(q, 1, n)[i] = q[i] /\ q[i] \in T
    BY <1>1, <2>1
  <2>3. SubSeq(q, 1, n) = [i \in 1..n |-> q[i]]
    BY <1>1, <2>1
  <2>4. [i \in 1..n |-> q[i]] \in Seq(T)
    BY <2>2
  <2> QED
    BY <2>1, <2>2, <2>3, <2>4
<1>4. q = Append(SubSeq(q, 1, Len(q) - 1), q[Len(q)])
  BY <1>1, <1>2
<1> QED
  BY <1>1, <1>2, <1>3, <1>4 DEF Front, Last

LEMMA NamesOfConcat ==
  ASSUME NEW path \in Texts
  PROVE  \A more \in Texts : path \o more \in Texts /\ Names(path \o more) = Names(path) \o Names(more)
<1> DEFINE Good(more) == Names(path \o more) = Names(path) \o Names(more)
           S == {n \in Nat : \A more \in Texts : Len(more) = n => Good(more)}
<1>1. 0 \in S
  <2> SUFFICES ASSUME NEW more \in Texts, Len(more) = 0 PROVE Good(more)
    OBVIOUS
  <2>1. more = <<>>
    BY DEF Texts
  <2>2. path \o <<>> = path
    BY DEF Texts
  <2>3. Names(path) \o <<>> = Names(path)
    BY NamesTyped DEF Texts
  <2> QED
    BY <2>1, <2>2, <2>3, NamesOfNone
<1>2. ASSUME NEW n \in Nat, n \in S PROVE n + 1 \in S
  <2> SUFFICES ASSUME NEW more \in Texts, Len(more) = n + 1 PROVE Good(more)
    OBVIOUS
  <2>1. more # <<>>
    OBVIOUS
  <2>2. PICK q \in Texts, x \in Tokens : more = Append(q, x) /\ Len(q) = n
    <3>1. /\ Front(more) \in Texts /\ Last(more) \in Tokens
          /\ more = Append(Front(more), Last(more)) /\ Len(Front(more)) = Len(more) - 1
      BY <2>1, FrontAppend DEF Texts
    <3> QED
      BY <3>1
  <2>3. Good(q)
    BY <1>2, <2>2
  <2>4. path \o more = Append(path \o q, x) /\ path \o q \in Texts
    BY <2>2, AppendConcat DEF Texts
  <2>5. Names(more) = IF x = "/" THEN Names(q) ELSE Append(Names(q), x)
    BY <2>2, NamesOfAppend
  <2>6. Names(path \o more) = IF x = "/" THEN Names(path \o q) ELSE Append(Names(path \o q), x)
    BY <2>4, NamesOfAppend
  <2>7. Names(path) \o Append(Names(q), x) = Append(Names(path) \o Names(q), x)
    BY NamesTyped, AppendConcat DEF Texts
  <2> QED
    BY <2>3, <2>5, <2>6, <2>7
<1>3. \A n \in Nat : n \in S
  <2> HIDE DEF S
  <2> QED
    BY <1>1, <1>2, Induct
<1> QED
  BY <1>3 DEF Texts

LEMMA TextFormed ==
  ASSUME NEW p \in LabelSeqs
  PROVE  /\ Text(p) \in Texts /\ Formed(Text(p)) /\ Absolute(Text(p))
         /\ p # <<>> => Len(Text(p)) = 2 * Len(p)
<1>1. CASE p = <<>>
  <2>1. Text(p) = <<"/">>
    BY <1>1 DEF Text
  <2>2. \A x \in Tokens : <<x>> \in Seq(Tokens)
    OBVIOUS
  <2>3. Text(p) \in Texts
    BY <2>1, <2>2, LabelsAreTokens DEF Texts
  <2>4. Len(<<"/">>) = 1 /\ <<"/">>[1] = "/" /\ <<"/">> # <<>>
    OBVIOUS
  <2>5. Formed(Text(p)) /\ Absolute(Text(p))
    BY <2>1, <2>4 DEF Formed, Absolute
  <2> QED
    BY <1>1, <2>3, <2>5
<1>2. CASE p # <<>>
  <2>1. Len(p) \in Nat /\ Len(p) > 0 /\ \A i \in 1..Len(p) : p[i] \in Labels
    BY <1>2 DEF LabelSeqs
  <2>2. PICK t : t = Text(p)
    OBVIOUS
  <2>3. t = [i \in 1..2 * Len(p) |-> IF i % 2 = 1 THEN "/" ELSE p[i \div 2]]
    BY <1>2, <2>2 DEF Text
  <2>4. ASSUME NEW i \in 1..2 * Len(p) PROVE t[i] \in Tokens /\ (i % 2 = 1 => t[i] = "/")
    <3>1. CASE i % 2 = 1
      BY <2>3, <3>1, LabelsAreTokens
    <3>2. CASE i % 2 # 1
      <4>1. i \div 2 \in 1..Len(p)
        BY <2>1, <3>2
      <4>2. t[i] = p[i \div 2]
        BY <2>3, <3>2
      <4>3. p[i \div 2] \in Labels
        BY <2>1, <4>1
      <4> QED
        BY <3>2, <4>2, <4>3, LabelsAreTokens
    <3> QED
      BY <3>1, <3>2
  <2>5. 2 * Len(p) \in Nat /\ 2 * Len(p) >= 1
    BY <2>1
  <2>6. t \in [1..2 * Len(p) -> Tokens]
    BY <2>3, <2>4
  <2>7. t \in Texts /\ Len(t) = 2 * Len(p)
    BY <2>3, <2>5, <2>6 DEF Texts
  <2>8. Formed(t)
    <3> SUFFICES ASSUME NEW i \in 1..Len(t) - 1 PROVE "/" \in {t[i], t[i + 1]}
      BY DEF Formed
    <3>1. i \in 1..2 * Len(p) /\ i + 1 \in 1..2 * Len(p)
      BY <2>5, <2>7
    <3>2. i % 2 = 1 \/ (i + 1) % 2 = 1
      BY <3>1
    <3> QED
      BY <2>4, <3>1, <3>2
  <2>9. Absolute(t)
    BY <2>4, <2>5, <2>7 DEF Absolute
  <2> QED
    BY <2>2, <2>7, <2>8, <2>9
<1> QED
  BY <1>1, <1>2

-----------------------------------------------------------------------------
(* The text of a place leads back to it.                                   *)

\* The text of a place, but nothing for the root of the host.
Stem(p) == IF p = <<>> THEN <<>> ELSE Text(p)

LEMMA StemTyped ==
  ASSUME NEW p \in LabelSeqs
  PROVE  Stem(p) \in Texts /\ Len(Stem(p)) = 2 * Len(p) /\ (p # <<>> => Absolute(Stem(p)))
<1>1. CASE p = <<>>
  BY <1>1 DEF Stem, Texts
<1>2. CASE p # <<>>
  BY <1>2, TextFormed DEF Stem
<1> QED
  BY <1>1, <1>2

LEMMA StemOfAppend ==
  ASSUME NEW p \in LabelSeqs, NEW x \in Labels
  PROVE  Append(p, x) \in LabelSeqs /\ Stem(Append(p, x)) = Append(Append(Stem(p), "/"), x)
<1>1. PICK q : q = Append(p, x)
  OBVIOUS
<1>2. q \in LabelSeqs /\ Len(q) = Len(p) + 1 /\ Len(p) \in Nat /\ q # <<>>
      /\ q[Len(p) + 1] = x /\ \A i \in 1..Len(p) : q[i] = p[i]
  BY <1>1 DEF LabelSeqs
<1>3. PICK s, t : s = Stem(p) /\ t = Stem(q)
  OBVIOUS
<1>4. s \in Seq(Tokens) /\ t \in Seq(Tokens) /\ Len(s) = 2 * Len(p) /\ Len(t) = 2 * Len(p) + 2
  BY <1>2, <1>3, StemTyped DEF Texts
<1>5. PICK u : u = Append(Append(s, "/"), x)
  OBVIOUS
<1>6. "/" \in Tokens /\ x \in Tokens
  BY LabelsAreTokens
<1>7. u \in Seq(Tokens) /\ Len(u) = Len(s) + 2 /\ u[Len(s) + 1] = "/" /\ u[Len(s) + 2] = x
      /\ \A i \in 1..Len(s) : u[i] = s[i]
  BY <1>4, <1>5, <1>6
<1>8. \A i \in 1..2 * Len(q) : t[i] = IF i % 2 = 1 THEN "/" ELSE q[i \div 2]
  BY <1>2, <1>3 DEF Stem, Text
<1>9. \A i \in 1..2 * Len(p) : s[i] = IF i % 2 = 1 THEN "/" ELSE p[i \div 2]
  <2>1. CASE p = <<>>
    BY <2>1
  <2>2. CASE p # <<>>
    BY <1>3, <2>2 DEF Stem, Text
  <2> QED
    BY <2>1, <2>2
<1>10. ASSUME NEW i \in 1..Len(s) PROVE t[i] = s[i]
  <2>1. i \in 1..2 * Len(p) /\ i \in 1..2 * Len(q)
    BY <1>2, <1>4
  <2>2. CASE i % 2 = 1
    BY <1>8, <1>9, <2>1, <2>2
  <2>3. CASE i % 2 # 1
    <3>1. i \div 2 \in 1..Len(p)
      BY <1>2, <2>1, <2>3
    <3> QED
      BY <1>2, <1>8, <1>9, <2>1, <2>3, <3>1
  <2> QED
    BY <2>2, <2>3
<1>11. t[Len(s) + 1] = "/" /\ t[Len(s) + 2] = x
  <2>1. PICK i \in Nat : i = 2 * Len(p) + 1
    BY <1>2
  <2>2. i \in 1..2 * Len(q) /\ i % 2 = 1 /\ i + 1 \in 1..2 * Len(q) /\ (i + 1) % 2 = 0 /\ (i + 1) \div 2 = Len(p) + 1
    BY <1>2, <2>1
  <2>3. t[i] = "/" /\ t[i + 1] = x
    BY <1>2, <1>8, <2>2
  <2> QED
    BY <1>4, <2>1, <2>3
<1>12. t = u
  <2>2. PICK n \in Nat : n = Len(s) /\ Len(t) = n + 2 /\ Len(u) = n + 2
    BY <1>2, <1>4, <1>7
  <2>1. ASSUME NEW i \in 1..Len(t) PROVE t[i] = u[i]
    <3>1. i \in 1..n \/ i = n + 1 \/ i = n + 2
      BY <2>2
    <3> QED
      BY <1>7, <1>10, <1>11, <2>2, <3>1
  <2> QED
    BY <1>4, <1>7, <2>1, <2>2, SeqEqual
<1> QED
  BY <1>1, <1>2, <1>3, <1>5, <1>12

LEMMA LastName ==
  ASSUME NEW n \in Nat, NEW p \in LabelSeqs, Len(p) = n + 1
  PROVE  \E q \in LabelSeqs, x \in Labels : p = Append(q, x) /\ Len(q) = n
<1>1. p # <<>>
  OBVIOUS
<1>2. /\ Front(p) \in LabelSeqs /\ Last(p) \in Labels
      /\ p = Append(Front(p), Last(p)) /\ Len(Front(p)) = Len(p) - 1
  BY <1>1, FrontAppend DEF LabelSeqs
<1> QED
  BY <1>2

LEMMA NamesOfStem == \A p \in LabelSeqs : Names(Stem(p)) = p
<1> DEFINE S == {n \in Nat : \A p \in LabelSeqs : Len(p) = n => Names(Stem(p)) = p}
<1>1. 0 \in S
  <2> SUFFICES ASSUME NEW p \in LabelSeqs, Len(p) = 0 PROVE Names(Stem(p)) = p
    OBVIOUS
  <2>1. p = <<>>
    BY DEF LabelSeqs
  <2> QED
    BY <2>1, NamesOfNone DEF Stem
<1>2. ASSUME NEW n \in Nat, n \in S PROVE n + 1 \in S
  <2> SUFFICES ASSUME NEW p \in LabelSeqs, Len(p) = n + 1 PROVE Names(Stem(p)) = p
    OBVIOUS
  <2>1. PICK q \in LabelSeqs, x \in Labels : p = Append(q, x) /\ Len(q) = n
    BY LastName
  <2>2. Names(Stem(q)) = q
    BY <1>2, <2>1
  <2>3. PICK t \in Texts : t = Append(Stem(q), "/") /\ Names(t) = q
    BY <2>2, StemTyped, NamesOfAppend, LabelsAreTokens
  <2>4. Stem(p) = Append(t, x)
    BY <2>1, <2>3, StemOfAppend
  <2>5. x \in Tokens /\ x # "/"
    BY LabelsAreTokens DEF Labels
  <2> QED
    BY <2>1, <2>3, <2>4, <2>5, NamesOfAppend
<1>3. \A n \in Nat : n \in S
  <2> HIDE DEF S
  <2> QED
    BY <1>1, <1>2, Induct
<1>4. \A p \in LabelSeqs : Len(p) \in Nat
  BY DEF LabelSeqs
<1> QED
  BY <1>3, <1>4

LEMMA StemOfConcat ==
  ASSUME NEW p \in LabelSeqs
  PROVE  \A q \in LabelSeqs : p \o q \in LabelSeqs /\ Stem(p \o q) = Stem(p) \o Stem(q)
<1> DEFINE Good(q) == Stem(p \o q) = Stem(p) \o Stem(q)
           S == {n \in Nat : \A q \in LabelSeqs : Len(q) = n => Good(q)}
<1>1. 0 \in S
  <2> SUFFICES ASSUME NEW q \in LabelSeqs, Len(q) = 0 PROVE Good(q)
    OBVIOUS
  <2>1. q = <<>>
    BY DEF LabelSeqs
  <2>2. p \o <<>> = p
    BY DEF LabelSeqs
  <2>3. Stem(p) \o <<>> = Stem(p)
    BY StemTyped DEF Texts
  <2>4. Stem(<<>>) = <<>>
    BY DEF Stem
  <2> QED
    BY <2>1, <2>2, <2>3, <2>4
<1>2. ASSUME NEW n \in Nat, n \in S PROVE n + 1 \in S
  <2> SUFFICES ASSUME NEW q \in LabelSeqs, Len(q) = n + 1 PROVE Good(q)
    OBVIOUS
  <2>1. PICK r \in LabelSeqs, x \in Labels : q = Append(r, x) /\ Len(r) = n
    BY LastName
  <2>2. Good(r)
    BY <1>2, <2>1
  <2>3. p \o q = Append(p \o r, x) /\ p \o r \in LabelSeqs
    BY <2>1, AppendConcat DEF LabelSeqs
  <2>4. Stem(p \o q) = Append(Append(Stem(p \o r), "/"), x)
    BY <2>3, StemOfAppend
  <2>5. Stem(q) = Append(Append(Stem(r), "/"), x)
    BY <2>1, StemOfAppend
  <2>6. PICK s, t : s = Stem(p) /\ t = Stem(r) /\ s \in Seq(Tokens) /\ t \in Seq(Tokens)
    BY StemTyped DEF Texts
  <2>7. s \o Append(Append(t, "/"), x) = Append(s \o Append(t, "/"), x)
        /\ s \o Append(t, "/") = Append(s \o t, "/")
    BY <2>6, LabelsAreTokens, AppendConcat
  <2> QED
    BY <2>2, <2>4, <2>5, <2>6, <2>7
<1>3. \A n \in Nat : n \in S
  <2> HIDE DEF S
  <2> QED
    BY <1>1, <1>2, Induct
<1>4. \A q \in LabelSeqs : Len(q) \in Nat /\ p \o q \in LabelSeqs
  BY DEF LabelSeqs
<1> QED
  BY <1>3, <1>4, SMTT(30)

LEMMA StemPrefix ==
  ASSUME NEW p \in LabelSeqs, NEW q \in LabelSeqs
  PROVE  IsPrefix(Stem(p), Stem(q)) <=> IsPrefix(p, q)
<1>1. ASSUME IsPrefix(p, q) PROVE IsPrefix(Stem(p), Stem(q))
  <2>1. PICK r \in LabelSeqs : q = p \o r
    BY <1>1, PrefixRest, ZenonT(30) DEF LabelSeqs
  <2>2. Stem(q) = Stem(p) \o Stem(r) /\ Stem(p) \in Seq(Tokens) /\ Stem(r) \in Seq(Tokens)
    BY <2>1, StemOfConcat, StemTyped DEF Texts
  <2> QED
    BY <2>2, PrefixOfConcat
<1>2. ASSUME IsPrefix(Stem(p), Stem(q)) PROVE IsPrefix(p, q)
  <2>1. Stem(p) \in Seq(Tokens) /\ Stem(q) \in Seq(Tokens)
    BY StemTyped DEF Texts
  <2>2. PICK t \in Seq(Tokens) : Stem(q) = Stem(p) \o t
    BY <1>2, <2>1, PrefixRest, ZenonT(30)
  <2>3. Names(Stem(p) \o t) = Names(Stem(p)) \o Names(t)
    BY <2>1, <2>2, NamesOfConcat DEF Texts
  <2>4. q = p \o Names(t) /\ Names(t) \in LabelSeqs
    BY <2>2, <2>3, NamesOfStem, NamesTyped DEF Texts
  <2> QED
    BY <2>4, PrefixOfConcat DEF LabelSeqs
<1> QED
  BY <1>1, <1>2

\* What is left of a sequence when its start is taken off.
LEMMA RestOfConcat ==
  ASSUME NEW T, NEW p \in Seq(T), NEW r \in Seq(T)
  PROVE  SubSeq(p \o r, Len(p) + 1, Len(p \o r)) = r
<1>1. PICK q : q = p \o r
  OBVIOUS
<1>2. q \in Seq(T) /\ Len(q) = Len(p) + Len(r) /\ Len(p) \in Nat /\ Len(r) \in Nat
      /\ \A i \in 1..Len(r) : q[Len(p) + i] = r[i]
  BY <1>1, ConcatProperties
<1>3. PICK z : z = SubSeq(q, Len(p) + 1, Len(q))
  OBVIOUS
<1>4. z \in Seq(T) /\ Len(z) = Len(r) /\ \A i \in 1..Len(r) : z[i] = q[Len(p) + i]
  <2>1. \A i \in Len(p) + 1..Len(q) : q[i] \in T
    BY <1>2
  <2>2. z \in Seq(T)
    BY <1>2, <1>3, <2>1, SubSeqProperties
  <2>3. Len(z) = Len(r)
    BY <1>2, <1>3
  <2>4. \A i \in 1..Len(z) : z[i] = q[Len(p) + i]
    BY <1>2, <1>3, <2>3
  <2> QED
    BY <2>2, <2>3, <2>4
<1>5. z = r
  BY <1>2, <1>4, SeqEqual
<1> QED
  BY <1>1, <1>3, <1>5
-----------------------------------------------------------------------------
(* Paths below a root, and those that binds leave as they are.             *)

\* The translations of Translate, for a root and binds.
Free(binds, path) ==
  /\ Absolute(path)
  /\ \A b \in binds : IsPrefix(b, path) => Len(path) > Len(b) /\ path[Len(b) + 1] # "/"
PutUnder(root, binds, path) == IF Free(binds, path) THEN root \o path ELSE path
TakenOff(root, path) ==
  IF path = root THEN <<"/">>
  ELSE IF IsPrefix(root, path) THEN SubSeq(path, Len(root) + 1, Len(path))
  ELSE path

Covered(binds, place) == \E b \in binds : IsPrefix(Names(b), place)

\* The binds are the texts of their names, of which each has some.
StemBinds(binds) == \A b \in binds : b \in Texts /\ Names(b) # <<>> /\ b = Stem(Names(b))

LEMMA BindsAre ==
  ASSUME NEW binds, StemBinds(binds), NEW b \in binds
  PROVE  b \in Seq(Tokens) /\ Names(b) \in LabelSeqs /\ b = Stem(Names(b)) /\ Len(b) \in Nat /\ Len(b) >= 2
<1>1. b \in Texts /\ Names(b) \in LabelSeqs /\ Names(b) # <<>> /\ b = Stem(Names(b))
  BY NamesTyped DEF StemBinds
<1>2. Len(Names(b)) \in Nat /\ Len(Names(b)) > 0
  BY <1>1 DEF LabelSeqs
<1>3. Len(b) = 2 * Len(Names(b))
  BY <1>1, StemTyped
<1> QED
  BY <1>1, <1>2, <1>3 DEF Texts

\* A path to what is not bound is expanded, one to what is bound is not.
LEMMA StemFree ==
  ASSUME NEW binds, StemBinds(binds), NEW q \in LabelSeqs, q # <<>>
  PROVE  Free(binds, Stem(q)) <=> ~Covered(binds, q)
<1>1. Stem(q) \in Texts /\ Absolute(Stem(q))
  BY StemTyped
<1>2. ASSUME NEW b \in binds PROVE IsPrefix(b, Stem(q)) <=> IsPrefix(Names(b), q)
  <2>1. b = Stem(Names(b)) /\ Names(b) \in LabelSeqs
    BY BindsAre
  <2> QED
    BY <2>1, StemPrefix
<1>3. ASSUME NEW b \in binds, IsPrefix(Names(b), q), Len(Stem(q)) > Len(b)
      PROVE  Stem(q)[Len(b) + 1] = "/"
  <2>1. b = Stem(Names(b)) /\ Names(b) \in LabelSeqs
    BY BindsAre
  <2>2. PICK r \in LabelSeqs : q = Names(b) \o r
    BY <1>3, <2>1, PrefixRest DEF LabelSeqs
  <2>3. PICK t : t = Stem(r)
    OBVIOUS
  <2>4. Stem(q) = b \o t /\ t \in Seq(Tokens) /\ b \in Seq(Tokens)
    BY <2>1, <2>2, <2>3, StemOfConcat, StemTyped DEF Texts
  <2>5. t # <<>>
    BY <1>3, <2>4
  <2>6. Absolute(t) /\ Len(t) > 0
    BY <2>3, <2>4, <2>5, StemTyped DEF Stem
  <2>7. (b \o t)[Len(b) + 1] = t[1]
    BY <2>4, <2>6
  <2> QED
    BY <2>4, <2>6, <2>7 DEF Absolute
<1> QED
  BY <1>1, <1>2, <1>3 DEF Free, Covered

\* The way back from the text of a place leads to it, unless binds hide it.
TextLeads(root, binds, d) ==
  LET path == PutUnder(root, binds, TakenOff(root, Text(d)))
  IN  path \in Texts /\ Absolute(path) /\ Names(path) = d

LEMMA TextReturns ==
  ASSUME NEW binds, StemBinds(binds), NEW top \in LabelSeqs, top # <<>>, NEW d \in LabelSeqs, d # <<>>,
         NEW q \in LabelSeqs, IsPrefix(top, d) => d = top \o q /\ ~Covered(binds, q),
         ~IsPrefix(top, d) => Covered(binds, d)
  PROVE  TextLeads(Stem(top), binds, d)
<1>0. PICK root : root = Stem(top)
  OBVIOUS
<1>1. /\ root \in Seq(Tokens) /\ root \in Texts /\ root # <<>> /\ Absolute(root)
      /\ Len(root) \in Nat /\ Len(root) > 0 /\ Names(root) = top
  <2>1. root \in Texts /\ Len(root) = 2 * Len(top) /\ Absolute(root) /\ Names(root) = top
    BY <1>0, StemTyped, NamesOfStem
  <2> QED
    BY <2>1 DEF Texts, LabelSeqs, Absolute
<1>2. Stem(d) \in Texts /\ Names(Stem(d)) = d
  BY StemTyped, NamesOfStem
<1>4. Text(d) = Stem(d) /\ Absolute(Stem(d))
  BY StemTyped DEF Stem
<1>5. CASE ~IsPrefix(top, d)
  <2>1. ~IsPrefix(root, Stem(d))
    BY <1>0, <1>5, StemPrefix
  <2>2. TakenOff(root, Stem(d)) = Stem(d)
    <3>1. Stem(d) # root
      BY <2>1 DEF IsPrefix
    <3> QED
      BY <2>1, <3>1 DEF TakenOff
  <2>4. PutUnder(root, binds, Stem(d)) = Stem(d)
    BY <1>5, StemFree DEF PutUnder
  <2> QED
    BY <1>0, <1>2, <1>4, <2>2, <2>4 DEF TextLeads
<1>6. CASE IsPrefix(top, d)
  <2>1. d = top \o q /\ ~Covered(binds, q)
    BY <1>6
  <2>2. Stem(d) = root \o Stem(q) /\ Stem(q) \in Seq(Tokens)
    BY <1>0, <2>1, StemOfConcat, StemTyped DEF Texts
  <2>4. CASE q = <<>>
    <3>1. Stem(d) = root
      BY <1>1, <2>2, <2>4 DEF Stem
    <3>2. TakenOff(root, Stem(d)) = <<"/">>
      BY <3>1 DEF TakenOff
    <3>3. <<"/">> \in Texts /\ <<"/">> \in Seq(Tokens) /\ Len(<<"/">>) = 1 /\ <<"/">> # <<>> /\ <<"/">>[1] = "/"
      BY LabelsAreTokens DEF Texts
    <3>4. Free(binds, <<"/">>)
      <4>1. ASSUME NEW b \in binds PROVE ~IsPrefix(b, <<"/">>)
        <5>1. b \in Seq(Tokens) /\ Len(b) >= 2
          BY BindsAre
        <5>2. IsPrefix(b, <<"/">>) => Len(b) <= Len(<<"/">>)
          BY <3>3, <5>1, PrefixItems
        <5> QED
          BY <3>3, <5>1, <5>2
      <4> QED
        BY <3>3, <4>1 DEF Free, Absolute
    <3>5. PutUnder(root, binds, <<"/">>) = root \o <<"/">>
      BY <3>4 DEF PutUnder
    <3>6. root \o <<"/">> \in Texts /\ Names(root \o <<"/">>) = top \o Names(<<"/">>)
      BY <1>1, <3>3, NamesOfConcat DEF Texts
    <3>7. Names(<<"/">>) = <<>>
      <4>1. <<>> \in Texts /\ Append(<<>>, "/") = <<"/">>
        BY DEF Texts
      <4>2. Names(Append(<<>>, "/")) = Names(<<>>)
        BY <4>1, NamesOfAppend, LabelsAreTokens
      <4> QED
        BY <4>1, <4>2, NamesOfNone
    <3>8. Absolute(root \o <<"/">>)
      <4>1. PICK z : z = root \o <<"/">>
        OBVIOUS
      <4>2. z[1] = root[1] /\ z # <<>>
        BY <1>1, <3>3, <4>1
      <4> QED
        BY <1>1, <4>1, <4>2 DEF Absolute
    <3> QED
      BY <1>0, <1>4, <2>1, <2>4, <3>2, <3>5, <3>6, <3>7, <3>8 DEF TextLeads
  <2>5. CASE q # <<>>
    <3>1. Absolute(Stem(q)) /\ Stem(q) # <<>>
      BY <2>5, StemTyped DEF Absolute
    <3>2. Stem(d) # root
      <4>1. Len(Stem(q)) > 0
        BY <2>2, <3>1
      <4> QED
        BY <1>1, <2>2, <4>1
    <3>3. IsPrefix(root, Stem(d))
      BY <1>1, <2>2, PrefixOfConcat
    <3>4. TakenOff(root, Stem(d)) = Stem(q)
      BY <1>1, <2>2, <3>2, <3>3, RestOfConcat DEF TakenOff
    <3>5. PutUnder(root, binds, Stem(q)) = Stem(d)
      BY <2>1, <2>2, <2>5, StemFree DEF PutUnder
    <3> QED
      BY <1>0, <1>2, <1>4, <3>4, <3>5 DEF TextLeads
  <2> QED
    BY <2>4, <2>5
<1> QED
  BY <1>5, <1>6
=============================================================================
