--------------------------- MODULE SequenceLemmas ---------------------------
(***************************************************************************)
(* Induction over the natural numbers; the operators of SequencesExt the   *)
(* model is built from, of which SelectInSeq and SelectLastInSeq choose    *)
(* the least and the greatest index of a finite set; and the functions on  *)
(* 0..n that the model defines by recursion, FlattenSeq among them.        *)
(***************************************************************************)
EXTENDS Integers, SequencesExt, SequenceTheorems, FiniteSetTheorems, TLAPS

\* Induction, for a set of natural numbers: no operator is a parameter.  If some
\* number were missing there would be a least one.
LEMMA SetInduction ==
  ASSUME NEW T, 0 \in T, \A n \in Nat : n \in T => n + 1 \in T
  PROVE  Nat \subseteq T
<1> DEFINE R == {p \in Nat \X Nat : p[1] < p[2]}
<1> SUFFICES ASSUME Nat \ T # {} PROVE FALSE
  OBVIOUS
<1>1. IsWellFoundedOn(R, Nat)
  BY NatLessThanWellFounded, SMT DEF OpToRel
<1>2. PICK n \in Nat \ T : \A m \in Nat \ T : <<m, n>> \notin R
  <2>1. Nat \ T \subseteq Nat
    OBVIOUS
  <2> HIDE DEF R
  <2> QED BY <1>1, <2>1, WFMin
<1>3. n # 0 /\ n - 1 \in Nat /\ n - 1 < n
  OBVIOUS
<1>4. n - 1 \in T
  BY <1>2, <1>3
<1> QED BY <1>3, <1>4

\* The library has the well-foundedness of the subsets of a finite set; the
\* initial segments of T are such subsets, and the least of them is that of
\* the least element.
LEMMA LeastExists ==
  ASSUME NEW n \in Int, NEW T \in SUBSET (1..n), T # {}
  PROVE  \E x \in T : \A y \in T : x <= y
<1> DEFINE Below(x) == {y \in T : y <= x}
           Segments == {Below(x) : x \in T}
           S == 1..n
<1>1. IsFiniteSet(S)
  BY FS_Interval
<1>2. IsWellFoundedOn(StrictSubsetOrdering(S), SUBSET S)
  BY <1>1, FS_StrictSubsetOrderingWellFounded, FS_FiniteSubsetsOfFinite
<1>3. Segments \subseteq SUBSET S /\ Segments # {}
  OBVIOUS
<1>4. PICK B \in Segments : \A C \in Segments : <<C, B>> \notin StrictSubsetOrdering(S)
  <2> HIDE DEF Segments, S
  <2> QED BY <1>2, <1>3, WFMin
<1>5. PICK x \in T : B = Below(x)
  BY <1>4
<1>6. ASSUME NEW y \in T, ~(x <= y)
      PROVE  FALSE
  <2>1. y < x
    BY <1>6
  <2>2. Below(y) \subseteq Below(x) /\ Below(y) # Below(x)
    <3>1. T \subseteq Int
      OBVIOUS
    <3>2. x \in Below(x) /\ x \notin Below(y)
      BY <2>1, <3>1
    <3>3. \A z \in T : z <= y => z <= x
      BY <2>1, <3>1
    <3>4. Below(y) \subseteq Below(x)
      BY <3>3, Zenon
    <3> QED BY <3>2, <3>4
  <2>3. <<Below(y), Below(x)>> \in StrictSubsetOrdering(S)
    BY <2>2 DEF StrictSubsetOrdering
  <2> QED BY <2>3, <1>4, <1>5
<1> QED BY <1>6

\* A set of indices, if not empty, has a greatest element.
LEMMA GreatestExists ==
  ASSUME NEW n \in Nat, NEW T \in SUBSET (1..n), T # {}
  PROVE  \E x \in T : \A y \in T : x >= y
<1> DEFINE Mirror == {n + 1 - x : x \in T}
<1>1. Mirror \in SUBSET (1..n) /\ Mirror # {}
  OBVIOUS
<1>2. PICK m \in Mirror : \A y \in Mirror : m <= y
  <2>1. n \in Int
    OBVIOUS
  <2> HIDE DEF Mirror
  <2> QED BY <1>1, <2>1, LeastExists
<1>3. PICK x \in T : m = n + 1 - x
  BY <1>2
<1>4. ASSUME NEW y \in T
      PROVE  x >= y
  <2>1. n + 1 - y \in Mirror
    OBVIOUS
  <2> QED BY <2>1, <1>2, <1>3
<1> QED BY <1>4

-----------------------------------------------------------------------------

\* What both selections return: 0, or an index in the set they choose from.
LEMMA MinOfIndices ==
  ASSUME NEW n \in Nat, NEW T \in SUBSET (1..n), T # {}
  PROVE  Min(T) \in T
<1>1. \E x \in T : \A y \in T : x <= y
  <2>1. n \in Int
    OBVIOUS
  <2> QED BY <2>1, LeastExists
<1> QED BY <1>1, Zenon DEF Min

\* So Max of FiniteSetsExt, a CHOOSE, picks an element of the set.
LEMMA MaxOfIndices ==
  ASSUME NEW n \in Nat, NEW T \in SUBSET (1..n), T # {}
  PROVE  Max(T) \in T
<1>1. \E x \in T : \A y \in T : x >= y
  BY GreatestExists
<1> QED BY <1>1, Zenon DEF Max

-----------------------------------------------------------------------------

\* RemoveAt keeps the other elements, in their order.
LEMMA RemoveAtProperties ==
  ASSUME NEW S, NEW s \in Seq(S), NEW i \in 1..Len(s)
  PROVE  /\ RemoveAt(s, i) \in Seq(S)
         /\ Len(RemoveAt(s, i)) = Len(s) - 1
         /\ \A j \in 1..(Len(s) - 1) :
              RemoveAt(s, i)[j] = IF j < i THEN s[j] ELSE s[j + 1]
<1> DEFINE u == SubSeq(s, 1, i - 1)
           v == SubSeq(s, i + 1, Len(s))
<1>0. Len(s) \in Nat /\ \A k \in 1..Len(s) : s[k] \in S
  BY LenProperties, ElementOfSeq
<1>1. /\ u \in Seq(S)
      /\ Len(u) = i - 1
      /\ \A k \in 1..(i - 1) : u[k] = s[k]
  <2>1. \A k \in 1..(i - 1) : s[k] \in S
    BY <1>0
  <2>2. /\ u \in Seq(S)
        /\ Len(u) = IF 1 <= i - 1 THEN (i - 1) - 1 + 1 ELSE 0
        /\ \A k \in 1 .. (i - 1) - 1 + 1 : u[k] = s[1 + k - 1]
    BY <1>0, <2>1, SubSeqProperties
  <2> QED BY <2>2, <1>0
<1>2. /\ v \in Seq(S)
      /\ Len(v) = Len(s) - i
      /\ \A k \in 1..(Len(s) - i) : v[k] = s[i + k]
  <2>1. \A k \in (i + 1)..Len(s) : s[k] \in S
    BY <1>0
  <2>2. /\ v \in Seq(S)
        /\ Len(v) = IF i + 1 <= Len(s) THEN Len(s) - (i + 1) + 1 ELSE 0
        /\ \A k \in 1 .. Len(s) - (i + 1) + 1 : v[k] = s[(i + 1) + k - 1]
    BY <1>0, <2>1, SubSeqProperties
  <2> QED BY <2>2, <1>0
<1> HIDE DEF u, v
<1>3. /\ u \o v \in Seq(S)
      /\ Len(u \o v) = Len(u) + Len(v)
      /\ \A k \in 1 .. Len(u) + Len(v) :
           (u \o v)[k] = IF k <= Len(u) THEN u[k] ELSE v[k - Len(u)]
  BY <1>1, <1>2, ConcatProperties
<1>4. RemoveAt(s, i) = u \o v
  BY DEF RemoveAt, u, v
<1>5. Len(u \o v) = Len(s) - 1
  BY <1>0, <1>1, <1>2, <1>3
<1>6. ASSUME NEW j \in 1..(Len(s) - 1)
      PROVE  (u \o v)[j] = IF j < i THEN s[j] ELSE s[j + 1]
  <2>1. CASE j < i
    BY <2>1, <1>0, <1>1, <1>2, <1>3
  <2>2. CASE ~(j < i)
    <3>1. (u \o v)[j] = v[j - (i - 1)]
      BY <2>2, <1>0, <1>1, <1>2, <1>3
    <3>2. j - (i - 1) \in 1..(Len(s) - i)
      BY <2>2, <1>0
    <3>3. v[j - (i - 1)] = s[i + (j - (i - 1))]
      BY <3>2, <1>2
    <3> QED BY <3>1, <3>3, <2>2, <1>0
  <2> QED BY <2>1, <2>2
<1> QED BY <1>3, <1>4, <1>5, <1>6

\* Front drops the last element.
LEMMA FrontProperties ==
  ASSUME NEW S, NEW s \in Seq(S), s # <<>>
  PROVE  /\ Front(s) \in Seq(S)
         /\ Len(Front(s)) = Len(s) - 1
         /\ \A j \in 1..(Len(s) - 1) : Front(s)[j] = s[j]
<1> DEFINE n == Len(s)
           f == SubSeq(s, 1, n - 1)
<1>1. n \in Nat /\ n # 0
  BY EmptySeq
<1>2. \A k \in 1..n : s[k] \in S
  BY ElementOfSeq
<1>3. Front(s) = f
  BY DEF Front
<1> HIDE DEF n
<1>4. n - 1 \in Int /\ \A k \in 1..(n - 1) : s[k] \in S
  BY <1>1, <1>2
<1>5. /\ f \in Seq(S)
      /\ Len(f) = IF 1 <= n - 1 THEN (n - 1) - 1 + 1 ELSE 0
      /\ \A k \in 1 .. (n - 1) - 1 + 1 : f[k] = s[1 + k - 1]
  BY <1>4, SubSeqProperties
<1> HIDE DEF f
<1>6. Len(f) = n - 1 /\ \A k \in 1..(n - 1) : f[k] = s[k]
  BY <1>1, <1>5
<1> QED BY <1>3, <1>5, <1>6 DEF n

-----------------------------------------------------------------------------

\* f has the values that start with v and go on by the steps.
Runs(f, n, v, step) == f[0] = v /\ \A i \in 1..n : f[i] = step[i][f[i - 1]]

\* A function on 0..n is given by its first value and a step from each to the next.
LEMMA Recursion ==
  ASSUME NEW n \in Nat, NEW V, NEW v \in V, NEW step \in [1..n -> [V -> V]]
  PROVE  \E f \in [0..n -> V] : Runs(f, n, v, step)
<1> DEFINE T == {m \in Nat : m <= n =>
                  \E f \in [0..m -> V] : f[0] = v /\ \A i \in 1..m : f[i] = step[i][f[i - 1]]}
<1>1. 0 \in T
  <2> DEFINE f == [i \in 0..0 |-> v]
  <2>1. f \in [0..0 -> V] /\ f[0] = v /\ \A i \in 1..0 : f[i] = step[i][f[i - 1]]
    OBVIOUS
  <2> QED BY <2>1
<1>2. ASSUME NEW m \in Nat, m \in T PROVE m + 1 \in T
  <2> SUFFICES ASSUME m + 1 <= n
               PROVE  \E f \in [0..(m + 1) -> V] :
                        f[0] = v /\ \A i \in 1..(m + 1) : f[i] = step[i][f[i - 1]]
    OBVIOUS
  <2>1. PICK f \in [0..m -> V] : f[0] = v /\ \A i \in 1..m : f[i] = step[i][f[i - 1]]
    BY <1>2
  <2> DEFINE g == [i \in 0..(m + 1) |-> IF i = m + 1 THEN step[m + 1][f[m]] ELSE f[i]]
  <2>2. step[m + 1][f[m]] \in V
    BY <2>1
  <2>3. g \in [0..(m + 1) -> V]
    BY <2>1, <2>2
  <2>4. \A i \in 0..m : g[i] = f[i]
    OBVIOUS
  <2>5. g[m + 1] = step[m + 1][g[m]]
    <3>1. g[m + 1] = step[m + 1][f[m]] /\ m \in 0..m
      OBVIOUS
    <3> HIDE DEF g
    <3> QED BY <3>1, <2>4
  <2>6. ASSUME NEW i \in 1..(m + 1) PROVE g[i] = step[i][g[i - 1]]
    <3>1. CASE i = m + 1
      <4>1. i - 1 = m
        BY <3>1
      <4> HIDE DEF g
      <4> QED BY <2>5, <3>1, <4>1
    <3>2. CASE i # m + 1
      <4>1. i \in 1..m /\ i \in 0..m /\ i - 1 \in 0..m
        BY <3>2
      <4> HIDE DEF g
      <4> QED BY <2>1, <2>4, <4>1
    <3> QED BY <3>1, <3>2
  <2>7. g[0] = v
    BY <2>1, <2>4
  <2> HIDE DEF g
  <2> QED BY <2>3, <2>6, <2>7
<1>3. n \in T
  <2> HIDE DEF T
  <2> QED BY <1>1, <1>2, SetInduction
<1> QED BY <1>3 DEF Runs

\* Two functions that start alike and go on alike.
InStep(f, g, n) == f[0] = g[0] /\ \A i \in 1..n : f[i - 1] = g[i - 1] => f[i] = g[i]

\* There is only one such function.
LEMMA OneRecursion ==
  ASSUME NEW n \in Nat, NEW f, NEW g, InStep(f, g, n)
  PROVE  \A i \in 0..n : f[i] = g[i]
<1> DEFINE T == {m \in Nat : m <= n => f[m] = g[m]}
<1>1. 0 \in T
  BY DEF InStep
<1>2. ASSUME NEW m \in Nat, m \in T PROVE m + 1 \in T
  <2> SUFFICES ASSUME m + 1 <= n PROVE f[m + 1] = g[m + 1]
    OBVIOUS
  <2>1. m + 1 \in 1..n /\ (m + 1) - 1 = m /\ f[m] = g[m]
    BY <1>2
  <2> QED BY <2>1 DEF InStep
<1>3. Nat \subseteq T
  <2> HIDE DEF T
  <2> QED BY <1>1, <1>2, SetInduction
<1> QED BY <1>3

\* A property of all of its values.
LEMMA Along ==
  ASSUME NEW n \in Nat, NEW P, 0 \in P, \A i \in 1..n : i - 1 \in P => i \in P
  PROVE  0..n \subseteq P
<1> DEFINE T == {m \in Nat : m <= n => m \in P}
<1>1. 0 \in T
  OBVIOUS
<1>2. ASSUME NEW m \in Nat, m \in T PROVE m + 1 \in T
  <2> SUFFICES ASSUME m + 1 <= n PROVE m + 1 \in P
    OBVIOUS
  <2>1. m + 1 \in 1..n /\ (m + 1) - 1 = m /\ m \in P
    BY <1>2
  <2> QED BY <2>1
<1>3. Nat \subseteq T
  <2> HIDE DEF T
  <2> QED BY <1>1, <1>2, SetInduction
<1> QED BY <1>3

\* The sequences of s one after the other: flat[i] is what the first i make up.
Joins(flat, s, n) == flat[0] = <<>> /\ \A i \in 1..n : flat[i] = flat[i - 1] \o s[i]

\* FlattenSeq is the last of those.
LEMMA Flattening ==
  ASSUME NEW X, NEW s \in Seq(Seq(X))
  PROVE  \E flat \in [0..Len(s) -> Seq(X)] :
           Joins(flat, s, Len(s)) /\ FlattenSeq(s) = flat[Len(s)]
<1> DEFINE n == Len(s)
           V == Seq(X)
           step == [i \in 1..n |-> [x \in V |-> x \o s[i]]]
           Is(g) == g = [i \in 1..n |-> IF i = 1 THEN s[i] ELSE g[i - 1] \o s[i]]
<1>1. n \in Nat /\ \A i \in 1..n : s[i] \in V
  BY LenProperties, ElementOfSeq
<1>2. \A x, y \in V : x \o y \in V
  BY ConcatProperties
<1>3. <<>> \in V /\ \A x \in V : <<>> \o x = x
  BY EmptySeq, ConcatEmptySeq
<1>4. FlattenSeq(s) = IF n = 0 THEN s ELSE (CHOOSE g : Is(g))[n]
  BY DEF FlattenSeq
<1>5. n = 0 => s = <<>>
  BY EmptySeq
<1> HIDE DEF n, V
<1>6. PICK f \in [0..n -> V] : Runs(f, n, <<>>, step)
  <2>1. step \in [1..n -> [V -> V]]
    BY <1>1, <1>2
  <2> HIDE DEF step
  <2> QED BY <1>1, <1>3, <2>1, Recursion
<1>7. \A i \in 1..n : i \in 0..n /\ i - 1 \in 0..n /\ i # 0 /\ (i # 1 => i - 1 \in 1..n)
  BY <1>1
<1>8. f[0] = <<>> /\ \A i \in 1..n : f[i] = f[i - 1] \o s[i]
  BY <1>6, <1>7 DEF Runs
<1> HIDE DEF step
<1>9. ASSUME n # 0 PROVE (CHOOSE g : Is(g))[n] = f[n]
  <2> DEFINE g == [i \in 1..n |-> f[i]]
  <2>1. Is(g)
    <3>1. ASSUME NEW i \in 1..n
          PROVE  g[i] = IF i = 1 THEN s[i] ELSE g[i - 1] \o s[i]
      <4>1. CASE i = 1
        <5>1. i - 1 = 0 /\ s[i] \in V
          BY <1>1, <4>1
        <5>2. f[i] = <<>> \o s[i]
          BY <1>8, <5>1, Zenon
        <5> QED BY <1>3, <4>1, <5>1, <5>2
      <4>2. CASE i # 1
        BY <1>7, <1>8, <4>2
      <4> QED BY <4>1, <4>2
    <3>2. g = [i \in 1..n |-> g[i]]
      OBVIOUS
    <3> HIDE DEF g
    <3> QED BY <3>1, <3>2
  <2> DEFINE h == CHOOSE t : Is(t)
  <2>2. Is(h)
    <3> HIDE DEF g, Is
    <3> QED BY <2>1
  <2> HIDE DEF h, g
  <2>3. \A i \in 1..n : h[i] = IF i = 1 THEN s[i] ELSE h[i - 1] \o s[i]
    BY <2>2
  <2> HIDE DEF Is
  <2> DEFINE e == [i \in 0..n |-> IF i = 0 THEN <<>> ELSE h[i]]
  <2>4. InStep(e, f, n)
    <3>1. e[0] = f[0]
      BY <1>1, <1>8
    <3>2. ASSUME NEW i \in 1..n, e[i - 1] = f[i - 1] PROVE e[i] = f[i]
      <4>1. e[i] = h[i]
        BY <1>7
      <4>2. CASE i = 1
        <5>1. i - 1 = 0 /\ s[i] \in V
          BY <1>1, <4>2
        <5>3. h[i] = s[i]
          BY <2>3, <4>2, Zenon
        <5>2. f[i] = <<>> \o s[i]
          BY <1>8, <5>1, Zenon
        <5> QED BY <1>3, <4>1, <5>1, <5>2, <5>3
      <4>3. CASE i # 1
        <5>1. h[i] = h[i - 1] \o s[i] /\ e[i - 1] = h[i - 1]
          BY <1>7, <2>3, <4>3
        <5> QED BY <1>8, <3>2, <4>1, <5>1
      <4> QED BY <4>2, <4>3
    <3> HIDE DEF e
    <3> QED BY <3>1, <3>2 DEF InStep
  <2>5. e[n] = f[n]
    <3> HIDE DEF e
    <3>1. \A i \in 0..n : e[i] = f[i]
      BY <1>1, <2>4, OneRecursion
    <3> QED BY <1>1, <3>1
  <2>6. e[n] = h[n]
    BY <1>1, <1>9
  <2> QED BY <2>5, <2>6 DEF h
<1>10. FlattenSeq(s) = f[n]
  <2>1. CASE n = 0
    BY <1>4, <1>5, <1>8, <2>1
  <2>2. CASE n # 0
    <3> HIDE DEF Is
    <3> QED BY <1>4, <1>9, <2>2
  <2> QED BY <2>1, <2>2
<1> QED BY <1>6, <1>8, <1>10 DEF n, V, Joins

\* q starts with p.
BeginsWith(q, p) == Len(p) <= Len(q) /\ \A k \in 1..Len(p) : q[k] = p[k]

\* What is put behind p starts with p.
LEMMA ConcatStarts ==
  ASSUME NEW X, NEW p \in Seq(X), NEW q \in Seq(X)
  PROVE  BeginsWith(p \o q, p)
<1>1. Len(p) \in Nat /\ Len(q) \in Nat
  BY LenProperties
<1>2. /\ Len(p \o q) = Len(p) + Len(q)
      /\ \A i \in 1 .. Len(p) + Len(q) : (p \o q)[i] = IF i <= Len(p) THEN p[i] ELSE q[i - Len(p)]
  BY ConcatProperties
<1> QED BY <1>1, <1>2 DEF BeginsWith

\* What starts with something that starts with p does, too.
LEMMA StartsOn ==
  ASSUME NEW X, NEW p \in Seq(X), NEW q \in Seq(X), NEW r \in Seq(X), BeginsWith(q, p), BeginsWith(r, q)
  PROVE  BeginsWith(r, p)
<1>1. Len(p) \in Nat /\ Len(q) \in Nat /\ Len(r) \in Nat
  BY LenProperties
<1> QED BY <1>1 DEF BeginsWith

\* What starts with p goes on behind it.
LEMMA StartsAndGoesOn ==
  ASSUME NEW X, NEW p \in Seq(X), NEW q \in Seq(X), BeginsWith(q, p)
  PROVE  \E r \in Seq(X) : q = p \o r
<1> DEFINE m == Len(p)
           n == Len(q)
           r == SubSeq(q, m + 1, n)
<1>1. m \in Nat /\ n \in Nat /\ m <= n /\ \A k \in 1..n : q[k] \in X
  BY LenProperties, ElementOfSeq DEF BeginsWith
<1>2. \A k \in 1..m : q[k] = p[k]
  BY DEF BeginsWith
<1>3. /\ r \in Seq(X) /\ Len(r) = IF m + 1 <= n THEN n - (m + 1) + 1 ELSE 0
      /\ \A i \in 1..(n - (m + 1) + 1) : r[i] = q[(m + 1) + i - 1]
  <2>1. m + 1 \in Int /\ n \in Int /\ \A k \in (m + 1)..n : q[k] \in X
    BY <1>1
  <2> HIDE DEF m, n
  <2> QED BY <2>1, SubSeqProperties
<1> HIDE DEF r
<1>4. Len(r) = n - m
  BY <1>1, <1>3
<1>5. /\ p \o r \in Seq(X) /\ Len(p \o r) = m + (n - m)
      /\ \A i \in 1..(m + (n - m)) : (p \o r)[i] = IF i <= m THEN p[i] ELSE r[i - m]
  BY <1>3, <1>4, ConcatProperties
<1> HIDE DEF m, n
<1>6. ASSUME NEW i \in 1..n PROVE q[i] = (p \o r)[i]
  <2>1. CASE i <= m
    BY <1>1, <1>2, <1>5, <2>1
  <2>2. CASE ~ (i <= m)
    <3>1. i - m \in 1..(n - (m + 1) + 1) /\ (m + 1) + (i - m) - 1 = i
      BY <1>1, <2>2
    <3>2. r[i - m] = q[i]
      BY <1>3, <3>1
    <3> QED BY <1>1, <1>5, <2>2, <3>2
  <2> QED BY <2>1, <2>2
<1>7. Len(p \o r) = n
  BY <1>1, <1>5
<1>8. q = p \o r
  BY <1>5, <1>6, <1>7, SeqEqual DEF n
<1> QED BY <1>3, <1>8

\* All of them start with the first i.
LEMMA FlatStarts ==
  ASSUME NEW X, NEW n \in Nat, NEW s, NEW flat \in [0..n -> Seq(X)],
         \A i \in 1..n : s[i] \in Seq(X), Joins(flat, s, n)
  PROVE  \A i \in 0..n : BeginsWith(flat[n], flat[i])
<1> DEFINE P == {j \in 0..n : \A i \in 0..j : BeginsWith(flat[j], flat[i])}
<1>0. \A j \in 0..n : BeginsWith(flat[j], flat[j])
  <2> SUFFICES ASSUME NEW j \in 0..n PROVE BeginsWith(flat[j], flat[j])
    OBVIOUS
  <2>1. Len(flat[j]) \in Nat
    BY LenProperties
  <2> QED BY <2>1 DEF BeginsWith
<1>1. 0 \in P
  BY <1>0
<1>2. ASSUME NEW j \in 1..n, j - 1 \in P PROVE j \in P
  <2>1. j \in 0..n /\ j - 1 \in 0..n /\ flat[j] = flat[j - 1] \o s[j]
    <3>1. flat[j] = flat[j - 1] \o s[j]
      BY Zenon DEF Joins
    <3> QED BY <3>1
  <2>2. BeginsWith(flat[j], flat[j - 1])
    <3>1. flat[j - 1] \in Seq(X) /\ s[j] \in Seq(X)
      BY <2>1
    <3>2. BeginsWith(flat[j - 1] \o s[j], flat[j - 1])
      BY <3>1, ConcatStarts
    <3> QED BY <2>1, <3>2
  <2>3. ASSUME NEW i \in 0..j PROVE BeginsWith(flat[j], flat[i])
    <3>1. CASE i = j
      BY <1>0, <2>1, <3>1
    <3>2. CASE i # j
      <4>1. i \in 0..(j - 1) /\ i \in 0..n
        BY <3>2
      <4>2. BeginsWith(flat[j - 1], flat[i])
        BY <1>2, <4>1
      <4>3. flat[j] \in Seq(X) /\ flat[j - 1] \in Seq(X) /\ flat[i] \in Seq(X)
        BY <2>1, <4>1
      <4> QED BY <2>2, <4>2, <4>3, StartsOn
    <3> QED BY <3>1, <3>2
  <2> QED BY <2>1, <2>3
<1>3. n \in P
  <2>1. 0..n \subseteq P
    <3> HIDE DEF P
    <3> QED BY <1>1, <1>2, Along
  <2> QED BY <2>1
<1> QED BY <1>3

\* One sequence behind another.
LEMMA Behind ==
  ASSUME NEW X, NEW x \in Seq(X), NEW y \in Seq(X)
  PROVE  /\ x \o y \in Seq(X) /\ Len(x) \in Nat /\ Len(y) \in Nat
         /\ Len(x \o y) = Len(x) + Len(y)
         /\ \A k \in 1..Len(x) : (x \o y)[k] = x[k]
         /\ \A k \in 1..Len(y) : (x \o y)[Len(x) + k] = y[k]
<1> DEFINE m == Len(x)
           n == Len(y)
           z == x \o y
<1>1. m \in Nat /\ n \in Nat
  BY LenProperties
<1>2. /\ z \in Seq(X) /\ Len(z) = m + n
      /\ \A i \in 1..(m + n) : z[i] = IF i <= m THEN x[i] ELSE y[i - m]
  BY ConcatProperties
<1> HIDE DEF m, n, z
<1>3. ASSUME NEW k \in 1..m PROVE z[k] = x[k]
  BY <1>1, <1>2
<1>4. ASSUME NEW k \in 1..n PROVE z[m + k] = y[k]
  <2>1. m + k \in 1..(m + n) /\ ~ (m + k <= m) /\ (m + k) - m = k
    BY <1>1
  <2>2. z[m + k] = y[(m + k) - m]
    BY <1>2, <2>1, Zenon
  <2> QED BY <2>1, <2>2
<1> QED BY <1>1, <1>2, <1>3, <1>4 DEF m, n, z

\* Where the bytes of a packet are put together first does not matter.
LEMMA BytesAssociative ==
  ASSUME NEW X, NEW x \in Seq(X), NEW y \in Seq(X), NEW z \in Seq(X)
  PROVE  (x \o y) \o z = x \o (y \o z)
BY ConcatAssociative

\* The first i items.
FirstOf(p, i) == [k \in 1..i |-> p[k]]

\* One item more.
LEMMA FirstOfAppend ==
  ASSUME NEW X, NEW n \in Nat, NEW p \in [1..n -> X], NEW i \in 1..n
  PROVE  Append(FirstOf(p, i - 1), p[i]) = FirstOf(p, i)
<1> DEFINE q == FirstOf(p, i - 1)
           x == p[i]
           r == FirstOf(p, i)
<1>1. i \in Nat /\ i - 1 \in Nat /\ x \in X /\ \A k \in 1..i : p[k] \in X
  OBVIOUS
<1>2. \A k \in 1..(i - 1) : p[k] \in X
  BY <1>1
<1>3. q \in [1..(i - 1) -> X] /\ r \in [1..i -> X]
  BY <1>1, <1>2 DEF FirstOf
<1>4. \A k \in 1..(i - 1) : q[k] = p[k]
  BY DEF FirstOf
<1>5. \A k \in 1..i : r[k] = p[k]
  BY DEF FirstOf
<1> HIDE DEF q, r
<1>6. q \in Seq(X) /\ r \in Seq(X)
  BY <1>1, <1>3, SeqDef
<1>7. Len(q) = i - 1 /\ Len(r) = i
  <2>1. DOMAIN q = 1..(i - 1) /\ DOMAIN q = 1..Len(q) /\ Len(q) \in Nat
    BY <1>3, <1>6, LenProperties
  <2>2. DOMAIN r = 1..i /\ DOMAIN r = 1..Len(r) /\ Len(r) \in Nat
    BY <1>3, <1>6, LenProperties
  <2> QED BY <1>1, <2>1, <2>2
<1> HIDE DEF x
<1>8. /\ Append(q, x) \in Seq(X) /\ Len(Append(q, x)) = Len(q) + 1
      /\ \A k \in 1..Len(q) : Append(q, x)[k] = q[k]
      /\ Append(q, x)[Len(q) + 1] = x
  BY <1>1, <1>6, AppendProperties
<1>9. ASSUME NEW k \in 1..i PROVE Append(q, x)[k] = r[k]
  <2>1. CASE k = i
    BY <1>1, <1>5, <1>7, <1>8, <2>1 DEF x
  <2>2. CASE k # i
    <3>1. k \in 1..(i - 1)
      BY <2>2
    <3> QED BY <1>4, <1>5, <1>7, <1>8, <3>1
  <2> QED BY <2>1, <2>2
<1>10. Append(q, x) = r
  <2>1. Len(Append(q, x)) = Len(r)
    BY <1>1, <1>7, <1>8
  <2>2. \A k \in 1..Len(r) : Append(q, x)[k] = r[k]
    BY <1>7, <1>9
  <2> QED BY <1>6, <1>8, <2>1, <2>2, SeqEqual
<1> QED BY <1>10 DEF q, r, x

\* A beginning of a sequence, all of it included.
LEMMA FirstOfIs ==
  ASSUME NEW X, NEW s \in Seq(X), NEW n \in Nat, n <= Len(s)
  PROVE  /\ FirstOf(s, n) \in Seq(X) /\ Len(FirstOf(s, n)) = n
         /\ n = Len(s) => FirstOf(s, n) = s
<1> DEFINE l == Len(s)
           f == FirstOf(s, n)
<1>1. l \in Nat /\ n <= l /\ \A k \in 1..l : s[k] \in X
  BY LenProperties, ElementOfSeq
<1> HIDE DEF l
<1>2. \A k \in 1..n : k \in 1..l
  BY <1>1
<1>3. f = [k \in 1..n |-> s[k]]
  BY DEF FirstOf
<1> HIDE DEF f
<1>4. f \in [1..n -> X]
  BY <1>1, <1>2, <1>3
<1>5. f \in Seq(X)
  BY <1>4, SeqDef
<1>6. Len(f) = n
  <2>1. DOMAIN f = 1..n /\ DOMAIN f = 1..Len(f) /\ Len(f) \in Nat
    BY <1>4, <1>5, LenProperties
  <2> QED BY <2>1
<1>7. ASSUME n = l PROVE f = s
  <2>1. Len(f) = Len(s) /\ \A k \in 1..Len(f) : f[k] = s[k]
    BY <1>3, <1>6, <1>7 DEF l
  <2> QED BY <1>5, <2>1, SeqEqual
<1> QED BY <1>5, <1>6, <1>7 DEF f, l

\* b and q are the same as far as both go.
Agree(b, q) == \A k \in 1..Len(b) : k <= Len(q) => b[k] = q[k]

\* Whatever agrees with q starts with every part of it that is no longer, and
\* a part that is longer starts with it.
LEMMA AgreeStarts ==
  ASSUME NEW X, NEW b \in Seq(X), NEW q \in Seq(X), Agree(b, q), NEW p \in Seq(X), BeginsWith(q, p)
  PROVE  /\ Len(p) <= Len(b) => BeginsWith(b, p)
         /\ ~ (Len(p) <= Len(b)) => \A k \in 1..Len(b) : b[k] = p[k]
<1> DEFINE l == Len(b)
           m == Len(p)
           n == Len(q)
<1>1. l \in Nat /\ m \in Nat /\ n \in Nat /\ m <= n /\ \A k \in 1..m : q[k] = p[k]
  BY LenProperties DEF BeginsWith
<1>2. \A k \in 1..l : k <= n => b[k] = q[k]
  BY DEF Agree
<1>3. BeginsWith(b, p) <=> m <= l /\ \A k \in 1..m : b[k] = p[k]
  BY DEF BeginsWith
<1> HIDE DEF l, m, n
<1>4. ASSUME m <= l, NEW k \in 1..m PROVE b[k] = p[k]
  <2>1. k \in 1..l /\ k <= n
    BY <1>1, <1>4
  <2> QED BY <1>1, <1>2, <2>1
<1>5. ASSUME ~ (m <= l), NEW k \in 1..l PROVE b[k] = p[k]
  <2>1. k \in 1..m /\ k <= n
    BY <1>1, <1>5
  <2> QED BY <1>1, <1>2, <2>1
<1>6. m <= l => BeginsWith(b, p)
  BY <1>3, <1>4
<1> QED BY <1>5, <1>6 DEF l, m
=============================================================================
