---------------------------- MODULE Induction_proofs ----------------------------
(***************************************************************************)
(* Facts about numbers, sequences, loops and the order of keys that the    *)
(* other proofs rest on.  The library's induction theorems take an         *)
(* operator, which the provers cannot instantiate; the same principle is   *)
(* stated here about sets of numbers, and follows from the                 *)
(* well-foundedness of < on the naturals.                                  *)
(***************************************************************************)
EXTENDS Separator, SequencesExt, WellFoundedInduction, SequenceTheorems, TLAPS

\* No sequence of naturals descends forever.
LEMMA NaturalsWellFounded == IsWellFoundedOn({ss \in Nat \X Nat : ss[1] < ss[2]}, Nat)
BY NatLessThanWellFounded DEF OpToRel

\* Every set of naturals has a least element.
LEMMA LeastNatural ==
    ASSUME NEW T \in SUBSET Nat, T # {}
    PROVE  \E x \in T : \A y \in T : x <= y
<1> DEFINE R == {ss \in Nat \X Nat : ss[1] < ss[2]}
<1>1. \A x, y \in Nat : <<y, x>> \in R <=> y < x
  OBVIOUS
<1>2. T \subseteq Nat /\ IsWellFoundedOn(R, Nat)
  BY NaturalsWellFounded
<1> HIDE DEF R
<1>3. PICK x \in T : \A y \in T : ~(<<y, x>> \in R)
  BY <1>2, WFMin
<1>4. ASSUME NEW y \in T PROVE x <= y
  <2>1. x \in Nat /\ y \in Nat
    OBVIOUS
  <2>2. ~(y < x)
    BY <1>1, <1>3, <2>1
  <2> QED BY <2>1, <2>2
<1> QED BY <1>4

\* Induction: a set that contains 0 and every successor contains every natural.
LEMMA Induction ==
    ASSUME NEW S, 0 \in S, \A n \in Nat : n \in S => n + 1 \in S
    PROVE  \A n \in Nat : n \in S
<1> DEFINE T == Nat \ S
<1> SUFFICES ASSUME T # {} PROVE FALSE
  OBVIOUS
<1>1. T \in SUBSET Nat
  OBVIOUS
<1>2. PICK x \in T : \A y \in T : x <= y
  BY <1>1, LeastNatural
<1>3. x \in Nat /\ x \notin S
  OBVIOUS
<1>4. x - 1 \in Nat /\ x - 1 # x /\ x = (x - 1) + 1
  BY <1>3
<1>5. x - 1 \notin T
  BY <1>2, <1>3, <1>4
<1>6. x - 1 \in S
  BY <1>4, <1>5
<1> QED BY <1>3, <1>4, <1>6

\* What Min of the community modules yields for naturals.
LEMMA MinIsLeast ==
    ASSUME NEW T \in SUBSET Nat, T # {}
    PROVE  Min(T) \in T /\ \A y \in T : Min(T) <= y
BY LeastNatural DEF Min

\* Where a search from the front for a position in T ends: at the first one, or
\* one after the last position.
LEMMA FirstOf ==
    ASSUME NEW n \in Nat, NEW T \in SUBSET 1..n
    PROVE  LET m == Min(T \cup {n + 1}) IN
           /\ m \in 1..(n + 1)
           /\ m <= n => m \in T
           /\ \A i \in 1..(m - 1) : i \notin T
<1> DEFINE m == Min(T \cup {n + 1})
<1>1. T \cup {n + 1} \in SUBSET Nat /\ T \cup {n + 1} # {}
  OBVIOUS
<1>2. m \in T \cup {n + 1} /\ \A y \in T \cup {n + 1} : m <= y
  BY <1>1, MinIsLeast
<1> HIDE DEF m
<1>3. m \in 1..(n + 1) /\ (m <= n => m \in T)
  <2>1. m = n + 1 \/ m \in T
    BY <1>2
  <2>2. m \in T => m \in 1..n
    OBVIOUS
  <2> QED BY <2>1, <2>2
<1>4. ASSUME NEW i \in 1..(m - 1) PROVE i \notin T
  <2>1. i \in Int /\ m \in Int /\ i < m
    BY <1>3
  <2>2. i \in T => m <= i
    BY <1>2
  <2> QED BY <2>1, <2>2
<1> QED BY <1>3, <1>4 DEF m

-------------------------------------------------------------------------------
(* Concatenations of sequences *)

\* g[i] is the concatenation of the first i sequences of s.
Partials(g, s, n) ==
    /\ g[0] = <<>>
    /\ \A i \in 1..n : g[i] = g[i - 1] \o s[i]

LEMMA PrefixesExist ==
    ASSUME NEW A, NEW s \in Seq(Seq(A))
    PROVE  \E g \in [0..Len(s) -> Seq(A)] : Partials(g, s, Len(s))
<1> DEFINE Good(n) == \E g \in [0..n -> Seq(A)] : Partials(g, s, n)
           S == {n \in Nat : n <= Len(s) => Good(n)}
<1>1. Len(s) \in Nat /\ \A i \in 1..Len(s) : s[i] \in Seq(A)
  BY LenProperties, ElementOfSeq
<1>2. 0 \in S
  <2> DEFINE g == [i \in 0..0 |-> <<>>]
  <2>1. g \in [0..0 -> Seq(A)] /\ Partials(g, s, 0)
    BY DEF Partials
  <2> QED BY <2>1
<1>3. ASSUME NEW n \in Nat, n \in S PROVE n + 1 \in S
  <2> SUFFICES ASSUME n + 1 <= Len(s) PROVE Good(n + 1)
    OBVIOUS
  <2>1. Good(n) /\ s[n + 1] \in Seq(A)
    BY <1>1, <1>3
  <2>2. PICK g \in [0..n -> Seq(A)] : Partials(g, s, n)
    BY <2>1
  <2> DEFINE h == [i \in 0..(n + 1) |-> IF i <= n THEN g[i] ELSE g[n] \o s[n + 1]]
  <2>3. g[n] \in Seq(A) /\ g[n] \o s[n + 1] \in Seq(A)
    BY <2>1, <2>2, ConcatProperties
  <2>4. h \in [0..(n + 1) -> Seq(A)]
    BY <2>3
  <2>5. h[0] = <<>>
    BY <2>2 DEF Partials
  <2>6. ASSUME NEW i \in 1..(n + 1) PROVE h[i] = h[i - 1] \o s[i]
    <3>1. CASE i = n + 1
      <4>1. h[n + 1] = g[n] \o s[n + 1] /\ h[n] = g[n]
        OBVIOUS
      <4>2. i - 1 = n
        BY <3>1
      <4> HIDE DEF h
      <4> QED BY <3>1, <4>1, <4>2
    <3>2. CASE i # n + 1
      <4>1. i \in 1..n /\ i <= n /\ i - 1 <= n /\ i - 1 \in 0..(n + 1) /\ i \in 0..(n + 1)
        BY <3>2
      <4>2. h[i] = g[i] /\ h[i - 1] = g[i - 1]
        BY <4>1
      <4>3. g[i] = g[i - 1] \o s[i]
        BY <2>2, <4>1 DEF Partials
      <4> HIDE DEF h
      <4> QED BY <4>2, <4>3
    <3> QED BY <3>1, <3>2
  <2> HIDE DEF h
  <2>7. Partials(h, s, n + 1)
    BY <2>5, <2>6 DEF Partials
  <2> QED BY <2>4, <2>7
<1>4. \A n \in Nat : n \in S
  <2> HIDE DEF S
  <2> QED BY <1>2, <1>3, Induction
<1>5. Good(Len(s))
  BY <1>1, <1>4
<1> QED BY <1>5

\* Two functions that both hold the concatenations agree.
LEMMA PrefixesAgree ==
    ASSUME NEW s, NEW n \in Nat, NEW g, NEW h, Partials(g, s, n), Partials(h, s, n)
    PROVE  \A i \in 0..n : g[i] = h[i]
<1> DEFINE S == {i \in Nat : i <= n => g[i] = h[i]}
<1>1. 0 \in S
  BY DEF Partials
<1>2. ASSUME NEW i \in Nat, i \in S PROVE i + 1 \in S
  <2> SUFFICES ASSUME i + 1 <= n PROVE g[i + 1] = h[i + 1]
    OBVIOUS
  <2>1. i + 1 \in 1..n /\ (i + 1) - 1 = i
    OBVIOUS
  <2>2. g[i + 1] = g[i] \o s[i + 1] /\ h[i + 1] = h[i] \o s[i + 1]
    BY <2>1 DEF Partials
  <2>3. g[i] = h[i]
    BY <1>2
  <2> QED BY <2>2, <2>3
<1>3. \A i \in Nat : i \in S
  <2> HIDE DEF S
  <2> QED BY <1>1, <1>2, Induction
<1> QED BY <1>3

\* FlattenSeq of the community modules is the last of the concatenations.
LEMMA FlattenIsLast ==
    ASSUME NEW A, NEW s \in Seq(Seq(A)), NEW g, Partials(g, s, Len(s))
    PROVE  FlattenSeq(s) = g[Len(s)] /\ FlattenSeq(s) \in Seq(A)
<1> DEFINE n == Len(s)
<1>1. n \in Nat /\ (s = <<>> <=> n = 0)
  BY LenProperties, EmptySeq
<1>2. PICK p \in [0..n -> Seq(A)] : Partials(p, s, n)
  BY PrefixesExist
<1>3. g[n] = p[n]
  BY <1>1, <1>2, PrefixesAgree
<1>4. p[n] \in Seq(A)
  BY <1>1, <1>2
<1>5. CASE n = 0
  <2>1. FlattenSeq(s) = <<>>
    BY <1>1, <1>5 DEF FlattenSeq
  <2>2. g[n] = <<>>
    BY <1>5 DEF Partials
  <2> QED BY <1>3, <1>4, <2>1, <2>2
<1>6. CASE n # 0
  <2> DEFINE Rec(f) == f = [i \in 1..n |-> IF i = 1 THEN s[i] ELSE f[i - 1] \o s[i]]
             q == [i \in 1..n |-> p[i]]
             f == CHOOSE x : Rec(x)
             h == [i \in 0..n |-> IF i = 0 THEN <<>> ELSE f[i]]
  <2>1. \A i \in 1..n : s[i] \in Seq(A)
    BY ElementOfSeq
  <2>2. ASSUME NEW i \in 1..n PROVE q[i] = IF i = 1 THEN s[i] ELSE q[i - 1] \o s[i]
    <3>1. p[i] = p[i - 1] \o s[i]
      BY <1>2 DEF Partials
    <3>2. CASE i = 1
      <4>1. p[0] = <<>>
        BY <1>2 DEF Partials
      <4>2. <<>> \o s[i] = s[i]
        BY <2>1, ConcatEmptySeq
      <4>3. q[i] = p[i] /\ i - 1 = 0
        BY <3>2
      <4> HIDE DEF q
      <4> QED BY <3>1, <3>2, <4>1, <4>2, <4>3
    <3>3. CASE i # 1
      <4>1. i - 1 \in 1..n
        BY <1>1, <3>3
      <4> QED BY <3>1, <3>3, <4>1
    <3> QED BY <3>2, <3>3
  <2>3. Rec(q)
    <3> DEFINE r == [i \in 1..n |-> IF i = 1 THEN s[i] ELSE q[i - 1] \o s[i]]
    <3>1. \A i \in 1..n : q[i] = r[i]
      <4> HIDE DEF q
      <4> QED BY <2>2
    <3>2. q = r
      BY <3>1
    <3> QED BY <3>2
  <2>4. Rec(f)
    <3> HIDE DEF Rec, q
    <3> QED BY <2>3
  <2>5. FlattenSeq(s) = f[n]
    BY <1>6 DEF FlattenSeq
  <2> HIDE DEF f
  <2>6. ASSUME NEW i \in 1..n PROVE f[i] = IF i = 1 THEN s[i] ELSE f[i - 1] \o s[i]
    BY <2>4
  <2>7. Partials(h, s, n)
    <3>1. h[0] = <<>>
      BY <1>1
    <3>2. ASSUME NEW i \in 1..n PROVE h[i] = h[i - 1] \o s[i]
      <4>1. h[i] = f[i] /\ h[i - 1] = IF i = 1 THEN <<>> ELSE f[i - 1]
        BY <1>1
      <4>2. <<>> \o s[i] = s[i]
        BY <2>1, ConcatEmptySeq
      <4> HIDE DEF h
      <4> QED BY <2>6, <4>1, <4>2
    <3> HIDE DEF h
    <3> QED BY <3>1, <3>2 DEF Partials
  <2>8. h[n] = f[n]
    BY <1>1, <1>6
  <2> HIDE DEF h
  <2>9. h[n] = p[n]
    BY <1>1, <1>2, <2>7, PrefixesAgree
  <2> QED BY <1>3, <1>4, <2>5, <2>8, <2>9
<1> QED BY <1>5, <1>6

LEMMA FlattenTyped ==
    ASSUME NEW A, NEW s \in Seq(Seq(A))
    PROVE  FlattenSeq(s) \in Seq(A)
BY PrefixesExist, FlattenIsLast

LEMMA FlattenEmpty == FlattenSeq(<<>>) = <<>>
BY DEF FlattenSeq

LEMMA FlattenAppend ==
    ASSUME NEW A, NEW s \in Seq(Seq(A)), NEW x \in Seq(A)
    PROVE  FlattenSeq(Append(s, x)) = FlattenSeq(s) \o x
<1> DEFINE n == Len(s)
           t == Append(s, x)
<1>1. n \in Nat /\ t \in Seq(Seq(A)) /\ Len(t) = n + 1 /\ t[n + 1] = x /\ \A i \in 1..n : t[i] = s[i]
  BY LenProperties, AppendProperties
<1>2. PICK g \in [0..(n + 1) -> Seq(A)] : Partials(g, t, n + 1)
  BY <1>1, PrefixesExist
<1> HIDE DEF t
<1>3. Partials(g, s, n)
  <2>1. g[0] = <<>>
    BY <1>2 DEF Partials
  <2>2. ASSUME NEW i \in 1..n PROVE g[i] = g[i - 1] \o s[i]
    <3>1. i \in 1..(n + 1)
      BY <1>1
    <3>2. g[i] = g[i - 1] \o t[i]
      BY <1>2, <3>1 DEF Partials
    <3> QED BY <1>1, <3>2
  <2> QED BY <2>1, <2>2 DEF Partials
<1>4. FlattenSeq(s) = g[n]
  BY <1>3, FlattenIsLast
<1>5. FlattenSeq(t) = g[n + 1]
  BY <1>1, <1>2, FlattenIsLast
<1>6. g[n + 1] = g[(n + 1) - 1] \o t[n + 1]
  <2>1. n + 1 \in 1..(n + 1)
    BY <1>1
  <2> QED BY <1>2, <2>1 DEF Partials
<1>7. (n + 1) - 1 = n
  BY <1>1
<1> QED BY <1>1, <1>4, <1>5, <1>6, <1>7 DEF t

\* \o under a name of its own: the provers do better with it where sequences are
\* not looked into.
Cat(x, y) == x \o y

LEMMA CatAssociative ==
    ASSUME NEW A, NEW x \in Seq(A), NEW y \in Seq(A), NEW z \in Seq(A)
    PROVE  Cat(x, Cat(y, z)) = Cat(Cat(x, y), z)
BY ConcatAssociative DEF Cat

\* The concatenation of sequences of one length: where the elements of each are.
LEMMA FlattenEven ==
    ASSUME NEW A, NEW s \in Seq(Seq(A)), NEW w \in Nat, \A i \in 1..Len(s) : Len(s[i]) = w
    PROVE  /\ Len(FlattenSeq(s)) = Len(s) * w
           /\ \A i \in 1..Len(s) : \A j \in 1..w : FlattenSeq(s)[(i - 1) * w + j] = s[i][j]
<1> DEFINE n == Len(s)
<1>1. n \in Nat /\ \A i \in 1..n : s[i] \in Seq(A)
  BY LenProperties, ElementOfSeq
<1>2. PICK g \in [0..n -> Seq(A)] : Partials(g, s, n)
  BY PrefixesExist
<1>3. FlattenSeq(s) = g[n]
  BY <1>2, FlattenIsLast
<1> DEFINE Even(k) == /\ Len(g[k]) = k * w
                      /\ \A i \in 1..k : \A j \in 1..w : g[k][(i - 1) * w + j] = s[i][j]
           S == {k \in Nat : k <= n => Even(k)}
<1>4. 0 \in S
  <2>1. g[0] = <<>> /\ Len(g[0]) = 0
    BY <1>2 DEF Partials
  <2> QED BY <2>1
<1>5. ASSUME NEW k \in Nat, k \in S PROVE k + 1 \in S
  <2> SUFFICES ASSUME k + 1 <= n PROVE Even(k + 1)
    OBVIOUS
  <2>1. k \in 0..n /\ k + 1 \in 1..n /\ (k + 1) - 1 = k /\ k <= n
    BY <1>1
  <2>2. Even(k)
    BY <1>5, <2>1
  <2> DEFINE x == g[k]
             y == s[k + 1]
  <2>3. x \in Seq(A) /\ y \in Seq(A) /\ g[k + 1] = x \o y /\ Len(y) = w
    BY <1>1, <1>2, <2>1 DEF Partials
  <2>4. Len(x) = k * w /\ \A i \in 1..k : \A j \in 1..w : x[(i - 1) * w + j] = s[i][j]
    BY <2>2
  <2> HIDE DEF x, y, Even
  <2> DEFINE c == k * w
  <2>5. c \in Nat /\ (k + 1) * w = c + w
    OBVIOUS
  <2>6. /\ Len(x \o y) = Len(x) + Len(y)
        /\ \A p \in 1..(Len(x) + Len(y)) :
              (x \o y)[p] = IF p <= Len(x) THEN x[p] ELSE y[p - Len(x)]
    BY <2>3, ConcatProperties
  <2> HIDE DEF c
  <2>7. Len(x) = c
    BY <2>4 DEF c
  <2>8. Len(g[k + 1]) = (k + 1) * w
    BY <2>3, <2>5, <2>6, <2>7
  <2>9. ASSUME NEW i \in 1..(k + 1), NEW j \in 1..w
        PROVE  g[k + 1][(i - 1) * w + j] = s[i][j]
    <3>1. CASE i = k + 1
      <4>1. (i - 1) * w = c
        BY <3>1 DEF c
      <4>2. c + j \in 1..(c + w) /\ (c + j) - c = j /\ ~(c + j <= c)
        BY <2>5
      <4>3. g[k + 1][c + j] = y[j]
        BY <2>3, <2>6, <2>7, <4>2
      <4> QED BY <3>1, <4>1, <4>3 DEF y
    <3>2. CASE i # k + 1
      <4>1. i \in 1..k
        BY <3>2
      <4> DEFINE a == (i - 1) * w
      <4>2. a \in Nat /\ a + w <= c
        <5>1. i - 1 \in Nat /\ k - i \in Nat /\ k = (i - 1) + 1 + (k - i)
          BY <4>1
        <5>2. (k - i) * w \in Nat /\ a \in Nat
          BY <5>1
        <5>3. c = a + w + (k - i) * w
          BY <4>1 DEF c
        <5> HIDE DEF a
        <5> QED BY <5>2, <5>3
      <4> HIDE DEF a
      <4>3. a + j <= c /\ a + j \in 1..(c + w)
        BY <2>5, <4>2
      <4>4. g[k + 1][a + j] = x[a + j]
        BY <2>3, <2>6, <2>7, <4>3
      <4>5. x[a + j] = s[i][j]
        BY <2>4, <4>1 DEF a
      <4> QED BY <4>4, <4>5 DEF a
    <3> QED BY <3>1, <3>2
  <2> QED BY <2>8, <2>9 DEF Even
<1>6. \A k \in Nat : k \in S
  <2> HIDE DEF S
  <2> QED BY <1>4, <1>5, Induction
<1>7. n \in S => Even(n)
  <2> HIDE DEF n, Even
  <2> QED BY <1>1
<1> HIDE DEF S
<1>8. Even(n)
  BY <1>1, <1>6, <1>7
<1> QED BY <1>3, <1>8

\* A sequence of sequences may be cut after w of them: what p has up to there and
\* what q has from there on make up the whole.
LEMMA FlattenSplit ==
    ASSUME NEW A, NEW s \in Seq(Seq(A)), NEW w \in 0..Len(s),
           NEW p \in Seq(Seq(A)), Len(p) >= w,
           \A i \in 1..Len(p) : p[i] = IF i <= w THEN s[i] ELSE <<>>,
           NEW q \in Seq(Seq(A)), Len(q) = Len(s),
           \A i \in 1..Len(q) : q[i] = IF i <= w THEN <<>> ELSE s[i]
    PROVE  FlattenSeq(p) \o FlattenSeq(q) = FlattenSeq(s)
<1> DEFINE n == Len(s)
           k == Len(p)
<1>1. n \in Nat /\ k \in Nat /\ w \in Nat /\ w <= n /\ w <= k
  BY LenProperties
<1>2. PICK g \in [0..n -> Seq(A)] : Partials(g, s, n)
  BY PrefixesExist
<1>3. PICK h \in [0..n -> Seq(A)] : Partials(h, q, n)
  BY PrefixesExist
<1>4. FlattenSeq(s) = g[n] /\ FlattenSeq(q) = h[n]
  BY <1>2, <1>3, FlattenIsLast
<1>5. FlattenSeq(p) = g[w]
  <2> DEFINE f == [i \in 0..k |-> IF i <= w THEN g[i] ELSE g[w]]
  <2>1. f[0] = <<>>
    BY <1>1, <1>2 DEF Partials
  <2>2. ASSUME NEW i \in 1..k PROVE f[i] = f[i - 1] \o p[i]
    <3>1. i \in 0..k /\ i - 1 \in 0..k /\ i \in Nat
      BY <1>1
    <3>2. CASE i <= w
      <4>1. i \in 1..n /\ f[i] = g[i] /\ f[i - 1] = g[i - 1] /\ p[i] = s[i]
        BY <1>1, <3>1, <3>2
      <4> HIDE DEF f
      <4>2. g[i] = g[i - 1] \o s[i]
        BY <1>2, <4>1 DEF Partials
      <4> QED BY <4>1, <4>2
    <3>3. CASE ~(i <= w)
      <4>1. f[i] = g[w] /\ p[i] = <<>>
        BY <1>1, <3>1, <3>3
      <4>2. f[i - 1] = g[w]
        <5>1. i - 1 <= w => i - 1 = w
          BY <1>1, <3>1, <3>3
        <5> QED BY <3>1, <5>1
      <4>3. g[w] \in Seq(A)
        BY <1>1, <1>2
      <4>4. g[w] \o <<>> = g[w]
        BY <4>3, ConcatEmptySeq
      <4> HIDE DEF f
      <4> QED BY <4>1, <4>2, <4>4
    <3> QED BY <3>2, <3>3
  <2>3. f[k] = g[w]
    <3>1. k <= w => k = w
      BY <1>1
    <3> QED BY <1>1, <3>1
  <2> HIDE DEF f
  <2>4. Partials(f, p, k)
    BY <2>1, <2>2 DEF Partials
  <2> QED BY <2>3, <2>4, FlattenIsLast
<1> DEFINE S == {i \in Nat : i <= n => (i <= w => h[i] = <<>>) /\ (w <= i => g[w] \o h[i] = g[i])}
<1>6. \A i \in 0..n : g[i] \in Seq(A) /\ h[i] \in Seq(A)
  BY <1>2, <1>3
<1>7. 0 \in S
  <2>1. h[0] = <<>> /\ g[0] = <<>>
    BY <1>2, <1>3 DEF Partials
  <2>2. w <= 0 => g[w] = g[0]
    BY <1>1
  <2>3. <<>> \o <<>> = <<>>
    OBVIOUS
  <2> QED BY <2>1, <2>2, <2>3
<1>8. ASSUME NEW i \in Nat, i \in S PROVE i + 1 \in S
  <2> SUFFICES ASSUME i + 1 <= n
               PROVE  (i + 1 <= w => h[i + 1] = <<>>) /\ (w <= i + 1 => g[w] \o h[i + 1] = g[i + 1])
    OBVIOUS
  <2>1. i + 1 \in 1..n /\ (i + 1) - 1 = i /\ i \in 0..n /\ i + 1 \in 0..n
    BY <1>1
  <2>2. h[i + 1] = h[i] \o q[i + 1] /\ g[i + 1] = g[i] \o s[i + 1]
    <3>1. h[i + 1] = h[(i + 1) - 1] \o q[i + 1]
      BY <1>3, <2>1 DEF Partials
    <3>2. g[i + 1] = g[(i + 1) - 1] \o s[i + 1]
      BY <1>2, <2>1 DEF Partials
    <3> QED BY <2>1, <3>1, <3>2
  <2>3. i <= w => h[i] = <<>>
    BY <1>1, <1>8
  <2>4. w <= i => g[w] \o h[i] = g[i]
    BY <1>1, <1>8
  <2>5. q[i + 1] = IF i + 1 <= w THEN <<>> ELSE s[i + 1]
    BY <2>1
  <2>6. CASE i + 1 <= w
    <3>1. h[i + 1] = <<>>
      <4>1. h[i] = <<>> /\ q[i + 1] = <<>>
        BY <1>1, <2>3, <2>5, <2>6
      <4>2. <<>> \o <<>> = <<>>
        OBVIOUS
      <4> QED BY <2>2, <4>1, <4>2
    <3>2. w <= i + 1 => g[w] \o h[i + 1] = g[i + 1]
      <4> SUFFICES ASSUME w <= i + 1 PROVE g[w] \o h[i + 1] = g[i + 1]
        OBVIOUS
      <4>1. w = i + 1
        BY <1>1, <2>6
      <4>2. g[w] \in Seq(A)
        BY <1>1, <1>6
      <4>3. g[w] \o <<>> = g[w]
        BY <4>2, ConcatEmptySeq
      <4> QED BY <3>1, <4>1, <4>3
    <3> QED BY <3>1, <3>2
  <2>7. CASE ~(i + 1 <= w)
    <3>1. w <= i
      BY <1>1, <2>7
    <3>2. g[w] \o h[i] = g[i] /\ q[i + 1] = s[i + 1]
      BY <2>4, <2>5, <2>7, <3>1
    <3>3. g[w] \in Seq(A) /\ h[i] \in Seq(A) /\ s[i + 1] \in Seq(A)
      BY <1>1, <1>6, <2>1, ElementOfSeq
    <3>4. g[w] \o (h[i] \o s[i + 1]) = g[i] \o s[i + 1]
      <4>1. Cat(g[w], h[i]) = g[i]
        BY <3>2 DEF Cat
      <4>2. Cat(g[w], Cat(h[i], s[i + 1])) = Cat(g[i], s[i + 1])
        BY <3>3, <4>1, CatAssociative
      <4> QED BY <4>2 DEF Cat
    <3> QED BY <2>2, <2>7, <3>2, <3>4
  <2> QED BY <2>6, <2>7
<1>9. \A i \in Nat : i \in S
  <2> HIDE DEF S
  <2> QED BY <1>7, <1>8, Induction
<1>10. g[w] \o h[n] = g[n]
  <2>1. n \in S
    <3> HIDE DEF n, S
    <3> QED BY <1>1, <1>9
  <2>2. n <= n /\ w <= n
    BY <1>1
  <2> QED BY <2>1, <2>2
<1> QED BY <1>4, <1>5, <1>10

\* Sequences without a repetition that have nothing in common, one after the other
LEMMA ConcatInjective ==
    ASSUME NEW A, NEW x \in Seq(A), NEW y \in Seq(A),
           IsInjective(x), IsInjective(y), Range(x) \cap Range(y) = {}
    PROVE  /\ x \o y \in Seq(A)
           /\ IsInjective(x \o y)
           /\ Range(x \o y) = Range(x) \cup Range(y)
<1> DEFINE z == x \o y
           m == Len(x)
           n == Len(y)
<1>1. /\ m \in Nat /\ n \in Nat
      /\ DOMAIN x = 1..m /\ DOMAIN y = 1..n
  BY LenProperties
<1>2. /\ z \in Seq(A) /\ Len(z) = m + n
      /\ \A i \in 1..(m + n) : z[i] = IF i <= m THEN x[i] ELSE y[i - m]
  BY ConcatProperties
<1> HIDE DEF z
<1>3. DOMAIN z = 1..(m + n)
  BY <1>2, LenProperties
<1> HIDE DEF m, n
<1>4. \A i \in 1..m : i \in 1..(m + n) /\ z[i] = x[i]
  BY <1>1, <1>2
<1>5. \A i \in 1..(m + n) : ~(i <= m) => i - m \in 1..n /\ z[i] = y[i - m]
  BY <1>1, <1>2
<1>6. \A i \in 1..n : i + m \in 1..(m + n) /\ z[i + m] = y[i]
  <2> TAKE i \in 1..n
  <2>1. i + m \in 1..(m + n) /\ ~(i + m <= m) /\ (i + m) - m = i
    BY <1>1
  <2> QED BY <1>5, <2>1
<1>7. \A i \in 1..(m + n) : i <= m => i \in 1..m
  BY <1>1
<1>8. Range(z) = Range(x) \cup Range(y)
  <2>1. ASSUME NEW e \in Range(z) PROVE e \in Range(x) \cup Range(y)
    <3>1. PICK i \in 1..(m + n) : e = z[i]
      BY <1>3 DEF Range
    <3>2. CASE i <= m
      BY <1>1, <1>4, <1>7, <3>1, <3>2 DEF Range
    <3>3. CASE ~(i <= m)
      BY <1>1, <1>5, <3>1, <3>3 DEF Range
    <3> QED BY <3>2, <3>3
  <2>2. ASSUME NEW e \in Range(x) PROVE e \in Range(z)
    <3>1. PICK i \in 1..m : e = x[i]
      BY <1>1 DEF Range
    <3> QED BY <1>3, <1>4, <3>1 DEF Range
  <2>3. ASSUME NEW e \in Range(y) PROVE e \in Range(z)
    <3>1. PICK i \in 1..n : e = y[i]
      BY <1>1 DEF Range
    <3> QED BY <1>3, <1>6, <3>1 DEF Range
  <2> QED BY <2>1, <2>2, <2>3
<1>9. IsInjective(z)
  <2> SUFFICES ASSUME NEW i \in 1..(m + n), NEW j \in 1..(m + n), z[i] = z[j] PROVE i = j
    BY <1>3 DEF IsInjective
  <2>1. \A a \in 1..m, b \in 1..n : x[a] # y[b]
    BY <1>1 DEF Range
  <2>2. CASE i <= m /\ j <= m
    BY <1>1, <1>4, <1>7, <2>2 DEF IsInjective
  <2>3. CASE i <= m /\ ~(j <= m)
    BY <1>4, <1>5, <1>7, <2>1, <2>3
  <2>4. CASE ~(i <= m) /\ j <= m
    BY <1>4, <1>5, <1>7, <2>1, <2>4
  <2>5. CASE ~(i <= m) /\ ~(j <= m)
    <3>1. i - m \in 1..n /\ j - m \in 1..n /\ y[i - m] = y[j - m]
      BY <1>5, <2>5
    <3>2. i - m = j - m
      BY <1>1, <3>1 DEF IsInjective
    <3> QED BY <1>1, <3>2
  <2> QED BY <2>2, <2>3, <2>4, <2>5
<1> QED BY <1>2, <1>8, <1>9 DEF z

\* The same of any number of sequences
LEMMA FlattenInjective ==
    ASSUME NEW A, NEW s \in Seq(Seq(A)),
           \A i \in 1..Len(s) : IsInjective(s[i]),
           \A i, j \in 1..Len(s) : i # j => Range(s[i]) \cap Range(s[j]) = {}
    PROVE  /\ IsInjective(FlattenSeq(s))
           /\ Range(FlattenSeq(s)) = UNION {Range(s[i]) : i \in 1..Len(s)}
<1> DEFINE n == Len(s)
           In(i) == UNION {Range(s[j]) : j \in 1..i}
<1>1. n \in Nat /\ \A i \in 1..n : s[i] \in Seq(A)
  BY LenProperties, ElementOfSeq
<1>2. PICK g \in [0..n -> Seq(A)] : Partials(g, s, n)
  BY PrefixesExist
<1>3. FlattenSeq(s) = g[n]
  BY <1>2, FlattenIsLast
<1> DEFINE S == {i \in Nat : i <= n => IsInjective(g[i]) /\ Range(g[i]) = In(i)}
<1>4. 0 \in S
  <2>1. g[0] = <<>>
    BY <1>2 DEF Partials
  <2>2. IsInjective(<<>>) /\ Range(<<>>) = {}
    BY DEF IsInjective, Range
  <2>3. In(0) = {}
    OBVIOUS
  <2> HIDE DEF In
  <2> QED BY <2>1, <2>2, <2>3
<1>5. ASSUME NEW i \in Nat, i \in S PROVE i + 1 \in S
  <2> SUFFICES ASSUME i + 1 <= n
               PROVE  IsInjective(g[i + 1]) /\ Range(g[i + 1]) = In(i + 1)
    OBVIOUS
  <2>1. i + 1 \in 1..n /\ (i + 1) - 1 = i /\ i \in 0..n /\ i <= n
    BY <1>1
  <2>2. g[i + 1] = g[i] \o s[i + 1]
    <3>1. g[i + 1] = g[(i + 1) - 1] \o s[i + 1]
      BY <1>2, <2>1 DEF Partials
    <3> QED BY <2>1, <3>1
  <2>3. IsInjective(g[i]) /\ Range(g[i]) = In(i)
    BY <1>5, <2>1
  <2>4. g[i] \in Seq(A) /\ s[i + 1] \in Seq(A) /\ IsInjective(s[i + 1])
    BY <1>1, <1>2, <2>1
  <2>5. In(i) \cap Range(s[i + 1]) = {}
    <3> SUFFICES ASSUME NEW j \in 1..i PROVE Range(s[j]) \cap Range(s[i + 1]) = {}
      OBVIOUS
    <3>1. j \in 1..n /\ i + 1 \in 1..n /\ j # i + 1
      BY <1>1, <2>1
    <3> QED BY <3>1
  <2>6. In(i + 1) = In(i) \cup Range(s[i + 1])
    <3>1. 1..(i + 1) = (1..i) \cup {i + 1}
      OBVIOUS
    <3> QED BY <3>1
  <2> HIDE DEF In
  <2>7. Range(g[i]) \cap Range(s[i + 1]) = {}
    BY <2>3, <2>5
  <2>8. /\ IsInjective(g[i] \o s[i + 1])
        /\ Range(g[i] \o s[i + 1]) = Range(g[i]) \cup Range(s[i + 1])
    BY <2>3, <2>4, <2>7, ConcatInjective
  <2> QED BY <2>2, <2>3, <2>6, <2>8
<1>6. n \in S
  <2>1. \A i \in Nat : i \in S
    <3> HIDE DEF S
    <3> QED BY <1>4, <1>5, Induction
  <2> HIDE DEF S
  <2> QED BY <1>1, <2>1
<1>7. n <= n
  BY <1>1
<1> QED BY <1>3, <1>6, <1>7

-------------------------------------------------------------------------------
(* Loops and recursive functions *)

\* One turn after the other, a loop on X goes on until it is in Stop, and then yields
\* res: f is what it computes.
IsLoop(f, X, Stop, turn, res) ==
    \A x \in X : f[x] = IF x \in Stop THEN res[x] ELSE f[turn[x]]

\* A turn leaves less to do.
Shrinks(X, Stop, turn, size) ==
    /\ turn \in [X -> X] /\ size \in [X -> Nat]
    /\ \A x \in X : x \notin Stop => size[turn[x]] < size[x]

\* A loop whose turns leave less and less to do computes a function.
LEMMA LoopExists ==
    ASSUME NEW X, NEW Y, NEW Stop, NEW turn, NEW size, NEW res \in [X -> Y],
           Shrinks(X, Stop, turn, size)
    PROVE  \E f \in [X -> Y] : IsLoop(f, X, Stop, turn, res)
<1> DEFINE Step(f, x) == IF x \in Stop THEN res[x] ELSE f[turn[x]]
           Upto(f, n) == \A x \in X : size[x] < n => f[x] = Step(f, x)
           Good(n) == \E f \in [X -> Y] : Upto(f, n)
           S == {n \in Nat : Good(n)}
<1>1. \A x \in X : /\ turn[x] \in X /\ size[x] \in Nat /\ size[turn[x]] \in Nat
                   /\ x \notin Stop => size[turn[x]] < size[x]
  BY DEF Shrinks
<1>2. 0 \in S
  <2>1. \A x \in X : ~(size[x] < 0)
    BY <1>1
  <2>2. Upto(res, 0)
    BY <2>1
  <2> QED BY <2>2
<1>3. ASSUME NEW n \in Nat, n \in S PROVE n + 1 \in S
  <2>1. PICK f \in [X -> Y] : Upto(f, n)
    BY <1>3
  <2> DEFINE g == [x \in X |-> Step(f, x)]
  <2>2. g \in [X -> Y]
    BY <1>1, <2>1
  <2>3. ASSUME NEW x \in X, size[x] < n + 1 PROVE g[x] = Step(g, x)
    <3>1. CASE x \in Stop
      BY <3>1
    <3>2. CASE x \notin Stop
      <4>1. turn[x] \in X /\ size[turn[x]] < n
        BY <1>1, <2>3, <3>2
      <4>2. f[turn[x]] = Step(f, turn[x])
        BY <2>1, <4>1
      <4> QED BY <3>2, <4>1, <4>2
    <3> QED BY <3>1, <3>2
  <2>4. Upto(g, n + 1)
    BY <2>3
  <2> HIDE DEF g, Upto
  <2> QED BY <2>2, <2>4
<1>4. \A n \in Nat : Good(n)
  <2>1. \A n \in Nat : n \in S
    <3> HIDE DEF S
    <3> QED BY <1>2, <1>3, Induction
  <2> QED BY <2>1
\* Up to n they all agree.
<1>5. ASSUME NEW f, NEW g, NEW n \in Nat, Upto(f, n), Upto(g, n)
      PROVE  \A x \in X : size[x] < n => f[x] = g[x]
  <2> DEFINE T == {m \in Nat : \A x \in X : size[x] < n /\ size[x] < m => f[x] = g[x]}
  <2>1. 0 \in T
    <3>1. \A x \in X : ~(size[x] < 0)
      BY <1>1
    <3> QED BY <3>1
  <2>2. ASSUME NEW m \in Nat, m \in T PROVE m + 1 \in T
    <3>1. ASSUME NEW x \in X, size[x] < n, size[x] < m + 1 PROVE f[x] = g[x]
      <4>1. f[x] = Step(f, x) /\ g[x] = Step(g, x)
        BY <1>5, <3>1
      <4>2. CASE x \in Stop
        BY <4>1, <4>2
      <4>3. CASE x \notin Stop
        <5>1. turn[x] \in X /\ size[turn[x]] < n /\ size[turn[x]] < m
          BY <1>1, <3>1, <4>3
        <5>2. f[turn[x]] = g[turn[x]]
          BY <2>2, <5>1
        <5> QED BY <4>1, <4>3, <5>2
      <4> QED BY <4>2, <4>3
    <3> QED BY <3>1
  <2>3. \A m \in Nat : m \in T
    <3> HIDE DEF T
    <3> QED BY <2>1, <2>2, Induction
  <2> QED BY <2>3
<1> DEFINE part(n) == CHOOSE f \in [X -> Y] : Upto(f, n)
           loop == [x \in X |-> part(size[x] + 1)[x]]
<1>6. ASSUME NEW n \in Nat PROVE part(n) \in [X -> Y] /\ Upto(part(n), n)
  <2>1. \E f \in [X -> Y] : Upto(f, n)
    BY <1>4
  <2> HIDE DEF Upto
  <2> QED BY <2>1
<1>7. loop \in [X -> Y]
  <2>1. ASSUME NEW x \in X PROVE part(size[x] + 1)[x] \in Y
    <3>1. size[x] + 1 \in Nat
      BY <1>1
    <3>2. part(size[x] + 1) \in [X -> Y]
      BY <1>6, <3>1
    <3> HIDE DEF part
    <3> QED BY <3>2
  <2> HIDE DEF part
  <2> QED BY <2>1
<1>8. ASSUME NEW x \in X PROVE loop[x] = Step(loop, x)
  <2> DEFINE n == size[x] + 1
  <2>1. n \in Nat /\ size[x] < n
    BY <1>1
  <2>2. Upto(part(n), n)
    BY <1>6, <2>1
  <2>3. part(n)[x] = Step(part(n), x)
    <3> HIDE DEF part, n
    <3> QED BY <2>1, <2>2
  <2>4. loop[x] = part(n)[x]
    <3> HIDE DEF part
    <3> QED OBVIOUS
  <2>5. CASE x \in Stop
    <3> HIDE DEF part, loop
    <3> QED BY <2>3, <2>4, <2>5
  <2>6. CASE x \notin Stop
    <3> DEFINE y == turn[x]
               k == size[y] + 1
    <3>1. y \in X /\ size[y] \in Nat /\ size[y] < size[x] /\ k \in Nat /\ size[y] < k /\ k <= n /\ size[y] < n
      BY <1>1, <2>6
    <3>2. Upto(part(k), k)
      BY <1>6, <3>1
    <3>3. Upto(part(n), k)
      <4>1. \A z \in X : size[z] < k => size[z] < n
        BY <1>1, <2>1, <3>1
      <4> HIDE DEF part, n, k
      <4> QED BY <2>2, <4>1
    <3>4. part(n)[y] = part(k)[y]
      <4> HIDE DEF part, n, k, y, Upto
      <4> QED BY <1>5, <3>1, <3>2, <3>3
    <3>5. loop[y] = part(k)[y]
      <4> HIDE DEF part
      <4> QED BY <3>1
    <3> HIDE DEF part, loop, n, k
    <3> QED BY <2>3, <2>4, <2>6, <3>4, <3>5
  <2> QED BY <2>5, <2>6
<1> HIDE DEF loop
<1> QED BY <1>7, <1>8 DEF IsLoop

\* What every turn keeps holds where the loop stops.
LEMMA LoopKeeps ==
    ASSUME NEW X, NEW Stop, NEW turn, NEW size, NEW res, NEW f,
           Shrinks(X, Stop, turn, size), IsLoop(f, X, Stop, turn, res),
           NEW P \in SUBSET X, \A x \in P : x \notin Stop => turn[x] \in P
    PROVE  \A x \in P : \E y \in P : y \in Stop /\ f[x] = res[y]
<1> DEFINE Good(x) == \E y \in P : y \in Stop /\ f[x] = res[y]
           S == {n \in Nat : \A x \in P : size[x] < n => Good(x)}
<1>1. \A x \in X : /\ turn[x] \in X /\ size[x] \in Nat /\ size[turn[x]] \in Nat
                   /\ x \notin Stop => size[turn[x]] < size[x]
  BY DEF Shrinks
<1>2. 0 \in S
  <2>1. \A x \in P : ~(size[x] < 0)
    BY <1>1
  <2> QED BY <2>1
<1>3. ASSUME NEW n \in Nat, n \in S PROVE n + 1 \in S
  <2>1. ASSUME NEW x \in P, size[x] < n + 1 PROVE Good(x)
    <3>1. CASE x \in Stop
      BY <3>1 DEF IsLoop
    <3>2. CASE x \notin Stop
      <4>1. turn[x] \in P /\ size[turn[x]] < n
        BY <1>1, <2>1, <3>2
      <4>2. Good(turn[x])
        BY <1>3, <4>1
      <4>3. f[x] = f[turn[x]]
        BY <3>2 DEF IsLoop
      <4> QED BY <4>2, <4>3
    <3> QED BY <3>1, <3>2
  <2> HIDE DEF Good
  <2> QED BY <2>1
<1>4. \A n \in Nat : n \in S
  <2> HIDE DEF S
  <2> QED BY <1>2, <1>3, Induction
<1>5. ASSUME NEW x \in P PROVE Good(x)
  <2>1. size[x] + 1 \in Nat /\ size[x] < size[x] + 1
    BY <1>1
  <2>2. size[x] + 1 \in S
    BY <1>4, <2>1
  <2> HIDE DEF Good
  <2> QED BY <2>1, <2>2
<1> QED BY <1>5

\* n steps from start: the i-th one leads from X[i - 1] to X[i].
Leads(X, start, n, step) ==
    start \in X[0] /\ \A i \in 1..n : \A x \in X[i - 1] : step[<<i, x>>] \in X[i]

IsSteps(g, start, n, step) ==
    /\ g = [i \in 0..n |-> g[i]]
    /\ \A i \in 0..n : g[i] = IF i = 0 THEN start ELSE step[<<i, g[i - 1]>>]

\* What a function computes that is defined by one step after the other,
LEMMA StepsKeep ==
    ASSUME NEW X, NEW start, NEW n \in Nat, NEW step, Leads(X, start, n, step),
           NEW g, IsSteps(g, start, n, step)
    PROVE  \A i \in 0..n : g[i] \in X[i]
<1> DEFINE S == {k \in Nat : k <= n => g[k] \in X[k]}
<1>1. 0 \in S
  <2>1. 0 \in 0..n
    OBVIOUS
  <2> QED BY <2>1 DEF Leads, IsSteps
<1>2. ASSUME NEW k \in Nat, k \in S PROVE k + 1 \in S
  <2> SUFFICES ASSUME k + 1 <= n PROVE g[k + 1] \in X[k + 1]
    OBVIOUS
  <2>1. k + 1 \in 1..n /\ k + 1 \in 0..n /\ k + 1 # 0 /\ (k + 1) - 1 = k /\ k <= n
    OBVIOUS
  <2>2. g[k] \in X[k]
    BY <1>2, <2>1
  <2>3. g[k + 1] = step[<<k + 1, g[k]>>]
    BY <2>1 DEF IsSteps
  <2>4. step[<<k + 1, g[k]>>] \in X[k + 1]
    BY <2>1, <2>2 DEF Leads
  <2> QED BY <2>3, <2>4
<1>3. \A k \in Nat : k \in S
  <2> HIDE DEF S
  <2> QED BY <1>1, <1>2, Induction
<1> QED BY <1>3

\* and that there is one.
LEMMA StepsExist ==
    ASSUME NEW start, NEW n \in Nat, NEW step
    PROVE  \E g : IsSteps(g, start, n, step)
<1> DEFINE Runs(g, k) == g[0] = start /\ \A i \in 1..k : g[i] = step[<<i, g[i - 1]>>]
           S == {k \in Nat : k <= n => \E g : Runs(g, k)}
<1>1. 0 \in S
  <2>1. Runs([i \in 0..0 |-> start], 0)
    OBVIOUS
  <2> QED BY <2>1
<1>2. ASSUME NEW k \in Nat, k \in S PROVE k + 1 \in S
  <2> SUFFICES ASSUME k + 1 <= n PROVE \E g : Runs(g, k + 1)
    OBVIOUS
  <2>1. PICK g : Runs(g, k)
    BY <1>2
  <2> DEFINE h == [i \in 0..(k + 1) |-> IF i <= k THEN g[i] ELSE step[<<k + 1, g[k]>>]]
  <2>2. k \in 0..k /\ ~(k + 1 <= k)
    OBVIOUS
  <2>4. \A i \in 0..k : h[i] = g[i]
    OBVIOUS
  <2>5. h[k + 1] = step[<<k + 1, g[k]>>]
    BY <2>2
  <2>7. ASSUME NEW i \in 1..(k + 1) PROVE h[i] = step[<<i, h[i - 1]>>]
    <3> HIDE DEF h
    <3>1. CASE i = k + 1
      <4>1. i - 1 = k
        BY <3>1
      <4> QED BY <2>2, <2>4, <2>5, <3>1, <4>1
    <3>2. CASE i # k + 1
      <4>1. i \in 1..k /\ i \in 0..k /\ i - 1 \in 0..k
        BY <3>2
      <4> QED BY <2>1, <2>4, <4>1
    <3> QED BY <3>1, <3>2
  <2>8. Runs(h, k + 1)
    <3>1. 0 \in 0..k
      OBVIOUS
    <3> HIDE DEF h
    <3> QED BY <2>1, <2>4, <2>7, <3>1
  <2> HIDE DEF h, Runs
  <2> QED BY <2>8
<1>3. \A k \in Nat : k \in S
  <2> HIDE DEF S
  <2> QED BY <1>1, <1>2, Induction
<1>4. PICK g : Runs(g, n)
  <2> HIDE DEF Runs
  <2> QED BY <1>3
<1> DEFINE f == [i \in 0..n |-> g[i]]
<1>5. ASSUME NEW i \in 0..n PROVE f[i] = IF i = 0 THEN start ELSE step[<<i, f[i - 1]>>]
  <2>1. i = 0 \/ (i \in 1..n /\ i - 1 \in 0..n /\ i # 0)
    OBVIOUS
  <2> QED BY <1>4, <2>1
<1>6. f = [i \in 0..n |-> f[i]]
  OBVIOUS
<1> HIDE DEF f
<1>7. IsSteps(f, start, n, step)
  BY <1>5, <1>6 DEF IsSteps
<1> QED BY <1>7

\* In particular when all of them are on one set.
LEMMA StepsOn ==
    ASSUME NEW A, NEW start \in A, NEW n \in Nat, NEW step \in [(1..n) \X A -> A]
    PROVE  /\ \E g : IsSteps(g, start, n, step)
           /\ \A g : IsSteps(g, start, n, step) => g \in [0..n -> A]
<1> DEFINE X == [i \in 0..n |-> A]
<1>1. Leads(X, start, n, step)
  <2>1. 0 \in 0..n /\ \A i \in 1..n : i \in 0..n /\ i - 1 \in 0..n
    OBVIOUS
  <2>2. \A i \in 1..n : \A x \in A : step[<<i, x>>] \in A
    OBVIOUS
  <2> QED BY <2>1, <2>2 DEF Leads
<1>2. ASSUME NEW g, IsSteps(g, start, n, step) PROVE g \in [0..n -> A]
  <2>1. \A i \in 0..n : g[i] \in X[i]
    <3> HIDE DEF X
    <3> QED BY <1>1, <1>2, StepsKeep
  <2>2. g = [i \in 0..n |-> g[i]]
    BY <1>2 DEF IsSteps
  <2> QED BY <2>1, <2>2
<1> QED BY <1>2, StepsExist

-------------------------------------------------------------------------------
(* Keys and their order *)

\* A key is a function from the positions up to its length to bytes.
LEMMA KeyElements ==
    ASSUME NEW s \in Key
    PROVE  Len(s) \in Nat /\ \A j \in 1..Len(s) : s[j] \in Byte
BY LenProperties, ElementOfSeq DEF Key

\* ubuf_clip(): what the first n bytes of a key are.
LEMMA Clip ==
    ASSUME NEW s \in Key, NEW n \in 0..Len(s)
    PROVE  /\ SubSeq(s, 1, n) \in Key
           /\ Len(SubSeq(s, 1, n)) = n
           /\ \A j \in 1..n : SubSeq(s, 1, n)[j] = s[j]
<1>1. n \in Nat /\ \A j \in 1..n : s[j] \in Byte
  BY KeyElements
<1>2. /\ SubSeq(s, 1, n) \in Seq(Byte)
      /\ Len(SubSeq(s, 1, n)) = IF 1 <= n THEN n - 1 + 1 ELSE 0
      /\ \A j \in 1..(n - 1 + 1) : SubSeq(s, 1, n)[j] = s[1 + j - 1]
  BY <1>1, SubSeqProperties
<1> QED BY <1>1, <1>2, KeyElements DEF Key

LEMMA IntegerBytes ==
    ASSUME NEW s \in Key, NEW n, n = Len(s)
    PROVE  n \in Nat /\ \A j \in 1..n : s[j] \in Int
<1>1. ASSUME NEW x \in Byte PROVE x \in Int
    BY DEF Byte
<1> QED BY <1>1, KeyElements, Zenon

LEMMA NotBelowItself == ASSUME NEW s \in Key PROVE ~Less(s, s)
<1> DEFINE n == Len(s)
<1>1. Less(s, s) => \E i \in 1..n : i <= n => s[i] < s[i]
    BY Zenon DEF Less
<1>2. n \in Nat /\ \A j \in 1..n : s[j] \in Int
    BY IntegerBytes, Zenon
<1> HIDE DEF n
<1> QED BY <1>1, <1>2

\* Where two keys differ first, the third one differs from one of them no earlier
\* than at the lesser of the two positions.
LEMMA LessTransitive ==
    ASSUME NEW s \in Key, NEW t \in Key, NEW u \in Key, Less(s, t), Less(t, u)
    PROVE  Less(s, u)
<1> DEFINE ls == Len(s)
           lt == Len(t)
           lu == Len(u)
           Least(n, x, lx, y) == /\ n <= lx + 1
                                 /\ \A j \in 1..(n - 1) : x[j] = y[j]
                                 /\ n <= lx => x[n] < y[n]
<1>a. Less(s, t) <=> \E n \in 1..lt : Least(n, s, ls, t)
    BY Zenon DEF Less
<1>b. Less(t, u) <=> \E n \in 1..lu : Least(n, t, lt, u)
    BY Zenon DEF Less
<1>c. Less(s, u) <=> \E n \in 1..lu : Least(n, s, ls, u)
    BY Zenon DEF Less
<1>d. /\ ls \in Nat /\ \A j \in 1..ls : s[j] \in Int
      /\ lt \in Nat /\ \A j \in 1..lt : t[j] \in Int
      /\ lu \in Nat /\ \A j \in 1..lu : u[j] \in Int
    BY IntegerBytes, Zenon
<1> HIDE DEF ls, lt, lu, Least
<1>1. PICK i \in 1..lt : Least(i, s, ls, t)
    BY <1>a
<1>2. PICK k \in 1..lu : Least(k, t, lt, u)
    BY <1>b
<1> SUFFICES \E n \in 1..lu : Least(n, s, ls, u)
    BY <1>c
<1> USE DEF Least
<1>3. CASE i < k
  <2>1. i \in 1..lu /\ t[i] = u[i]
      BY <1>d, <1>2, <1>3
  <2>2. \A j \in 1..(i - 1) : s[j] = u[j]
      BY <1>d, <1>1, <1>2, <1>3
  <2> QED BY <1>1, <2>1, <2>2
<1>4. CASE k < i
  <2>1. k <= ls /\ k <= lt /\ s[k] = t[k]
      BY <1>d, <1>1, <1>4
  <2>2. \A j \in 1..(k - 1) : s[j] = u[j]
      BY <1>d, <1>1, <1>2, <1>4
  <2>3. s[k] < u[k]
      BY <1>2, <2>1
  <2> QED BY <1>d, <2>1, <2>2, <2>3
<1>5. CASE i = k
  <2>1. \A j \in 1..(i - 1) : s[j] = u[j]
      BY <1>d, <1>1, <1>2, <1>5
  <2>2. i <= ls => s[i] < u[i]
      BY <1>d, <1>1, <1>2, <1>5
  <2> QED BY <1>1, <1>5, <2>1, <2>2
<1> QED BY <1>d, <1>3, <1>4, <1>5

===============================================================================
