----------------------------- MODULE Merger_proofs -----------------------------
(***************************************************************************)
(* Proofs about Merger and its Heap.                                       *)
(*                                                                         *)
(* First the heap: siftdown() and siftup() only rearrange the elements,    *)
(* and put the one that they move in order, whatever the heap; so do the   *)
(* operations that are built from them.  Then the sources: what an entry   *)
(* and its iterator are still going to return.  The loops of               *)
(* merger_iter_next() and merger_iter_seek() end, for a turn leaves fewer  *)
(* keys ahead of the entries, and what a turn keeps holds where they end.  *)
(* From that follow the invariant, and that a call returns the least key.  *)
(***************************************************************************)
EXTENDS Merger, Induction_proofs, FiniteSetTheorems
-------------------------------------------------------------------------------
(* The order of the entries *)

Entries == [key : Keys \cup {None}, src : DOMAIN sources]

\* Entries compare by numbers.
Comparable(E) == \A e \in E : e.key \in Int /\ e.src \in Int

LEMMA LeqTotal ==
    ASSUME NEW E, Comparable(E), NEW a \in E, NEW b \in E
    PROVE  EntryLeq(a, b) \/ EntryLeq(b, a)
BY DEF EntryLeq, Comparable

LEMMA LeqTransitive ==
    ASSUME NEW E, Comparable(E), NEW a \in E, NEW b \in E, NEW c \in E, EntryLeq(a, b), EntryLeq(b, c)
    PROVE  EntryLeq(a, c)
BY DEF EntryLeq, Comparable

-------------------------------------------------------------------------------
(* The heap *)

\* Parents are not larger than their children, from place i on.
OrderedFrom(h, i) == \A k \in 2..Len(h) : k \div 2 >= i => EntryLeq(h[k \div 2], h[k])

\* All but the root.
Others(h) == {h[k] : k \in 2..Len(h)}

\* g has the elements of h in another order.
Rearranged(g, h) ==
    /\ g \in [1..Len(h) -> Range(h)] /\ Range(g) = Range(h)
    /\ Distinct(h) => Distinct(g)

LEMMA SwapKeeps ==
    ASSUME NEW h, Len(h) \in Nat, NEW g, Rearranged(g, h), NEW i \in 1..Len(h), NEW j \in 1..Len(h), i # j
    PROVE  LET s == H!Swap(g, i, j) IN
           /\ Rearranged(s, h)
           /\ s[i] = g[j] /\ s[j] = g[i]
           /\ \A k \in 1..Len(h) : k # i /\ k # j => s[k] = g[k]
<1> DEFINE n == Len(h)
           s == H!Swap(g, i, j)
<1>1. g \in [1..n -> Range(h)] /\ DOMAIN g = 1..n /\ Len(g) = n
  BY DEF Rearranged
<1>2. s \in [1..n -> Range(h)] /\ DOMAIN s = 1..n /\ Len(s) = n
  BY <1>1 DEF H!Swap
<1>3. /\ s[i] = g[j] /\ s[j] = g[i]
      /\ \A k \in 1..n : k # i /\ k # j => s[k] = g[k]
  BY <1>1 DEF H!Swap
<1> HIDE DEF s
<1>4. Range(s) = Range(g)
  <2>1. \A k \in 1..n : s[k] \in Range(g)
    BY <1>1, <1>3 DEF Range
  <2>2. \A k \in 1..n : g[k] \in Range(s)
    BY <1>2, <1>3 DEF Range
  <2> QED BY <1>1, <1>2, <2>1, <2>2 DEF Range
<1>5. ASSUME Distinct(g) PROVE Distinct(s)
  <2>1. ASSUME NEW a \in 1..n, NEW b \in 1..n, s[a].src = s[b].src PROVE a = b
    BY <1>1, <1>3, <1>5, <2>1 DEF Distinct
  <2> QED BY <1>2, <2>1 DEF Distinct
<1> QED BY <1>2, <1>3, <1>4, <1>5 DEF Rearranged, s

\* A sequence as a function.
LEMMA HeapIsFunction ==
    ASSUME NEW E, NEW h \in Seq(E)
    PROVE  /\ Len(h) \in Nat /\ DOMAIN h = 1..Len(h) /\ h \in [1..Len(h) -> Range(h)]
           /\ Range(h) \subseteq E
BY LenProperties, ElementOfSeq DEF Range

LEMMA ArrangementLength ==
    ASSUME NEW h, Len(h) \in Nat, NEW g \in [1..Len(h) -> Range(h)]
    PROVE  /\ DOMAIN g = 1..Len(h) /\ Len(g) = Len(h)
           /\ \A k \in 1..Len(h) : g[k] \in Range(h)
OBVIOUS

\* The child that siftdown() chooses is the smaller one.
LEMMA ChildIsLeast ==
    ASSUME NEW h, Len(h) \in Nat, NEW g \in [1..Len(h) -> Range(h)], Comparable(Range(h)),
           NEW j \in 1..Len(h), 2 * j <= Len(h)
    PROVE  LET c == H!Child(g, j) IN
           /\ c \in 2..Len(h) /\ c \div 2 = j /\ j < c
           /\ \A k \in 2..Len(h) : k \div 2 = j => EntryLeq(g[c], g[k])
<1> DEFINE n == Len(h)
           c == H!Child(g, j)
<1>1. Len(g) = n /\ \A k \in 1..n : g[k] \in Range(h)
  BY ArrangementLength
<1>2. \A a, b \in 1..n : EntryLeq(g[a], g[b]) \/ EntryLeq(g[b], g[a])
  BY <1>1, LeqTotal
<1>3. \A a \in 1..n : EntryLeq(g[a], g[a])
  BY <1>2
<1>4. c = 2 * j \/ (c = 2 * j + 1 /\ 2 * j + 1 <= n)
  BY <1>1 DEF H!Child
<1>5. c \in 2..n /\ c \div 2 = j /\ j < c
  BY <1>4
<1>6. ASSUME NEW k \in 2..n, k \div 2 = j PROVE EntryLeq(g[c], g[k])
  <2>1. k = 2 * j \/ k = 2 * j + 1
    BY <1>6
  <2>2. 2 * j \in 1..n /\ k \in 1..n /\ c \in 1..n
    BY <1>5
  <2>3. CASE 2 * j + 1 <= n /\ EntryLeq(g[2 * j + 1], g[2 * j])
    <3>1. c = 2 * j + 1
      BY <1>1, <2>3 DEF H!Child
    <3> HIDE DEF c
    <3>2. 2 * j + 1 \in 1..n
      BY <2>3
    <3> QED BY <1>3, <2>1, <2>3, <3>1, <3>2
  <2>4. CASE ~(2 * j + 1 <= n /\ EntryLeq(g[2 * j + 1], g[2 * j]))
    <3>1. c = 2 * j
      BY <1>1, <2>4 DEF H!Child
    <3> HIDE DEF c
    <3>2. k = 2 * j + 1 => EntryLeq(g[2 * j], g[k])
      BY <1>2, <2>2, <2>4
    <3> QED BY <1>3, <2>1, <2>2, <3>1, <3>2
  <2> QED BY <2>3, <2>4
<1> QED BY <1>5, <1>6

\* While the element at j sinks, the rest of the heap from i on is in order, and j's
\* children are in order with j's parent.
Sinking(g, i, j) ==
    /\ \A k \in 2..Len(g) : k \div 2 >= i /\ k \div 2 # j => EntryLeq(g[k \div 2], g[k])
    /\ j \div 2 >= i => \A k \in 2..Len(g) : k \div 2 = j => EntryLeq(g[j \div 2], g[k])

LEMMA SinkTurn ==
    ASSUME NEW h, Len(h) \in Nat, Comparable(Range(h)), NEW g, Rearranged(g, h), NEW i \in 1..Len(h),
           NEW j \in i..Len(h), ~H!SinksNot(g, j)
    PROVE  LET c == H!Child(g, j) IN
           /\ c \in i..Len(h) /\ j < c
           /\ Rearranged(H!Swap(g, j, c), h)
           /\ Sinking(g, i, j) => Sinking(H!Swap(g, j, c), i, c)
<1> DEFINE n == Len(h)
           c == H!Child(g, j)
           s == H!Swap(g, j, c)
<1>1. g \in [1..n -> Range(h)]
  BY DEF Rearranged
<1>2. Len(g) = n /\ \A k \in 1..n : g[k] \in Range(h)
  BY <1>1, ArrangementLength
<1>3. 2 * j <= n /\ ~EntryLeq(g[j], g[c])
  BY <1>2 DEF H!SinksNot
<1>4. j \in 1..n
  OBVIOUS
<1>5. /\ c \in 2..n /\ c \div 2 = j /\ j < c
      /\ \A k \in 2..n : k \div 2 = j => EntryLeq(g[c], g[k])
  BY <1>1, <1>3, <1>4, ChildIsLeast
<1> HIDE DEF c
<1>6. c \in 1..n /\ c \in i..n /\ j # c
  BY <1>5
<1>7. /\ Rearranged(s, h)
      /\ s[j] = g[c] /\ s[c] = g[j]
      /\ \A k \in 1..n : k # j /\ k # c => s[k] = g[k]
  BY <1>4, <1>6, SwapKeeps
<1> HIDE DEF s
<1>8. Len(s) = n
  BY <1>7, ArrangementLength DEF Rearranged
<1>9. EntryLeq(g[c], g[j])
  BY <1>2, <1>3, <1>4, <1>6, LeqTotal
<1>10. ASSUME Sinking(g, i, j), NEW k \in 2..n, k \div 2 >= i, k \div 2 # c PROVE EntryLeq(s[k \div 2], s[k])
  <2>1. k \in 1..n /\ k \div 2 \in 1..n /\ k \div 2 < k
    BY <1>10
  <2>2. CASE k = c
    BY <1>5, <1>7, <1>9, <2>2
  <2>3. CASE k # c /\ k \div 2 = j
    <3>1. s[k] = g[k]
      BY <1>7, <2>1, <2>3
    <3> QED BY <1>5, <1>7, <2>3, <3>1
  <2>4. CASE k = j
    <3>1. k \div 2 # j
      BY <2>1, <2>4
    <3>2. s[k \div 2] = g[k \div 2]
      BY <1>7, <1>10, <2>1, <3>1
    <3>3. EntryLeq(g[j \div 2], g[c])
      BY <1>2, <1>5, <1>10, <2>4 DEF Sinking
    <3> QED BY <1>7, <2>4, <3>2, <3>3
  <2>5. CASE k # c /\ k # j /\ k \div 2 # j
    <3>1. s[k] = g[k] /\ s[k \div 2] = g[k \div 2]
      BY <1>7, <1>10, <2>1, <2>5
    <3> QED BY <1>2, <1>10, <2>5, <3>1 DEF Sinking
  <2> QED BY <2>2, <2>3, <2>4, <2>5
<1>11. ASSUME Sinking(g, i, j), NEW k \in 2..n, k \div 2 = c PROVE EntryLeq(s[c \div 2], s[k])
  <2>1. k \in 1..n /\ k # c /\ k # j /\ k \div 2 >= i /\ k \div 2 # j
    BY <1>5, <1>6, <1>11
  <2>2. s[k] = g[k]
    BY <1>7, <2>1
  <2>3. EntryLeq(g[c], g[k])
    BY <1>2, <1>11, <2>1 DEF Sinking
  <2> QED BY <1>5, <1>7, <2>2, <2>3
<1>12. ASSUME Sinking(g, i, j) PROVE Sinking(s, i, c)
  BY <1>8, <1>10, <1>11, <1>12 DEF Sinking
<1> QED BY <1>5, <1>6, <1>7, <1>12 DEF c, s

LEMMA PlacesAre == ASSUME NEW h PROVE H!Places(h) = [1..Len(h) -> Range(h)] \X (1..Len(h))
BY DEF H!Places, H!Range, Range

\* siftdown() only rearranges the elements, and when everything below place i is in
\* order it puts i in order as well.
LEMMA SiftDownOrders ==
    ASSUME NEW h, Len(h) \in Nat, h \in [1..Len(h) -> Range(h)], Comparable(Range(h)),
           NEW i \in 1..Len(h)
    PROVE  /\ Rearranged(H!SiftDown(h, i), h)
           /\ OrderedFrom(h, i + 1) => OrderedFrom(H!SiftDown(h, i), i)
<1> DEFINE n == Len(h)
           X == H!Places(h)
           Y == [1..n -> Range(h)]
           Stop == {p \in X : H!SinksNot(p[1], p[2])}
           next(p) == <<H!Swap(p[1], p[2], H!Child(p[1], p[2])), H!Child(p[1], p[2])>>
           turn == [p \in X |-> IF p \in Stop THEN p ELSE next(p)]
           size == [p \in X |-> n - p[2]]
           res == [p \in X |-> p[1]]
           P == {p \in X : Rearranged(p[1], h) /\ p[2] \in i..n
                          /\ (OrderedFrom(h, i + 1) => Sinking(p[1], i, p[2]))}
           Sink == CHOOSE f : f = [p \in X |-> IF H!SinksNot(p[1], p[2]) THEN p[1] ELSE f[next(p)]]
<1>1. ASSUME NEW p \in X PROVE p[1] \in Y /\ p[2] \in 1..n /\ p = <<p[1], p[2]>>
  <2>1. PICK g \in Y, j \in 1..n : p = <<g, j>>
    BY PlacesAre
  <2> QED BY <2>1
<1>2. ASSUME NEW p \in X, p \notin Stop
      PROVE  next(p) \in X /\ p[2] < next(p)[2]
  <2> DEFINE g == p[1]
             j == p[2]
             c == H!Child(g, j)
  <2>1. g \in Y /\ j \in 1..n /\ ~H!SinksNot(g, j)
    BY <1>1, <1>2
  <2>2. Len(g) = n /\ \A k \in 1..n : g[k] \in Range(h)
    BY <2>1, ArrangementLength
  <2>3. 2 * j <= n
    BY <2>1, <2>2 DEF H!SinksNot
  <2>4. c \in 2..n /\ j < c
    BY <2>1, <2>3, ChildIsLeast
  <2> HIDE DEF c
  <2>5. H!Swap(g, j, c) \in Y
    BY <2>1, <2>2, <2>4 DEF H!Swap
  <2>6. <<H!Swap(g, j, c), c>> \in X
    BY <2>4, <2>5, PlacesAre
  <2>7. next(p) = <<H!Swap(g, j, c), c>> /\ next(p)[2] = c
    BY DEF c
  <2> HIDE DEF X, next
  <2> QED BY <2>4, <2>6, <2>7
<1>3. Shrinks(X, Stop, turn, size)
  <2>1. \A p \in X : turn[p] \in X
    BY <1>2
  <2>2. turn \in [X -> X]
    BY <2>1
  <2>3. \A p \in X : n - p[2] \in Nat
    BY <1>1
  <2>4. size \in [X -> Nat]
    BY <2>3
  <2>5. ASSUME NEW p \in X, p \notin Stop PROVE size[turn[p]] < size[p]
    <3>1. turn[p] = next(p) /\ next(p) \in X /\ p[2] < next(p)[2]
      BY <1>2, <2>5
    <3>2. next(p)[2] \in 1..n /\ p[2] \in 1..n
      BY <1>1, <3>1
    <3> HIDE DEF next, turn, X
    <3>3. size[turn[p]] = n - next(p)[2] /\ size[p] = n - p[2]
      BY <3>1
    <3> HIDE DEF size
    <3> QED BY <3>1, <3>2, <3>3
  <2> HIDE DEF X, Stop, turn, size
  <2> QED BY <2>2, <2>4, <2>5 DEF Shrinks
<1>4. res \in [X -> Y]
  BY <1>1
<1>5. \E f : f = [p \in X |-> IF H!SinksNot(p[1], p[2]) THEN p[1] ELSE f[next(p)]]
  <2>1. PICK f \in [X -> Y] : IsLoop(f, X, Stop, turn, res)
    <3> HIDE DEF X, Y, Stop, turn, size, res
    <3> QED BY <1>3, <1>4, LoopExists
  <2>2. ASSUME NEW p \in X PROVE f[p] = IF H!SinksNot(p[1], p[2]) THEN p[1] ELSE f[next(p)]
    <3>1. f[p] = IF p \in Stop THEN res[p] ELSE f[turn[p]]
      BY <2>1 DEF IsLoop
    <3>2. p \in Stop <=> H!SinksNot(p[1], p[2])
      OBVIOUS
    <3>3. res[p] = p[1] /\ (p \notin Stop => turn[p] = next(p))
      OBVIOUS
    <3> HIDE DEF X, Stop, turn, res, next
    <3> QED BY <3>1, <3>2, <3>3
  <2> HIDE DEF X, next
  <2>3. f = [p \in X |-> f[p]]
    BY <2>1
  <2> QED BY <2>2, <2>3
<1>6. Sink = [p \in X |-> IF H!SinksNot(p[1], p[2]) THEN p[1] ELSE Sink[next(p)]]
  <2> HIDE DEF X, next
  <2> QED BY <1>5
<1>7. IsLoop(Sink, X, Stop, turn, res)
  <2> HIDE DEF Sink
  <2>1. ASSUME NEW p \in X PROVE Sink[p] = IF p \in Stop THEN res[p] ELSE Sink[turn[p]]
    <3>1. p \in Stop <=> H!SinksNot(p[1], p[2])
      OBVIOUS
    <3>2. res[p] = p[1] /\ (p \notin Stop => turn[p] = next(p))
      OBVIOUS
    <3>3. Sink[p] = IF H!SinksNot(p[1], p[2]) THEN p[1] ELSE Sink[next(p)]
      <4> HIDE DEF X, next
      <4> QED BY <1>6
    <3> HIDE DEF X, Stop, turn, res, next
    <3> QED BY <3>1, <3>2, <3>3
  <2> HIDE DEF X, Stop, turn, res
  <2> QED BY <2>1 DEF IsLoop
<1>8. \A p \in P : p \notin Stop => turn[p] \in P
  <2> TAKE p \in P
  <2> HAVE p \notin Stop
  <2>1. /\ p \in X /\ Rearranged(p[1], h) /\ p[2] \in i..n
        /\ OrderedFrom(h, i + 1) => Sinking(p[1], i, p[2])
        /\ ~H!SinksNot(p[1], p[2]) /\ turn[p] = next(p)
    OBVIOUS
  <2>2. next(p) \in X
    BY <1>2
  <2>3. /\ next(p)[1] = H!Swap(p[1], p[2], H!Child(p[1], p[2]))
        /\ next(p)[2] = H!Child(p[1], p[2])
    OBVIOUS
  <2>4. /\ Rearranged(next(p)[1], h) /\ next(p)[2] \in i..n
        /\ OrderedFrom(h, i + 1) => Sinking(next(p)[1], i, next(p)[2])
    <3> HIDE DEF X, Stop, turn, next
    <3> QED BY <2>1, <2>3, SinkTurn
  <2> HIDE DEF X, Stop, turn, next
  <2> QED BY <2>1, <2>2, <2>4
<1>9. <<h, i>> \in P
  <2>1. Rearranged(h, h)
    BY DEF Rearranged
  <2>2. ASSUME OrderedFrom(h, i + 1) PROVE Sinking(h, i, i)
    <3>1. ASSUME NEW k \in 2..n, k \div 2 >= i, k \div 2 # i PROVE EntryLeq(h[k \div 2], h[k])
      <4>1. k \div 2 >= i + 1
        BY <3>1
      <4> QED BY <2>2, <4>1 DEF OrderedFrom
    <3>2. ~(i \div 2 >= i)
      <4>1. i \in Nat /\ i > 0
        OBVIOUS
      <4> QED BY <4>1
    <3> QED BY <3>1, <3>2 DEF Sinking
  <2>3. <<h, i>> \in X
    BY PlacesAre
  <2> QED BY <2>1, <2>2, <2>3
<1>10. P \in SUBSET X
  OBVIOUS
<1>11. PICK p \in P : p \in Stop /\ Sink[<<h, i>>] = res[p]
  <2> HIDE DEF X, Stop, turn, res, size, P, Sink
  <2> QED BY <1>3, <1>7, <1>8, <1>9, <1>10, LoopKeeps
<1>12. H!SiftDown(h, i) = p[1]
  <2>1. p \in X /\ res[p] = p[1]
    OBVIOUS
  <2>2. H!SiftDown(h, i) = Sink[<<h, i>>]
    BY DEF H!SiftDown
  <2> QED BY <1>11, <2>1, <2>2
<1>13. ASSUME OrderedFrom(h, i + 1) PROVE OrderedFrom(p[1], i)
  <2> DEFINE g == p[1]
             j == p[2]
  <2>1. Rearranged(g, h) /\ j \in i..n /\ Sinking(g, i, j) /\ H!SinksNot(g, j)
    BY <1>11, <1>13
  <2>2. g \in Y
    BY <2>1 DEF Rearranged
  <2>3. Len(g) = n /\ \A k \in 1..n : g[k] \in Range(h)
    BY <2>2, ArrangementLength
  <2> HIDE DEF g, j
  <2>4. ASSUME NEW k \in 2..n, k \div 2 >= i PROVE EntryLeq(g[k \div 2], g[k])
    <3>1. CASE k \div 2 # j
      <4>1. k \in 2..Len(g)
        BY <2>3
      <4>2. \A l \in 2..Len(g) : l \div 2 >= i /\ l \div 2 # j => EntryLeq(g[l \div 2], g[l])
        BY <2>1 DEF Sinking
      <4> QED BY <2>4, <3>1, <4>1, <4>2
    <3>2. CASE k \div 2 = j
      <4>1. 2 * j <= n /\ j \in 1..n
        BY <3>2
      <4>2. EntryLeq(g[j], g[H!Child(g, j)])
        BY <2>1, <2>3, <4>1 DEF H!SinksNot
      <4>3. H!Child(g, j) \in 1..n /\ EntryLeq(g[H!Child(g, j)], g[k])
        <5>1. /\ H!Child(g, j) \in 2..Len(h)
              /\ \A l \in 2..Len(h) : l \div 2 = j => EntryLeq(g[H!Child(g, j)], g[l])
          <6> HIDE DEF X, Stop, P, Sink
          <6> QED BY <2>2, <4>1, ChildIsLeast
        <5> QED BY <3>2, <5>1
      <4>4. k \in 1..n
        OBVIOUS
      <4> QED BY <2>3, <3>2, <4>1, <4>2, <4>3, <4>4, LeqTransitive
    <3> QED BY <3>1, <3>2
  <2> QED BY <2>3, <2>4 DEF OrderedFrom, g
<1> QED BY <1>11, <1>12, <1>13

LEMMA Halves == \A k \in Nat : k # 0 /\ k # 1 => k \div 2 \in Nat /\ 1 <= k \div 2 /\ k \div 2 < k
OBVIOUS

\* While the element at j rises, the rest of the heap is in order, and j's children are
\* in order with j's parent.
Rising(g, j) ==
    /\ \A k \in 2..Len(g) : k # j => EntryLeq(g[k \div 2], g[k])
    /\ j # 1 => \A k \in 2..Len(g) : k \div 2 = j => EntryLeq(g[j \div 2], g[k])

LEMMA RiseTurn ==
    ASSUME NEW h, Len(h) \in Nat, Comparable(Range(h)), NEW g, Rearranged(g, h),
           NEW j \in 1..Len(h), Rising(g, j), ~H!RisesNot(g, j)
    PROVE  Rearranged(H!Swap(g, j, j \div 2), h) /\ Rising(H!Swap(g, j, j \div 2), j \div 2)
<1> DEFINE n == Len(h)
           c == j \div 2
           s == H!Swap(g, j, c)
<1>1. g \in [1..n -> Range(h)]
  BY DEF Rearranged
<1>2. Len(g) = n /\ \A k \in 1..n : g[k] \in Range(h)
  BY <1>1, ArrangementLength
<1>3. j # 1 /\ ~EntryLeq(g[c], g[j])
  BY DEF H!RisesNot
<1>4. j \in 2..n /\ c \in 1..n /\ c < j
  BY <1>3
<1>5. c # j /\ j \in 1..n
  BY <1>4
<1>6. /\ Rearranged(s, h)
      /\ s[j] = g[c] /\ s[c] = g[j]
      /\ \A k \in 1..n : k # j /\ k # c => s[k] = g[k]
  <2> HIDE DEF c
  <2> QED BY <1>4, <1>5, SwapKeeps
<1> HIDE DEF s
<1>7. Len(s) = n
  BY <1>6, ArrangementLength DEF Rearranged
<1>8. EntryLeq(g[j], g[c])
  BY <1>2, <1>3, <1>4, <1>5, LeqTotal
<1>9. /\ \A k \in 2..n : k # j => EntryLeq(g[k \div 2], g[k])
      /\ \A k \in 2..n : k \div 2 = j => EntryLeq(g[c], g[k])
  BY <1>2, <1>3 DEF Rising
<1>10. ASSUME NEW k \in 2..n PROVE k \in 1..n /\ k \div 2 \in 1..n /\ k \div 2 < k
  OBVIOUS
<1>11. ASSUME NEW k \in 2..n, k # c PROVE EntryLeq(s[k \div 2], s[k])
  <2>1. CASE k = j
    BY <1>6, <1>8, <2>1
  <2>2. CASE k # j /\ k \div 2 = c
    <3>1. s[k] = g[k]
      BY <1>6, <1>10, <1>11, <2>2
    <3>2. EntryLeq(g[c], g[k])
      BY <1>9, <2>2
    <3>3. EntryLeq(g[j], g[k])
      BY <1>2, <1>4, <1>5, <1>8, <1>10, <3>2, LeqTransitive
    <3> QED BY <1>6, <2>2, <3>1, <3>3
  <2>3. CASE k # j /\ k \div 2 = j
    <3>1. s[k] = g[k]
      BY <1>6, <1>10, <1>11, <2>3
    <3> QED BY <1>6, <1>9, <2>3, <3>1
  <2>4. CASE k # j /\ k \div 2 # j /\ k \div 2 # c
    <3>1. s[k] = g[k] /\ s[k \div 2] = g[k \div 2]
      BY <1>6, <1>10, <1>11, <2>4
    <3> QED BY <1>9, <2>4, <3>1
  <2> QED BY <2>1, <2>2, <2>3, <2>4
<1>12. ASSUME c # 1, NEW k \in 2..n, k \div 2 = c PROVE EntryLeq(s[c \div 2], s[k])
  <2>1. c \in 2..n /\ c \div 2 \in 1..n /\ c \div 2 < c /\ c \div 2 # j
    BY <1>4, <1>12
  <2>2. s[c \div 2] = g[c \div 2]
    BY <1>6, <2>1
  <2>3. EntryLeq(g[c \div 2], g[c])
    BY <1>5, <1>9, <2>1
  <2>4. CASE k = j
    BY <1>6, <2>2, <2>3, <2>4
  <2>5. CASE k # j
    <3>1. k # c
      BY <1>10, <1>12
    <3>2. s[k] = g[k]
      BY <1>6, <1>10, <2>5, <3>1
    <3>3. EntryLeq(g[c], g[k])
      BY <1>9, <1>12, <2>5
    <3>4. EntryLeq(g[c \div 2], g[k])
      <4> HIDE DEF c
      <4> QED BY <1>2, <1>4, <1>10, <2>1, <2>3, <3>3, LeqTransitive
    <3> QED BY <2>2, <3>2, <3>4
  <2> QED BY <2>4, <2>5
<1>13. Rising(s, c)
  BY <1>7, <1>11, <1>12 DEF Rising
<1> QED BY <1>6, <1>13 DEF s

\* siftup(), when everything but the last element is in order, puts that in order as
\* well and only rearranges the elements.
LEMMA SiftUpOrders ==
    ASSUME NEW h, Len(h) \in Nat, h \in [1..Len(h) -> Range(h)], Comparable(Range(h)),
           Len(h) > 0, Rising(h, Len(h))
    PROVE  Rearranged(H!SiftUp(h), h) /\ OrderedFrom(H!SiftUp(h), 1)
<1> DEFINE n == Len(h)
           X == H!Places(h)
           Y == [1..n -> Range(h)]
           Stop == {p \in X : H!RisesNot(p[1], p[2])}
           next(p) == <<H!Swap(p[1], p[2], p[2] \div 2), p[2] \div 2>>
           turn == [p \in X |-> IF p \in Stop THEN p ELSE next(p)]
           size == [p \in X |-> p[2]]
           res == [p \in X |-> p[1]]
           P == {p \in X : Rearranged(p[1], h) /\ Rising(p[1], p[2])}
           Rise == CHOOSE f : f = [p \in X |-> IF H!RisesNot(p[1], p[2]) THEN p[1] ELSE f[next(p)]]
<1>1. ASSUME NEW p \in X PROVE p[1] \in Y /\ p[2] \in 1..n /\ p = <<p[1], p[2]>>
  <2>1. PICK g \in Y, j \in 1..n : p = <<g, j>>
    BY PlacesAre
  <2> QED BY <2>1
<1>2. ASSUME NEW p \in X, p \notin Stop
      PROVE  next(p) \in X /\ next(p)[2] < p[2]
  <2> DEFINE g == p[1]
             j == p[2]
             c == j \div 2
  <2>1. g \in Y /\ j \in 1..n /\ ~H!RisesNot(g, j)
    BY <1>1, <1>2
  <2>2. Len(g) = n /\ \A k \in 1..n : g[k] \in Range(h)
    BY <2>1, ArrangementLength
  <2>3. j # 1
    BY <2>1 DEF H!RisesNot
  <2>4. c \in 1..n /\ c < j
    <3>1. j \in Nat /\ n \in Nat /\ j # 0 /\ j <= n
      BY <2>1
    <3> HIDE DEF X, Stop, n
    <3> QED BY <2>3, <3>1, Halves
  <2> HIDE DEF c
  <2>5. H!Swap(g, j, c) \in Y
    BY <2>1, <2>2, <2>4 DEF H!Swap
  <2>6. <<H!Swap(g, j, c), c>> \in X
    BY <2>4, <2>5, PlacesAre
  <2>7. next(p) = <<H!Swap(g, j, c), c>> /\ next(p)[2] = c
    BY DEF c
  <2> HIDE DEF X, next
  <2> QED BY <2>4, <2>6, <2>7
<1>3. Shrinks(X, Stop, turn, size)
  <2>1. \A p \in X : turn[p] \in X
    BY <1>2
  <2>2. turn \in [X -> X]
    BY <2>1
  <2>3. \A p \in X : p[2] \in Nat
    BY <1>1
  <2>4. size \in [X -> Nat]
    BY <2>3
  <2>5. ASSUME NEW p \in X, p \notin Stop PROVE size[turn[p]] < size[p]
    <3>1. turn[p] = next(p) /\ next(p) \in X /\ next(p)[2] < p[2]
      BY <1>2, <2>5
    <3>2. next(p)[2] \in 1..n /\ p[2] \in 1..n
      BY <1>1, <3>1
    <3> HIDE DEF next, turn, X
    <3>3. size[turn[p]] = next(p)[2] /\ size[p] = p[2]
      BY <3>1
    <3> HIDE DEF size
    <3> QED BY <3>1, <3>2, <3>3
  <2> HIDE DEF X, Stop, turn, size
  <2> QED BY <2>2, <2>4, <2>5 DEF Shrinks
<1>4. res \in [X -> Y]
  BY <1>1
<1>5. \E f : f = [p \in X |-> IF H!RisesNot(p[1], p[2]) THEN p[1] ELSE f[next(p)]]
  <2>1. PICK f \in [X -> Y] : IsLoop(f, X, Stop, turn, res)
    <3> HIDE DEF X, Y, Stop, turn, size, res
    <3> QED BY <1>3, <1>4, LoopExists
  <2>2. ASSUME NEW p \in X PROVE f[p] = IF H!RisesNot(p[1], p[2]) THEN p[1] ELSE f[next(p)]
    <3>1. f[p] = IF p \in Stop THEN res[p] ELSE f[turn[p]]
      BY <2>1 DEF IsLoop
    <3>2. p \in Stop <=> H!RisesNot(p[1], p[2])
      OBVIOUS
    <3>3. res[p] = p[1] /\ (p \notin Stop => turn[p] = next(p))
      OBVIOUS
    <3> HIDE DEF X, Stop, turn, res, next
    <3> QED BY <3>1, <3>2, <3>3
  <2> HIDE DEF X, next
  <2>3. f = [p \in X |-> f[p]]
    BY <2>1
  <2> QED BY <2>2, <2>3
<1>6. Rise = [p \in X |-> IF H!RisesNot(p[1], p[2]) THEN p[1] ELSE Rise[next(p)]]
  <2> HIDE DEF X, next
  <2> QED BY <1>5
<1>7. IsLoop(Rise, X, Stop, turn, res)
  <2> HIDE DEF Rise
  <2>1. ASSUME NEW p \in X PROVE Rise[p] = IF p \in Stop THEN res[p] ELSE Rise[turn[p]]
    <3>1. p \in Stop <=> H!RisesNot(p[1], p[2])
      OBVIOUS
    <3>2. res[p] = p[1] /\ (p \notin Stop => turn[p] = next(p))
      OBVIOUS
    <3>3. Rise[p] = IF H!RisesNot(p[1], p[2]) THEN p[1] ELSE Rise[next(p)]
      <4> HIDE DEF X, next
      <4> QED BY <1>6
    <3> HIDE DEF X, Stop, turn, res, next
    <3> QED BY <3>1, <3>2, <3>3
  <2> HIDE DEF X, Stop, turn, res
  <2> QED BY <2>1 DEF IsLoop
<1>8. \A p \in P : p \notin Stop => turn[p] \in P
  <2> TAKE p \in P
  <2> HAVE p \notin Stop
  <2>1. /\ p \in X /\ Rearranged(p[1], h) /\ Rising(p[1], p[2])
        /\ ~H!RisesNot(p[1], p[2]) /\ turn[p] = next(p)
    OBVIOUS
  <2>2. next(p) \in X /\ p[2] \in 1..n
    BY <1>1, <1>2
  <2>3. next(p)[1] = H!Swap(p[1], p[2], p[2] \div 2) /\ next(p)[2] = p[2] \div 2
    OBVIOUS
  <2>4. Rearranged(next(p)[1], h) /\ Rising(next(p)[1], next(p)[2])
    <3> HIDE DEF X, Stop, turn, next
    <3> QED BY <2>1, <2>2, <2>3, RiseTurn
  <2> HIDE DEF X, Stop, turn, next
  <2> QED BY <2>1, <2>2, <2>4
<1>9. <<h, n>> \in P
  <2>1. Rearranged(h, h)
    BY DEF Rearranged
  <2>3. <<h, n>> \in X
    <3>1. n \in 1..n /\ h \in Y
      OBVIOUS
    <3>2. X = Y \X (1..n)
      BY PlacesAre
    <3> HIDE DEF n, X, Y
    <3> QED BY <3>1, <3>2
  <2> QED BY <2>1, <2>3
<1>10. P \in SUBSET X
  OBVIOUS
<1>11. PICK p \in P : p \in Stop /\ Rise[<<h, n>>] = res[p]
  <2> HIDE DEF X, Stop, turn, res, size, P, Rise
  <2> QED BY <1>3, <1>7, <1>8, <1>9, <1>10, LoopKeeps
<1>12. H!SiftUp(h) = p[1]
  <2>1. p \in X /\ res[p] = p[1]
    OBVIOUS
  <2>2. H!SiftUp(h) = Rise[<<h, n>>]
    BY DEF H!SiftUp
  <2> QED BY <1>11, <2>1, <2>2
<1>13. OrderedFrom(p[1], 1)
  <2> DEFINE g == p[1]
             j == p[2]
  <2>1. Rearranged(g, h) /\ Rising(g, j) /\ H!RisesNot(g, j)
    BY <1>11
  <2> HIDE DEF g, j
  <2>2. ASSUME NEW k \in 2..Len(g) PROVE EntryLeq(g[k \div 2], g[k])
    <3>1. CASE k # j
      BY <2>1, <3>1 DEF Rising
    <3>2. CASE k = j
      <4>1. j # 1
        BY <3>2
      <4> HIDE DEF X, Stop, P, Rise
      <4> QED BY <2>1, <3>2, <4>1 DEF H!RisesNot
    <3> QED BY <3>1, <3>2
  <2> QED BY <2>2 DEF OrderedFrom, g
<1> QED BY <1>11, <1>12, <1>13

\* The root is refilled with x, or is one that is refilled in place.
LEMMA RefillKeeps ==
    ASSUME NEW E, NEW h \in Seq(E), h # <<>>, NEW x \in E
    PROVE  LET r == [h EXCEPT ![1] = x] IN
           /\ r \in Seq(E) /\ Len(r) = Len(h) /\ r[1] = x
           /\ \A k \in 2..Len(h) : r[k] = h[k]
           /\ Range(r) = {x} \cup Others(h)
           /\ OrderedFrom(h, 2) => OrderedFrom(r, 2)
           /\ Distinct(h) /\ x.src = h[1].src => Distinct(r)
<1> DEFINE n == Len(h)
           r == [h EXCEPT ![1] = x]
<1>1. n \in Nat /\ n > 0 /\ DOMAIN h = 1..n /\ \A k \in 1..n : h[k] \in E
  BY LenProperties, ElementOfSeq, EmptySeq
<1>2. r \in Seq(E) /\ Len(r) = n /\ DOMAIN r = 1..n
  BY <1>1
<1>3. r[1] = x /\ \A k \in 2..n : r[k] = h[k]
  BY <1>1
<1> HIDE DEF r
<1>4. Range(r) = {x} \cup {h[k] : k \in 2..n}
  <2>1. ASSUME NEW k \in 1..n PROVE r[k] \in {x} \cup {h[i] : i \in 2..n}
    <3>1. k = 1 \/ k \in 2..n
      BY <1>1
    <3> QED BY <1>3, <3>1
  <2>2. x \in Range(r) /\ \A k \in 2..n : h[k] \in Range(r)
    <3>1. 1 \in 1..n /\ \A k \in 2..n : k \in 1..n
      BY <1>1
    <3> QED BY <1>2, <1>3, <3>1 DEF Range
  <2> QED BY <1>2, <2>1, <2>2 DEF Range
<1>5. ASSUME OrderedFrom(h, 2) PROVE OrderedFrom(r, 2)
  <2>1. ASSUME NEW k \in 2..n, k \div 2 >= 2 PROVE EntryLeq(r[k \div 2], r[k])
    <3>1. k \div 2 \in 2..n
      BY <1>1, <2>1
    <3>2. EntryLeq(h[k \div 2], h[k])
      BY <1>5, <2>1 DEF OrderedFrom
    <3> QED BY <1>3, <3>1, <3>2
  <2> QED BY <1>2, <2>1 DEF OrderedFrom
<1>6. ASSUME Distinct(h), x.src = h[1].src PROVE Distinct(r)
  <2>1. ASSUME NEW k \in 1..n PROVE r[k].src = h[k].src
    <3>1. k = 1 \/ k \in 2..n
      BY <1>1
    <3> QED BY <1>3, <1>6, <3>1
  <2> QED BY <1>2, <1>6, <2>1 DEF Distinct
<1> QED BY <1>2, <1>3, <1>4, <1>5, <1>6 DEF r, Others

\* What siftdown() does at the root.
LEMMA RootSinks ==
    ASSUME NEW E, Comparable(E), NEW h \in Seq(E), h # <<>>
    PROVE  LET r == H!SiftDown(h, 1) IN
           /\ r \in Seq(E) /\ Len(r) = Len(h) /\ (OrderedFrom(h, 2) => OrderedFrom(r, 1))
           /\ Range(r) = Range(h) /\ (Distinct(h) => Distinct(r))
<1> DEFINE n == Len(h)
           r == H!SiftDown(h, 1)
<1>1. n \in Nat /\ n > 0 /\ h \in [1..n -> Range(h)] /\ Range(h) \subseteq E
  BY HeapIsFunction, EmptySeq
<1>2. Comparable(Range(h)) /\ 1 \in 1..n /\ 1 + 1 = 2
  BY <1>1 DEF Comparable
<1>3. Rearranged(r, h) /\ (OrderedFrom(h, 2) => OrderedFrom(r, 1))
  <2> HIDE DEF r
  <2> QED BY <1>1, <1>2, SiftDownOrders DEF r
<1> HIDE DEF r
<1>4. r \in [1..n -> Range(h)] /\ Range(r) = Range(h) /\ (Distinct(h) => Distinct(r))
  BY <1>3 DEF Rearranged
<1>5. r \in [1..n -> E]
  BY <1>1, <1>4
<1>6. r \in Seq(E) /\ Len(r) = n
  BY <1>1, <1>5
<1> QED BY <1>3, <1>4, <1>6 DEF r

\* heap_replace()
LEMMA ReplaceKeeps ==
    ASSUME NEW E, Comparable(E), NEW h \in Seq(E), h # <<>>, NEW x \in E
    PROVE  LET r == H!Replace(h, x) IN
           /\ r \in Seq(E) /\ Len(r) = Len(h) /\ (OrderedFrom(h, 2) => OrderedFrom(r, 1))
           /\ Range(r) = {x} \cup Others(h)
           /\ Distinct(h) /\ x.src = h[1].src => Distinct(r)
<1> DEFINE g == [h EXCEPT ![1] = x]
<1>1. /\ g \in Seq(E) /\ Len(g) = Len(h) /\ (OrderedFrom(h, 2) => OrderedFrom(g, 2))
      /\ Range(g) = {x} \cup Others(h)
      /\ Distinct(h) /\ x.src = h[1].src => Distinct(g)
  <2>1. \A F : h \in Seq(F) /\ x \in F =>
                 /\ g \in Seq(F) /\ Len(g) = Len(h)
                 /\ Range(g) = {x} \cup Others(h)
                 /\ OrderedFrom(h, 2) => OrderedFrom(g, 2)
                 /\ Distinct(h) /\ x.src = h[1].src => Distinct(g)
    BY RefillKeeps
  <2> HIDE DEF g
  <2> QED BY <2>1
<1>2. H!Replace(h, x) = H!SiftDown(g, 1)
  BY DEF H!Replace
<1> HIDE DEF g
<1>3. g # <<>>
  BY <1>1, EmptySeq
<1> QED BY <1>1, <1>2, <1>3, RootSinks

\* heap_pop()
LEMMA PopKeeps ==
    ASSUME NEW E, Comparable(E), NEW h \in Seq(E), h # <<>>
    PROVE  LET r == H!Pop(h) IN
           /\ r \in Seq(E) /\ (OrderedFrom(h, 2) => OrderedFrom(r, 1))
           /\ Range(r) = Others(h)
           /\ Distinct(h) => Distinct(r)
<1> DEFINE n == Len(h)
           g == [i \in 1..(n - 1) |-> IF i = 1 THEN h[n] ELSE h[i]]
<1>1. n \in Nat /\ n > 0 /\ DOMAIN h = 1..n /\ \A k \in 1..n : h[k] \in E
  BY LenProperties, ElementOfSeq, EmptySeq
<1>2. CASE n = 1
  <2>1. H!Pop(h) = <<>>
    BY <1>2 DEF H!Pop
  <2>2. <<>> \in Seq(E) /\ Len(<<>>) = 0 /\ DOMAIN <<>> = {}
    OBVIOUS
  <2>3. {h[k] : k \in 2..n} = {} /\ Range(<<>>) = {}
    BY <1>2, <2>2 DEF Range
  <2>4. OrderedFrom(<<>>, 1) /\ Distinct(<<>>)
    BY <2>2 DEF OrderedFrom, Distinct
  <2> QED BY <2>1, <2>2, <2>3, <2>4 DEF Others
<1>3. CASE n # 1
  <2>0. n \in Nat
    BY <1>1
  <2>1. n - 1 \in Nat /\ n - 1 > 0 /\ n \in 1..n
    BY <1>1, <1>3
  <2>2. g \in Seq(E) /\ Len(g) = n - 1 /\ DOMAIN g = 1..(n - 1)
    BY <1>1, <2>1
  <2>3. g[1] = h[n] /\ \A k \in 2..(n - 1) : g[k] = h[k]
    BY <1>1, <2>1
  <2>4. H!Pop(h) = H!SiftDown(g, 1)
    BY <1>3 DEF H!Pop
  <2> HIDE DEF g
  <2>5. Range(g) = {h[k] : k \in 2..n}
    <3>1. ASSUME NEW k \in 1..(n - 1) PROVE g[k] \in {h[i] : i \in 2..n}
      <4>1. k = 1 \/ (k \in 2..(n - 1) /\ k \in 2..n)
        BY <1>1
      <4>2. n \in 2..n
        BY <1>1, <1>3
      <4> QED BY <2>3, <4>1, <4>2
    <3>2. ASSUME NEW k \in 2..n PROVE h[k] \in Range(g)
      <4>1. k = n \/ (k \in 2..(n - 1) /\ k \in 1..(n - 1))
        <5> HIDE DEF n
        <5> QED BY <2>0
      <4>2. 1 \in 1..(n - 1)
        BY <2>1
      <4> QED BY <2>2, <2>3, <4>1, <4>2 DEF Range
    <3> QED BY <2>2, <3>1, <3>2 DEF Range
  <2>6. ASSUME OrderedFrom(h, 2) PROVE OrderedFrom(g, 2)
    <3>1. ASSUME NEW k \in 2..(n - 1), k \div 2 >= 2 PROVE EntryLeq(g[k \div 2], g[k])
      <4>1. k \div 2 \in 2..(n - 1) /\ k \in 2..n
        BY <1>1, <3>1
      <4>2. EntryLeq(h[k \div 2], h[k])
        BY <2>6, <3>1, <4>1 DEF OrderedFrom
      <4> QED BY <2>3, <4>1, <4>2
    <3> QED BY <2>2, <3>1 DEF OrderedFrom
  <2>7. ASSUME Distinct(h) PROVE Distinct(g)
    <3>1. ASSUME NEW a \in 1..(n - 1), NEW b \in 1..(n - 1), g[a].src = g[b].src PROVE a = b
      <4>1. /\ a = 1 \/ a \in 2..(n - 1)
            /\ b = 1 \/ b \in 2..(n - 1)
            /\ a \in 1..n /\ b \in 1..n /\ a # n /\ b # n
        <5> HIDE DEF n
        <5> QED BY <2>0
      <4> QED BY <2>1, <2>3, <2>7, <3>1, <4>1 DEF Distinct
    <3> QED BY <2>2, <3>1 DEF Distinct
  <2>8. g # <<>>
    BY <2>1, <2>2, EmptySeq
  <2> HIDE DEF n
  <2> QED BY <2>2, <2>4, <2>5, <2>6, <2>7, <2>8, RootSinks DEF n, Others
<1> QED BY <1>2, <1>3

\* An entry of another source is added.
LEMMA AppendDistinct ==
    ASSUME NEW E, NEW h \in Seq(E), NEW x \in E
    PROVE  LET g == Append(h, x) IN
           /\ g \in Seq(E) /\ Range(g) = Range(h) \cup {x}
           /\ Distinct(h) /\ (\A e \in Range(h) : e.src # x.src) => Distinct(g)
<1> DEFINE n == Len(h)
           g == Append(h, x)
<1>1. n \in Nat /\ DOMAIN h = 1..n /\ \A k \in 1..n : h[k] \in E
  BY LenProperties, ElementOfSeq
<1>2. /\ g \in Seq(E) /\ Len(g) = n + 1 /\ DOMAIN g = 1..(n + 1)
      /\ g[n + 1] = x /\ \A k \in 1..n : g[k] = h[k]
  BY <1>1, AppendProperties, LenProperties
<1> HIDE DEF g
<1>3. Range(g) = Range(h) \cup {x}
  <2>1. ASSUME NEW k \in 1..(n + 1) PROVE g[k] \in Range(h) \cup {x}
    <3>1. k = n + 1 \/ k \in 1..n
      BY <1>1
    <3> QED BY <1>1, <1>2, <3>1 DEF Range
  <2>2. x \in Range(g) /\ \A k \in 1..n : h[k] \in Range(g)
    <3>1. n + 1 \in 1..(n + 1) /\ \A k \in 1..n : k \in 1..(n + 1)
      BY <1>1
    <3> QED BY <1>2, <3>1 DEF Range
  <2> QED BY <1>1, <1>2, <2>1, <2>2 DEF Range
<1>4. ASSUME Distinct(h), \A e \in Range(h) : e.src # x.src PROVE Distinct(g)
  <2>1. ASSUME NEW a \in 1..(n + 1), NEW b \in 1..(n + 1), g[a].src = g[b].src PROVE a = b
    <3>1. /\ a = n + 1 \/ a \in 1..n
          /\ b = n + 1 \/ b \in 1..n
      BY <1>1
    <3>2. \A k \in 1..n : h[k].src # x.src
      BY <1>1, <1>4 DEF Range
    <3> QED BY <1>1, <1>2, <1>4, <2>1, <3>1, <3>2 DEF Distinct
  <2> QED BY <1>2, <2>1 DEF Distinct
<1> QED BY <1>2, <1>3, <1>4 DEF g

\* heap_push()
LEMMA PushKeeps ==
    ASSUME NEW E, Comparable(E), NEW h \in Seq(E), OrderedFrom(h, 1), NEW x \in E
    PROVE  LET r == H!Push(h, x) IN
           /\ r \in Seq(E) /\ OrderedFrom(r, 1)
           /\ Range(r) = Range(h) \cup {x}
           /\ Distinct(h) /\ (\A e \in Range(h) : e.src # x.src) => Distinct(r)
<1> DEFINE n == Len(h)
           g == Append(h, x)
           r == H!SiftUp(g)
<1>1. n \in Nat /\ DOMAIN h = 1..n /\ \A k \in 1..n : h[k] \in E
  BY LenProperties, ElementOfSeq
<1>2. /\ g \in Seq(E) /\ Len(g) = n + 1 /\ DOMAIN g = 1..(n + 1)
      /\ g[n + 1] = x /\ \A k \in 1..n : g[k] = h[k]
  BY <1>1, AppendProperties, LenProperties
<1> HIDE DEF g
<1>3. Range(g) = Range(h) \cup {x}
  BY AppendDistinct DEF g
<1>4. ASSUME Distinct(h), \A e \in Range(h) : e.src # x.src PROVE Distinct(g)
  BY <1>4, AppendDistinct DEF g
<1>5. Rising(g, n + 1)
  <2>1. ASSUME NEW k \in 2..(n + 1), k # n + 1 PROVE EntryLeq(g[k \div 2], g[k])
    <3>1. k \in 2..n /\ k \in 1..n /\ k \div 2 \in 1..n /\ k \div 2 >= 1
      BY <1>1, <2>1
    <3>2. EntryLeq(h[k \div 2], h[k])
      BY <3>1 DEF OrderedFrom
    <3> QED BY <1>2, <3>1, <3>2
  <2>2. ASSUME NEW k \in 2..(n + 1) PROVE k \div 2 # n + 1
    BY <1>1
  <2> QED BY <1>2, <2>1, <2>2 DEF Rising
<1>6. Len(g) \in Nat /\ Len(g) > 0 /\ g \in [1..Len(g) -> Range(g)] /\ Range(g) \subseteq E
  BY <1>1, <1>2, HeapIsFunction
<1>7. Comparable(Range(g)) /\ Rising(g, Len(g))
  BY <1>2, <1>5, <1>6 DEF Comparable
<1>8. Rearranged(r, g) /\ OrderedFrom(r, 1)
  <2> HIDE DEF r
  <2> QED BY <1>6, <1>7, SiftUpOrders DEF r
<1>9. r = H!Push(h, x)
  BY DEF H!Push, g
<1> HIDE DEF r
<1>10. r \in [1..Len(g) -> E] /\ Range(r) = Range(g) /\ (Distinct(g) => Distinct(r))
  BY <1>6, <1>8 DEF Rearranged
<1>11. r \in Seq(E)
  BY <1>6, <1>10
<1> QED BY <1>3, <1>4, <1>8, <1>9, <1>10, <1>11

\* heap_heapify() makes a heap of its elements.
LEMMA HeapifyKeeps ==
    ASSUME NEW E, Comparable(E), NEW h \in Seq(E)
    PROVE  LET r == H!Heapify(h) IN
           /\ r \in Seq(E) /\ OrderedFrom(r, 1)
           /\ Range(r) = Range(h) /\ (Distinct(h) => Distinct(r))
<1> DEFINE n == Len(h)
           parents == n \div 2
           step == [p \in (1..parents) \X Seq(E) |-> H!SiftDown(p[2], parents - p[1] + 1)]
           X == [k \in 0..parents |-> {g \in Seq(E) : /\ Len(g) = n /\ OrderedFrom(g, parents - k + 1)
                                                   /\ Range(g) = Range(h) /\ (Distinct(h) => Distinct(g))}]
           Sifted == CHOOSE f : f = [k \in 0..parents |-> IF k = 0 THEN h
                                                       ELSE H!SiftDown(f[k - 1], parents - k + 1)]
<1>1. n \in Nat /\ parents \in Nat /\ parents + parents <= n
  <2>1. n \in Nat
    BY LenProperties
  <2> QED BY <2>1
<1>2. Leads(X, h, parents, step)
  <2>1. OrderedFrom(h, parents - 0 + 1)
    <3>1. ASSUME NEW k \in 2..n PROVE ~(k \div 2 >= parents - 0 + 1)
      BY <1>1
    <3> QED BY <3>1 DEF OrderedFrom
  <2>2. h \in X[0]
    <3>1. 0 \in 0..parents
      BY <1>1
    <3> QED BY <2>1, <3>1
  <2>3. ASSUME NEW i \in 1..parents, NEW g \in X[i - 1] PROVE step[<<i, g>>] \in X[i]
    <3> DEFINE k == parents - i + 1
               s == H!SiftDown(g, k)
    <3>1. i - 1 \in 0..parents /\ i \in 0..parents /\ parents - (i - 1) + 1 = k + 1 /\ k \in 1..n
      BY <1>1
    <3>2. /\ g \in Seq(E) /\ Len(g) = n /\ OrderedFrom(g, k + 1)
          /\ Range(g) = Range(h) /\ (Distinct(h) => Distinct(g))
      BY <3>1
    <3>3. Len(g) \in Nat /\ g \in [1..Len(g) -> Range(g)] /\ Range(g) \subseteq E
      BY <1>1, <3>2, HeapIsFunction
    <3>4. Comparable(Range(g))
      BY <3>3 DEF Comparable
    <3>5. step[<<i, g>>] = s
      BY <3>2
    <3> HIDE DEF s, k
    <3>6. Rearranged(s, g) /\ OrderedFrom(s, k)
      <4> HIDE DEF X, step, Sifted, n
      <4> QED BY <3>1, <3>2, <3>3, <3>4, SiftDownOrders DEF s
    <3>7. s \in [1..Len(g) -> E] /\ Range(s) = Range(g) /\ (Distinct(g) => Distinct(s))
      BY <3>3, <3>6 DEF Rearranged
    <3>8. s \in Seq(E) /\ Len(s) = n
      BY <1>1, <3>2, <3>7
    <3> QED BY <3>1, <3>2, <3>5, <3>6, <3>7, <3>8 DEF k
  <2> HIDE DEF X, step
  <2> QED BY <2>2, <2>3 DEF Leads
<1>3. \E f : f = [k \in 0..parents |-> IF k = 0 THEN h ELSE H!SiftDown(f[k - 1], parents - k + 1)]
  <2>1. PICK g : IsSteps(g, h, parents, step)
    <3>1. parents \in Nat
      BY <1>1
    <3> HIDE DEF step, parents, X, Sifted
    <3> QED BY <3>1, StepsExist
  <2>2. \A i \in 0..parents : g[i] = IF i = 0 THEN h ELSE step[<<i, g[i - 1]>>]
    <3> HIDE DEF step
    <3> QED BY <2>1 DEF IsSteps
  <2>3. \A i \in 0..parents : g[i] \in X[i]
    <3>1. parents \in Nat
      BY <1>1
    <3> HIDE DEF step, parents, X, Sifted
    <3> QED BY <3>1, <1>2, <2>1, StepsKeep
  <2>4. ASSUME NEW i \in 0..parents
        PROVE  g[i] = IF i = 0 THEN h ELSE H!SiftDown(g[i - 1], parents - i + 1)
    <3>1. CASE i = 0
      BY <2>2, <3>1
    <3>2. CASE i # 0
      <4>1. i \in 1..parents /\ i - 1 \in 0..parents
        BY <1>1, <3>2
      <4>2. g[i - 1] \in Seq(E)
        BY <2>3, <4>1
      <4>3. step[<<i, g[i - 1]>>] = H!SiftDown(g[i - 1], parents - i + 1)
        BY <4>1, <4>2
      <4> HIDE DEF step
      <4> QED BY <2>2, <3>2, <4>3
    <3> QED BY <3>1, <3>2
  <2>5. g = [i \in 0..parents |-> g[i]]
    <3> HIDE DEF step
    <3> QED BY <2>1 DEF IsSteps
  <2> HIDE DEF parents, X, step
  <2>6. g = [k \in 0..parents |-> IF k = 0 THEN h ELSE H!SiftDown(g[k - 1], parents - k + 1)]
    BY <2>4, <2>5
  <2> QED BY <2>6
<1>4. Sifted = [k \in 0..parents |-> IF k = 0 THEN h ELSE H!SiftDown(Sifted[k - 1], parents - k + 1)]
  <2> HIDE DEF parents
  <2> QED BY <1>3
<1> HIDE DEF Sifted
<1> DEFINE Good(g, k) == /\ g \in Seq(E) /\ Len(g) = n /\ OrderedFrom(g, parents - k + 1)
                         /\ Range(g) = Range(h) /\ (Distinct(h) => Distinct(g))
           S == {k \in Nat : k <= parents => Sifted[k] \in X[k]}
<1>5. 0 \in S
  <2>1. Sifted[0] = h /\ h \in X[0]
    <3>1. 0 \in 0..parents
      BY <1>1
    <3> HIDE DEF X, step, parents
    <3> QED BY <1>2, <1>4, <3>1 DEF Leads
  <2> HIDE DEF X
  <2> QED BY <2>1
<1>6. ASSUME NEW k \in Nat, k \in S PROVE k + 1 \in S
  <2> SUFFICES ASSUME k + 1 <= parents PROVE Sifted[k + 1] \in X[k + 1]
    OBVIOUS
  <2>1. /\ k + 1 \in 1..parents /\ k + 1 \in 0..parents /\ k + 1 # 0 /\ (k + 1) - 1 = k
        /\ k <= parents /\ k \in 0..parents
    BY <1>1
  <2>2. Sifted[k] \in X[k]
    <3> HIDE DEF X
    <3> QED BY <1>6, <2>1
  <2>3. Sifted[k] \in Seq(E)
    BY <2>1, <2>2
  <2>4. step[<<k + 1, Sifted[k]>>] = H!SiftDown(Sifted[k], parents - (k + 1) + 1)
    BY <2>1, <2>3
  <2> HIDE DEF X, step, parents
  <2>5. Sifted[k + 1] = H!SiftDown(Sifted[k], parents - (k + 1) + 1)
    BY <1>4, <2>1
  <2>6. step[<<k + 1, Sifted[k]>>] \in X[k + 1]
    BY <1>2, <2>1, <2>2 DEF Leads
  <2> QED BY <2>4, <2>5, <2>6
<1>7. Sifted[parents] \in X[parents]
  <2>1. \A k \in Nat : k \in S
    <3> HIDE DEF S
    <3> QED BY <1>5, <1>6, Induction
  <2> HIDE DEF X, parents
  <2> QED BY <1>1, <2>1
<1>8. H!Heapify(h) = Sifted[parents]
  BY DEF H!Heapify, Sifted
<1>9. parents \in 0..parents /\ parents - parents + 1 = 1
  BY <1>1
<1> HIDE DEF parents
<1> QED BY <1>7, <1>8, <1>9

\* Entries that are pushed one after the other make a heap.
LEMMA PushedAllKeeps ==
    ASSUME NEW E, Comparable(E), NEW q \in Seq(E), Distinct(q)
    PROVE  LET r == PushedAll(q) IN
           r \in Seq(E) /\ OrderedFrom(r, 1) /\ Range(r) = Range(q) /\ Distinct(r)
<1> DEFINE n == Len(q)
           step == [p \in (1..n) \X Seq(E) |-> H!Push(p[2], q[p[1]])]
           X == [k \in 0..n |-> {g \in Seq(E) : /\ OrderedFrom(g, 1) /\ Distinct(g)
                                                /\ Range(g) = {q[i] : i \in 1..k}}]
           Pushed == CHOOSE f : f = [i \in 0..n |-> IF i = 0 THEN <<>> ELSE H!Push(f[i - 1], q[i])]
<1>1. n \in Nat /\ DOMAIN q = 1..n /\ \A i \in 1..n : q[i] \in E
  BY LenProperties, ElementOfSeq
<1>2. Leads(X, <<>>, n, step)
  <2>1. <<>> \in X[0]
    <3>1. <<>> \in Seq(E) /\ Len(<<>>) = 0 /\ DOMAIN <<>> = {}
      OBVIOUS
    <3>2. OrderedFrom(<<>>, 1) /\ Distinct(<<>>)
      BY <3>1 DEF OrderedFrom, Distinct
    <3>3. Range(<<>>) = {q[i] : i \in 1..0}
      BY <3>1 DEF Range
    <3>4. 0 \in 0..n
      BY <1>1
    <3> QED BY <3>1, <3>2, <3>3, <3>4
  <2>2. ASSUME NEW i \in 1..n, NEW g \in X[i - 1] PROVE step[<<i, g>>] \in X[i]
    <3> DEFINE s == H!Push(g, q[i])
    <3>1. i - 1 \in 0..n /\ i \in 0..n /\ q[i] \in E
      BY <1>1
    <3>2. g \in Seq(E) /\ OrderedFrom(g, 1) /\ Distinct(g) /\ Range(g) = {q[k] : k \in 1..(i - 1)}
      BY <3>1
    <3>3. step[<<i, g>>] = s
      BY <3>2
    <3> HIDE DEF X, step, Pushed, s
    <3>4. \A e \in Range(g) : e.src # q[i].src
      <4>1. ASSUME NEW k \in 1..(i - 1) PROVE q[k].src # q[i].src
        <5>1. k \in 1..n /\ k # i
          BY <1>1
        <5> QED BY <5>1 DEF Distinct
      <4> QED BY <3>2, <4>1
    <3>5. s \in Seq(E) /\ OrderedFrom(s, 1) /\ Range(s) = Range(g) \cup {q[i]} /\ Distinct(s)
      BY <3>1, <3>2, <3>4, PushKeeps DEF s
    <3>6. Range(s) = {q[k] : k \in 1..i}
      <4>1. \A k \in 1..i : k = i \/ k \in 1..(i - 1)
        BY <1>1
      <4>2. i \in 1..i /\ \A k \in 1..(i - 1) : k \in 1..i
        BY <1>1
      <4> QED BY <3>2, <3>5, <4>1, <4>2
    <3> QED BY <3>1, <3>3, <3>5, <3>6 DEF X
  <2> HIDE DEF X, step
  <2> QED BY <2>1, <2>2 DEF Leads
<1>3. ASSUME NEW i \in 1..n, NEW g \in X[i - 1] PROVE step[<<i, g>>] = H!Push(g, q[i])
  <2>1. i - 1 \in 0..n
    BY <1>1
  <2>2. g \in Seq(E)
    BY <2>1
  <2> QED BY <2>2
<1>4. \E f : f = [i \in 0..n |-> IF i = 0 THEN <<>> ELSE H!Push(f[i - 1], q[i])]
  <2> HIDE DEF X, step, Pushed, n
  <2>1. PICK g : IsSteps(g, <<>>, n, step)
    BY <1>1, StepsExist
  <2>2. \A i \in 0..n : g[i] \in X[i]
    BY <1>1, <1>2, <2>1, StepsKeep
  <2>3. ASSUME NEW i \in 0..n PROVE g[i] = IF i = 0 THEN <<>> ELSE H!Push(g[i - 1], q[i])
    <3>1. CASE i = 0
      BY <2>1, <3>1 DEF IsSteps
    <3>2. CASE i # 0
      <4>1. i \in 1..n /\ i - 1 \in 0..n
        BY <1>1, <3>2
      <4>2. g[i] = step[<<i, g[i - 1]>>]
        BY <2>1, <3>2 DEF IsSteps
      <4> QED BY <1>3, <2>2, <3>2, <4>1, <4>2
    <3> QED BY <3>1, <3>2
  <2>4. g = [i \in 0..n |-> g[i]]
    BY <2>1 DEF IsSteps
  <2>5. g = [i \in 0..n |-> IF i = 0 THEN <<>> ELSE H!Push(g[i - 1], q[i])]
    BY <2>3, <2>4
  <2> QED BY <2>5
<1>5. Pushed = [i \in 0..n |-> IF i = 0 THEN <<>> ELSE H!Push(Pushed[i - 1], q[i])]
  <2> HIDE DEF n
  <2> QED BY <1>4
<1>6. PushedAll(q) = Pushed[n]
  BY DEF PushedAll
<1> HIDE DEF Pushed
<1> DEFINE S == {k \in Nat : k <= n => Pushed[k] \in X[k]}
<1>7. Pushed[n] \in X[n]
  <2> HIDE DEF X, step, n
  <2>1. 0 \in S
    <3>1. Pushed[0] = <<>>
      BY <1>1, <1>5
    <3> QED BY <1>2, <3>1 DEF Leads
  <2>2. ASSUME NEW k \in Nat, k \in S PROVE k + 1 \in S
    <3> SUFFICES ASSUME k + 1 <= n PROVE Pushed[k + 1] \in X[k + 1]
      OBVIOUS
    <3>1. k + 1 \in 1..n /\ k + 1 \in 0..n /\ k + 1 # 0 /\ (k + 1) - 1 = k /\ k <= n
      BY <1>1
    <3>2. Pushed[k] \in X[k]
      BY <2>2, <3>1
    <3>3. Pushed[k + 1] = H!Push(Pushed[k], q[k + 1])
      BY <1>5, <3>1
    <3>4. step[<<k + 1, Pushed[k]>>] = H!Push(Pushed[k], q[k + 1])
      BY <1>3, <3>1, <3>2
    <3>5. step[<<k + 1, Pushed[k]>>] \in X[k + 1]
      BY <1>2, <3>1, <3>2 DEF Leads
    <3> QED BY <3>3, <3>4, <3>5
  <2>3. \A k \in Nat : k \in S
    <3> HIDE DEF S
    <3> QED BY <2>1, <2>2, Induction
  <2> QED BY <1>1, <2>3
<1>8. Range(q) = {q[i] : i \in 1..n}
  BY <1>1 DEF Range
<1>9. n \in 0..n
  BY <1>1
<1> HIDE DEF n
<1> QED BY <1>6, <1>7, <1>8, <1>9

\* Each source that has something to return gives one entry.
LEMMA FilledKeeps ==
    ASSUME NEW E, NEW r, NEW Some, NEW f, Len(sources) \in Nat,
           \A s \in 1..Len(sources) : s \in Some /\ NextOf(r, s, f) # None => Entry(r, s, f) \in E
    PROVE  LET q == Filled(r, Some, f) IN
           /\ q \in Seq(E) /\ Distinct(q)
           /\ \A d : d \in Range(q) <=>
                      \E s \in 1..Len(sources) : s \in Some /\ NextOf(r, s, f) # None /\ d = Entry(r, s, f)
<1> DEFINE n == Len(sources)
           Has(s) == s \in Some /\ NextOf(r, s, f) # None
           Giving(k) == {t \in 1..k : Has(t)}
           Turn(g, i) == IF Has(i) THEN Append(g, Entry(r, i, f)) ELSE g
           step == [p \in (1..n) \X Seq(E) |-> Turn(p[2], p[1])]
           X == [k \in 0..n |-> {g \in Seq(E) : /\ Distinct(g)
                                                /\ Range(g) = {Entry(r, t, f) : t \in Giving(k)}}]
           Fill == CHOOSE h : h = [i \in 0..n |-> IF i = 0 THEN <<>> ELSE Turn(h[i - 1], i)]
<1>1. n \in Nat
  OBVIOUS
<1> HIDE DEF Has
<1>0. \A t \in 1..n : Has(t) => Entry(r, t, f) \in E
  BY DEF Has
<1>2. Leads(X, <<>>, n, step)
  <2>1. <<>> \in X[0]
    <3>1. <<>> \in Seq(E) /\ Len(<<>>) = 0 /\ DOMAIN <<>> = {}
      OBVIOUS
    <3>2. Distinct(<<>>)
      BY <3>1 DEF Distinct
    <3>3. Range(<<>>) = {Entry(r, t, f) : t \in Giving(0)}
      BY <3>1 DEF Range
    <3>4. 0 \in 0..n
      BY <1>1
    <3> HIDE DEF Giving, step, Fill, Turn
    <3> QED BY <3>1, <3>2, <3>3, <3>4
  <2>2. ASSUME NEW i \in 1..n, NEW g \in X[i - 1] PROVE step[<<i, g>>] \in X[i]
    <3> DEFINE s == Turn(g, i)
    <3>1. i - 1 \in 0..n /\ i \in 0..n
      BY <1>1
    <3>2. g \in Seq(E) /\ Distinct(g) /\ Range(g) = {Entry(r, t, f) : t \in Giving(i - 1)}
      BY <3>1
    <3>3. step[<<i, g>>] = s
      <4> HIDE DEF Turn, s
      <4> QED BY <3>2 DEF s
    <3> HIDE DEF X, step, Fill, s, Turn
    <3>4. s \in Seq(E) /\ Distinct(s) /\ Range(s) = {Entry(r, t, f) : t \in Giving(i)}
      <4>1. CASE ~Has(i)
        <5>1. s = g
          BY <4>1 DEF s, Turn
        <5>2. Giving(i) = Giving(i - 1)
          <6>1. \A t \in 1..i : t = i \/ t \in 1..(i - 1)
            BY <1>1
          <6>2. \A t \in 1..(i - 1) : t \in 1..i
            BY <1>1
          <6> QED BY <4>1, <6>1, <6>2
        <5> HIDE DEF Giving
        <5> QED BY <3>2, <5>1, <5>2
      <4>2. CASE Has(i)
        <5> DEFINE x == Entry(r, i, f)
        <5>1. s = Append(g, x) /\ x \in E
          BY <1>0, <4>2 DEF s, Turn
        <5>2. Giving(i) = Giving(i - 1) \cup {i}
          <6>1. \A t \in 1..i : t = i \/ t \in 1..(i - 1)
            BY <1>1
          <6>2. i \in 1..i /\ \A t \in 1..(i - 1) : t \in 1..i
            BY <1>1
          <6> QED BY <4>2, <6>1, <6>2
        <5>3. \A e \in Range(g) : e.src # x.src
          <6>1. \A t \in 1..(i - 1) : t # i
            BY <1>1
          <6> QED BY <3>2, <6>1 DEF Entry
        <5> HIDE DEF x, Giving
        <5>4. Append(g, x) \in Seq(E) /\ Range(Append(g, x)) = Range(g) \cup {x} /\ Distinct(Append(g, x))
          BY <3>2, <5>1, <5>3, AppendDistinct
        <5>5. {Entry(r, t, f) : t \in Giving(i)} = {Entry(r, t, f) : t \in Giving(i - 1)} \cup {x}
          BY <5>2 DEF x
        <5> QED BY <3>2, <5>1, <5>4, <5>5
      <4> QED BY <4>1, <4>2
    <3> HIDE DEF Giving
    <3> QED BY <3>1, <3>3, <3>4 DEF X
  <2> HIDE DEF X, step
  <2> QED BY <2>1, <2>2 DEF Leads
<1>3. ASSUME NEW i \in 1..n, NEW g \in X[i - 1] PROVE step[<<i, g>>] = Turn(g, i)
  <2>1. i - 1 \in 0..n
    BY <1>1
  <2>2. g \in Seq(E)
    <3> HIDE DEF Giving, Turn
    <3> QED BY <2>1
  <2> HIDE DEF X, Turn
  <2> QED BY <2>2
<1>4. \E h : h = [i \in 0..n |-> IF i = 0 THEN <<>> ELSE Turn(h[i - 1], i)]
  <2> HIDE DEF X, step, Fill, n, Turn
  <2>1. PICK g : IsSteps(g, <<>>, n, step)
    BY <1>1, StepsExist
  <2>2. \A i \in 0..n : g[i] \in X[i]
    BY <1>1, <1>2, <2>1, StepsKeep
  <2>3. ASSUME NEW i \in 0..n PROVE g[i] = IF i = 0 THEN <<>> ELSE Turn(g[i - 1], i)
    <3>1. CASE i = 0
      BY <2>1, <3>1 DEF IsSteps
    <3>2. CASE i # 0
      <4>1. i \in 1..n /\ i - 1 \in 0..n
        BY <1>1, <3>2
      <4>2. g[i] = step[<<i, g[i - 1]>>]
        BY <2>1, <3>2 DEF IsSteps
      <4> QED BY <1>3, <2>2, <3>2, <4>1, <4>2
    <3> QED BY <3>1, <3>2
  <2>4. g = [i \in 0..n |-> g[i]]
    BY <2>1 DEF IsSteps
  <2>5. g = [i \in 0..n |-> IF i = 0 THEN <<>> ELSE Turn(g[i - 1], i)]
    BY <2>3, <2>4
  <2> QED BY <2>5
<1>5. Fill = [i \in 0..n |-> IF i = 0 THEN <<>> ELSE Turn(Fill[i - 1], i)]
  <2> HIDE DEF n, Turn
  <2> QED BY <1>4
<1>6. Filled(r, Some, f) = Fill[n]
  BY DEF Filled, Has
<1> HIDE DEF Fill
<1> DEFINE S == {k \in Nat : k <= n => Fill[k] \in X[k]}
<1>7. Fill[n] \in X[n]
  <2> HIDE DEF X, step, n, Turn
  <2>1. 0 \in S
    <3>1. Fill[0] = <<>>
      BY <1>1, <1>5
    <3> QED BY <1>2, <3>1 DEF Leads
  <2>2. ASSUME NEW k \in Nat, k \in S PROVE k + 1 \in S
    <3> SUFFICES ASSUME k + 1 <= n PROVE Fill[k + 1] \in X[k + 1]
      OBVIOUS
    <3>1. k + 1 \in 1..n /\ k + 1 \in 0..n /\ k + 1 # 0 /\ (k + 1) - 1 = k /\ k <= n
      BY <1>1
    <3>2. Fill[k] \in X[k]
      BY <2>2, <3>1
    <3>3. Fill[k + 1] = Turn(Fill[k], k + 1)
      BY <1>5, <3>1
    <3>4. step[<<k + 1, Fill[k]>>] = Turn(Fill[k], k + 1)
      BY <1>3, <3>1, <3>2
    <3>5. step[<<k + 1, Fill[k]>>] \in X[k + 1]
      BY <1>2, <3>1, <3>2 DEF Leads
    <3> QED BY <3>3, <3>4, <3>5
  <2>3. \A k \in Nat : k \in S
    <3> HIDE DEF S
    <3> QED BY <2>1, <2>2, Induction
  <2> QED BY <1>1, <2>3
<1>8. n \in 0..n
  BY <1>1
<1>9. Fill[n] \in Seq(E) /\ Distinct(Fill[n]) /\ Range(Fill[n]) = {Entry(r, t, f) : t \in Giving(n)}
  BY <1>7, <1>8
<1>10. \A d : d \in Range(Fill[n]) <=> \E s \in 1..n : Has(s) /\ d = Entry(r, s, f)
  BY <1>9
<1> QED BY <1>6, <1>9, <1>10 DEF Has

-------------------------------------------------------------------------------
(* The sources *)

LEMMA SourcesAre ==
    ASSUME sources \in Collections
    PROVE  /\ sources \in Seq(SUBSET Keys) /\ Len(sources) \in Nat
           /\ DOMAIN sources = 1..Len(sources) /\ DOMAIN sources \subseteq Int
           /\ \A s \in DOMAIN sources : sources[s] \subseteq Keys /\ sources[s] \subseteq Nat
           /\ Keys \subseteq Nat /\ IsFiniteSet(Keys) /\ 0 \in Keys
<1>1. sources \in Seq(SUBSET Keys) /\ Keys \subseteq Nat /\ IsFiniteSet(Keys) /\ 0 \in Keys
  BY KeysAssumption, CollectionsAssumption
<1>2. Len(sources) \in Nat /\ DOMAIN sources = 1..Len(sources)
  BY <1>1, LenProperties
<1>3. \A s \in 1..Len(sources) : sources[s] \in SUBSET Keys
  BY <1>1, ElementOfSeq
<1>4. DOMAIN sources \subseteq Int
  BY <1>2
<1>5. ASSUME NEW s \in DOMAIN sources PROVE sources[s] \subseteq Keys /\ sources[s] \subseteq Nat
  BY <1>1, <1>2, <1>3
<1> QED BY <1>1, <1>2, <1>4, <1>5

LEMMA AllEntriesAre ==
    \A x : x \in AllEntries <=> \E s \in DOMAIN sources : \E k \in sources[s] : x = <<k, s>>
<1> DEFINE Of(s) == {<<y, s>> : y \in sources[s]}
<1>1. AllEntries = UNION {Of(s) : s \in DOMAIN sources}
  BY DEF AllEntries
<1>2. \A s : \A x : x \in Of(s) <=> \E k \in sources[s] : x = <<k, s>>
  OBVIOUS
<1> HIDE DEF Of
<1> QED BY <1>1, <1>2

\* What an iterator returns next is the first key from f on, and within its bounds.
LEMMA NextIs ==
    ASSUME sources \in Collections, NEW r, NEW s \in DOMAIN sources, NEW f \in Nat
    PROVE  LET x == NextOf(r, s, f) IN
           /\ x \in Keys \cup {None}
           /\ x # None => /\ x \in sources[s] /\ x \in Nat /\ x >= f /\ Accept(r, x)
                          /\ \A y \in sources[s] : y >= f => x <= y
<1> DEFINE T == {y \in sources[s] : y >= f}
<1>1. sources[s] \subseteq Keys /\ sources[s] \subseteq Nat
  BY SourcesAre
<1>2. CASE T = {} \/ ~Accept(r, Min(T))
  BY <1>2 DEF NextOf
<1>3. CASE T # {} /\ Accept(r, Min(T))
  <2>1. Min(T) \in T /\ \A y \in T : Min(T) <= y
    BY <1>1, <1>3, MinIsLeast
  <2>2. NextOf(r, s, f) = Min(T)
    BY <1>3 DEF NextOf
  <2> QED BY <1>1, <1>3, <2>1, <2>2
<1> QED BY <1>2, <1>3

\* It returns something as long as it has a key within its bounds to return.
LEMMA NextExists ==
    ASSUME sources \in Collections, NEW r, r.lo \in Keys, r.hi \in Keys,
           NEW s \in DOMAIN sources, NEW f \in Nat, r.type = "prefix" => r.lo <= f,
           NEW x \in sources[s], x >= f, Accept(r, x)
    PROVE  NextOf(r, s, f) # None
<1> DEFINE T == {y \in sources[s] : y >= f}
<1>1. sources[s] \subseteq Nat /\ Keys \subseteq Nat
  BY SourcesAre
<1>2. x \in T
  OBVIOUS
<1>3. Min(T) \in T /\ \A y \in T : Min(T) <= y
  BY <1>1, <1>2, MinIsLeast
<1>4. Min(T) \in Nat /\ Min(T) >= f /\ Min(T) <= x
  BY <1>1, <1>2, <1>3
<1>5. x <= r.hi /\ x \in Nat /\ r.lo \in Nat /\ r.hi \in Nat
  BY <1>1 DEF Accept
<1>6. Accept(r, Min(T))
  BY <1>4, <1>5 DEF Accept
<1>7. NextOf(r, s, f) = Min(T)
  BY <1>2, <1>6 DEF NextOf
<1> QED BY <1>4, <1>7 DEF None

\* What the entry e and its iterator are still going to return, with r the bounds.
Gives(e, x) == e.src = x[2] /\ e.key # None /\ e.key <= x[1]
Remaining(r, h) ==
    {x \in AllEntries : x[1] # Empty /\ Accept(r, x[1]) /\ \E e \in Range(h) : Gives(e, x)}

LEMMA RestIs ==
    ASSUME sources \in Collections, NEW r, NEW Some \in SUBSET DOMAIN sources, NEW f \in Nat
    PROVE  \A x : x \in Rest(r, Some, f) <=>
               /\ x \in AllEntries /\ x[1] # Empty /\ Accept(r, x[1])
               /\ x[2] \in Some /\ x[1] >= f /\ NextOf(r, x[2], f) # None
<1>1. ASSUME NEW x, x \in Rest(r, Some, f)
      PROVE  /\ x \in AllEntries /\ x[1] # Empty /\ Accept(r, x[1])
             /\ x[2] \in Some /\ x[1] >= f /\ NextOf(r, x[2], f) # None
  <2>1. PICK s \in Some : x \in RestOf(r, s, f)
    BY <1>1 DEF Rest
  <2>2. x[1] # Empty
    BY <1>1 DEF Rest
  <2>3. NextOf(r, s, f) # None
    BY <2>1 DEF RestOf
  <2>4. PICK y \in sources[s] : y >= f /\ Accept(r, y) /\ x = <<y, s>>
    BY <2>1, <2>3 DEF RestOf
  <2> QED BY <2>1, <2>2, <2>3, <2>4, AllEntriesAre
<1>2. ASSUME NEW x, x \in AllEntries, x[1] # Empty, Accept(r, x[1]),
             x[2] \in Some, x[1] >= f, NextOf(r, x[2], f) # None
      PROVE  x \in Rest(r, Some, f)
  <2>1. PICK s \in DOMAIN sources : \E k \in sources[s] : x = <<k, s>>
    BY <1>2, AllEntriesAre
  <2>2. PICK k \in sources[s] : x = <<k, s>>
    BY <2>1
  <2>3. x[1] = k /\ x[2] = s
    BY <2>2
  <2>4. x \in RestOf(r, s, f)
    BY <1>2, <2>2, <2>3 DEF RestOf
  <2> QED BY <1>2, <2>3, <2>4 DEF Rest
<1> QED BY <1>1, <1>2

\* The iterator of the entry e has moved on to f: what lies before it is not returned any
\* more, and the other entries are as they were.
LEMMA MovesOn ==
    ASSUME sources \in Collections, NEW r, r.lo \in Keys, r.hi \in Keys,
           NEW Rem, NEW e, e.src \in DOMAIN sources, e.key \in Nat, Accept(r, e.key),
           \A o \in Rem : o.src # e.src,
           NEW f \in Nat, e.key < f, NEW h, Range(h) = {e} \cup Rem,
           NEW g, Rem \subseteq Range(g), Range(g) \subseteq {Entry(r, e.src, f)} \cup Rem,
           NextOf(r, e.src, f) # None => Entry(r, e.src, f) \in Range(g)
    PROVE  \A x : x \in Remaining(r, g) <=> x \in Remaining(r, h) /\ (x[2] = e.src => x[1] >= f)
<1> DEFINE s == e.src
           n == Entry(r, s, f)
<1>1. n.key = NextOf(r, s, f) /\ n.src = s
  BY DEF Entry
<1>2. s \in DOMAIN sources /\ Keys \subseteq Nat
  BY SourcesAre
<1>3. ASSUME NEW x, x \in Remaining(r, g)
      PROVE  x \in Remaining(r, h) /\ (x[2] = s => x[1] >= f)
  <2>1. PICK d \in Range(g) : Gives(d, x)
    BY <1>3 DEF Remaining
  <2>2. x \in AllEntries /\ x[1] # Empty /\ Accept(r, x[1])
    BY <1>3 DEF Remaining
  <2>3. x[1] \in Nat
    BY <2>2, AllEntriesAre, SourcesAre
  <2>4. CASE d \in Rem
    <3>1. d \in Range(h) /\ d.src # s
      BY <2>4
    <3> QED BY <2>1, <2>2, <3>1 DEF Remaining, Gives
  <2>5. CASE d = n
    <3>1. n.src = x[2] /\ n.key # None /\ n.key <= x[1]
      BY <2>1, <2>5 DEF Gives
    <3>2. x[2] = s /\ n.key \in Nat /\ n.key >= f
      <4> HIDE DEF n, s
      <4> QED BY <1>1, <1>2, <3>1, NextIs
    <3>3. x[1] >= f /\ e.key <= x[1]
      <4> HIDE DEF n, s
      <4> QED BY <2>3, <3>1, <3>2
    <3>4. e \in Range(h) /\ e.key # None
      BY DEF None
    <3>5. Gives(e, x)
      BY <3>2, <3>3, <3>4 DEF Gives
    <3> QED BY <2>2, <3>2, <3>3, <3>4, <3>5 DEF Remaining
  <2> QED BY <2>1, <2>4, <2>5
<1>4. ASSUME NEW x, x \in Remaining(r, h), x[2] = s => x[1] >= f
      PROVE  x \in Remaining(r, g)
  <2>1. PICK d \in Range(h) : Gives(d, x)
    BY <1>4 DEF Remaining
  <2>2. x \in AllEntries /\ x[1] # Empty /\ Accept(r, x[1])
    BY <1>4 DEF Remaining
  <2>3. CASE d \in Rem
    <3>1. d \in Range(g)
      BY <2>3
    <3> QED BY <2>1, <2>2, <3>1 DEF Remaining
  <2>4. CASE d = e
    <3>1. x[2] = s /\ x[1] >= f
      BY <1>4, <2>1, <2>4 DEF Gives
    <3>2. x[1] \in sources[s]
      BY <2>2, <3>1, AllEntriesAre
    <3>3. r.type = "prefix" => r.lo <= f
      <4>1. r.lo \in Nat
        BY <1>2
      <4> QED BY <4>1 DEF Accept
    <3>4. NextOf(r, s, f) # None
      <4> HIDE DEF s
      <4> QED BY <1>2, <2>2, <3>1, <3>2, <3>3, NextExists
    <3>5. NextOf(r, s, f) <= x[1]
      <4> HIDE DEF s
      <4> QED BY <1>2, <3>1, <3>2, <3>4, NextIs
    <3>6. n \in Range(g) /\ Gives(n, x)
      BY <1>1, <3>1, <3>4, <3>5 DEF Gives
    <3> QED BY <2>2, <3>6 DEF Remaining
  <2> QED BY <2>1, <2>3, <2>4
<1> QED BY <1>3, <1>4

\* The root of a heap and the other entries.
LEMMA RootAndOthers ==
    ASSUME NEW E, NEW h \in Seq(E), h # <<>>
    PROVE  /\ h[1] \in E /\ Len(h) \in Nat /\ 1 \in 1..Len(h)
           /\ Range(h) = {h[1]} \cup Others(h)
           /\ Others(h) \subseteq E
           /\ Distinct(h) => \A d \in Others(h) : d.src # h[1].src
<1> DEFINE n == Len(h)
<1>1. n \in Nat /\ DOMAIN h = 1..n /\ n # 0 /\ \A k \in 1..n : h[k] \in E
  BY LenProperties, ElementOfSeq, EmptySeq
<1> HIDE DEF n
<1>2. 1..n = {1} \cup 2..n /\ 1 \in 1..n
  BY <1>1
<1>3. Range(h) = {h[k] : k \in 1..n}
  BY <1>1 DEF Range
<1>4. Range(h) = {h[1]} \cup {h[k] : k \in 2..n}
  BY <1>2, <1>3
<1>5. ASSUME Distinct(h), NEW k \in 2..n PROVE h[k].src # h[1].src
  <2>1. k \in 1..n /\ k # 1
    BY <1>1
  <2> QED BY <1>2, <1>5, <2>1 DEF Distinct, n
<1> QED BY <1>1, <1>2, <1>4, <1>5 DEF n, Others

\* The root of a heap is the least entry.
LEMMA RootIsLeast ==
    ASSUME NEW E, Comparable(E), NEW h \in Seq(E), OrderedFrom(h, 1)
    PROVE  \A i \in 1..Len(h) : EntryLeq(h[1], h[i])
<1> DEFINE n == Len(h)
           S == {k \in Nat : \A i \in 1..n : i <= k => EntryLeq(h[1], h[i])}
<1>1. n \in Nat /\ \A k \in 1..n : h[k] \in E
  BY LenProperties, ElementOfSeq
<1>2. 0 \in S
  OBVIOUS
<1>3. ASSUME NEW k \in Nat, k \in S PROVE k + 1 \in S
  <2>1. ASSUME NEW i \in 1..n, i <= k + 1 PROVE EntryLeq(h[1], h[i])
    <3>1. CASE i <= k
      BY <1>3, <3>1
    <3>2. CASE i = 1
      <4>1. h[1] \in E
        BY <1>1, <3>2
      <4> QED BY <3>2, <4>1, LeqTotal
    <3>3. CASE ~(i <= k) /\ i # 1
      <4>1. i \div 2 \in Nat /\ 1 <= i \div 2 /\ i \div 2 < i
        BY <3>3, Halves
      <4> DEFINE p == i \div 2
      <4>2. EntryLeq(h[p], h[i])
        <5>1. i \in 2..Len(h) /\ p >= 1
          BY <3>3, <4>1
        <5> QED BY <5>1 DEF OrderedFrom
      <4> HIDE DEF p
      <4>3. p \in 1..n /\ p <= k
        BY <2>1, <3>3, <4>1, <1>1 DEF p
      <4>4. EntryLeq(h[1], h[p])
        BY <1>3, <4>3
      <4>5. h[1] \in E /\ h[p] \in E /\ h[i] \in E
        <5>1. 1 \in 1..n
          BY <1>1
        <5> QED BY <1>1, <4>3, <5>1
      <4> QED BY <4>2, <4>4, <4>5, LeqTransitive
    <3> HIDE DEF S, n
    <3> QED BY <3>1, <3>2, <3>3
  <2> QED BY <2>1
<1>4. \A k \in Nat : k \in S
  <2> HIDE DEF S
  <2> QED BY <1>2, <1>3, Induction
<1>5. n \in S
  BY <1>1, <1>4
<1> QED BY <1>1, <1>5

-------------------------------------------------------------------------------
(* The loops end: a turn leaves fewer keys ahead of the entries. *)

\* The keys that the entries of a heap may still reach; an entry that is finished
\* still has that to be dropped.
Ahead(h) ==
    {p \in (Keys \cup {None}) \X DOMAIN sources :
        \E e \in Range(h) : e.src = p[2] /\ (p[1] = None \/ (e.key # None /\ e.key <= p[1]))}

LEMMA HeapsAre ==
    ASSUME sources \in Collections, NEW h, h \in Heaps(Keys \cup {None})
    PROVE  h \in Seq(Entries) /\ Distinct(h) /\ Comparable(Entries)
BY SourcesAre DEF Heaps, Entries, Comparable, None

LEMMA AheadFinite ==
    ASSUME sources \in Collections, NEW h
    PROVE  IsFiniteSet(Ahead(h)) /\ Cardinality(Ahead(h)) \in Nat
<1>1. IsFiniteSet(Keys \cup {None})
  BY SourcesAre, FS_AddElement
<1>2. IsFiniteSet(DOMAIN sources)
  BY SourcesAre, FS_Interval
<1>3. IsFiniteSet((Keys \cup {None}) \X DOMAIN sources)
  BY <1>1, <1>2, FS_Product
<1>4. Ahead(h) \in SUBSET ((Keys \cup {None}) \X DOMAIN sources)
  BY DEF Ahead
<1>5. IsFiniteSet(Ahead(h))
  BY <1>3, <1>4, FS_Subset
<1> QED BY <1>5, FS_CardinalityType

\* The root moves on, or is dropped, and nothing else changes.
LEMMA AheadShrinks ==
    ASSUME sources \in Collections, NEW h \in Heaps(Keys \cup {None}), h # <<>>,
           NEW g, \A d \in Range(g) :
                      \/ d \in Others(h)
                      \/ /\ d.src = h[1].src /\ h[1].key # None /\ d.key \in Int
                         /\ (d.key = None \/ d.key > h[1].key)
    PROVE  Cardinality(Ahead(g)) < Cardinality(Ahead(h))
<1> DEFINE root == h[1]
<1>1. /\ root \in Entries /\ Range(h) = {root} \cup Others(h) /\ Others(h) \subseteq Entries
      /\ \A d \in Others(h) : d.src # root.src
  BY HeapsAre, RootAndOthers
<1>2. \A d \in Range(g) : \/ d \in Others(h)
                          \/ /\ d.src = root.src /\ root.key # None /\ d.key \in Int
                             /\ (d.key = None \/ d.key > root.key)
  OBVIOUS
<1> HIDE DEF root
<1>3. root.key \in Keys \cup {None} /\ root.src \in DOMAIN sources /\ root.key \in Int
  BY <1>1, SourcesAre DEF Entries, None
<1>4. Ahead(g) \in SUBSET Ahead(h)
  <2> SUFFICES ASSUME NEW p \in Ahead(g) PROVE p \in Ahead(h)
    OBVIOUS
  <2>1. p \in (Keys \cup {None}) \X DOMAIN sources
    BY DEF Ahead
  <2>2. PICK d \in Range(g) : d.src = p[2] /\ (p[1] = None \/ (d.key # None /\ d.key <= p[1]))
    BY DEF Ahead
  <2>3. CASE d \in Others(h)
    BY <1>1, <2>1, <2>2, <2>3 DEF Ahead
  <2>4. CASE d \notin Others(h)
    <3>1. d.src = root.src /\ root.key # None /\ d.key \in Int /\ (d.key = None \/ d.key > root.key)
      BY <1>2, <2>4
    <3>2. p[1] \in Int
      BY SourcesAre, <2>1 DEF None
    <3>3. p[1] = None \/ root.key <= p[1]
      BY <1>3, <2>2, <3>1, <3>2
    <3>4. root \in Range(h) /\ root.src = p[2]
      BY <1>1, <2>2, <3>1
    <3> QED BY <2>1, <3>1, <3>3, <3>4 DEF Ahead
  <2> QED BY <2>3, <2>4
<1>5. <<root.key, root.src>> \in Ahead(h)
  <2>1. root \in Range(h) /\ (root.key = None \/ (root.key # None /\ root.key <= root.key))
    BY <1>1, <1>3
  <2> QED BY <1>3, <2>1 DEF Ahead
<1>6. <<root.key, root.src>> \notin Ahead(g)
  <2> SUFFICES ASSUME NEW d \in Range(g), d.src = root.src,
                      root.key = None \/ (d.key # None /\ d.key <= root.key)
               PROVE  FALSE
    BY DEF Ahead
  <2>1. d \notin Others(h)
    BY <1>1
  <2>2. root.key # None /\ d.key \in Int /\ (d.key = None \/ d.key > root.key)
    BY <1>2, <2>1
  <2> QED BY <1>3, <2>2
<1>7. /\ Cardinality(Ahead(g)) <= Cardinality(Ahead(h))
      /\ Cardinality(Ahead(h)) # Cardinality(Ahead(g))
  BY <1>4, <1>5, <1>6, AheadFinite, FS_Subset
<1> QED BY <1>7, AheadFinite

\* A turn of the loop of merger_iter_next().
Turned(m) == IF Exhausted(m) THEN [m EXCEPT !.heap = H!Pop(@)] ELSE Refill(Taken(m))

LEMMA TurnedKeeps ==
    ASSUME sources \in Collections, NEW m \in States(Keys \cup {None}), m.heap # <<>>
    PROVE  LET t == Turned(m)
               e == m.heap[1]
               n == Entry(asked, e.src, e.key + 1) IN
           /\ t \in States(Keys \cup {None})
           /\ t.finished = m.finished /\ t.failed = m.failed
           /\ e.key = None =>
                /\ t.cur = m.cur /\ t.val = m.val /\ t.pending = m.pending
                /\ Range(t.heap) = Others(m.heap)
                /\ OrderedFrom(m.heap, 2) => OrderedFrom(t.heap, 1)
           /\ e.key # None =>
                /\ t.cur = e.key /\ t.pending
                /\ t.val = IF m.cur = Empty THEN <<e.src>> ELSE Append(m.val, e.src)
                /\ Range(t.heap) = {n} \cup Others(m.heap)
                /\ n.key = None => /\ t.heap[1] = n
                                   /\ OrderedFrom(m.heap, 2) => OrderedFrom(t.heap, 2)
                                   /\ \A k \in 2..Len(t.heap) : t.heap[k] \in Others(m.heap)
                /\ n.key # None => (OrderedFrom(m.heap, 2) => OrderedFrom(t.heap, 1))
<1> DEFINE t == Turned(m)
           e == m.heap[1]
           n == Entry(asked, e.src, e.key + 1)
           K == Keys \cup {None}
<1>1. /\ m.heap \in Heaps(K) /\ m.cur \in Keys /\ m.val \in Seq(DOMAIN sources)
      /\ m.finished \in BOOLEAN /\ m.pending \in BOOLEAN /\ m.failed \in BOOLEAN
      /\ m = [heap |-> m.heap, cur |-> m.cur, val |-> m.val, finished |-> m.finished,
              pending |-> m.pending, failed |-> m.failed]
  BY DEF States
<1>2. m.heap \in Seq(Entries) /\ Distinct(m.heap) /\ Comparable(Entries)
  BY <1>1, HeapsAre
<1>3. e \in Entries /\ Range(m.heap) = {e} \cup Others(m.heap)
  BY <1>2, RootAndOthers
<1>4. CASE e.key = None
  <2> DEFINE g == H!Pop(m.heap)
  <2>1. /\ g \in Seq(Entries) /\ (OrderedFrom(m.heap, 2) => OrderedFrom(g, 1))
        /\ Range(g) = Others(m.heap) /\ Distinct(g)
    BY <1>2, PopKeeps
  <2>2. t = [m EXCEPT !.heap = g]
    BY <1>4 DEF Turned, Exhausted
  <2>3. g \in Heaps(K)
    BY <2>1 DEF Heaps, Entries
  <2> HIDE DEF g
  <2>4. t \in States(K)
    BY <1>1, <2>2, <2>3 DEF States
  <2>5. /\ t.heap = g /\ t.cur = m.cur /\ t.val = m.val /\ t.pending = m.pending
        /\ t.finished = m.finished /\ t.failed = m.failed
    BY <1>1, <2>2
  <2> HIDE DEF t, K
  <2> QED BY <1>4, <2>1, <2>4, <2>5 DEF t, K
<1>5. CASE e.key # None
  <2> DEFINE v == IF m.cur = Empty THEN <<e.src>> ELSE Append(m.val, e.src)
             g == IF n.key = None THEN [m.heap EXCEPT ![1] = n] ELSE H!Replace(m.heap, n)
  <2>1. e.key \in Keys /\ e.key + 1 \in Nat /\ e.src \in DOMAIN sources
    BY <1>3, <1>5, SourcesAre DEF Entries
  <2>2. n \in Entries /\ n.src = e.src
    <3> HIDE DEF e
    <3> QED BY <2>1, NextIs DEF Entry, Entries
  <2> HIDE DEF n
  <2>3. /\ Taken(m) = [m EXCEPT !.cur = e.key, !.pending = TRUE, !.val = v]
    BY DEF Taken
  <2>4. t = [m EXCEPT !.heap = g, !.cur = e.key, !.pending = TRUE, !.val = v]
    <3>1. t = Refill(Taken(m))
      BY <1>5 DEF Turned, Exhausted
    <3>2. Taken(m).heap = m.heap
      BY <1>1, <2>3
    <3>3. t = [Taken(m) EXCEPT !.heap = g]
      BY <3>1, <3>2 DEF Refill, n
    <3> HIDE DEF g, v, t, e
    <3> QED BY <1>1, <2>3, <3>3
  <2>5. v \in Seq(DOMAIN sources)
    <3>1. <<e.src>> \in Seq(DOMAIN sources)
      BY <2>1
    <3>2. Append(m.val, e.src) \in Seq(DOMAIN sources)
      BY <1>1, <2>1, AppendProperties
    <3> QED BY <3>1, <3>2
  <2>6. CASE n.key = None
    <3>1. /\ g = [m.heap EXCEPT ![1] = n] /\ g \in Seq(Entries) /\ Len(g) = Len(m.heap) /\ g[1] = n
          /\ \A k \in 2..Len(m.heap) : g[k] = m.heap[k]
          /\ Range(g) = {n} \cup Others(m.heap) /\ Distinct(g)
          /\ OrderedFrom(m.heap, 2) => OrderedFrom(g, 2)
      BY <1>2, <2>2, <2>6, RefillKeeps
    <3> HIDE DEF g
    <3>2. \A k \in 2..Len(g) : g[k] \in Others(m.heap)
      BY <3>1 DEF Others
    <3>3. g \in Heaps(K)
      BY <3>1 DEF Heaps, Entries
    <3> HIDE DEF v, e, K
    <3>4. t \in States(K)
      BY <1>1, <2>1, <2>4, <2>5, <3>3 DEF States
    <3>5. /\ t.heap = g /\ t.cur = e.key /\ t.val = v /\ t.pending
          /\ t.finished = m.finished /\ t.failed = m.failed
      BY <1>1, <2>4
    <3> HIDE DEF t
    <3> QED BY <1>5, <2>6, <3>1, <3>2, <3>4, <3>5 DEF t, n, e, v, K
  <2>7. CASE n.key # None
    <3>0. g = H!Replace(m.heap, n)
      BY <2>7
    <3> HIDE DEF g
    <3>1. /\ g \in Seq(Entries)
          /\ (OrderedFrom(m.heap, 2) => OrderedFrom(g, 1))
          /\ Range(g) = {n} \cup Others(m.heap) /\ Distinct(g)
      <4> HIDE DEF v
      <4>1. /\ H!Replace(m.heap, n) \in Seq(Entries)
            /\ (OrderedFrom(m.heap, 2) => OrderedFrom(H!Replace(m.heap, n), 1))
        BY <1>2, <2>2, ReplaceKeeps
      <4>2. Range(H!Replace(m.heap, n)) = {n} \cup Others(m.heap)
        BY <1>2, <2>2, <3>0, ReplaceKeeps
      <4>3. Distinct(H!Replace(m.heap, n))
        BY <1>2, <2>2, ReplaceKeeps
      <4> QED BY <3>0, <4>1, <4>2, <4>3
    <3>3. g \in Heaps(K)
      BY <3>1 DEF Heaps, Entries
    <3> HIDE DEF v, e, K
    <3>4. t \in States(K)
      BY <1>1, <2>1, <2>4, <2>5, <3>3 DEF States
    <3>5. /\ t.heap = g /\ t.cur = e.key /\ t.val = v /\ t.pending
          /\ t.finished = m.finished /\ t.failed = m.failed
      BY <1>1, <2>4
    <3> HIDE DEF t
    <3> QED BY <1>5, <2>7, <3>1, <3>4, <3>5 DEF t, n, e, v, K
  <2> QED BY <2>6, <2>7
<1> QED BY <1>4, <1>5

\* Where the loop of merger_iter_next() stops, and what it leaves.
Stops(m, fail) == Complete(m) \/ MergeFails(m, fail)
Outcome(m) ==
    IF Complete(m) THEN [m EXCEPT !.finished = (m.heap = <<>>)] ELSE [m EXCEPT !.failed = TRUE]

LEMMA CollectedKeeps ==
    ASSUME sources \in Collections, NEW fail, NEW P \in SUBSET States(Keys \cup {None}), NEW n \in P,
           \A m \in P : ~Stops(m, fail) => Turned(m) \in P
    PROVE  \E m \in P : Stops(m, fail) /\ Collected(n, fail) = Outcome(m)
<1> DEFINE X == States(Keys \cup {None})
           Y == {Outcome(m) : m \in X}
           Stop == {m \in X : Stops(m, fail)}
           turn == [m \in X |-> IF m \in Stop THEN m ELSE Turned(m)]
           size == [m \in X |-> Cardinality(Ahead(m.heap))]
           res == [m \in X |-> Outcome(m)]
           Collect == CHOOSE f : f = [m \in X |->
                         IF Complete(m) THEN [m EXCEPT !.finished = (m.heap = <<>>)]
                         ELSE IF MergeFails(m, fail) THEN [m EXCEPT !.failed = TRUE]
                         ELSE f[IF Exhausted(m) THEN [m EXCEPT !.heap = H!Pop(@)] ELSE Refill(Taken(m))]]
<1>1. ASSUME NEW m \in X, m \notin Stop
      PROVE  Turned(m) \in X /\ Cardinality(Ahead(Turned(m).heap)) < Cardinality(Ahead(m.heap))
  <2> DEFINE t == Turned(m)
             e == m.heap[1]
             d == Entry(asked, e.src, e.key + 1)
  <2>1. m.heap # <<>>
    BY <1>1 DEF Stops, Complete
  <2>2. m.heap \in Heaps(Keys \cup {None})
    BY DEF States
  <2>3. t \in X
    BY <2>1, TurnedKeeps
  <2>4. /\ e.key = None => Range(t.heap) = Others(m.heap)
        /\ e.key # None => Range(t.heap) = {d} \cup Others(m.heap)
    BY <2>1, TurnedKeeps
  <2>5. e.key \in Keys \cup {None} /\ e.src \in DOMAIN sources
    <3>1. e \in Entries
      BY <2>1, <2>2, HeapsAre, RootAndOthers
    <3> QED BY <3>1 DEF Entries
  <2>6. ASSUME e.key # None PROVE d.src = e.src /\ d.key \in Int /\ (d.key = None \/ d.key > e.key)
    <3>1. e.key \in Nat /\ e.key + 1 \in Nat
      BY <2>5, <2>6, SourcesAre
    <3>2. d.src = e.src /\ d.key = NextOf(asked, e.src, e.key + 1)
      BY DEF Entry
    <3> HIDE DEF e, d
    <3>3. d.key = None \/ (d.key \in Nat /\ d.key >= e.key + 1)
      BY <2>5, <3>1, <3>2, NextIs
    <3> QED BY <3>1, <3>2, <3>3 DEF None
  <2> HIDE DEF t, d, X
  <2> QED BY <2>1, <2>2, <2>3, <2>4, <2>6, AheadShrinks DEF t
<1>2. Shrinks(X, Stop, turn, size)
  <2> HIDE DEF X, Stop
  <2>1. \A m \in X : turn[m] \in X
    BY <1>1
  <2>2. turn \in [X -> X]
    BY <2>1
  <2>3. \A m \in X : Cardinality(Ahead(m.heap)) \in Nat
    BY AheadFinite
  <2>4. size \in [X -> Nat]
    BY <2>3
  <2>5. ASSUME NEW m \in X, m \notin Stop PROVE size[turn[m]] < size[m]
    <3>1. turn[m] = Turned(m) /\ Turned(m) \in X
      BY <1>1, <2>5
    <3> HIDE DEF turn
    <3>2. size[turn[m]] = Cardinality(Ahead(Turned(m).heap)) /\ size[m] = Cardinality(Ahead(m.heap))
      BY <3>1
    <3> HIDE DEF size
    <3> QED BY <1>1, <2>5, <3>2
  <2> HIDE DEF turn, size
  <2> QED BY <2>2, <2>4, <2>5 DEF Shrinks
<1>3. res \in [X -> Y]
  OBVIOUS
<1>4. ASSUME NEW f, NEW m \in X
      PROVE  (IF m \in Stop THEN res[m] ELSE f[turn[m]]) =
             IF Complete(m) THEN [m EXCEPT !.finished = (m.heap = <<>>)]
             ELSE IF MergeFails(m, fail) THEN [m EXCEPT !.failed = TRUE]
             ELSE f[IF Exhausted(m) THEN [m EXCEPT !.heap = H!Pop(@)] ELSE Refill(Taken(m))]
  <2>1. m \in Stop <=> Complete(m) \/ MergeFails(m, fail)
    BY DEF Stops
  <2>2. res[m] = Outcome(m) /\ (m \notin Stop => turn[m] = Turned(m))
    OBVIOUS
  <2>3. Turned(m) = IF Exhausted(m) THEN [m EXCEPT !.heap = H!Pop(@)] ELSE Refill(Taken(m))
    BY DEF Turned
  <2> HIDE DEF Stop, res, turn, X
  <2> QED BY <2>1, <2>2, <2>3 DEF Outcome
<1> HIDE DEF X, Stop, turn, res, size, Y
<1>5. \E f : f = [m \in X |->
                         IF Complete(m) THEN [m EXCEPT !.finished = (m.heap = <<>>)]
                         ELSE IF MergeFails(m, fail) THEN [m EXCEPT !.failed = TRUE]
                         ELSE f[IF Exhausted(m) THEN [m EXCEPT !.heap = H!Pop(@)] ELSE Refill(Taken(m))]]
  <2>1. PICK f \in [X -> Y] : IsLoop(f, X, Stop, turn, res)
    BY <1>2, <1>3, LoopExists
  <2>2. ASSUME NEW m \in X
        PROVE  f[m] = IF Complete(m) THEN [m EXCEPT !.finished = (m.heap = <<>>)]
                      ELSE IF MergeFails(m, fail) THEN [m EXCEPT !.failed = TRUE]
                      ELSE f[IF Exhausted(m) THEN [m EXCEPT !.heap = H!Pop(@)] ELSE Refill(Taken(m))]
    <3>1. f[m] = IF m \in Stop THEN res[m] ELSE f[turn[m]]
      BY <2>1 DEF IsLoop
    <3> QED BY <1>4, <3>1
  <2>3. f = [m \in X |-> f[m]]
    BY <2>1
  <2> QED BY <2>2, <2>3
<1>6. Collect = [m \in X |->
                         IF Complete(m) THEN [m EXCEPT !.finished = (m.heap = <<>>)]
                         ELSE IF MergeFails(m, fail) THEN [m EXCEPT !.failed = TRUE]
                         ELSE Collect[IF Exhausted(m) THEN [m EXCEPT !.heap = H!Pop(@)]
                                      ELSE Refill(Taken(m))]]
  BY <1>5
<1>7. Collected(n, fail) = Collect[n]
  BY DEF Collected, X
<1> HIDE DEF Collect
<1>8. IsLoop(Collect, X, Stop, turn, res)
  <2>1. ASSUME NEW m \in X PROVE Collect[m] = IF m \in Stop THEN res[m] ELSE Collect[turn[m]]
    BY <1>4, <1>6
  <2> QED BY <2>1 DEF IsLoop
<1>9. P \in SUBSET X /\ \A m \in P : m \notin Stop => turn[m] \in P
  BY DEF X, Stop, turn
<1>10. PICK m \in P : m \in Stop /\ Collect[n] = res[m]
  BY <1>2, <1>8, <1>9, LoopKeeps
<1>11. Stops(m, fail) /\ res[m] = Outcome(m)
  BY <1>9, <1>10 DEF Stop, res
<1> QED BY <1>7, <1>10, <1>11

LEMMA UnfinishedAre ==
    ASSUME sources \in Collections, NEW h, h \in Heaps(Keys)
    PROVE  /\ h \in Seq([key : Keys, src : DOMAIN sources]) /\ Distinct(h)
           /\ Comparable([key : Keys, src : DOMAIN sources])
           /\ h \in Heaps(Keys \cup {None})
<1>1. h \in Seq([key : Keys, src : DOMAIN sources]) /\ Distinct(h)
  BY DEF Heaps
<1>2. Comparable([key : Keys, src : DOMAIN sources])
  BY SourcesAre DEF Comparable
<1>3. h \in Heaps(Keys \cup {None})
  <2>1. \A i \in 1..Len(h) : h[i] \in [key : Keys, src : DOMAIN sources]
    BY <1>1, ElementOfSeq
  <2>2. \A i \in 1..Len(h) : h[i] \in [key : Keys \cup {None}, src : DOMAIN sources]
    BY <2>1
  <2> DEFINE F == [key : Keys \cup {None}, src : DOMAIN sources]
  <2>3. h = [i \in 1..Len(h) |-> h[i]] /\ Len(h) \in Nat
    BY <1>1
  <2> HIDE DEF F
  <2>4. h \in Seq(F)
    <3>1. h \in [1..Len(h) -> F]
      BY <2>2, <2>3 DEF F
    <3> QED BY <2>3, <3>1
  <2> QED BY <1>1, <2>4 DEF Heaps, F
<1> QED BY <1>1, <1>2, <1>3

\* A turn of the loop of merger_iter_seek().
LEMMA MovedKeeps ==
    ASSUME sources \in Collections, NEW k \in Keys, NEW m \in States(Keys), ~Reached(m, k)
    PROVE  LET t == Moved(m, k)
               e == m.heap[1]
               n == Entry(asked, e.src, k) IN
           /\ t \in States(Keys) /\ t.cur = k /\ t.val = <<>>
           /\ t.finished = m.finished /\ t.failed = m.failed /\ t.pending = m.pending
           /\ OrderedFrom(m.heap, 2) => OrderedFrom(t.heap, 1)
           /\ Range(t.heap) = IF n.key = None THEN Others(m.heap) ELSE {n} \cup Others(m.heap)
<1> DEFINE t == Moved(m, k)
           e == m.heap[1]
           n == Entry(asked, e.src, k)
           E == [key : Keys, src : DOMAIN sources]
           g == IF n.key = None THEN H!Pop(m.heap) ELSE H!Replace(m.heap, n)
<1>1. /\ m.heap \in Heaps(Keys) /\ m.cur \in Keys /\ m.val \in Seq(DOMAIN sources)
      /\ m.finished \in BOOLEAN /\ m.pending \in BOOLEAN /\ m.failed \in BOOLEAN
      /\ m = [heap |-> m.heap, cur |-> m.cur, val |-> m.val, finished |-> m.finished,
              pending |-> m.pending, failed |-> m.failed]
  BY DEF States
<1>2. m.heap \in Seq(E) /\ Distinct(m.heap) /\ Comparable(E) /\ m.heap # <<>>
  BY <1>1, UnfinishedAre DEF Reached
<1>3. e \in E
  BY <1>2, RootAndOthers
<1>4. n.src = e.src /\ n.key \in Keys \cup {None} /\ e.src \in DOMAIN sources
  <2>1. k \in Nat /\ e.src \in DOMAIN sources
    BY <1>3, SourcesAre
  <2> HIDE DEF e
  <2> QED BY <2>1, NextIs DEF Entry
<1>5. t = [m EXCEPT !.heap = g, !.cur = k, !.val = <<>>]
  BY <1>1 DEF Moved
<1> HIDE DEF n, E, e
<1>6. /\ g \in Seq(E) /\ (OrderedFrom(m.heap, 2) => OrderedFrom(g, 1)) /\ Distinct(g)
      /\ Range(g) = IF n.key = None THEN Others(m.heap) ELSE {n} \cup Others(m.heap)
  <2>1. CASE n.key = None
    BY <1>2, <2>1, PopKeeps
  <2>2. CASE n.key # None
    <3>1. n \in E /\ n.src = m.heap[1].src
      BY <1>4, <2>2 DEF E, n, Entry, e
    <3>2. g = H!Replace(m.heap, n)
      BY <2>2
    <3> HIDE DEF g
    <3>3. g \in Seq(E) /\ (OrderedFrom(m.heap, 2) => OrderedFrom(g, 1)) /\ Distinct(g)
      BY <1>2, <3>1, <3>2, ReplaceKeeps
    <3>4. Range(g) = {n} \cup Others(m.heap)
      BY <1>2, <3>1, <3>2, ReplaceKeeps
    <3> QED BY <2>2, <3>3, <3>4
  <2> QED BY <2>1, <2>2
<1> HIDE DEF g
<1>7. g \in Heaps(Keys)
  BY <1>6 DEF Heaps, E
<1>8. t \in States(Keys)
  <2>1. <<>> \in Seq(DOMAIN sources)
    OBVIOUS
  <2> QED BY <1>1, <1>5, <1>7, <2>1 DEF States
<1>9. /\ t.heap = g /\ t.cur = k /\ t.val = <<>>
      /\ t.finished = m.finished /\ t.failed = m.failed /\ t.pending = m.pending
  BY <1>1, <1>5
<1> HIDE DEF t
<1> QED BY <1>6, <1>8, <1>9 DEF t, n, e

LEMMA ForwardedKeeps ==
    ASSUME sources \in Collections, NEW k \in Keys, NEW P \in SUBSET States(Keys), NEW n \in P,
           \A m \in P : ~Reached(m, k) => Moved(m, k) \in P
    PROVE  \E m \in P : Reached(m, k) /\ Forwarded(n, k) = [m EXCEPT !.finished = (m.heap = <<>>)]
<1> DEFINE X == States(Keys)
           Y == {[m EXCEPT !.finished = (m.heap = <<>>)] : m \in X}
           Stop == {m \in X : Reached(m, k)}
           turn == [m \in X |-> IF m \in Stop THEN m ELSE Moved(m, k)]
           size == [m \in X |-> Cardinality(Ahead(m.heap))]
           res == [m \in X |-> [m EXCEPT !.finished = (m.heap = <<>>)]]
           Forward == CHOOSE f : f = [m \in X |->
                         IF Reached(m, k) THEN [m EXCEPT !.finished = (m.heap = <<>>)]
                         ELSE f[Moved(m, k)]]
<1>1. ASSUME NEW m \in X, m \notin Stop
      PROVE  Moved(m, k) \in X /\ Cardinality(Ahead(Moved(m, k).heap)) < Cardinality(Ahead(m.heap))
  <2> DEFINE t == Moved(m, k)
             e == m.heap[1]
             d == Entry(asked, e.src, k)
  <2>1. ~Reached(m, k) /\ m.heap # <<>> /\ ~(k <= e.key)
    BY <1>1 DEF Reached
  <2>2. m.heap \in Heaps(Keys)
    BY DEF States
  <2>3. t \in X
    BY <2>1, MovedKeeps
  <2>4. Range(t.heap) = IF d.key = None THEN Others(m.heap) ELSE {d} \cup Others(m.heap)
    BY <2>1, MovedKeeps
  <2>5. e.key \in Keys /\ e.src \in DOMAIN sources
    <3>1. e \in [key : Keys, src : DOMAIN sources]
      BY <2>1, <2>2, UnfinishedAre, RootAndOthers
    <3> QED BY <3>1
  <2>6. e.key # None /\ d.src = e.src /\ d.key \in Int /\ (d.key = None \/ d.key > e.key)
    <3>1. e.key \in Nat /\ k \in Nat /\ e.key < k
      BY <2>1, <2>5, SourcesAre
    <3>2. d.src = e.src /\ d.key = NextOf(asked, e.src, k)
      BY DEF Entry
    <3> HIDE DEF e, d
    <3>3. d.key = None \/ (d.key \in Nat /\ d.key >= k)
      BY <2>5, <3>1, <3>2, NextIs
    <3> QED BY <3>1, <3>2, <3>3 DEF None
  <2>7. m.heap \in Heaps(Keys \cup {None})
    BY <2>2, UnfinishedAre
  <2> HIDE DEF t, d, X
  <2> QED BY <2>1, <2>3, <2>4, <2>6, <2>7, AheadShrinks DEF t
<1>2. Shrinks(X, Stop, turn, size)
  <2> HIDE DEF X, Stop
  <2>1. \A m \in X : turn[m] \in X
    BY <1>1
  <2>2. turn \in [X -> X]
    BY <2>1
  <2>3. \A m \in X : Cardinality(Ahead(m.heap)) \in Nat
    BY AheadFinite
  <2>4. size \in [X -> Nat]
    BY <2>3
  <2>5. ASSUME NEW m \in X, m \notin Stop PROVE size[turn[m]] < size[m]
    <3>1. turn[m] = Moved(m, k) /\ Moved(m, k) \in X
      BY <1>1, <2>5
    <3> HIDE DEF turn
    <3>2. size[turn[m]] = Cardinality(Ahead(Moved(m, k).heap)) /\ size[m] = Cardinality(Ahead(m.heap))
      BY <3>1
    <3> HIDE DEF size
    <3> QED BY <1>1, <2>5, <3>2
  <2> HIDE DEF turn, size
  <2> QED BY <2>2, <2>4, <2>5 DEF Shrinks
<1>3. res \in [X -> Y]
  OBVIOUS
<1>4. ASSUME NEW f, NEW m \in X
      PROVE  (IF m \in Stop THEN res[m] ELSE f[turn[m]]) =
             IF Reached(m, k) THEN [m EXCEPT !.finished = (m.heap = <<>>)] ELSE f[Moved(m, k)]
  <2>1. m \in Stop <=> Reached(m, k)
    OBVIOUS
  <2>2. res[m] = [m EXCEPT !.finished = (m.heap = <<>>)] /\ (m \notin Stop => turn[m] = Moved(m, k))
    OBVIOUS
  <2> HIDE DEF Stop, res, turn, X
  <2> QED BY <2>1, <2>2
<1> HIDE DEF X, Stop, turn, res, size, Y
<1>5. \E f : f = [m \in X |-> IF Reached(m, k) THEN [m EXCEPT !.finished = (m.heap = <<>>)]
                              ELSE f[Moved(m, k)]]
  <2>1. PICK f \in [X -> Y] : IsLoop(f, X, Stop, turn, res)
    BY <1>2, <1>3, LoopExists
  <2>2. ASSUME NEW m \in X
        PROVE  f[m] = IF Reached(m, k) THEN [m EXCEPT !.finished = (m.heap = <<>>)] ELSE f[Moved(m, k)]
    <3>1. f[m] = IF m \in Stop THEN res[m] ELSE f[turn[m]]
      BY <2>1 DEF IsLoop
    <3> QED BY <1>4, <3>1
  <2>3. f = [m \in X |-> f[m]]
    BY <2>1
  <2> QED BY <2>2, <2>3
<1>6. Forward = [m \in X |-> IF Reached(m, k) THEN [m EXCEPT !.finished = (m.heap = <<>>)]
                             ELSE Forward[Moved(m, k)]]
  BY <1>5
<1>7. Forwarded(n, k) = Forward[n]
  BY DEF Forwarded, X
<1> HIDE DEF Forward
<1>8. IsLoop(Forward, X, Stop, turn, res)
  <2>1. ASSUME NEW m \in X PROVE Forward[m] = IF m \in Stop THEN res[m] ELSE Forward[turn[m]]
    BY <1>4, <1>6
  <2> QED BY <2>1 DEF IsLoop
<1>9. P \in SUBSET X /\ \A m \in P : m \notin Stop => turn[m] \in P
  BY DEF X, Stop, turn
<1>10. PICK m \in P : m \in Stop /\ Forward[n] = res[m]
  BY <1>2, <1>8, <1>9, LoopKeeps
<1>11. Reached(m, k) /\ res[m] = [m EXCEPT !.finished = (m.heap = <<>>)]
  BY <1>9, <1>10 DEF Stop, res
<1> QED BY <1>7, <1>10, <1>11

-------------------------------------------------------------------------------
(* What the loops keep *)

LEMMA OrderedWeakens ==
    ASSUME NEW h, OrderedFrom(h, 1)
    PROVE  OrderedFrom(h, 2)
<1>1. ASSUME NEW k \in 2..Len(h), k \div 2 >= 2 PROVE k \div 2 >= 1
  <2>1. k \div 2 \in Int
    OBVIOUS
  <2> QED BY <1>1, <2>1
<1> QED BY <1>1 DEF OrderedFrom

\* The key of an entry that is not finished is one that its source is to return.
Live(r, e) == e.key \in sources[e.src] /\ Accept(r, e.key)

\* The heap in the loop of merger_iter_next(), with entries of the sources in Some: only
\* its root may be finished, and no key is less than the one that is being collected.
Sound(m, Some) ==
    /\ OrderedFrom(m.heap, 2)
    /\ m.heap # <<>> /\ m.heap[1].key # None => OrderedFrom(m.heap, 1)
    /\ \A d \in Others(m.heap) : d.key # None
    /\ \A d \in Range(m.heap) : d.src \in Some /\ (d.key # None => Live(asked, d) /\ m.cur <= d.key)
    /\ m.val \in Seq(Some)

LEMMA RootKeyIsLeast ==
    ASSUME NEW E, Comparable(E), NEW h \in Seq(E), h # <<>>, OrderedFrom(h, 1)
    PROVE  \A d \in Range(h) : h[1].key <= d.key /\ (opt.dupsort /\ h[1].key = d.key => h[1].src <= d.src)
<1>1. h[1] \in E /\ Range(h) \subseteq E
  BY RootAndOthers
<1>2. ASSUME NEW d \in Range(h) PROVE EntryLeq(h[1], d)
  <2>1. PICK i \in 1..Len(h) : d = h[i]
    BY HeapIsFunction DEF Range
  <2> QED BY <2>1, RootIsLeast
<1> QED BY <1>1, <1>2 DEF EntryLeq, Comparable

LEMMA SoundTurn ==
    ASSUME sources \in Collections, NEW Some \in SUBSET DOMAIN sources, NEW fail,
           NEW m \in States(Keys \cup {None}), Sound(m, Some), ~Stops(m, fail)
    PROVE  Sound(Turned(m), Some)
<1> DEFINE t == Turned(m)
           e == m.heap[1]
           n == Entry(asked, e.src, e.key + 1)
<1>1. m.heap # <<>> /\ m.heap \in Heaps(Keys \cup {None}) /\ m.cur \in Keys
  BY DEF Stops, Complete, States
<1>2. m.heap \in Seq(Entries) /\ Distinct(m.heap) /\ Comparable(Entries)
  BY <1>1, HeapsAre
<1>3. /\ e \in Entries /\ Range(m.heap) = {e} \cup Others(m.heap) /\ Others(m.heap) \subseteq Entries
      /\ e.src \in Some
  BY <1>2, <1>1, RootAndOthers DEF Sound
<1>4. t \in States(Keys \cup {None})
  BY <1>1, TurnedKeeps
<1>5. t.heap \in Seq(Entries)
  BY <1>4, HeapsAre DEF States
<1>6. t.heap # <<>> => t.heap[1] \in Range(t.heap) /\ Others(t.heap) \subseteq Range(t.heap)
  BY <1>5, RootAndOthers
<1>7. CASE e.key = None
  <2>1. /\ t.cur = m.cur /\ t.val = m.val /\ Range(t.heap) = Others(m.heap) /\ OrderedFrom(t.heap, 1)
    BY <1>1, <1>7, TurnedKeeps DEF Sound
  <2>2. Others(t.heap) \subseteq Range(t.heap)
    <3>1. t.heap = <<>> => Others(t.heap) = {}
      <4>1. Len(<<>>) = 0 /\ 2..0 = {}
        OBVIOUS
      <4> QED BY <4>1 DEF Others
    <3> QED BY <1>6, <3>1
  <2> HIDE DEF t
  <2> QED BY <1>3, <2>1, <2>2, OrderedWeakens DEF Sound, t
<1>8. CASE e.key # None
  <2>1. e.key \in Nat /\ e.key \in Keys /\ e.key + 1 \in Nat /\ e.src \in DOMAIN sources
    BY <1>3, <1>8, SourcesAre DEF Entries
  <2>2. /\ t.cur = e.key /\ Range(t.heap) = {n} \cup Others(m.heap)
        /\ t.val = IF m.cur = Empty THEN <<e.src>> ELSE Append(m.val, e.src)
        /\ n.key = None => /\ t.heap[1] = n /\ OrderedFrom(t.heap, 2)
                           /\ \A k \in 2..Len(t.heap) : t.heap[k] \in Others(m.heap)
        /\ n.key # None => OrderedFrom(t.heap, 1)
    <3>1. OrderedFrom(m.heap, 2)
      BY DEF Sound
    <3> QED BY <1>1, <1>8, <3>1, TurnedKeeps
  <2>3. n.src = e.src /\ n.key = NextOf(asked, e.src, e.key + 1)
    BY DEF Entry
  <2>4. n.key # None => Live(asked, n) /\ e.key <= n.key /\ n.key \in Nat
    <3> HIDE DEF n, e
    <3>1. n.key # None => /\ n.key \in sources[n.src] /\ n.key \in Nat /\ n.key >= e.key + 1
                          /\ Accept(asked, n.key)
      BY <2>1, <2>3, NextIs
    <3> QED BY <2>1, <3>1 DEF Live
  <2>5. \A d \in Others(m.heap) : e.key <= d.key
    <3>1. OrderedFrom(m.heap, 1)
      BY <1>1, <1>8 DEF Sound
    <3> QED BY <1>1, <1>2, <1>3, <3>1, RootKeyIsLeast
  <2>6. t.val \in Seq(Some)
    <3>1. m.val \in Seq(Some)
      BY DEF Sound
    <3>2. <<e.src>> \in Seq(Some)
      BY <1>3
    <3>3. Append(m.val, e.src) \in Seq(Some)
      BY <1>3, <3>1, AppendProperties
    <3> HIDE DEF t
    <3> QED BY <2>2, <3>2, <3>3
  <2>7. \A d \in Others(t.heap) : d.key # None
    <3>1. CASE n.key = None
      <4> HIDE DEF t, n
      <4> QED BY <2>2, <3>1 DEF Sound, Others
    <3>2. CASE n.key # None
      <4>1. t.heap # <<>>
        <5>1. Range(<<>>) = {}
          BY DEF Range
        <5> QED BY <2>2, <5>1
      <4> HIDE DEF t, n
      <4> QED BY <1>6, <2>2, <3>2, <4>1 DEF Sound
    <3> QED BY <3>1, <3>2
  <2>8. \A d \in Range(t.heap) : d.src \in Some /\ (d.key # None => Live(asked, d) /\ t.cur <= d.key)
    <3>1. \A d \in Others(m.heap) : d.src \in Some /\ (d.key # None => Live(asked, d))
      BY <1>3 DEF Sound
    <3> HIDE DEF t, n, e
    <3> QED BY <1>3, <2>2, <2>3, <2>4, <2>5, <3>1
  <2>9. OrderedFrom(t.heap, 2) /\ (t.heap # <<>> /\ t.heap[1].key # None => OrderedFrom(t.heap, 1))
    <3> HIDE DEF t, n, e
    <3> QED BY <2>2, OrderedWeakens
  <2> HIDE DEF t
  <2> QED BY <2>6, <2>7, <2>8, <2>9 DEF Sound, t
<1> QED BY <1>7, <1>8

Bounded(r) == r.lo \in Keys /\ r.hi \in Keys

\* A turn takes what the root gives next, and nothing else.
LEMMA TurnTakes ==
    ASSUME sources \in Collections, Bounded(asked), NEW Some \in SUBSET DOMAIN sources, NEW fail,
           NEW m \in States(Keys \cup {None}), Sound(m, Some), ~Stops(m, fail)
    PROVE  LET e == m.heap[1] IN
           Remaining(asked, Turned(m).heap) =
               Remaining(asked, m.heap) \ (IF e.key = None THEN {} ELSE {<<e.key, e.src>>})
<1> DEFINE t == Turned(m)
           e == m.heap[1]
           n == Entry(asked, e.src, e.key + 1)
<1>1. m.heap # <<>> /\ m.heap \in Heaps(Keys \cup {None})
  BY DEF Stops, Complete, States
<1>2. m.heap \in Seq(Entries) /\ Distinct(m.heap) /\ Comparable(Entries)
  BY <1>1, HeapsAre
<1>3. /\ e \in Entries /\ Range(m.heap) = {e} \cup Others(m.heap)
      /\ \A d \in Others(m.heap) : d.src # e.src
  BY <1>2, <1>1, RootAndOthers
<1>4. CASE e.key = None
  <2>1. Range(t.heap) = Others(m.heap)
    BY <1>1, <1>4, TurnedKeeps
  <2>2. \A x : Gives(e, x) => FALSE
    BY <1>4 DEF Gives
  <2> HIDE DEF t, e
  <2>3. Remaining(asked, t.heap) = Remaining(asked, m.heap)
    BY <1>3, <2>1, <2>2 DEF Remaining
  <2> QED BY <1>4, <2>3 DEF t, e
<1>5. CASE e.key # None
  <2>1. e.key \in Nat /\ e.key + 1 \in Nat /\ e.key < e.key + 1 /\ e.src \in DOMAIN sources
    BY <1>3, <1>5, SourcesAre DEF Entries
  <2>2. Range(t.heap) = {n} \cup Others(m.heap)
    BY <1>1, <1>5, TurnedKeeps
  <2>3. Accept(asked, e.key)
    BY <1>3, <1>5 DEF Sound, Live
  <2> HIDE DEF t, e, n
  <2>4. \A x : x \in Remaining(asked, t.heap) <=>
                 x \in Remaining(asked, m.heap) /\ (x[2] = e.src => x[1] >= e.key + 1)
    <3> DEFINE f == e.key + 1
               Rem == Others(m.heap)
    <3>1. asked.lo \in Keys /\ asked.hi \in Keys
      BY DEF Bounded
    <3>2. Range(m.heap) = {e} \cup Rem /\ \A d \in Rem : d.src # e.src
      BY <1>3
    <3>3. f \in Nat /\ e.key < f
      BY <2>1
    <3>4. Range(t.heap) = {Entry(asked, e.src, f)} \cup Rem
      BY <2>2 DEF n
    <3> HIDE DEF f, Rem
    <3>5. /\ Rem \subseteq Range(t.heap) /\ Range(t.heap) \subseteq {Entry(asked, e.src, f)} \cup Rem
          /\ Entry(asked, e.src, f) \in Range(t.heap)
      BY <3>4
    <3>6. \A x : x \in Remaining(asked, t.heap) <=>
                   x \in Remaining(asked, m.heap) /\ (x[2] = e.src => x[1] >= f)
      BY <2>1, <2>3, <3>1, <3>2, <3>3, <3>5, MovesOn
    <3> QED BY <3>6 DEF f
  <2>5. ASSUME NEW x \in Remaining(asked, m.heap)
        PROVE  (x[2] = e.src => x[1] >= e.key + 1) <=> x # <<e.key, e.src>>
    <3>1. x \in AllEntries
      BY DEF Remaining
    <3>2. x = <<x[1], x[2]>> /\ x[1] \in Nat
      BY <3>1, AllEntriesAre, SourcesAre
    <3>3. CASE x[2] # e.src
      BY <3>2, <3>3
    <3>4. CASE x[2] = e.src
      <4>1. PICK d \in Range(m.heap) : Gives(d, x)
        BY DEF Remaining
      <4>2. d = e
        BY <1>3, <3>4, <4>1 DEF Gives
      <4>3. e.key <= x[1]
        BY <4>1, <4>2 DEF Gives
      <4>4. x = <<e.key, e.src>> <=> x[1] = e.key
        BY <3>2, <3>4
      <4> QED BY <2>1, <3>2, <3>4, <4>3, <4>4
    <3> QED BY <3>3, <3>4
  <2> QED BY <1>5, <2>4, <2>5 DEF t, e
<1> QED BY <1>4, <1>5

Ascending(v) == \A i \in 2..Len(v) : v[i - 1] < v[i]

LEMMA AscendingAppend ==
    ASSUME NEW Some, NEW v \in Seq(Some), NEW y \in Some
    PROVE  /\ Range(Append(v, y)) = Range(v) \cup {y}
           /\ Ascending(v) /\ (\A s \in Range(v) : s < y) => Ascending(Append(v, y))
<1> DEFINE n == Len(v)
           w == Append(v, y)
<1>1. n \in Nat /\ DOMAIN v = 1..n
  BY LenProperties
<1>2. Len(w) = n + 1 /\ DOMAIN w = 1..(n + 1) /\ w[n + 1] = y /\ \A i \in 1..n : w[i] = v[i]
  BY <1>1, AppendProperties
<1> HIDE DEF w, n
<1>3. 1..(n + 1) = 1..n \cup {n + 1} /\ n + 1 \in 1..(n + 1)
  BY <1>1
<1>4. Range(w) = Range(v) \cup {y}
  BY <1>1, <1>2, <1>3 DEF Range
<1>5. ASSUME Ascending(v), \A s \in Range(v) : s < y, NEW i \in 2..(n + 1) PROVE w[i - 1] < w[i]
  <2>1. i - 1 \in 1..n
    BY <1>1
  <2>2. CASE i = n + 1
    <3>1. v[i - 1] \in Range(v)
      BY <1>1, <2>1 DEF Range
    <3> QED BY <1>2, <1>5, <2>1, <2>2, <3>1
  <2>3. CASE i # n + 1
    <3>1. i \in 2..n /\ i \in 1..n
      BY <1>1, <2>3
    <3>2. v[i - 1] < v[i]
      BY <1>5, <3>1 DEF Ascending, n
    <3> QED BY <1>2, <2>1, <3>1, <3>2
  <2> QED BY <2>2, <2>3
<1> QED BY <1>2, <1>4, <1>5 DEF Ascending, w

\* What the root gives comes before everything else that remains.
LEMMA RootComesFirst ==
    ASSUME sources \in Collections, Bounded(asked), NEW Some \in SUBSET DOMAIN sources,
           NEW m \in States(Keys \cup {None}), Sound(m, Some), m.heap # <<>>, m.heap[1].key # None
    PROVE  LET e == m.heap[1] IN
           /\ e.key \in Nat /\ e.key \in Keys /\ e.src \in Some /\ m.cur <= e.key
           /\ e.key # Empty => <<e.key, e.src>> \in Remaining(asked, m.heap)
           /\ \A x \in Remaining(asked, m.heap) :
                 /\ e.key <= x[1]
                 /\ opt.dupsort /\ x[1] = e.key /\ x # <<e.key, e.src>> => e.src < x[2]
<1> DEFINE e == m.heap[1]
<1>1. m.heap \in Seq(Entries) /\ Distinct(m.heap) /\ Comparable(Entries)
  BY HeapsAre DEF States
<1>2. e \in Entries /\ Range(m.heap) = {e} \cup Others(m.heap) /\ Range(m.heap) \subseteq Entries
  BY <1>1, RootAndOthers
<1>3. e.key \in Nat /\ e.key \in Keys /\ e.src \in DOMAIN sources
  BY <1>2, SourcesAre DEF Entries
<1>4. e.src \in Some /\ Live(asked, e) /\ m.cur <= e.key
  BY <1>2 DEF Sound
<1>5. \A d \in Range(m.heap) : e.key <= d.key /\ (opt.dupsort /\ e.key = d.key => e.src <= d.src)
  BY <1>1, RootKeyIsLeast DEF Sound
<1>6. ASSUME e.key # Empty PROVE <<e.key, e.src>> \in Remaining(asked, m.heap)
  <2>1. <<e.key, e.src>> \in AllEntries
    BY <1>3, <1>4, AllEntriesAre DEF Live
  <2>2. Gives(e, <<e.key, e.src>>) /\ e \in Range(m.heap)
    BY <1>2, <1>3 DEF Gives
  <2> HIDE DEF e
  <2> QED BY <1>4, <1>6, <2>1, <2>2 DEF Remaining, Live
<1>7. ASSUME NEW x \in Remaining(asked, m.heap)
      PROVE  /\ e.key <= x[1]
             /\ opt.dupsort /\ x[1] = e.key /\ x # <<e.key, e.src>> => e.src < x[2]
  <2>1. PICK d \in Range(m.heap) : Gives(d, x)
    BY DEF Remaining
  <2>2. x = <<x[1], x[2]>> /\ x[1] \in Nat /\ x[2] \in Int
    BY AllEntriesAre, SourcesAre DEF Remaining
  <2>3. d.src = x[2] /\ d.key <= x[1] /\ d.key \in Int /\ d.src \in Int
    BY <1>1, <1>2, <2>1 DEF Gives, Comparable
  <2>4. e.key <= d.key
    BY <1>5
  <2>5. e.key <= x[1]
    BY <1>3, <2>2, <2>3, <2>4
  <2>6. ASSUME opt.dupsort, x[1] = e.key, x # <<e.key, e.src>> PROVE e.src < x[2]
    <3>1. e.key = d.key
      BY <1>3, <2>3, <2>4, <2>6
    <3>2. e.src <= x[2]
      BY <1>5, <2>3, <2>6, <3>1
    <3>3. e.src # x[2]
      BY <2>2, <2>6
    <3>4. e.src \in Int
      BY <1>3, SourcesAre
    <3> QED BY <2>2, <3>2, <3>3, <3>4
  <2> QED BY <2>5, <2>6
<1> QED BY <1>3, <1>4, <1>6, <1>7

\* What was taken, with its key.
Got(m) == {<<m.cur, s>> : s \in Range(m.val)}

\* In the loop everything in S was taken or remains, and what was taken comes before
\* what remains.
Accounted(S, m) ==
    /\ Remaining(asked, m.heap) = S \ Got(m)
    /\ m.cur # Empty =>
         /\ m.pending /\ Len(m.val) > 0 /\ Got(m) \subseteq S
         /\ \A x \in S : m.cur <= x[1]
         /\ opt.merge \/ Len(m.val) = 1
         /\ opt.dupsort => /\ Ascending(m.val)
                           /\ \A x \in S \ Got(m) : x[1] = m.cur => \A s \in Range(m.val) : s < x[2]

LEMMA AccountedTurn ==
    ASSUME sources \in Collections, Bounded(asked), NEW Some \in SUBSET DOMAIN sources, NEW fail,
           NEW m \in States(Keys \cup {None}), Sound(m, Some), ~Stops(m, fail),
           NEW S, \A x \in S : x[1] # Empty, Accounted(S, m)
    PROVE  Accounted(S, Turned(m))
<1> DEFINE t == Turned(m)
           e == m.heap[1]
<1>1. m.heap # <<>> /\ m.cur \in Keys /\ m.cur \in Nat /\ m.val \in Seq(Some)
  BY SourcesAre DEF Stops, Complete, States, Sound
<1>2. Remaining(asked, t.heap) =
          Remaining(asked, m.heap) \ (IF e.key = None THEN {} ELSE {<<e.key, e.src>>})
  BY TurnTakes
<1>3. CASE e.key = None
  <2>1. t.cur = m.cur /\ t.val = m.val /\ t.pending = m.pending
    BY <1>1, <1>3, TurnedKeeps
  <2>2. Remaining(asked, t.heap) = Remaining(asked, m.heap)
    BY <1>2, <1>3
  <2> HIDE DEF t
  <2>3. Got(t) = Got(m)
    BY <2>1 DEF Got
  <2>4. Accounted(S, t)
    BY <2>1, <2>2, <2>3 DEF Accounted
  <2> QED BY <2>4 DEF t
<1>4. CASE e.key # None
  <2> DEFINE k == e.key
             x0 == <<e.key, e.src>>
  <2>1. /\ t.cur = k /\ t.pending
        /\ t.val = IF m.cur = Empty THEN <<e.src>> ELSE Append(m.val, e.src)
    BY <1>1, <1>4, TurnedKeeps
  <2>2. /\ k \in Nat /\ e.src \in Some /\ m.cur <= k
        /\ k # Empty => x0 \in Remaining(asked, m.heap)
        /\ \A x \in Remaining(asked, m.heap) :
              /\ k <= x[1]
              /\ opt.dupsort /\ x[1] = k /\ x # x0 => e.src < x[2]
    BY <1>1, <1>4, RootComesFirst
  <2>3. Remaining(asked, m.heap) = S \ Got(m)
    BY DEF Accounted
  <2>4. Remaining(asked, t.heap) = Remaining(asked, m.heap) \ {x0}
    BY <1>2, <1>4
  <2>5. e.src \in Int
    BY <2>2, SourcesAre
  <2> HIDE DEF t
  <2>6. CASE m.cur = Empty
    <3>1. t.val = <<e.src>> /\ Range(t.val) = {e.src} /\ Len(t.val) = 1
      <4>1. Range(<<e.src>>) = {e.src} /\ Len(<<e.src>>) = 1
        BY DEF Range
      <4> QED BY <2>1, <2>6, <4>1
    <3>2. Got(t) = {x0}
      BY <2>1, <3>1 DEF Got
    <3>3. S \ Got(m) = S
      BY <2>6 DEF Got
    <3>4. Ascending(t.val)
      BY <3>1 DEF Ascending
    <3> HIDE DEF x0, k, e
    <3>5. Remaining(asked, t.heap) = S \ Got(t)
      BY <2>3, <2>4, <3>2, <3>3
    <3>6. ASSUME k # Empty
          PROVE  /\ Got(t) \subseteq S /\ \A x \in S : k <= x[1]
                 /\ opt.dupsort => \A x \in S \ Got(t) : x[1] = k => \A s \in Range(t.val) : s < x[2]
      BY <2>2, <2>3, <3>1, <3>2, <3>3, <3>6
    <3>7. Accounted(S, t)
      BY <2>1, <3>1, <3>4, <3>5, <3>6 DEF Accounted
    <3> QED BY <3>7 DEF t
  <2>7. CASE m.cur # Empty
    <3>1. opt.merge /\ m.cur = k
      BY <1>1, <1>4, <2>7 DEF Stops, Complete, Exhausted, MayMerge
    <3>2. t.val = Append(m.val, e.src) /\ Len(m.val) > 0 /\ Len(m.val) \in Nat
      BY <1>1, <2>1, <2>7, LenProperties DEF Accounted
    <3>3. Range(t.val) = Range(m.val) \cup {e.src} /\ Len(t.val) > 0
      BY <1>1, <2>2, <3>2, AscendingAppend, AppendProperties
    <3>4. Got(t) = Got(m) \cup {x0}
      BY <2>1, <3>1, <3>3 DEF Got
    <3>5. k # Empty /\ x0 \in S /\ x0 \notin Got(m)
      BY <2>2, <2>3, <2>7, <3>1
    <3>6. Got(m) \subseteq S /\ \A x \in S : k <= x[1]
      BY <2>7, <3>1 DEF Accounted
    <3>7. ASSUME opt.dupsort
          PROVE  /\ Ascending(t.val)
                 /\ \A x \in S \ Got(t) : x[1] = k => \A s \in Range(t.val) : s < x[2]
      <4>1. Ascending(m.val) /\ \A x \in S \ Got(m) : x[1] = k => \A s \in Range(m.val) : s < x[2]
        BY <2>7, <3>1, <3>7 DEF Accounted
      <4>2. x0[1] = k /\ x0[2] = e.src
        OBVIOUS
      <4> HIDE DEF x0, k, e
      <4>3. \A s \in Range(m.val) : s < e.src
        BY <3>5, <4>1, <4>2
      <4>4. Ascending(t.val)
        BY <1>1, <2>2, <3>2, <4>1, <4>3, AscendingAppend
      <4>5. ASSUME NEW x \in S \ Got(t), x[1] = k, NEW s \in Range(t.val) PROVE s < x[2]
        <5>1. x \in S \ Got(m) /\ x # x0
          BY <3>4, <4>5
        <5>2. e.src < x[2]
          BY <2>2, <2>3, <3>7, <4>5, <5>1
        <5> QED BY <3>3, <4>1, <4>5, <5>1, <5>2
      <4> QED BY <4>4, <4>5
    <3> HIDE DEF x0, k, e
    <3>8. Remaining(asked, t.heap) = S \ Got(t)
      BY <2>3, <2>4, <3>4
    <3>9. Accounted(S, t)
      BY <2>1, <3>1, <3>3, <3>4, <3>5, <3>6, <3>7, <3>8 DEF Accounted
    <3> QED BY <3>9 DEF t
  <2> QED BY <2>6, <2>7
<1> QED BY <1>3, <1>4

\* The heap between two calls: in order, and with entries of the sources in Some.
Settled(r, h, Some) ==
    /\ h \in Heaps(Keys) /\ OrderedFrom(h, 1)
    /\ \A d \in Range(h) : d.src \in Some /\ Live(r, d)

LEMMA NoneFinished ==
    ASSUME NEW h \in Heaps(Keys \cup {None}), \A d \in Range(h) : d.key # None
    PROVE  h \in Heaps(Keys)
<1> DEFINE F == [key : Keys, src : DOMAIN sources]
<1>1. h \in Seq([key : Keys \cup {None}, src : DOMAIN sources]) /\ Distinct(h)
  BY DEF Heaps
<1>2. Len(h) \in Nat /\ DOMAIN h = 1..Len(h) /\ h = [i \in 1..Len(h) |-> h[i]]
  BY <1>1
<1>3. ASSUME NEW i \in 1..Len(h) PROVE h[i] \in F
  <2>1. h[i] \in [key : Keys \cup {None}, src : DOMAIN sources]
    BY <1>1, ElementOfSeq
  <2>2. h[i].key # None
    BY <1>2 DEF Range
  <2> QED BY <2>1, <2>2
<1> HIDE DEF F
<1>4. h \in [1..Len(h) -> F]
  BY <1>2, <1>3
<1>5. h \in Seq(F)
  BY <1>2, <1>4
<1> QED BY <1>1, <1>5 DEF Heaps, F

LEMMA EmptyHeap == OrderedFrom(<<>>, 1) /\ Range(<<>>) = {} /\ Others(<<>>) = {}
<1>1. Len(<<>>) = 0 /\ DOMAIN <<>> = {} /\ 2..0 = {}
  OBVIOUS
<1> QED BY <1>1 DEF OrderedFrom, Others, Range

\* What a call of merger_iter_next() does to the heap, and what it has collected.
LEMMA CollectedIs ==
    ASSUME sources \in Collections, Bounded(asked), NEW Some \in SUBSET DOMAIN sources, NEW fail,
           NEW n \in States(Keys), Settled(asked, n.heap, Some),
           n.cur = Empty, n.val = <<>>, n.finished = FALSE, n.failed = FALSE
    PROVE  LET r == Collected(n, fail) IN
           /\ r \in States(Keys) /\ Settled(asked, r.heap, Some) /\ r.val \in Seq(Some)
           /\ Accounted(Remaining(asked, n.heap), r)
           /\ r.finished <=> r.heap = <<>>
           /\ r.failed => fail # 0
           /\ ~r.failed => \/ r.heap = <<>>
                           \/ r.cur # Empty /\ (opt.merge => r.cur < r.heap[1].key)
<1> DEFINE S == Remaining(asked, n.heap)
           K == Keys \cup {None}
           P == {m \in States(K) : /\ Sound(m, Some) /\ Accounted(S, m)
                                   /\ m.finished = FALSE /\ m.failed = FALSE}
           r == Collected(n, fail)
<1>1. /\ n.heap \in Heaps(Keys) /\ OrderedFrom(n.heap, 1)
      /\ \A d \in Range(n.heap) : d.src \in Some /\ Live(asked, d)
  BY DEF Settled
<1>2. n.heap \in Heaps(K) /\ n.heap \in Seq([key : Keys, src : DOMAIN sources])
  BY <1>1, UnfinishedAre
<1>3. n \in States(K)
  <2> HIDE DEF K
  <2> QED BY <1>2 DEF States
<1>4. ASSUME NEW d \in Range(n.heap) PROVE d.key # None /\ n.cur <= d.key
  <2>1. d \in [key : Keys, src : DOMAIN sources]
    BY <1>2, HeapIsFunction
  <2>2. d.key \in Nat
    BY <2>1, SourcesAre
  <2> QED BY <2>2 DEF None, Empty
<1>5. Sound(n, Some)
  <2>1. Others(n.heap) \subseteq Range(n.heap)
    <3>1. CASE n.heap = <<>>
      BY <3>1, EmptyHeap
    <3>2. CASE n.heap # <<>>
      BY <1>2, <3>2, RootAndOthers
    <3> QED BY <3>1, <3>2
  <2>2. <<>> \in Seq(Some)
    OBVIOUS
  <2> QED BY <1>1, <1>4, <2>1, <2>2, OrderedWeakens DEF Sound
<1>6. Accounted(S, n)
  <2>1. Got(n) = {}
    BY EmptyHeap DEF Got
  <2> QED BY <2>1 DEF Accounted
<1>7. n \in P
  BY <1>3, <1>5, <1>6
<1>8. \A x \in S : x[1] # Empty
  BY DEF Remaining
<1>9. \A m \in P : ~Stops(m, fail) => Turned(m) \in P
  <2> TAKE m \in P
  <2> HAVE ~Stops(m, fail)
  <2>1. m \in States(K) /\ Sound(m, Some) /\ Accounted(S, m) /\ m.finished = FALSE /\ m.failed = FALSE
    OBVIOUS
  <2>2. m.heap # <<>>
    BY DEF Stops, Complete
  <2> HIDE DEF S, P
  <2>3. Sound(Turned(m), Some)
    BY <2>1, SoundTurn
  <2>4. Accounted(S, Turned(m))
    BY <1>8, <2>1, AccountedTurn
  <2>5. Turned(m) \in States(K) /\ Turned(m).finished = FALSE /\ Turned(m).failed = FALSE
    BY <2>1, <2>2, TurnedKeeps
  <2> QED BY <2>3, <2>4, <2>5 DEF P
<1> HIDE DEF S
<1>10. PICK m \in P : Stops(m, fail) /\ r = Outcome(m)
  <2>1. P \in SUBSET States(Keys \cup {None})
    OBVIOUS
  <2> HIDE DEF P, r
  <2>2. \E m \in P : Stops(m, fail) /\ Collected(n, fail) = Outcome(m)
    BY <1>7, <1>9, <2>1, CollectedKeeps
  <2> QED BY <2>2 DEF r
<1> HIDE DEF r
<1>11. m \in States(K) /\ Sound(m, Some) /\ Accounted(S, m) /\ m.finished = FALSE /\ m.failed = FALSE
  OBVIOUS
<1> HIDE DEF P
<1>12. /\ m.heap \in Heaps(K) /\ m.cur \in Keys /\ m.val \in Seq(DOMAIN sources)
       /\ m.finished \in BOOLEAN /\ m.pending \in BOOLEAN /\ m.failed \in BOOLEAN
       /\ m = [heap |-> m.heap, cur |-> m.cur, val |-> m.val, finished |-> m.finished,
               pending |-> m.pending, failed |-> m.failed]
  BY <1>11 DEF States
<1>13. m.heap = <<>> \/ m.heap[1].key # None
  BY <1>10 DEF Stops, Complete, MergeFails, Exhausted
<1>14. Settled(asked, m.heap, Some)
  <2>1. CASE m.heap = <<>>
    <3>1. <<>> \in Heaps(Keys)
      <4>1. <<>> \in Seq([key : Keys, src : DOMAIN sources]) /\ Len(<<>>) = 0
        OBVIOUS
      <4> QED BY <4>1 DEF Heaps, Distinct
    <3> QED BY <2>1, <3>1, EmptyHeap DEF Settled
  <2>2. CASE m.heap # <<>>
    <3>1. Range(m.heap) = {m.heap[1]} \cup Others(m.heap)
      BY <1>12, <2>2, HeapsAre, RootAndOthers
    <3>2. \A d \in Range(m.heap) : d.key # None /\ d.src \in Some /\ Live(asked, d)
      BY <1>11, <1>13, <2>2, <3>1 DEF Sound
    <3>3. OrderedFrom(m.heap, 1)
      BY <1>11, <1>13, <2>2 DEF Sound
    <3>4. m.heap \in Heaps(Keys)
      BY <1>12, <3>2, NoneFinished
    <3> QED BY <3>2, <3>3, <3>4 DEF Settled
  <2> QED BY <2>1, <2>2
<1>15. /\ r.heap = m.heap /\ r.cur = m.cur /\ r.val = m.val /\ r.pending = m.pending
       /\ Complete(m) => r.finished = (m.heap = <<>>) /\ r.failed = FALSE
       /\ ~Complete(m) => r.finished = FALSE /\ r.failed = TRUE /\ m.heap # <<>>
  <2>1. ~Complete(m) => m.heap # <<>>
    BY DEF Complete
  <2> QED BY <1>10, <1>11, <1>12, <2>1 DEF Outcome
<1>16. r \in States(Keys)
  <2>1. m.heap \in Heaps(Keys)
    BY <1>14 DEF Settled
  <2>2. r = [heap |-> m.heap, cur |-> m.cur, val |-> m.val, finished |-> r.finished,
             pending |-> m.pending, failed |-> r.failed]
    BY <1>10, <1>12 DEF Outcome
  <2>3. r.finished \in BOOLEAN /\ r.failed \in BOOLEAN
    BY <1>15
  <2> QED BY <1>12, <2>1, <2>2, <2>3 DEF States
<1>17. Accounted(S, r) /\ r.val \in Seq(Some) /\ Settled(asked, r.heap, Some)
  <2>1. Got(r) = Got(m)
    BY <1>15 DEF Got
  <2> QED BY <1>11, <1>14, <1>15, <2>1 DEF Accounted, Sound
<1>18. r.finished <=> r.heap = <<>>
  BY <1>15
<1>19. ASSUME ~r.failed, r.heap # <<>>
       PROVE  r.cur # Empty /\ (opt.merge => r.cur < r.heap[1].key)
  <2>1. Complete(m)
    BY <1>15, <1>19
  <2>2. m.cur # Empty /\ (opt.merge => m.cur # m.heap[1].key)
    BY <1>15, <1>19, <2>1 DEF Complete, MayMerge
  <2>3. m.cur <= m.heap[1].key /\ m.cur \in Int /\ m.heap[1].key \in Int
    <3>1. m.heap[1] \in Range(m.heap) /\ m.heap[1] \in Entries
      <4>1. m.heap \in Seq(Entries) /\ m.heap # <<>>
        BY <1>12, <1>15, <1>19, HeapsAre
      <4> QED BY <4>1, RootAndOthers
    <3>2. m.cur <= m.heap[1].key
      BY <1>11, <1>13, <1>15, <1>19, <3>1 DEF Sound
    <3> QED BY <1>12, <3>1, <3>2, SourcesAre DEF Entries, None
  <2> QED BY <1>15, <2>2, <2>3
<1>20. ASSUME r.failed PROVE fail # 0
  <2>1. MergeFails(m, fail)
    BY <1>10, <1>15, <1>20 DEF Stops
  <2>2. Len(m.val) \in Nat
    BY <1>12, LenProperties
  <2> QED BY <2>1, <2>2 DEF MergeFails
<1> QED BY <1>16, <1>17, <1>18, <1>19, <1>20 DEF r, S

\* The heap holds only what comes at its root or after it.
LEMMA RestComesLater ==
    ASSUME sources \in Collections, NEW r, NEW Some, NEW h, Settled(r, h, Some), NEW x \in Remaining(r, h)
    PROVE  h # <<>> /\ h[1].key \in Nat /\ h[1].key <= x[1]
<1> DEFINE E == [key : Keys, src : DOMAIN sources]
<1>1. PICK d \in Range(h) : Gives(d, x)
  BY DEF Remaining
<1>2. h # <<>>
  BY <1>1, EmptyHeap
<1>3. h \in Seq(E) /\ Comparable(E) /\ OrderedFrom(h, 1)
  BY UnfinishedAre DEF Settled
<1>4. h[1] \in E /\ d \in E
  BY <1>2, <1>3, RootAndOthers, HeapIsFunction
<1>5. h[1].key <= d.key
  BY <1>2, <1>3, RootKeyIsLeast
<1>6. x[1] \in Nat /\ d.key <= x[1]
  BY <1>1, AllEntriesAre, SourcesAre DEF Remaining, Gives
<1>7. h[1].key \in Nat /\ d.key \in Nat
  BY <1>4, SourcesAre
<1> QED BY <1>2, <1>5, <1>6, <1>7

\* What remains at k and after it.
From(S, k) == {x \in S : x[1] >= k}

LEMMA MoveKeeps ==
    ASSUME sources \in Collections, Bounded(asked), NEW Some \in SUBSET DOMAIN sources, NEW k \in Keys,
           NEW m \in States(Keys), Settled(asked, m.heap, Some), ~Reached(m, k)
    PROVE  LET t == Moved(m, k) IN
           /\ t \in States(Keys) /\ Settled(asked, t.heap, Some) /\ t.val = <<>> /\ t.failed = m.failed
           /\ t.cur = k
           /\ From(Remaining(asked, t.heap), k) = From(Remaining(asked, m.heap), k)
<1> DEFINE t == Moved(m, k)
           e == m.heap[1]
           n == Entry(asked, e.src, k)
           E == [key : Keys, src : DOMAIN sources]
<1>1. m.heap \in Heaps(Keys) /\ m.heap # <<>> /\ ~(k <= e.key)
  BY DEF Reached, States
<1>2. m.heap \in Seq(E) /\ Distinct(m.heap) /\ Comparable(E)
  BY <1>1, UnfinishedAre
<1>3. /\ e \in E /\ Range(m.heap) = {e} \cup Others(m.heap)
      /\ \A d \in Others(m.heap) : d.src # e.src
  BY <1>1, <1>2, RootAndOthers
<1>4. e.src \in Some /\ Live(asked, e)
  BY <1>3 DEF Settled
<1>5. e.key \in Nat /\ k \in Nat /\ e.key < k /\ e.src \in DOMAIN sources
  BY <1>1, <1>3, SourcesAre
<1>6. OrderedFrom(m.heap, 2)
  BY OrderedWeakens DEF Settled
<1>7. /\ t \in States(Keys) /\ t.val = <<>> /\ t.failed = m.failed /\ OrderedFrom(t.heap, 1)
      /\ Range(t.heap) = IF n.key = None THEN Others(m.heap) ELSE {n} \cup Others(m.heap)
  BY <1>6, MovedKeeps
<1>8. n.src = e.src /\ n.key = NextOf(asked, e.src, k)
  BY DEF Entry
<1>9. n.key # None => Live(asked, n)
  <2> HIDE DEF n, e
  <2> QED BY <1>5, <1>8, NextIs DEF Live
<1>10. Settled(asked, t.heap, Some)
  <2>1. \A d \in Others(m.heap) : d.src \in Some /\ Live(asked, d)
    BY <1>3 DEF Settled
  <2> HIDE DEF n, e, t
  <2>2. \A d \in Range(t.heap) : d.src \in Some /\ Live(asked, d)
    BY <1>4, <1>7, <1>8, <1>9, <2>1
  <2>3. t.heap \in Heaps(Keys)
    BY <1>7 DEF States
  <2> QED BY <1>7, <2>2, <2>3 DEF Settled, t
<1>11. From(Remaining(asked, t.heap), k) = From(Remaining(asked, m.heap), k)
  <2> DEFINE Rem == Others(m.heap)
             g == t.heap
             h == m.heap
  <2>1. asked.lo \in Keys /\ asked.hi \in Keys
    BY DEF Bounded
  <2>2. Range(h) = {e} \cup Rem /\ \A d \in Rem : d.src # e.src
    BY <1>3
  <2>3. Accept(asked, e.key)
    BY <1>4 DEF Live
  <2>4. /\ Rem \subseteq Range(g) /\ Range(g) \subseteq {Entry(asked, e.src, k)} \cup Rem
        /\ NextOf(asked, e.src, k) # None => Entry(asked, e.src, k) \in Range(g)
    BY <1>7, <1>8
  <2> HIDE DEF Rem, t, e, n, E, g, h
  <2>5. \A x : x \in Remaining(asked, g) <=> x \in Remaining(asked, h) /\ (x[2] = e.src => x[1] >= k)
    BY <1>5, <2>1, <2>2, <2>3, <2>4, MovesOn
  <2> QED BY <2>5 DEF From, g, h
<1>12. t.cur = k
  BY DEF Moved, States
<1> QED BY <1>7, <1>10, <1>11, <1>12

LEMMA ForwardedIs ==
    ASSUME sources \in Collections, Bounded(asked), NEW Some \in SUBSET DOMAIN sources, NEW k \in Keys,
           NEW n \in States(Keys), Settled(asked, n.heap, Some), n.val \in Seq(Some)
    PROVE  LET r == Forwarded(n, k) IN
           /\ r \in States(Keys) /\ Settled(asked, r.heap, Some) /\ r.val \in Seq(Some) /\ r.failed = n.failed
           /\ Remaining(asked, r.heap) = From(Remaining(asked, n.heap), k)
           /\ r.finished <=> r.heap = <<>>
           /\ r.cur = k \/ (r.cur = n.cur /\ r.heap = n.heap)
<1> DEFINE S == From(Remaining(asked, n.heap), k)
           P == {m \in States(Keys) : /\ Settled(asked, m.heap, Some) /\ m.val \in Seq(Some)
                                      /\ m.failed = n.failed /\ From(Remaining(asked, m.heap), k) = S
                                      /\ m.cur = k \/ (m.cur = n.cur /\ m.heap = n.heap)}
           r == Forwarded(n, k)
<1>1. n \in P
  OBVIOUS
<1>2. \A m \in P : ~Reached(m, k) => Moved(m, k) \in P
  <2> TAKE m \in P
  <2> HAVE ~Reached(m, k)
  <2>1. /\ m \in States(Keys) /\ Settled(asked, m.heap, Some) /\ m.failed = n.failed
        /\ From(Remaining(asked, m.heap), k) = S
    OBVIOUS
  <2>2. <<>> \in Seq(Some)
    OBVIOUS
  <2> HIDE DEF S, P
  <2>3. /\ Moved(m, k) \in States(Keys) /\ Settled(asked, Moved(m, k).heap, Some) /\ Moved(m, k).val = <<>>
        /\ Moved(m, k).failed = m.failed /\ Moved(m, k).cur = k
        /\ From(Remaining(asked, Moved(m, k).heap), k) = From(Remaining(asked, m.heap), k)
    BY <2>1, MoveKeeps
  <2> QED BY <2>1, <2>2, <2>3 DEF P
<1> HIDE DEF S
<1>3. PICK m \in P : Reached(m, k) /\ r = [m EXCEPT !.finished = (m.heap = <<>>)]
  <2>1. P \in SUBSET States(Keys)
    OBVIOUS
  <2> HIDE DEF P, r
  <2>2. \E m \in P : Reached(m, k) /\ Forwarded(n, k) = [m EXCEPT !.finished = (m.heap = <<>>)]
    BY <1>1, <1>2, <2>1, ForwardedKeeps
  <2> QED BY <2>2 DEF r
<1> HIDE DEF r
<1>4. /\ m \in States(Keys) /\ Settled(asked, m.heap, Some) /\ m.val \in Seq(Some)
      /\ m.failed = n.failed /\ From(Remaining(asked, m.heap), k) = S
      /\ m.cur = k \/ (m.cur = n.cur /\ m.heap = n.heap)
  OBVIOUS
<1> HIDE DEF P
<1>5. /\ r \in States(Keys) /\ r.heap = m.heap /\ r.val = m.val /\ r.failed = m.failed
      /\ r.cur = m.cur /\ r.finished = (m.heap = <<>>)
  BY <1>3, <1>4 DEF States
<1>6. Remaining(asked, m.heap) = S
  <2>1. ASSUME NEW x \in Remaining(asked, m.heap) PROVE x[1] >= k
    <3>1. m.heap # <<>> /\ m.heap[1].key \in Nat /\ m.heap[1].key <= x[1]
      BY <1>4, RestComesLater
    <3>2. k <= m.heap[1].key
      BY <1>3, <3>1 DEF Reached
    <3>3. x[1] \in Nat /\ k \in Nat
      BY AllEntriesAre, SourcesAre DEF Remaining
    <3> QED BY <3>1, <3>2, <3>3
  <2> QED BY <1>4, <2>1 DEF From
<1> QED BY <1>4, <1>5, <1>6 DEF r, S

-------------------------------------------------------------------------------
(* The heaps that a creation and a seek backward build *)

LEMMA FilledIs ==
    ASSUME sources \in Collections, NEW r, NEW Some \in SUBSET DOMAIN sources, NEW f \in Nat
    PROVE  LET q == Filled(r, Some, f) IN
           /\ q \in Seq([key : Keys, src : DOMAIN sources]) /\ Distinct(q)
           /\ Comparable([key : Keys, src : DOMAIN sources])
           /\ \A d : d \in Range(q) <=> \E s \in Some : NextOf(r, s, f) # None /\ d = Entry(r, s, f)
<1> DEFINE E == [key : Keys, src : DOMAIN sources]
           q == Filled(r, Some, f)
<1>1. Len(sources) \in Nat /\ DOMAIN sources = 1..Len(sources)
  BY SourcesAre
<1>2. ASSUME NEW s \in DOMAIN sources, NextOf(r, s, f) # None PROVE Entry(r, s, f) \in E
  <2>1. NextOf(r, s, f) \in Keys
    BY <1>2, NextIs
  <2> QED BY <2>1 DEF Entry
<1> HIDE DEF E, q
<1>3. /\ q \in Seq(E) /\ Distinct(q)
      /\ \A d : d \in Range(q) <=>
             \E s \in 1..Len(sources) : s \in Some /\ NextOf(r, s, f) # None /\ d = Entry(r, s, f)
  <2>1. \A s \in 1..Len(sources) : s \in Some /\ NextOf(r, s, f) # None => Entry(r, s, f) \in E
    BY <1>1, <1>2
  <2>2. \A F : (\A s \in 1..Len(sources) : s \in Some /\ NextOf(r, s, f) # None => Entry(r, s, f) \in F) =>
               /\ q \in Seq(F) /\ Distinct(q)
               /\ \A d : d \in Range(q) <=>
                      \E s \in 1..Len(sources) : s \in Some /\ NextOf(r, s, f) # None /\ d = Entry(r, s, f)
    BY <1>1, FilledKeeps DEF q
  <2> QED BY <2>1, <2>2
<1>4. Comparable(E)
  BY SourcesAre DEF Comparable, E
<1> QED BY <1>1, <1>3, <1>4 DEF E, q

\* A heap of the entries of the sources in Some that return something from f on gives
\* what they return.
LEMMA FilledGives ==
    ASSUME sources \in Collections, NEW r, NEW Some \in SUBSET DOMAIN sources, NEW f \in Nat,
           NEW h \in Seq([key : Keys, src : DOMAIN sources]), Distinct(h), OrderedFrom(h, 1),
           Range(h) = Range(Filled(r, Some, f))
    PROVE  Settled(r, h, Some) /\ Remaining(r, h) = Rest(r, Some, f)
<1>1. \A d : d \in Range(h) <=> \E s \in Some : NextOf(r, s, f) # None /\ d = Entry(r, s, f)
  <2> DEFINE q == Filled(r, Some, f)
  <2>1. \A d : d \in Range(q) <=> \E s \in Some : NextOf(r, s, f) # None /\ d = Entry(r, s, f)
    BY FilledIs
  <2>2. Range(h) = Range(q)
    OBVIOUS
  <2> HIDE DEF q
  <2> QED BY <2>1, <2>2
<1>2. \A s \in Some : Entry(r, s, f).src = s /\ Entry(r, s, f).key = NextOf(r, s, f)
  BY DEF Entry
<1>3. ASSUME NEW s \in Some, NextOf(r, s, f) # None
      PROVE  /\ NextOf(r, s, f) \in sources[s] /\ NextOf(r, s, f) \in Nat /\ NextOf(r, s, f) >= f
             /\ Accept(r, NextOf(r, s, f))
             /\ \A y \in sources[s] : y >= f => NextOf(r, s, f) <= y
  BY <1>3, NextIs
<1>4. Settled(r, h, Some)
  <2>1. h \in Heaps(Keys)
    BY DEF Heaps
  <2>2. \A d \in Range(h) : d.src \in Some /\ Live(r, d)
    BY <1>1, <1>2, <1>3 DEF Live
  <2> QED BY <2>1, <2>2 DEF Settled
<1>5. ASSUME NEW x PROVE x \in Remaining(r, h) <=> x \in Rest(r, Some, f)
  <2>1. x \in Rest(r, Some, f) <=>
               /\ x \in AllEntries /\ x[1] # Empty /\ Accept(r, x[1])
               /\ x[2] \in Some /\ x[1] >= f /\ NextOf(r, x[2], f) # None
    BY RestIs
  <2>2. x \in AllEntries => x[2] \in DOMAIN sources /\ x[1] \in sources[x[2]] /\ x[1] \in Nat
    BY AllEntriesAre, SourcesAre
  <2>3. ASSUME x \in Remaining(r, h) PROVE x \in Rest(r, Some, f)
    <3>1. /\ x \in AllEntries /\ x[1] # Empty /\ Accept(r, x[1])
      BY <2>3 DEF Remaining
    <3>2. PICK d \in Range(h) : Gives(d, x)
      BY <2>3 DEF Remaining
    <3>3. PICK s \in Some : NextOf(r, s, f) # None /\ d = Entry(r, s, f)
      BY <1>1, <3>2
    <3>4. s = x[2] /\ NextOf(r, s, f) <= x[1]
      BY <1>2, <3>2, <3>3 DEF Gives
    <3>5. NextOf(r, s, f) \in Nat /\ NextOf(r, s, f) >= f
      BY <1>3, <3>3
    <3>6. x[1] >= f
      BY <2>2, <3>1, <3>4, <3>5
    <3> QED BY <2>1, <3>1, <3>3, <3>4, <3>6
  <2>4. ASSUME x \in Rest(r, Some, f) PROVE x \in Remaining(r, h)
    <3>1. /\ x \in AllEntries /\ x[1] # Empty /\ Accept(r, x[1])
          /\ x[2] \in Some /\ x[1] >= f /\ NextOf(r, x[2], f) # None
      BY <2>1, <2>4
    <3>2. NextOf(r, x[2], f) <= x[1]
      BY <1>3, <2>2, <3>1
    <3> DEFINE d == Entry(r, x[2], f)
    <3>3. d \in Range(h) /\ d.src = x[2] /\ d.key = NextOf(r, x[2], f)
      BY <1>1, <1>2, <3>1
    <3> HIDE DEF d
    <3>4. Gives(d, x)
      BY <3>1, <3>2, <3>3 DEF Gives
    <3> QED BY <3>1, <3>3, <3>4 DEF Remaining
  <2> QED BY <2>3, <2>4
<1>6. Remaining(r, h) \subseteq AllEntries /\ Rest(r, Some, f) \subseteq AllEntries
  BY RestIs DEF Remaining
<1> QED BY <1>4, <1>5

\* What the entries of a heap and their iterators are going to return is what remains.
LEMMA RemainingIs ==
    ASSUME sources \in Collections, NEW r, NEW Some \in SUBSET DOMAIN sources, NEW h, Settled(r, h, Some)
    PROVE  Remaining(r, h) = UNION {Rest(r, {e.src}, e.key) : e \in Range(h)}
<1>1. ASSUME NEW e \in Range(h)
      PROVE  /\ e.src \in DOMAIN sources /\ {e.src} \in SUBSET DOMAIN sources /\ e.key \in Nat
             /\ e.key # None /\ NextOf(r, e.src, e.key) # None
  <2>1. e.src \in Some /\ e.key \in sources[e.src] /\ Accept(r, e.key)
    BY DEF Settled, Live
  <2>2. e.key \in Nat
    BY <2>1, SourcesAre
  <2> DEFINE T == {y \in sources[e.src] : y >= e.key}
  <2>3. sources[e.src] \subseteq Nat
    BY <2>1, SourcesAre
  <2>4. e.key \in T /\ T \in SUBSET Nat
    BY <2>1, <2>2, <2>3
  <2>5. Min(T) \in T /\ Min(T) <= e.key
    BY <2>4, MinIsLeast
  <2>6. Min(T) = e.key
    BY <2>2, <2>3, <2>5
  <2>7. NextOf(r, e.src, e.key) = e.key
    BY <2>1, <2>4, <2>6 DEF NextOf
  <2> QED BY <2>1, <2>2, <2>7 DEF None
<1>2. ASSUME NEW e \in Range(h), NEW x
      PROVE  x \in Rest(r, {e.src}, e.key) <=>
                 x \in AllEntries /\ x[1] # Empty /\ Accept(r, x[1]) /\ Gives(e, x)
  <2>1. x \in Rest(r, {e.src}, e.key) <=>
               /\ x \in AllEntries /\ x[1] # Empty /\ Accept(r, x[1])
               /\ x[2] \in {e.src} /\ x[1] >= e.key /\ NextOf(r, x[2], e.key) # None
    BY <1>1, RestIs
  <2>2. x \in AllEntries => x[1] \in Nat
    BY AllEntriesAre, SourcesAre
  <2> QED BY <1>1, <2>1, <2>2 DEF Gives
<1>3. ASSUME NEW x
      PROVE  x \in Remaining(r, h) <=> x \in UNION {Rest(r, {e.src}, e.key) : e \in Range(h)}
  <2>1. x \in Remaining(r, h) <=> \E e \in Range(h) : x \in Rest(r, {e.src}, e.key)
    BY <1>2 DEF Remaining
  <2> QED BY <2>1
<1> QED BY <1>3

-------------------------------------------------------------------------------
(* What is owed *)

\* Everything that there is within the bounds.
Promised(r) == {x \in AllEntries : x[1] # Empty /\ Accept(r, x[1])}

\* A seek within the bounds promises all of that from k on, and it is the sources in
\* Some that have it when the others had nothing from the lower bound on.
LEMMA RestIsFrom ==
    ASSUME sources \in Collections, NEW r, r.lo \in Keys, r.hi \in Keys,
           NEW Some \in SUBSET DOMAIN sources, NEW k \in Keys, r.lo <= k,
           \A s \in DOMAIN sources \ Some : NextOf(r, s, r.lo) = None
    PROVE  Rest(r, Some, k) = From(Promised(r), k)
<1>1. k \in Nat /\ r.lo \in Nat
  BY SourcesAre
<1>2. ASSUME NEW x \in Rest(r, Some, k) PROVE x \in From(Promised(r), k)
  <2>1. x \in AllEntries /\ x[1] # Empty /\ Accept(r, x[1]) /\ x[1] >= k
    BY <1>1, RestIs
  <2> QED BY <2>1 DEF From, Promised
<1>3. ASSUME NEW x \in From(Promised(r), k) PROVE x \in Rest(r, Some, k)
  <2>1. x \in AllEntries /\ x[1] # Empty /\ Accept(r, x[1]) /\ x[1] >= k
    BY DEF From, Promised
  <2>2. x[2] \in DOMAIN sources /\ x[1] \in sources[x[2]] /\ x[1] \in Nat
    BY <2>1, AllEntriesAre, SourcesAre
  <2>3. NextOf(r, x[2], k) # None
    BY <1>1, <2>1, <2>2, NextExists
  <2>4. x[1] >= r.lo
    BY <1>1, <2>1, <2>2
  <2>5. NextOf(r, x[2], r.lo) # None
    BY <1>1, <2>1, <2>2, <2>4, NextExists
  <2>6. x[2] \in Some
    BY <2>2, <2>5
  <2> QED BY <1>1, <2>1, <2>3, <2>6, RestIs
<1> QED BY <1>2, <1>3

\* What remains in the heap h leaves out nothing that comes after something in it, nor
\* after the current key; it leaves out the current key only when that was taken.
Kept(r, h, cur, p) ==
    /\ \A x \in Promised(r), y \in Remaining(r, h) : x[1] > y[1] => x \in Remaining(r, h)
    /\ cur # Empty =>
         /\ p # None => p <= cur
         /\ \A x \in Promised(r) :
                x[1] > cur \/ (x[1] = cur /\ cur # p /\ h # <<>>) => x \in Remaining(r, h)

LEMMA PromisedAre ==
    ASSUME sources \in Collections, NEW r
    PROVE  /\ \A x \in Promised(r) : x[1] \in Nat /\ x[1] # Empty
           /\ \A h : Remaining(r, h) \subseteq Promised(r)
BY AllEntriesAre, SourcesAre DEF Promised, Remaining

-------------------------------------------------------------------------------
(* The inductive invariant: the heap is in order and holds entries of the sources *)
(* that take part, with keys within the bounds; and, unless a seek left the bounds, *)
(* the other sources have nothing there, no entry is left out but those of the key *)
(* that was taken last, and what remains is what is owed. *)

Inv ==
    /\ sources \in Collections /\ opt \in [merge : BOOLEAN, dupsort : BOOLEAN]
    /\ alive \in BOOLEAN /\ asked \in [type : Types, lo : Keys, hi : Keys]
    /\ entries \subseteq DOMAIN sources
    /\ it \in States(Keys) /\ it.val \in Seq(entries) /\ Settled(asked, it.heap, entries)
    /\ it.failed = FALSE /\ (it.finished => it.heap = <<>>)
    /\ todo \subseteq AllEntries /\ last \in Keys \cup {None}
    /\ missing \in BOOLEAN /\ outside \in BOOLEAN
    /\ alive /\ ~outside =>
         /\ \A s \in DOMAIN sources \ entries : NextOf(asked, s, asked.lo) = None
         /\ Kept(asked, it.heap, it.cur, last)
         /\ ~missing => todo = Remaining(asked, it.heap)

\* No step changes the sources.
LEMMA InvNext ==
    ASSUME sources \in Collections, opt \in [merge : BOOLEAN, dupsort : BOOLEAN],
           UNCHANGED <<sources, opt>>,
           alive' \in BOOLEAN, asked' \in [type : Types, lo : Keys, hi : Keys],
           entries' \subseteq DOMAIN sources,
           it' \in States(Keys), it'.val \in Seq(entries'), Settled(asked', it'.heap, entries'),
           it'.failed = FALSE, it'.finished => it'.heap = <<>>,
           todo' \subseteq AllEntries, last' \in Keys \cup {None},
           missing' \in BOOLEAN, outside' \in BOOLEAN,
           alive' /\ ~outside' =>
             /\ \A s \in DOMAIN sources \ entries' : NextOf(asked', s, asked'.lo) = None
             /\ Kept(asked', it'.heap, it'.cur, last')
             /\ ~missing' => todo' = Remaining(asked', it'.heap)
    PROVE  Inv'
<1>1. States(Keys)' = States(Keys) /\ AllEntries' = AllEntries
  BY DEF States, Heaps, AllEntries
<1>2. Settled(asked, it.heap, entries)'
  BY DEF Settled, Heaps, OrderedFrom, EntryLeq, Live, Accept
<1>3. Remaining(asked, it.heap)' = Remaining(asked', it'.heap)
  BY DEF Remaining, AllEntries, Accept, Gives
<1>4. Promised(asked)' = Promised(asked')
  BY DEF Promised, AllEntries, Accept
<1>5. Kept(asked, it.heap, it.cur, last)' <=> Kept(asked', it'.heap, it'.cur, last')
  BY <1>3, <1>4 DEF Kept
<1>6. (\A s \in DOMAIN sources \ entries : NextOf(asked, s, asked.lo) = None)' <=>
        \A s \in DOMAIN sources \ entries' : NextOf(asked', s, asked'.lo) = None
  BY DEF NextOf, Accept
<1> QED BY <1>1, <1>2, <1>3, <1>5, <1>6 DEF Inv

LEMMA FreshIs ==
    ASSUME sources \in Collections, NEW r
    PROVE  /\ Fresh \in States(Keys) /\ Fresh.val \in Seq({}) /\ Settled(r, Fresh.heap, {})
           /\ Remaining(r, Fresh.heap) = {} /\ Fresh.heap = <<>>
           /\ Fresh.failed = FALSE /\ Fresh.finished = FALSE
<1>1. /\ Fresh.heap = <<>> /\ Fresh.val = <<>> /\ Fresh.failed = FALSE /\ Fresh.finished = FALSE
      /\ Fresh.cur = 0 /\ Fresh.pending = FALSE
  BY DEF Fresh, Empty
<1>2. <<>> \in Heaps(Keys)
  <2>1. <<>> \in Seq([key : Keys, src : DOMAIN sources]) /\ Len(<<>>) = 0
    OBVIOUS
  <2> QED BY <2>1 DEF Heaps, Distinct
<1>3. Settled(r, <<>>, {})
  BY <1>2, EmptyHeap DEF Settled
<1>4. <<>> \in Seq({}) /\ <<>> \in Seq(DOMAIN sources)
  OBVIOUS
<1>5. Fresh \in States(Keys)
  BY <1>2, <1>4, SourcesAre DEF Fresh, States, Empty
<1>6. Remaining(r, <<>>) = {}
  BY EmptyHeap DEF Remaining
<1> QED BY <1>1, <1>3, <1>4, <1>5, <1>6

LEMMA InitInv == Init => Inv
<1> SUFFICES ASSUME Init PROVE Inv
  OBVIOUS
<1>1. /\ sources \in Collections /\ entries = {} /\ it = Fresh /\ todo = {} /\ alive = FALSE
      /\ last = None /\ missing = FALSE /\ outside = FALSE
  BY DEF Init
<1>2. asked \in [type : Types, lo : Keys, hi : Keys]
  BY SourcesAre, <1>1 DEF Init, Types
<1> QED BY <1>1, <1>2, FreshIs DEF Init, Inv

LEMMA CreateKeeps ==
    ASSUME Inv, NEW r \in Requests, Create(r)
    PROVE  Inv'
<1> DEFINE made == {s \in DOMAIN sources : NextOf(r, s, r.lo) # None}
           q == Filled(r, made, r.lo)
           h == PushedAll(q)
           E == [key : Keys, src : DOMAIN sources]
<1>1. sources \in Collections /\ opt \in [merge : BOOLEAN, dupsort : BOOLEAN]
  BY DEF Inv
<1>2. r \in [type : Types, lo : Keys, hi : Keys] /\ r.lo \in Nat
  BY <1>1, SourcesAre DEF Requests
<1>3. /\ asked' = r /\ entries' = made /\ it' = [Fresh EXCEPT !.heap = h]
      /\ todo' = Rest(r, DOMAIN sources, r.lo) /\ alive' = TRUE /\ UNCHANGED <<sources, opt>>
      /\ last' = None /\ missing' = FALSE /\ outside' = FALSE
  BY DEF Create
<1>4. /\ made \in SUBSET DOMAIN sources
      /\ \A s \in DOMAIN sources \ made : NextOf(r, s, r.lo) = None
  OBVIOUS
<1> HIDE DEF made
<1>5. q \in Seq(E) /\ Distinct(q) /\ Comparable(E)
  BY <1>1, <1>2, <1>4, FilledIs
<1> HIDE DEF q
<1>6. h \in Seq(E) /\ OrderedFrom(h, 1) /\ Range(h) = Range(q) /\ Distinct(h)
  BY <1>5, PushedAllKeeps
<1> HIDE DEF h
<1>7. Settled(r, h, made) /\ Remaining(r, h) = Rest(r, made, r.lo)
  BY <1>1, <1>2, <1>4, <1>6, FilledGives DEF q
<1>8. h \in Heaps(Keys)
  BY <1>6 DEF Heaps
<1>9. /\ it' \in States(Keys) /\ it'.heap = h /\ it'.val = <<>>
      /\ it'.failed = FALSE /\ it'.finished = FALSE
  <2>1. <<>> \in Seq(DOMAIN sources)
    OBVIOUS
  <2> QED BY <1>1, <1>3, <1>8, <2>1, SourcesAre DEF States, Fresh, Empty
<1>10. <<>> \in Seq(made)
  OBVIOUS
<1>11. r.lo \in Keys /\ r.hi \in Keys /\ r.lo <= r.lo
  BY <1>2
<1>12. Rest(r, made, r.lo) = From(Promised(r), r.lo)
  BY <1>1, <1>4, <1>11, RestIsFrom
<1>13. todo' = Remaining(r, h)
  <2>1. DOMAIN sources \in SUBSET DOMAIN sources
    OBVIOUS
  <2>2. Rest(r, DOMAIN sources, r.lo) = From(Promised(r), r.lo)
    BY <1>1, <1>11, <2>1, RestIsFrom
  <2> QED BY <1>3, <1>7, <1>12, <2>2
<1>14. it'.cur = Empty
  BY <1>3 DEF Fresh
<1>15. Kept(r, h, it'.cur, last')
  <2>1. Remaining(r, h) = From(Promised(r), r.lo)
    BY <1>7, <1>12
  <2>2. \A x \in Promised(r) : x[1] \in Nat
    BY <1>1, PromisedAre
  <2> QED BY <1>2, <1>14, <2>1, <2>2 DEF Kept, From
<1>16. todo' \subseteq AllEntries
  BY <1>13 DEF Remaining
<1> HIDE DEF E
<1>17. last' \in Keys \cup {None} /\ missing' \in BOOLEAN /\ outside' \in BOOLEAN
  BY <1>3
<1> QED BY <1>1, <1>2, <1>3, <1>4, <1>7, <1>9, <1>10, <1>13, <1>15, <1>16, <1>17, InvNext

\* A seek backward builds a heap that gives everything from k on.
LEMMA KeptBySeekBackward ==
    ASSUME sources \in Collections, Bounded(asked), NEW k \in Keys, NEW cur \in Keys,
           NEW Some \in SUBSET DOMAIN sources, Settled(asked, it.heap, Some),
           it.heap = <<>> \/ cur = Empty \/ k < cur,
           Kept(asked, it.heap, cur, last), NEW h, h # <<>> =>
               \E d \in Range(h) : d.key >= k /\ d.key \in sources[d.src]
                                 /\ d.src \in DOMAIN sources /\ Accept(asked, d.key),
           Remaining(asked, h) = From(Promised(asked), k), NEW p, last \in Keys \cup {None},
           p = IF k < last THEN None ELSE last
    PROVE  Kept(asked, h, cur, p)
<1> DEFINE P == Promised(asked)
           R == Remaining(asked, it.heap)
           T == Remaining(asked, h)
<1>1. /\ \A x \in P : x[1] \in Nat
      /\ k \in Nat /\ cur \in Nat /\ (last = None \/ last \in Nat) /\ None \notin Nat
  BY PromisedAre, SourcesAre DEF None
<1>2. T = {x \in P : x[1] >= k}
  BY DEF From
<1>3. cur # Empty => /\ last # None => last <= cur
                     /\ \A x \in P : x[1] > cur => x \in R
  BY DEF Kept
<1>4. it.heap = <<>> => R = {}
  BY EmptyHeap DEF Remaining
<1>5. ASSUME h # <<>> PROVE \E x \in AllEntries : x[1] >= k /\ Accept(asked, x[1])
  <2>1. PICK d \in Range(h) : d.key >= k /\ d.key \in sources[d.src]
                              /\ d.src \in DOMAIN sources /\ Accept(asked, d.key)
    BY <1>5
  <2>2. <<d.key, d.src>> \in AllEntries
    BY <2>1, AllEntriesAre
  <2> QED BY <2>1, <2>2
<1>6. \A x \in AllEntries : x[1] # Empty /\ Accept(asked, x[1]) => x \in P
  BY DEF Promised
<1> HIDE DEF P, R, T
<1>7. ASSUME NEW x \in P, NEW y \in T, x[1] > y[1] PROVE x \in T
  BY <1>1, <1>2, <1>7
<1>8. ASSUME cur # Empty
      PROVE  /\ p # None => p <= cur
             /\ \A x \in P : x[1] > cur \/ (x[1] = cur /\ cur # p /\ h # <<>>) => x \in T
  <2>1. p # None => p <= cur
    BY <1>3, <1>8
  <2>2. CASE k <= cur
    BY <1>1, <1>2, <2>1, <2>2
  <2>3. CASE k > cur
    <3>1. it.heap = <<>>
      BY <1>1, <1>8, <2>3
    <3>2. \A x \in P : ~(x[1] > cur)
      BY <1>3, <1>4, <1>8, <3>1
    <3>3. h = <<>>
      <4>1. SUFFICES ASSUME h # <<>> PROVE FALSE
        OBVIOUS
      <4>2. PICK x \in AllEntries : x[1] >= k /\ Accept(asked, x[1])
        BY <1>5, <4>1
      <4>3. x[1] \in Nat
        BY AllEntriesAre, SourcesAre
      <4>4. x[1] > cur /\ x[1] # Empty
        BY <1>1, <2>3, <4>2, <4>3 DEF Empty
      <4> QED BY <1>6, <3>2, <4>2, <4>4
    <3> QED BY <2>1, <3>2, <3>3
  <2> QED BY <1>1, <2>2, <2>3
<1> QED BY <1>7, <1>8 DEF Kept, P, T

\* A seek forward leaves what remains from k on, and either moves to k or changes nothing.
LEMMA KeptBySeekForward ==
    ASSUME sources \in Collections, NEW k \in Keys, NEW cur \in Keys,
           it.heap # <<>>, cur # Empty, cur <= k,
           Kept(asked, it.heap, cur, last), NEW h, NEW c,
           Remaining(asked, h) = From(Remaining(asked, it.heap), k),
           c = k \/ (c = cur /\ h = it.heap), NEW p, last \in Keys \cup {None},
           p = IF k < last THEN None ELSE last
    PROVE  /\ Kept(asked, h, c, p)
           /\ k # last => Remaining(asked, h) = From(Promised(asked), k)
<1> DEFINE P == Promised(asked)
           R == Remaining(asked, it.heap)
           T == Remaining(asked, h)
<1>1. /\ \A x \in P : x[1] \in Nat
      /\ R \subseteq P
      /\ k \in Nat /\ cur \in Nat /\ (last = None \/ last \in Nat) /\ None \notin Nat
  BY PromisedAre, SourcesAre DEF None
<1>2. T = {x \in R : x[1] >= k}
  BY DEF From
<1>3. /\ \A x \in P, y \in R : x[1] > y[1] => x \in R
      /\ last # None => last <= cur
      /\ \A x \in P : x[1] > cur \/ (x[1] = cur /\ cur # last) => x \in R
  BY DEF Kept
<1>4. p = last
  BY <1>1, <1>3
<1> HIDE DEF P, R, T
<1>5. \A x \in P : x[1] > k \/ (x[1] = k /\ k # last) => x \in R
  BY <1>1, <1>3
<1>6. ASSUME NEW x \in P, NEW y \in T, x[1] > y[1] PROVE x \in T
  BY <1>1, <1>2, <1>3, <1>6
<1>7. CASE c = k
  <2>1. p # None => p <= c
    BY <1>1, <1>3, <1>4, <1>7
  <2>2. ASSUME NEW x \in P, x[1] > c \/ (x[1] = c /\ c # p /\ h # <<>>) PROVE x \in T
    BY <1>1, <1>2, <1>4, <1>5, <1>7, <2>2
  <2>3. Kept(asked, h, c, p)
    BY <1>6, <2>1, <2>2 DEF Kept, P, T
  <2>4. k # last => T = {x \in P : x[1] >= k}
    BY <1>1, <1>2, <1>5
  <2> QED BY <2>3, <2>4 DEF From, P, T
<1>8. CASE c = cur /\ h = it.heap
  <2>1. Kept(asked, h, c, p)
    BY <1>4, <1>8
  <2>2. k # last => T = {x \in P : x[1] >= k}
    BY <1>1, <1>2, <1>5
  <2> QED BY <2>1, <2>2 DEF From, P, T
<1> QED BY <1>7, <1>8

LEMMA SeekKeeps ==
    ASSUME Inv, NEW k \in Keys, Seek(k)
    PROVE  Inv'
<1> DEFINE n == [it EXCEPT !.finished = FALSE, !.pending = FALSE]
           E == [key : Keys, src : DOMAIN sources]
<1>1. /\ sources \in Collections /\ opt \in [merge : BOOLEAN, dupsort : BOOLEAN]
      /\ alive \in BOOLEAN /\ asked \in [type : Types, lo : Keys, hi : Keys]
      /\ entries \in SUBSET DOMAIN sources
      /\ it \in States(Keys) /\ it.val \in Seq(entries) /\ Settled(asked, it.heap, entries)
      /\ it.failed = FALSE /\ last \in Keys \cup {None}
      /\ outside \in BOOLEAN
      /\ alive /\ ~outside =>
           /\ \A s \in DOMAIN sources \ entries : NextOf(asked, s, asked.lo) = None
           /\ Kept(asked, it.heap, it.cur, last)
  BY DEF Inv
<1>2. k \in Nat /\ Bounded(asked) /\ asked.lo \in Keys /\ asked.hi \in Keys /\ asked.lo \in Nat
  BY <1>1, SourcesAre DEF Bounded
<1>3. /\ UNCHANGED <<sources, opt, asked, alive, entries>> /\ alive
      /\ todo' = Rest(asked, DOMAIN sources, k)
      /\ missing' = (k = last)
      /\ last' = IF k < last THEN None ELSE last
      /\ outside' = (outside \/ k < asked.lo)
  BY DEF Seek, request
<1>4. /\ it.heap \in Heaps(Keys) /\ it.cur \in Keys /\ it.val \in Seq(DOMAIN sources)
      /\ it.finished \in BOOLEAN /\ it.pending \in BOOLEAN
      /\ it = [heap |-> it.heap, cur |-> it.cur, val |-> it.val, finished |-> it.finished,
               pending |-> it.pending, failed |-> it.failed]
  BY <1>1 DEF States
<1>5. /\ n \in States(Keys) /\ n.heap = it.heap /\ n.val = it.val /\ n.failed = FALSE
      /\ n.cur = it.cur
  BY <1>1, <1>4 DEF States
<1>6. todo' \subseteq AllEntries
  <2>1. DOMAIN sources \in SUBSET DOMAIN sources
    OBVIOUS
  <2> QED BY <1>1, <1>2, <1>3, <2>1, RestIs
<1>7. last' \in Keys \cup {None} /\ missing' \in BOOLEAN /\ outside' \in BOOLEAN
  BY <1>1, <1>3
<1>8. ASSUME ~outside'
      PROVE  /\ ~outside /\ asked.lo <= k
             /\ Rest(asked, entries, k) = From(Promised(asked), k)
             /\ todo' = From(Promised(asked), k)
  <2>1. ~outside /\ asked.lo <= k
    <3>1. ~outside /\ ~(k < asked.lo)
      BY <1>3, <1>8, Zenon
    <3> QED BY <1>2, <3>1
  <2>2. Rest(asked, entries, k) = From(Promised(asked), k)
    BY <1>1, <1>2, <1>3, <2>1, RestIsFrom
  <2>3. DOMAIN sources \in SUBSET DOMAIN sources
    OBVIOUS
  <2>4. Rest(asked, DOMAIN sources, k) = From(Promised(asked), k)
    BY <1>1, <1>2, <2>1, <2>3, RestIsFrom
  <2> QED BY <1>3, <2>1, <2>2, <2>4
<1>9. CASE Backward(it, k)
  <2> DEFINE q == Filled(asked, entries, k)
             h == H!Heapify(q)
  <2>1. it' = [n EXCEPT !.heap = h]
    BY <1>9 DEF Seek, Sought
  <2>2. it.heap = <<>> \/ it.cur = Empty \/ k < it.cur
    BY <1>9 DEF Backward
  <2>3. /\ q \in Seq(E) /\ Distinct(q) /\ Comparable(E)
        /\ \A d : d \in Range(q) <=>
               \E s \in entries : NextOf(asked, s, k) # None /\ d = Entry(asked, s, k)
    BY <1>1, <1>2, FilledIs
  <2> HIDE DEF q
  <2>4. h \in Seq(E) /\ OrderedFrom(h, 1) /\ Range(h) = Range(q) /\ Distinct(h)
    BY <2>3, HeapifyKeeps
  <2> HIDE DEF h
  <2>5. Settled(asked, h, entries) /\ Remaining(asked, h) = Rest(asked, entries, k)
    BY <1>1, <1>2, <2>4, FilledGives DEF q
  <2>6. h \in Heaps(Keys)
    BY <2>4 DEF Heaps
  <2>7. /\ it' \in States(Keys) /\ it'.heap = h /\ it'.val = it.val
        /\ it'.failed = FALSE /\ it'.finished = FALSE /\ it'.cur = it.cur
    BY <1>1, <1>4, <2>1, <2>6 DEF States
  <2>8. h # <<>> => \E d \in Range(h) : d.key >= k /\ d.key \in sources[d.src]
                                 /\ d.src \in DOMAIN sources /\ Accept(asked, d.key)
    <3> SUFFICES ASSUME h # <<>>
                 PROVE  \E d \in Range(h) : d.key >= k /\ d.key \in sources[d.src]
                                 /\ d.src \in DOMAIN sources /\ Accept(asked, d.key)
      OBVIOUS
    <3>1. h[1] \in Range(h)
      BY <2>4, LenProperties DEF Range
    <3>2. PICK s \in entries : NextOf(asked, s, k) # None /\ h[1] = Entry(asked, s, k)
      BY <2>3, <2>4, <3>1
    <3>3. h[1].src = s /\ h[1].key = NextOf(asked, s, k)
      BY <3>2 DEF Entry
    <3>4. /\ NextOf(asked, s, k) \in sources[s] /\ NextOf(asked, s, k) >= k
          /\ Accept(asked, NextOf(asked, s, k))
      BY <1>1, <1>2, <3>2, NextIs
    <3> QED BY <1>1, <3>1, <3>3, <3>4
  <2> HIDE DEF E, n
  <2>9. ASSUME ~outside'
        PROVE  /\ \A s \in DOMAIN sources \ entries : NextOf(asked, s, asked.lo) = None
               /\ Kept(asked, h, it.cur, last')
               /\ todo' = Remaining(asked, h)
    <3>1. /\ \A s \in DOMAIN sources \ entries : NextOf(asked, s, asked.lo) = None
          /\ Kept(asked, it.heap, it.cur, last)
      BY <1>1, <1>3, <1>8, <2>9
    <3>2. Remaining(asked, h) = From(Promised(asked), k) /\ todo' = Remaining(asked, h)
      BY <1>8, <2>5, <2>9
    <3>3. Kept(asked, h, it.cur, last')
      BY <1>1, <1>2, <1>3, <1>4, <2>2, <2>8, <3>1, <3>2, KeptBySeekBackward
    <3> QED BY <3>1, <3>2, <3>3
  <2> QED BY <1>1, <1>3, <1>6, <1>7, <2>5, <2>7, <2>9, InvNext
<1>10. CASE ~Backward(it, k)
  <2>1. it' = Forwarded(n, k)
    BY <1>10 DEF Seek, Sought
  <2>2. it.cur # Empty /\ it.cur <= k /\ it.heap # <<>>
    <3>1. it.cur \in Nat
      BY <1>1, <1>4, SourcesAre
    <3> QED BY <1>2, <1>10, <3>1 DEF Backward
  <2> HIDE DEF n, E
  <2>3. /\ it' \in States(Keys) /\ Settled(asked, it'.heap, entries) /\ it'.val \in Seq(entries)
        /\ it'.failed = n.failed
        /\ Remaining(asked, it'.heap) = From(Remaining(asked, n.heap), k)
        /\ it'.finished <=> it'.heap = <<>>
        /\ it'.cur = k \/ (it'.cur = n.cur /\ it'.heap = n.heap)
    BY <1>1, <1>2, <1>5, <2>1, ForwardedIs
  <2>4. ASSUME ~outside'
        PROVE  /\ \A s \in DOMAIN sources \ entries : NextOf(asked, s, asked.lo) = None
               /\ Kept(asked, it'.heap, it'.cur, last')
               /\ ~missing' => todo' = Remaining(asked, it'.heap)
    <3>1. /\ \A s \in DOMAIN sources \ entries : NextOf(asked, s, asked.lo) = None
          /\ Kept(asked, it.heap, it.cur, last)
      BY <1>1, <1>3, <1>8, <2>4
    <3>2. /\ Kept(asked, it'.heap, it'.cur, last')
          /\ k # last => Remaining(asked, it'.heap) = From(Promised(asked), k)
      BY <1>1, <1>3, <1>4, <1>5, <2>2, <2>3, <3>1, KeptBySeekForward
    <3> QED BY <1>3, <1>8, <2>4, <3>1, <3>2
  <2> QED BY <1>1, <1>3, <1>5, <1>6, <1>7, <2>3, <2>4, InvNext
<1> QED BY <1>9, <1>10

\* What a call collects.
Call(fail) == Collected([it EXCEPT !.cur = Empty, !.val = <<>>], fail)

LEMMA CallIs ==
    ASSUME Inv, NEW fail, it.finished = FALSE
    PROVE  /\ Call(fail) \in States(Keys) /\ Settled(asked, Call(fail).heap, entries)
           /\ Call(fail).val \in Seq(entries)
           /\ Accounted(Remaining(asked, it.heap), Call(fail))
           /\ Call(fail).finished <=> Call(fail).heap = <<>>
           /\ Call(fail).failed => fail # 0
           /\ ~Call(fail).failed =>
                \/ Call(fail).heap = <<>>
                \/ /\ Call(fail).cur # Empty
                   /\ opt.merge => Call(fail).cur < Call(fail).heap[1].key
<1> DEFINE n == [it EXCEPT !.cur = Empty, !.val = <<>>]
<1>1. /\ sources \in Collections
      /\ asked \in [type : Types, lo : Keys, hi : Keys]
      /\ entries \in SUBSET DOMAIN sources
      /\ it \in States(Keys) /\ Settled(asked, it.heap, entries)
      /\ it.failed = FALSE
  BY DEF Inv
<1>2. Bounded(asked)
  BY <1>1 DEF Bounded
<1>3. /\ it.heap \in Heaps(Keys)
      /\ it.finished \in BOOLEAN /\ it.pending \in BOOLEAN /\ it.failed \in BOOLEAN
      /\ it = [heap |-> it.heap, cur |-> it.cur, val |-> it.val, finished |-> it.finished,
               pending |-> it.pending, failed |-> it.failed]
  BY <1>1 DEF States
<1>4. /\ n \in States(Keys) /\ n.heap = it.heap /\ n.val = <<>> /\ n.cur = Empty
      /\ n.failed = FALSE /\ n.finished = FALSE
  <2>1. <<>> \in Seq(DOMAIN sources) /\ Empty \in Keys
    BY <1>1, SourcesAre DEF Empty
  <2> QED BY <1>1, <1>3, <2>1 DEF States
<1>5. Call(fail) = Collected(n, fail)
  BY DEF Call
<1> HIDE DEF n
<1> DEFINE r == Collected(n, fail)
<1>6. /\ r \in States(Keys) /\ Settled(asked, r.heap, entries) /\ r.val \in Seq(entries)
      /\ Accounted(Remaining(asked, n.heap), r)
      /\ r.finished <=> r.heap = <<>>
      /\ r.failed => fail # 0
      /\ ~r.failed => \/ r.heap = <<>>
                      \/ r.cur # Empty /\ (opt.merge => r.cur < r.heap[1].key)
  BY <1>1, <1>2, <1>4, CollectedIs
<1> HIDE DEF r
<1>7. Call(fail) = r
  BY <1>5 DEF r
<1> QED BY <1>1, <1>4, <1>6, <1>7

\* What a call that does not fail leaves of what remained.
LEMMA TakenAre ==
    ASSUME sources \in Collections, NEW h, NEW m \in States(Keys),
           Accounted(Remaining(asked, h), m)
    PROVE  /\ m.cur \in Nat
           /\ \A x \in Got(m) : x[1] = m.cur
           /\ m.cur = Empty => Remaining(asked, m.heap) = Remaining(asked, h)
           /\ m.cur # Empty => /\ m.pending /\ \E y \in Remaining(asked, h) : y[1] = m.cur
                               /\ \A x \in Remaining(asked, h) : m.cur <= x[1]
<1>1. m.cur \in Nat /\ m.val \in Seq(DOMAIN sources)
  BY SourcesAre DEF States
<1>2. \A x \in Got(m) : x[1] = m.cur
  BY DEF Got
<1>3. m.cur = Empty => Remaining(asked, m.heap) = Remaining(asked, h)
  <2>1. \A x \in Remaining(asked, h) : x[1] # Empty
    BY DEF Remaining
  <2> QED BY <1>2, <2>1 DEF Accounted
<1>4. ASSUME m.cur # Empty PROVE \E y \in Remaining(asked, h) : y[1] = m.cur
  <2>1. Len(m.val) > 0 /\ Got(m) \subseteq Remaining(asked, h)
    BY <1>4 DEF Accounted
  <2>2. 1 \in 1..Len(m.val) /\ DOMAIN m.val = 1..Len(m.val)
    BY <1>1, <2>1, LenProperties
  <2>3. m.val[1] \in Range(m.val)
    BY <2>2 DEF Range
  <2>4. <<m.cur, m.val[1]>> \in Got(m)
    BY <2>3 DEF Got
  <2> QED BY <2>1, <2>4
<1> QED BY <1>1, <1>2, <1>3, <1>4 DEF Accounted

LEMMA KeptByNext ==
    ASSUME sources \in Collections, NEW m \in States(Keys),
           Accounted(Remaining(asked, it.heap), m), Kept(asked, it.heap, it.cur, last), NEW p,
           m.cur # Empty => p = m.cur
    PROVE  Kept(asked, m.heap, m.cur, p)
<1> DEFINE P == Promised(asked)
           R == Remaining(asked, it.heap)
           T == Remaining(asked, m.heap)
<1>1. /\ \A x \in P, y \in R : x[1] > y[1] => x \in R
  BY DEF Kept
<1>2. T = R \ Got(m)
  BY DEF Accounted
<1>3. /\ \A x \in P : x[1] \in Nat
      /\ R \subseteq P
  BY PromisedAre
<1>4. /\ m.cur \in Nat /\ \A x \in Got(m) : x[1] = m.cur
      /\ m.cur = Empty => T = R
      /\ m.cur # Empty => /\ \E y \in R : y[1] = m.cur
                          /\ \A x \in R : m.cur <= x[1]
  BY TakenAre
<1> HIDE DEF P, R, T
<1>5. ASSUME NEW x \in P, NEW y \in T, x[1] > y[1] PROVE x \in T
  <2>1. CASE m.cur = Empty
    BY <1>1, <1>4, <1>5, <2>1
  <2>2. CASE m.cur # Empty
    <3>1. y \in R /\ x \in R
      BY <1>1, <1>2, <1>5
    <3>2. m.cur <= y[1] /\ x[1] \in Nat /\ y[1] \in Nat
      BY <1>3, <1>4, <2>2, <3>1
    <3>3. x[1] # m.cur
      BY <1>4, <1>5, <3>2
    <3> QED BY <1>2, <1>4, <3>1, <3>3
  <2> QED BY <2>1, <2>2
<1>6. ASSUME m.cur # Empty
      PROVE  /\ p # None => p <= m.cur
             /\ \A x \in P :
                    x[1] > m.cur \/ (x[1] = m.cur /\ m.cur # p /\ m.heap # <<>>) => x \in T
  <2>1. p = m.cur /\ p <= m.cur
    BY <1>4, <1>6
  <2>2. ASSUME NEW x \in P, x[1] > m.cur PROVE x \in T
    <3>1. PICK y \in R : y[1] = m.cur
      BY <1>4, <1>6
    <3>2. x \in R
      BY <1>1, <2>2, <3>1
    <3>3. x[1] # m.cur
      BY <1>3, <1>4, <2>2
    <3> QED BY <1>2, <1>4, <3>2, <3>3
  <2> QED BY <2>1, <2>2
<1> QED BY <1>5, <1>6 DEF Kept, P, T

LEMMA NextKeeps ==
    ASSUME Inv, NEW fail, NextCall(fail)
    PROVE  Inv'
<1>1. /\ sources \in Collections /\ opt \in [merge : BOOLEAN, dupsort : BOOLEAN]
      /\ alive \in BOOLEAN /\ asked \in [type : Types, lo : Keys, hi : Keys]
      /\ entries \subseteq DOMAIN sources
      /\ it \in States(Keys) /\ it.val \in Seq(entries) /\ Settled(asked, it.heap, entries)
      /\ it.failed = FALSE /\ (it.finished => it.heap = <<>>)
      /\ todo \subseteq AllEntries /\ last \in Keys \cup {None}
      /\ missing \in BOOLEAN /\ outside \in BOOLEAN
      /\ alive /\ ~outside =>
           /\ \A s \in DOMAIN sources \ entries : NextOf(asked, s, asked.lo) = None
           /\ Kept(asked, it.heap, it.cur, last)
           /\ ~missing => todo = Remaining(asked, it.heap)
  BY DEF Inv
<1>2. /\ UNCHANGED <<sources, opt, asked, alive, entries, outside>>
      /\ todo' = todo \ {<<ret'.key, s>> : s \in Range(ret'.val)}
  BY DEF NextCall, request
<1>3. todo' \subseteq AllEntries
  BY <1>1, <1>2
<1>4. ret' = Nothing => todo' = todo
  <2>1. Nothing.val = <<>> /\ Range(<<>>) = {}
    BY EmptyHeap DEF Nothing
  <2> QED BY <1>2, <2>1
<1>5. CASE it.finished
  <2>1. UNCHANGED <<it, missing>> /\ last' = None /\ todo' = todo
    BY <1>4, <1>5 DEF NextCall
  <2>2. Kept(asked, it.heap, it.cur, last) => Kept(asked, it.heap, it.cur, None)
    BY <1>1, <1>5 DEF Kept
  <2> QED BY <1>1, <1>2, <2>1, <2>2, InvNext
<1>6. CASE ~it.finished
  <2>1. it.finished = FALSE
    BY <1>1, <1>6 DEF States
  <2> DEFINE m == Call(fail)
  <2>2. /\ it' = [m EXCEPT !.failed = FALSE, !.pending = m.pending /\ m.failed]
        /\ ret' = IF m.pending /\ ~m.failed THEN [key |-> m.cur, val |-> m.val] ELSE Nothing
        /\ last' = IF m.pending THEN m.cur ELSE None
        /\ missing' = (missing \/ m.failed)
    BY <1>6 DEF NextCall, Call
  <2>3. /\ m \in States(Keys) /\ Settled(asked, m.heap, entries) /\ m.val \in Seq(entries)
        /\ Accounted(Remaining(asked, it.heap), m) /\ (m.finished <=> m.heap = <<>>)
    BY <2>1, CallIs
  <2> HIDE DEF m
  <2>4. /\ m.heap \in Heaps(Keys) /\ m.cur \in Keys /\ m.val \in Seq(DOMAIN sources)
        /\ m.finished \in BOOLEAN /\ m.pending \in BOOLEAN /\ m.failed \in BOOLEAN
        /\ m = [heap |-> m.heap, cur |-> m.cur, val |-> m.val, finished |-> m.finished,
                pending |-> m.pending, failed |-> m.failed]
    BY <2>3 DEF States
  <2>5. /\ it' \in States(Keys) /\ it'.heap = m.heap /\ it'.val = m.val /\ it'.failed = FALSE
        /\ it'.finished = m.finished /\ it'.cur = m.cur
    <3>1. (m.pending /\ m.failed) \in BOOLEAN
      BY <2>4
    <3> QED BY <2>2, <2>4, <3>1 DEF States
  <2>6. m.cur # Empty => m.pending
    BY <1>1, <2>3, TakenAre
  <2>7. ASSUME Kept(asked, it.heap, it.cur, last) PROVE Kept(asked, it'.heap, it'.cur, last')
    <3>1. m.cur # Empty => last' = m.cur
      BY <2>2, <2>6
    <3>2. Kept(asked, m.heap, m.cur, last')
      BY <1>1, <2>3, <2>7, <3>1, KeptByNext
    <3> QED BY <2>5, <3>2
  <2>8. ASSUME ~missing', todo = Remaining(asked, it.heap) PROVE todo' = Remaining(asked, it'.heap)
    <3>1. ~m.failed
      BY <2>2, <2>8
    <3>2. Remaining(asked, m.heap) = todo \ Got(m)
      BY <2>3, <2>8 DEF Accounted
    <3>3. CASE m.pending
      <4>1. ret'.key = m.cur /\ ret'.val = m.val
        BY <2>2, <3>1, <3>3
      <4> QED BY <1>2, <2>5, <3>2, <4>1 DEF Got
    <3>4. CASE ~m.pending
      <4>1. m.cur = Empty /\ todo' = todo
        BY <1>4, <2>2, <2>6, <3>4
      <4>2. Remaining(asked, m.heap) = todo
        BY <1>1, <2>3, <2>8, <4>1, TakenAre
      <4> QED BY <2>5, <4>1, <4>2
    <3> QED BY <3>3, <3>4
  <2>9. last' \in Keys \cup {None} /\ missing' \in BOOLEAN
    BY <1>1, <2>2, <2>4
  <2>10. ~missing' => ~missing
    BY <2>2
  <2>11. alive' /\ ~outside' =>
           /\ \A s \in DOMAIN sources \ entries' : NextOf(asked', s, asked'.lo) = None
           /\ Kept(asked', it'.heap, it'.cur, last')
           /\ ~missing' => todo' = Remaining(asked', it'.heap)
    BY <1>1, <1>2, <2>7, <2>8, <2>10
  <2> QED BY <1>1, <1>2, <1>3, <2>3, <2>5, <2>9, <2>11, InvNext
<1> QED BY <1>5, <1>6

LEMMA FreeKeeps ==
    ASSUME Inv, Free
    PROVE  Inv'
<1>1. /\ sources \in Collections /\ opt \in [merge : BOOLEAN, dupsort : BOOLEAN]
      /\ asked \in [type : Types, lo : Keys, hi : Keys]
  BY DEF Inv
<1>2. /\ UNCHANGED <<sources, opt, asked>> /\ alive' = FALSE /\ it' = Fresh /\ entries' = {}
      /\ todo' = {} /\ last' = None /\ missing' = FALSE /\ outside' = FALSE
  BY DEF Free, request
<1> QED BY <1>1, <1>2, FreshIs, InvNext

LEMMA StutterKeeps ==
    ASSUME Inv, UNCHANGED vars
    PROVE  Inv'
<1>1. /\ sources \in Collections /\ opt \in [merge : BOOLEAN, dupsort : BOOLEAN]
      /\ alive \in BOOLEAN /\ asked \in [type : Types, lo : Keys, hi : Keys]
      /\ entries \subseteq DOMAIN sources
      /\ it \in States(Keys) /\ it.val \in Seq(entries) /\ Settled(asked, it.heap, entries)
      /\ it.failed = FALSE /\ (it.finished => it.heap = <<>>)
      /\ todo \subseteq AllEntries /\ last \in Keys \cup {None}
      /\ missing \in BOOLEAN /\ outside \in BOOLEAN
      /\ alive /\ ~outside =>
           /\ \A s \in DOMAIN sources \ entries : NextOf(asked, s, asked.lo) = None
           /\ Kept(asked, it.heap, it.cur, last)
           /\ ~missing => todo = Remaining(asked, it.heap)
  BY DEF Inv
<1>2. UNCHANGED <<sources, opt, alive, asked, entries, it, todo, last, missing, outside>>
  BY DEF vars, request, history
<1> QED BY <1>1, <1>2, InvNext

THEOREM Invariant == Spec => []Inv
<1>1. Inv /\ [Next]_vars => Inv'
  <2> SUFFICES ASSUME Inv, [Next]_vars PROVE Inv'
    OBVIOUS
  <2>1. ASSUME NEW r \in Requests, Create(r) PROVE Inv'
    BY <2>1, CreateKeeps
  <2>2. ASSUME NEW k \in Keys, Seek(k) PROVE Inv'
    BY <2>2, SeekKeeps
  <2>3. ASSUME NEW fail \in 0..Cardinality(entries), NextCall(fail) PROVE Inv'
    BY <2>3, NextKeeps
  <2>4. ASSUME Free PROVE Inv'
    BY <2>4, FreeKeeps
  <2>5. ASSUME UNCHANGED vars PROVE Inv'
    BY <2>5, StutterKeeps
  <2> QED BY <2>1, <2>2, <2>3, <2>4, <2>5 DEF Next
<1> QED BY InitInv, <1>1, PTL DEF Spec

LEMMA InvTyped == Inv => TypeOK
<1> SUFFICES ASSUME Inv PROVE TypeOK
  OBVIOUS
<1> DEFINE E == [key : Keys \cup {None}, src : entries]
<1>1. /\ sources \in Collections /\ alive \in BOOLEAN
      /\ asked \in [type : Types, lo : Keys, hi : Keys] /\ entries \subseteq DOMAIN sources
      /\ it \in States(Keys) /\ it.val \in Seq(entries) /\ Settled(asked, it.heap, entries)
      /\ todo \subseteq AllEntries /\ last \in Keys \cup {None}
      /\ missing \in BOOLEAN /\ outside \in BOOLEAN
  BY DEF Inv
<1>2. it.heap \in Seq([key : Keys, src : DOMAIN sources])
  BY <1>1, UnfinishedAre DEF Settled
<1>3. /\ Len(it.heap) \in Nat /\ DOMAIN it.heap = 1..Len(it.heap)
      /\ it.heap = [i \in 1..Len(it.heap) |-> it.heap[i]]
  BY <1>2
<1>4. ASSUME NEW i \in 1..Len(it.heap) PROVE it.heap[i] \in E
  <2>1. it.heap[i] \in [key : Keys, src : DOMAIN sources]
    BY <1>2, ElementOfSeq
  <2>2. it.heap[i].src \in entries
    BY <1>1, <1>3 DEF Settled, Range
  <2> QED BY <2>1, <2>2
<1> HIDE DEF E
<1>5. it.heap \in Seq(E)
  <2>1. it.heap \in [1..Len(it.heap) -> E]
    BY <1>3, <1>4
  <2> QED BY <1>3, <2>1
<1>6. it.cur \in Keys /\ {it.finished, it.pending, it.failed} \subseteq BOOLEAN
  BY <1>1 DEF States
<1>7. {missing, outside} \subseteq BOOLEAN
  BY <1>1
<1> QED BY <1>1, <1>5, <1>6, <1>7 DEF TypeOK, E

THEOREM TypeCorrect == Spec => []TypeOK
BY Invariant, InvTyped, PTL

LEMMA InvOrdered == Inv => HeapOrdered
<1> SUFFICES ASSUME Inv PROVE HeapOrdered
  OBVIOUS
<1>1. sources \in Collections /\ Settled(asked, it.heap, entries)
  BY DEF Inv
<1>2. it.heap \in Seq([key : Keys, src : DOMAIN sources]) /\ Distinct(it.heap) /\ OrderedFrom(it.heap, 1)
  BY <1>1, UnfinishedAre DEF Settled
<1>3. ASSUME NEW i \in 1..Len(it.heap) PROVE it.heap[i].key # None
  <2>1. it.heap[i] \in [key : Keys, src : DOMAIN sources]
    BY <1>2, ElementOfSeq
  <2>2. it.heap[i].key \in Nat
    BY <1>1, <2>1, SourcesAre
  <2> QED BY <2>2 DEF None
<1>4. H!Ordered(it.heap)
  <2>1. ASSUME NEW i \in 2..Len(it.heap) PROVE EntryLeq(it.heap[i \div 2], it.heap[i])
    <3>1. i \div 2 >= 1
      <4>1. i \in Nat /\ i # 0 /\ i # 1
        BY <1>2, LenProperties
      <4> QED BY <4>1, Halves
    <3> QED BY <1>2, <3>1 DEF OrderedFrom
  <2> QED BY <2>1 DEF H!Ordered
<1> QED BY <1>2, <1>3, <1>4 DEF HeapOrdered

THEOREM HeapStaysOrdered == Spec => []HeapOrdered
BY Invariant, InvOrdered, PTL

LEMMA InvNothingLost == Inv => NothingLost
<1> SUFFICES ASSUME Inv PROVE NothingLost
  OBVIOUS
<1>1. /\ sources \in Collections /\ entries \in SUBSET DOMAIN sources
      /\ Settled(asked, it.heap, entries)
      /\ alive /\ Firm => todo = Remaining(asked, it.heap)
  BY DEF Inv, Firm
<1> QED BY <1>1, RemainingIs DEF NothingLost

THEOREM NothingIsLost == Spec => []NothingLost
BY Invariant, InvNothingLost, PTL

LEMMA CallReturnsLeast ==
    ASSUME Inv, NEW fail, NextCall(fail), Firm, todo # {}
    PROVE  IF ret' = Nothing THEN fail # 0
           ELSE LET got == {<<ret'.key, s>> : s \in Range(ret'.val)} IN
                /\ IF opt.merge THEN got = LeastKey ELSE got \subseteq LeastKey /\ Len(ret'.val) = 1
                /\ opt.dupsort =>
                     /\ \A i \in 2..Len(ret'.val) : ret'.val[i - 1] < ret'.val[i]
                     /\ \A x \in LeastKey \ got, y \in got : y[2] < x[2]
<1> DEFINE m == Call(fail)
<1>1. /\ sources \in Collections /\ it \in States(Keys) /\ (it.finished => it.heap = <<>>)
      /\ todo = Remaining(asked, it.heap)
  BY DEF Inv, Firm, NextCall
<1>2. it.finished = FALSE
  <2>1. it.heap # <<>>
    BY <1>1, EmptyHeap DEF Remaining
  <2> QED BY <1>1, <2>1 DEF States
<1>3. /\ m \in States(Keys) /\ Settled(asked, m.heap, entries) /\ Accounted(todo, m)
      /\ m.failed => fail # 0
      /\ ~m.failed => \/ m.heap = <<>>
                      \/ m.cur # Empty /\ (opt.merge => m.cur < m.heap[1].key)
  BY <1>1, <1>2, CallIs
<1>4. ret' = IF m.pending /\ ~m.failed THEN [key |-> m.cur, val |-> m.val] ELSE Nothing
  BY <1>2 DEF NextCall, Call
<1> HIDE DEF m
<1>5. CASE m.failed
  BY <1>3, <1>4, <1>5
<1>6. CASE ~m.failed
  <2>1. Remaining(asked, m.heap) = todo \ Got(m)
    BY <1>3 DEF Accounted
  <2>2. \A x \in todo : x[1] # Empty /\ x[1] \in Nat
    BY <1>1, AllEntriesAre, SourcesAre DEF Remaining
  <2>3. m.cur # Empty
    <3>1. CASE m.heap = <<>>
      <4>1. Remaining(asked, m.heap) = {}
        BY <3>1, EmptyHeap DEF Remaining
      <4>2. PICK x \in todo : x \in Got(m)
        BY <2>1, <4>1
      <4>3. x[1] = m.cur
        BY <4>2 DEF Got
      <4> QED BY <2>2, <4>3
    <3> QED BY <1>3, <1>6, <3>1
  <2>4. /\ m.pending /\ Len(m.val) > 0 /\ Got(m) \subseteq todo
        /\ \A x \in todo : m.cur <= x[1]
        /\ opt.merge \/ Len(m.val) = 1
        /\ opt.dupsort => /\ Ascending(m.val)
                          /\ \A x \in todo \ Got(m) : x[1] = m.cur => \A s \in Range(m.val) : s < x[2]
    BY <1>3, <2>3 DEF Accounted
  <2>5. m.cur \in Keys /\ m.cur \in Nat /\ m.val \in Seq(DOMAIN sources)
    BY <1>1, <1>3, SourcesAre DEF States
  <2>6. ret' = [key |-> m.cur, val |-> m.val]
    BY <1>4, <1>6, <2>4
  <2>7. ret'.key = m.cur /\ ret'.val = m.val /\ ret' # Nothing
    BY <2>5, <2>6 DEF Nothing, None
  <2>8. {<<ret'.key, s>> : s \in Range(ret'.val)} = Got(m)
    BY <2>7 DEF Got
  <2>9. \E x \in Got(m) : x[1] = m.cur
    <3>1. 1 \in 1..Len(m.val) /\ DOMAIN m.val = 1..Len(m.val)
      BY <2>4, <2>5, LenProperties
    <3>2. m.val[1] \in Range(m.val)
      BY <3>1 DEF Range
    <3>3. <<m.cur, m.val[1]>> \in Got(m)
      BY <3>2 DEF Got
    <3> QED BY <3>3
  <2>10. \A x : x \in LeastKey <=> x \in todo /\ x[1] = m.cur
    <3>1. ASSUME NEW x \in LeastKey PROVE x[1] = m.cur
      <4>1. x \in todo /\ x[1] <= m.cur
        BY <2>4, <2>9 DEF LeastKey
      <4> QED BY <2>2, <2>4, <2>5, <4>1
    <3>2. ASSUME NEW x \in todo, x[1] = m.cur PROVE x \in LeastKey
      BY <2>4, <3>2 DEF LeastKey
    <3> QED BY <3>1, <3>2 DEF LeastKey
  <2>11. \A x \in Got(m) : x[1] = m.cur /\ x[2] \in Range(m.val)
    BY DEF Got
  <2>12. Got(m) \subseteq LeastKey
    BY <2>4, <2>10, <2>11
  <2>13. ASSUME opt.merge PROVE Got(m) = LeastKey
    <3>1. ASSUME NEW x \in LeastKey, x \notin Got(m) PROVE FALSE
      <4>1. x \in Remaining(asked, m.heap) /\ x[1] = m.cur
        BY <2>1, <2>10, <3>1
      <4>2. m.heap # <<>> /\ m.heap[1].key \in Nat /\ m.heap[1].key <= m.cur
        BY <1>1, <1>3, <4>1, RestComesLater
      <4>3. m.cur < m.heap[1].key
        BY <1>3, <1>6, <2>13, <4>2
      <4> QED BY <2>5, <4>2, <4>3
    <3> QED BY <2>12, <3>1
  <2>14. ASSUME opt.dupsort
         PROVE  /\ \A i \in 2..Len(m.val) : m.val[i - 1] < m.val[i]
                /\ \A x \in LeastKey \ Got(m), y \in Got(m) : y[2] < x[2]
    <3>1. Ascending(m.val)
      BY <2>4, <2>14
    <3>2. ASSUME NEW x \in LeastKey \ Got(m), NEW y \in Got(m) PROVE y[2] < x[2]
      BY <2>4, <2>10, <2>11, <2>14, <3>2
    <3> QED BY <3>1, <3>2 DEF Ascending
  <2>15. ~opt.merge => Len(m.val) = 1
    BY <2>4
  <2> QED BY <2>7, <2>8, <2>12, <2>13, <2>14, <2>15
<1> QED BY <1>5, <1>6

THEOREM LeastIsReturned == Spec => NextReturnsLeast
<1> DEFINE Good == \A fail \in 0..Cardinality(entries) : NextCall(fail) /\ Firm /\ todo # {} =>
        IF ret' = Nothing THEN fail # 0
        ELSE LET got == {<<ret'.key, s>> : s \in Range(ret'.val)} IN
             /\ IF opt.merge THEN got = LeastKey ELSE got \subseteq LeastKey /\ Len(ret'.val) = 1
             /\ opt.dupsort =>
                  /\ \A i \in 2..Len(ret'.val) : ret'.val[i - 1] < ret'.val[i]
                  /\ \A x \in LeastKey \ got, y \in got : y[2] < x[2]
<1>1. Inv /\ [Next]_vars => [Good]_vars
  <2> SUFFICES ASSUME Inv PROVE Good
    OBVIOUS
  <2> QED BY CallReturnsLeast
<1> QED BY Invariant, <1>1, PTL DEF Spec, NextReturnsLeast

===============================================================================
