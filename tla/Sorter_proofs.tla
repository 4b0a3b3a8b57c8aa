------------------------------ MODULE Sorter_proofs ------------------------------
(***************************************************************************)
(* Proofs about Sorter, for any keys, any memory limit and any number of   *)
(* entries: what the handler's thread may do to the vector of chunks, that *)
(* no value is lost or doubled between mtbl_sorter_add() and the iterator, *)
(* and that the iterator returns them in order.                            *)
(*                                                                         *)
(* The inductive invariant is SorterInv.  Its parts are the types          *)
(* (SorterTyped), the jobs of the pool (PoolInv, JobsInv, WaitedInv), the  *)
(* entries nobody has merged yet (FreshInv), the places that hold the      *)
(* values (HeldInv) and what an iterator has left (ReturnInv).             *)
(***************************************************************************)
EXTENDS Sorter, Induction_proofs

\* Without a pool nothing is dispatched; once there has been an iterator the
\* handler is destroyed.
PoolInv ==
    /\ sent \in [{Handler} -> Nat] /\ closed \in [{Handler} -> BOOLEAN]
    /\ ~pooled => sent[Handler] = 0
    /\ iterating => Waited

\* What dispatching, delivering and closing do to what PoolInv speaks of
LEMMA DispatchKeeps ==
    ASSUME PoolInv, J!Dispatch(Handler)
    PROVE  /\ sent' \in [{Handler} -> Nat]
           /\ closed' = closed /\ delivered' = delivered
BY SorterAssumption DEF PoolInv, J!Dispatch

LEMMA NoneOutstanding ==
    ASSUME sent[Handler] = 0
    PROVE  J!Outstanding(Handler) = {}
BY DEF J!Outstanding

\* A flush delivers nothing, and without a pool it dispatches nothing.
LEMMA FlushKeeps ==
    ASSUME PoolInv, NEW v, NEW fail, Flush(v, fail)
    PROVE  /\ sent' \in [{Handler} -> Nat]
           /\ closed' = closed /\ delivered' = delivered
           /\ ~pooled => sent' = sent
<1>1. CASE pooled
    BY <1>1, DispatchKeeps DEF Flush
<1>2. CASE ~pooled
    BY <1>2 DEF Flush, jobs, PoolInv
<1> QED BY <1>1, <1>2

\* The handler's thread has nothing to do once there has been an iterator.
LEMMA NoDelivery ==
    ASSUME PoolInv, iterating, J!Deliver(Handler)
    PROVE  FALSE
<1>1. CASE pooled
    BY <1>1 DEF PoolInv, Waited, J!Deliver
<1>2. CASE ~pooled
    BY <1>2, NoneOutstanding DEF PoolInv, J!Deliver
<1> QED BY <1>1, <1>2

LEMMA PoolInit == Init => PoolInv
BY DEF Init, PoolInv, Waited, J!Init

LEMMA PoolStep ==
    ASSUME PoolInv, [Next]_vars
    PROVE  PoolInv'
<1> USE DEF PoolInv, Waited, jobs, output
<1>1. ASSUME NEW k \in Keys, NEW fail \in BOOLEAN, Add(k, fail) PROVE PoolInv'
  <2> DEFINE v == Append(vec, [key |-> k, val |-> <<added'>>])
  <2>1. CASE Flush(v, fail)
    <3> HIDE DEF v
    <3>1. /\ sent' \in [{Handler} -> Nat]
          /\ closed' = closed /\ delivered' = delivered
          /\ ~pooled => sent' = sent
        BY <2>1, FlushKeeps
    <3> QED BY <1>1, <3>1 DEF Add
  <2>2. CASE UNCHANGED jobs
      BY <1>1, <2>2 DEF Add
  <2> QED BY <1>1, <2>1, <2>2 DEF Add
<1>2. ASSUME NEW m \in {"iter", "write"}, NEW fail \in BOOLEAN, StartIter(m, fail) PROVE PoolInv'
  <2>1. CASE Unflushed
    <3>1. /\ sent' \in [{Handler} -> Nat]
          /\ closed' = closed /\ delivered' = delivered
          /\ ~pooled => sent' = sent
        BY <1>2, <2>1, FlushKeeps DEF StartIter
    <3> QED BY <1>2, <3>1 DEF StartIter
  <2>2. CASE ~Unflushed
      BY <1>2, <2>2 DEF StartIter
  <2> QED BY <2>1, <2>2
<1>3. CASE WriteRefused
    BY <1>3 DEF WriteRefused
<1>4. CASE DestroyHandler
    BY <1>4 DEF DestroyHandler, J!Close
<1>5. CASE FinishIter
    BY <1>5 DEF FinishIter
<1>6. ASSUME NEW S \in SUBSET Holders, IterNext(S) PROVE PoolInv'
    BY <1>6 DEF IterNext
<1>7. CASE IterEnd \/ WriterRefuses
    BY <1>7 DEF IterEnd, WriterRefuses
<1>8. CASE Destroy
    BY <1>8 DEF Destroy
<1>9. ASSUME NEW fail \in BOOLEAN, CollectReader(fail) PROVE PoolInv'
    BY <1>9 DEF CollectReader, J!Deliver
<1>10. CASE UNCHANGED vars
    BY <1>10 DEF vars
<1> QED BY <1>1, <1>2, <1>3, <1>4, <1>5, <1>6, <1>7, <1>8, <1>9, <1>10 DEF Next

\* What ReadersFixed says of a step
StepFixes == iterating => delivered' = delivered /\ (phase # "idle" => readers' = readers)

LEMMA FixedStep ==
    ASSUME PoolInv, [Next]_vars
    PROVE  StepFixes
<1> SUFFICES ASSUME iterating
             PROVE  delivered' = delivered /\ (phase # "idle" => readers' = readers)
    BY DEF StepFixes
<1> USE DEF jobs, output
<1>1. ASSUME NEW k \in Keys, NEW fail \in BOOLEAN, Add(k, fail) PROVE FALSE
    BY <1>1 DEF Add
<1>2. ASSUME NEW m \in {"iter", "write"}, NEW fail \in BOOLEAN, StartIter(m, fail)
      PROVE  delivered' = delivered /\ phase = "idle"
  <2>1. CASE Unflushed
      BY <1>2, <2>1, FlushKeeps DEF StartIter
  <2>2. CASE ~Unflushed
      BY <1>2, <2>2 DEF StartIter
  <2> QED BY <2>1, <2>2
<1>3. CASE WriteRefused
    BY <1>3 DEF WriteRefused
<1>4. CASE DestroyHandler
    BY <1>4 DEF DestroyHandler, J!Close
<1>5. CASE FinishIter
    BY <1>5 DEF FinishIter
<1>6. ASSUME NEW S \in SUBSET Holders, IterNext(S)
      PROVE  delivered' = delivered /\ readers' = readers
    BY <1>6 DEF IterNext
<1>7. CASE IterEnd \/ WriterRefuses
    BY <1>7 DEF IterEnd, WriterRefuses
<1>8. CASE Destroy
    BY <1>8 DEF Destroy
<1>9. ASSUME NEW fail \in BOOLEAN, CollectReader(fail) PROVE FALSE
    BY <1>9, NoDelivery DEF CollectReader
<1>10. CASE UNCHANGED vars
    BY <1>10 DEF vars
<1> QED BY <1>1, <1>2, <1>3, <1>4, <1>5, <1>6, <1>7, <1>8, <1>9, <1>10 DEF Next

\* Property ReadersFixed of run sorter: whatever the pool, the caller and the merge
\* function do, _collect_readers_cb() does not run once mtbl_sorter_iter() has
\* returned an iterator, so that nobody adds to the vector of readers or frees it
\* under the caller.
THEOREM ChunksAreFixed == Spec => ReadersFixed
<1>1. PoolInv /\ [Next]_vars => PoolInv'
    BY PoolStep
<1>2. PoolInv /\ [Next]_vars => [StepFixes]_vars
    BY FixedStep
<1> QED BY <1>1, <1>2, PoolInit, PTL DEF Spec, ReadersFixed, StepFixes

-------------------------------------------------------------------------------
(* What _mtbl_sorter_write_chunk() makes of a batch *)

\* One turn of its loop: the entries written so far are increasing, and the next
\* one is not below the last of them.
LEMMA MergeIntoKeeps ==
    ASSUME NEW w \in Seq(Entry), Increasing(w), Apart(w),
           NEW e \in Entry, IsInjective(e.val), Range(e.val) \cap Values(w) = {},
           w # <<>> => w[Len(w)].key <= e.key
    PROVE  LET r == MergeInto(w, e) IN
           /\ r \in Seq(Entry) /\ Increasing(r) /\ Apart(r)
           /\ Values(r) = Values(w) \cup Range(e.val)
           /\ r # <<>> /\ r[Len(r)].key = e.key
<1> DEFINE n == Len(w)
           r == MergeInto(w, e)
<1>1. /\ n \in Nat /\ (w = <<>> <=> n = 0)
      /\ \A i \in 1..n : w[i] \in Entry
  BY LenProperties, EmptySeq, ElementOfSeq
<1>2. /\ Keys \subseteq Nat /\ e.key \in Keys /\ e.val \in Seq(1..MaxAdds)
      /\ \A i \in 1..n : w[i].key \in Keys /\ w[i].val \in Seq(1..MaxAdds)
  <2>1. \A x \in Entry : x.key \in Keys /\ x.val \in Seq(1..MaxAdds)
    BY DEF Entry
  <2> QED BY <1>1, <2>1, SorterAssumption
<1>3. \A i \in 1..n : IsInjective(w[i].val) /\ Range(w[i].val) \cap Range(e.val) = {}
  BY DEF Apart, Values
<1>4. CASE n # 0 /\ w[n].key = e.key
  <2> DEFINE v == w[n].val \o e.val
             f == [w[n] EXCEPT !.val = v]
  <2>1. n \in 1..n /\ w[n] \in Entry
    BY <1>1, <1>4
  <2>2. /\ v \in Seq(1..MaxAdds) /\ IsInjective(v)
        /\ Range(v) = Range(w[n].val) \cup Range(e.val)
    BY <1>2, <1>3, <2>1, ConcatInjective
  <2> HIDE DEF v
  <2>3. f \in Entry /\ f.key = w[n].key /\ f.val = v
    BY <2>1, <2>2 DEF Entry
  <2> HIDE DEF f
  <2>4. r = [w EXCEPT ![n] = f]
    BY <1>1, <1>4 DEF MergeInto, Last, f, v
  <2>5. /\ r \in Seq(Entry) /\ Len(r) = n
        /\ \A i \in 1..n : r[i] = IF i = n THEN f ELSE w[i]
    BY <2>1, <2>3, <2>4, ExceptSeq
  <2> HIDE DEF r
  <2>6. \A i \in 1..n : r[i].key = w[i].key
    BY <2>3, <2>5
  <2>7. Increasing(r)
    BY <2>5, <2>6 DEF Increasing
  <2>8. \A i \in 1..n : r[i].val = IF i = n THEN v ELSE w[i].val
    BY <2>3, <2>5
  <2>9. Apart(r)
    <3>1. \A i \in 1..n : IsInjective(r[i].val)
      BY <1>3, <2>2, <2>8
    <3>2. ASSUME NEW i \in 1..n, NEW j \in 1..n, i # j
          PROVE  Range(r[i].val) \cap Range(r[j].val) = {}
      <4>1. \A x, y \in 1..n : x # y => Range(w[x].val) \cap Range(w[y].val) = {}
        BY DEF Apart
      <4>2. Range(w[i].val) \cap Range(w[j].val) = {}
        BY <3>2, <4>1
      <4>3. CASE i = n
        BY <1>3, <2>2, <2>8, <3>2, <4>2, <4>3
      <4>4. CASE j = n
        BY <1>3, <2>2, <2>8, <3>2, <4>2, <4>4
      <4>5. CASE i # n /\ j # n
        BY <2>8, <4>2, <4>5
      <4> QED BY <4>3, <4>4, <4>5
    <3> QED BY <2>5, <3>1, <3>2 DEF Apart
  <2>10. Values(r) = Values(w) \cup Range(e.val)
    <3>1. Values(r) = UNION {Range(r[i].val) : i \in 1..n}
      BY <2>5 DEF Values
    <3>2. Values(w) = UNION {Range(w[i].val) : i \in 1..n}
      BY DEF Values
    <3> QED BY <2>1, <2>2, <2>8, <3>1, <3>2
  <2> QED BY <1>1, <1>4, <2>1, <2>5, <2>6, <2>7, <2>9, <2>10, EmptySeq DEF r
<1>5. CASE ~(n # 0 /\ w[n].key = e.key)
  <2>1. r = Append(w, e)
    BY <1>1, <1>5 DEF MergeInto, Last
  <2>2. /\ r \in Seq(Entry) /\ Len(r) = n + 1 /\ r[n + 1] = e
        /\ \A i \in 1..n : r[i] = w[i]
    BY <2>1, AppendProperties
  <2> HIDE DEF r
  <2>3. \A i \in 1..(n + 1) : i \in 1..n \/ i = n + 1
    BY <1>1
  <2>4. ASSUME NEW i \in 1..(n + 1), NEW j \in 1..(n + 1), i < j PROVE r[i].key < r[j].key
    <3>1. i \in 1..n /\ n # 0
      BY <1>1, <2>4
    <3>2. CASE j \in 1..n
      BY <2>2, <2>4, <3>1, <3>2 DEF Increasing
    <3>3. CASE j = n + 1
      <4>1. n \in 1..n /\ w[n].key \in Nat /\ w[i].key \in Nat /\ e.key \in Nat
        <5>1. n \in 1..n
          BY <1>1, <3>1
        <5>2. w[n].key \in Keys /\ w[i].key \in Keys /\ e.key \in Keys
          BY <1>2, <3>1, <5>1
        <5> QED BY <1>2, <5>1, <5>2
      <4>2. w[n].key < e.key
        BY <1>1, <1>5, <3>1, <4>1
      <4>3. w[i].key <= w[n].key
        <5>1. i = n \/ i < n
          BY <1>1, <3>1
        <5>2. i < n => w[i].key < w[n].key
          BY <3>1, <4>1 DEF Increasing
        <5> QED BY <4>1, <5>1, <5>2
      <4> QED BY <2>2, <3>1, <3>3, <4>1, <4>2, <4>3
    <3> QED BY <2>3, <3>2, <3>3
  <2>5. Increasing(r)
    BY <2>2, <2>4 DEF Increasing
  <2>6. Apart(r)
    <3>1. \A i \in 1..(n + 1) : IsInjective(r[i].val)
      BY <1>3, <2>2, <2>3
    <3>2. ASSUME NEW i \in 1..(n + 1), NEW j \in 1..(n + 1), i # j
          PROVE  Range(r[i].val) \cap Range(r[j].val) = {}
      <4>1. \A x, y \in 1..n : x # y => Range(w[x].val) \cap Range(w[y].val) = {}
        BY DEF Apart
      <4> QED BY <1>3, <2>2, <2>3, <3>2, <4>1
    <3> QED BY <2>2, <3>1, <3>2 DEF Apart
  <2>7. Values(r) = Values(w) \cup Range(e.val)
    <3>1. Values(r) = UNION {Range(r[i].val) : i \in 1..(n + 1)}
      BY <2>2 DEF Values
    <3>2. Values(w) = UNION {Range(w[i].val) : i \in 1..n}
      BY DEF Values
    <3>3. n + 1 \in 1..(n + 1) /\ \A i \in 1..n : i \in 1..(n + 1)
      BY <1>1
    <3> QED BY <2>2, <2>3, <3>1, <3>2, <3>3
  <2>8. r # <<>> /\ r[Len(r)].key = e.key
    BY <1>1, <2>2, EmptySeq
  <2> QED BY <2>2, <2>5, <2>6, <2>7, <2>8 DEF r
<1> QED BY <1>4, <1>5

\* w[i] is what has been written after the first i entries of s.
Written(w, s, n) ==
    /\ w[0] = <<>>
    /\ \A i \in 1..n : w[i] = MergeInto(w[i - 1], s[i])

WrittenFunction(w, s) ==
    w = [i \in 0..Len(s) |-> IF i = 0 THEN <<>> ELSE MergeInto(w[i - 1], s[i])]

LEMMA WrittenExists ==
    ASSUME NEW s, Len(s) \in Nat
    PROVE  \E w : WrittenFunction(w, s)
<1> DEFINE Good(n) == \E w : w = [i \in 0..n |-> IF i = 0 THEN <<>> ELSE MergeInto(w[i - 1], s[i])]
           S == {n \in Nat : Good(n)}
<1>1. 0 \in S
  <2> DEFINE w == [i \in 0..0 |-> <<>>]
  <2>1. w = [i \in 0..0 |-> IF i = 0 THEN <<>> ELSE MergeInto(w[i - 1], s[i])]
    OBVIOUS
  <2> HIDE DEF w
  <2> QED BY <2>1
<1>2. ASSUME NEW n \in Nat, n \in S PROVE n + 1 \in S
  <2>1. PICK w : w = [i \in 0..n |-> IF i = 0 THEN <<>> ELSE MergeInto(w[i - 1], s[i])]
    BY <1>2
  <2> DEFINE last == MergeInto(w[n], s[n + 1])
             x == [i \in 0..(n + 1) |-> IF i <= n THEN w[i] ELSE last]
             y == [i \in 0..(n + 1) |-> IF i = 0 THEN <<>> ELSE MergeInto(x[i - 1], s[i])]
  <2>2. ASSUME NEW i \in 0..(n + 1) PROVE x[i] = IF i = 0 THEN <<>> ELSE MergeInto(x[i - 1], s[i])
    <3> HIDE DEF last
    <3>1. CASE i = 0
      <4>1. x[0] = w[0] /\ 0 \in 0..n
        OBVIOUS
      <4> HIDE DEF x
      <4>2. w[0] = <<>>
        BY <2>1, <4>1
      <4> QED BY <3>1, <4>1, <4>2
    <3>2. CASE i \in 1..n
      <4>1. i \in 0..n /\ i # 0 /\ i - 1 \in 0..(n + 1) /\ i - 1 <= n /\ i <= n
        BY <3>2
      <4>2. x[i] = w[i] /\ x[i - 1] = w[i - 1]
        BY <4>1
      <4> HIDE DEF x
      <4>3. w[i] = MergeInto(w[i - 1], s[i])
        BY <2>1, <4>1
      <4> QED BY <4>1, <4>2, <4>3
    <3>3. CASE i = n + 1
      <4>1. n + 1 \in 0..(n + 1) /\ ~(n + 1 <= n) /\ n \in 0..(n + 1) /\ n <= n /\ (n + 1) - 1 = n /\ n + 1 # 0
        OBVIOUS
      <4>2. x[n + 1] = last /\ x[n] = w[n]
        BY <4>1
      <4> HIDE DEF x
      <4> QED BY <3>3, <4>1, <4>2 DEF last
    <3> QED BY <3>1, <3>2, <3>3
  <2>3. x = y
    <3>1. \A i \in 0..(n + 1) : x[i] = y[i]
      <4> HIDE DEF x
      <4> QED BY <2>2
    <3> HIDE DEF last
    <3> QED BY <3>1
  <2> HIDE DEF x
  <2> QED BY <2>3
<1>3. \A n \in Nat : n \in S
  <2> HIDE DEF S
  <2> QED BY <1>1, <1>2, Induction
<1> QED BY <1>3 DEF WrittenFunction

LEMMA MergedIsLast ==
    ASSUME NEW s, Len(s) \in Nat
    PROVE  \E w : Written(w, s, Len(s)) /\ Merged(s) = w[Len(s)]
<1> DEFINE f == CHOOSE w : WrittenFunction(w, s)
<1>1. WrittenFunction(f, s)
  BY WrittenExists
<1>2. Merged(s) = f[Len(s)]
  BY DEF Merged, WrittenFunction
<1> HIDE DEF f
<1>3. \A i \in 0..Len(s) : f[i] = IF i = 0 THEN <<>> ELSE MergeInto(f[i - 1], s[i])
  BY <1>1 DEF WrittenFunction
<1>4. f[0] = <<>> /\ \A i \in 1..Len(s) : f[i] = MergeInto(f[i - 1], s[i])
  BY <1>3
<1>5. Written(f, s, Len(s))
  BY <1>4 DEF Written
<1> QED BY <1>2, <1>5

\* The entries of one batch: typed, increasing and with every value once
WellWritten(w, s) ==
    /\ w \in Seq(Entry) /\ Increasing(w) /\ Apart(w)
    /\ Values(w) = Values(s)

\* The whole loop, on entries that qsort() has sorted
LEMMA MergedKeeps ==
    ASSUME NEW s \in Seq(Entry), Apart(s),
           \A i, j \in 1..Len(s) : i < j => s[i].key <= s[j].key
    PROVE  WellWritten(Merged(s), s)
<1> DEFINE n == Len(s)
           In(i) == UNION {Range(s[j].val) : j \in 1..i}
<1>1. n \in Nat /\ \A i \in 1..n : s[i] \in Entry /\ IsInjective(s[i].val)
  BY LenProperties, ElementOfSeq DEF Apart
<1>2. PICK w : Written(w, s, n) /\ Merged(s) = w[n]
  BY <1>1, MergedIsLast
<1> DEFINE Good(i) == /\ w[i] \in Seq(Entry) /\ Increasing(w[i]) /\ Apart(w[i])
                      /\ Values(w[i]) = In(i)
                      /\ w[i] # <<>> => i \in 1..n /\ w[i][Len(w[i])].key = s[i].key
           S == {i \in Nat : i <= n => Good(i)}
<1>3. 0 \in S
  <2>1. w[0] = <<>>
    BY <1>2 DEF Written
  <2>2. <<>> \in Seq(Entry) /\ Increasing(<<>>) /\ Apart(<<>>) /\ Values(<<>>) = {}
    BY EmptySeq DEF Increasing, Apart, Values
  <2>3. In(0) = {}
    OBVIOUS
  <2> HIDE DEF In
  <2>4. Good(0)
    BY <2>1, <2>2, <2>3
  <2> HIDE DEF Good
  <2> QED BY <2>4
<1>4. ASSUME NEW i \in Nat, i \in S PROVE i + 1 \in S
  <2> SUFFICES ASSUME i + 1 <= n PROVE Good(i + 1)
    OBVIOUS
  <2> DEFINE e == s[i + 1]
             r == MergeInto(w[i], e)
  <2>1. i + 1 \in 1..n /\ (i + 1) - 1 = i /\ i <= n
    BY <1>1
  <2>2. Good(i)
    BY <1>4, <2>1
  <2>3. w[i + 1] = r
    <3>1. w[i + 1] = MergeInto(w[(i + 1) - 1], s[i + 1])
      BY <1>2, <2>1 DEF Written
    <3> QED BY <2>1, <3>1
  <2>4. e \in Entry /\ IsInjective(e.val)
    BY <1>1, <2>1
  <2>5. Range(e.val) \cap Values(w[i]) = {}
    <3> SUFFICES ASSUME NEW j \in 1..i PROVE Range(s[j].val) \cap Range(s[i + 1].val) = {}
      BY <2>2
    <3>1. j \in 1..n /\ j # i + 1
      BY <1>1, <2>1
    <3> QED BY <2>1, <3>1 DEF Apart
  <2>6. w[i] # <<>> => w[i][Len(w[i])].key <= e.key
    <3> SUFFICES ASSUME w[i] # <<>> PROVE w[i][Len(w[i])].key <= e.key
      OBVIOUS
    <3>1. i \in 1..n /\ i < i + 1 /\ w[i][Len(w[i])].key = s[i].key
      BY <1>1, <2>2
    <3> QED BY <2>1, <3>1
  <2>7. In(i + 1) = In(i) \cup Range(e.val)
    <3>1. 1..(i + 1) = (1..i) \cup {i + 1}
      OBVIOUS
    <3> QED BY <3>1
  <2>8. /\ r \in Seq(Entry) /\ Increasing(r) /\ Apart(r)
        /\ Values(r) = Values(w[i]) \cup Range(e.val)
        /\ r # <<>> /\ r[Len(r)].key = e.key
    <3> HIDE DEF e, In
    <3> QED BY <2>2, <2>4, <2>5, <2>6, MergeIntoKeeps
  <2>9. Values(r) = In(i + 1)
    BY <2>2, <2>7, <2>8
  <2>10. e.key = s[i + 1].key
    OBVIOUS
  <2> HIDE DEF r, In, e
  <2> QED BY <2>1, <2>3, <2>8, <2>9, <2>10
<1>5. n \in S
  <2>1. \A i \in Nat : i \in S
    <3> HIDE DEF S
    <3> QED BY <1>3, <1>4, Induction
  <2> HIDE DEF S
  <2> QED BY <1>1, <2>1
<1>6. Good(n)
  <2>1. n <= n
    BY <1>1
  <2> HIDE DEF Good
  <2> QED BY <1>5, <2>1
<1>7. In(n) = Values(s)
  BY DEF Values
<1> HIDE DEF In
<1> QED BY <1>2, <1>6, <1>7 DEF WellWritten

\* Sorting changes the order of the entries and nothing else.
LEMMA SortedKeeps ==
    ASSUME NEW v \in Seq(Entry), NEW s \in Sorted(v)
    PROVE  /\ s \in Seq(Entry)
           /\ \A i, j \in 1..Len(s) : i < j => s[i].key <= s[j].key
           /\ Values(s) = Values(v)
           /\ Apart(v) => Apart(s)
<1> DEFINE n == Len(v)
<1>1. n \in Nat /\ \A i \in 1..n : v[i] \in Entry
  BY LenProperties, ElementOfSeq
<1>2. PICK p \in Bijection(1..n, 1..n) :
        /\ \A i, j \in 1..n : i < j => v[p[i]].key <= v[p[j]].key
        /\ s = [i \in 1..n |-> v[p[i]]]
  BY DEF Sorted
<1>3. /\ p \in [1..n -> 1..n]
      /\ \A i, j \in 1..n : p[i] = p[j] => i = j
      /\ \A k \in 1..n : \E i \in 1..n : p[i] = k
  BY DEF Bijection, Injection, Surjection, IsInjective
<1>4. s \in Seq(Entry) /\ Len(s) = n /\ \A i \in 1..n : s[i] = v[p[i]]
  <2>1. s \in [1..n -> Entry]
    BY <1>1, <1>2, <1>3
  <2>2. s \in Seq(Entry) /\ Len(s) = n
    BY <1>1, <2>1
  <2> QED BY <1>2, <2>2
<1>5. \A i, j \in 1..n : i < j => s[i].key <= s[j].key
  BY <1>2, <1>4
<1> HIDE DEF n
<1>6. Values(s) = Values(v)
  <2>1. Values(s) = UNION {Range(v[p[i]].val) : i \in 1..n}
    BY <1>4 DEF Values
  <2>2. Values(v) = UNION {Range(v[i].val) : i \in 1..n}
    BY DEF Values, n
  <2>3. \A i \in 1..n : p[i] \in 1..n
    BY <1>3
  <2>4. ASSUME NEW x \in Values(s) PROVE x \in Values(v)
    <3>1. PICK i \in 1..n : x \in Range(v[p[i]].val)
      BY <2>1
    <3> QED BY <2>2, <2>3, <3>1
  <2>5. ASSUME NEW x \in Values(v) PROVE x \in Values(s)
    <3>1. PICK k \in 1..n : x \in Range(v[k].val)
      BY <2>2
    <3>2. PICK i \in 1..n : p[i] = k
      BY <1>3
    <3> QED BY <2>1, <3>1, <3>2
  <2> QED BY <2>4, <2>5
<1>7. ASSUME Apart(v) PROVE Apart(s)
  <2>1. /\ \A i \in 1..n : IsInjective(v[i].val)
        /\ \A i, j \in 1..n : i # j => Range(v[i].val) \cap Range(v[j].val) = {}
    BY <1>7 DEF Apart, n
  <2>2. \A i \in 1..n : p[i] \in 1..n
    BY <1>3
  <2>3. \A i \in 1..n : IsInjective(s[i].val)
    BY <1>4, <2>1, <2>2
  <2>4. ASSUME NEW i \in 1..n, NEW j \in 1..n, i # j
        PROVE  Range(s[i].val) \cap Range(s[j].val) = {}
    <3>1. p[i] \in 1..n /\ p[j] \in 1..n /\ p[i] # p[j]
      BY <1>3, <2>2, <2>4
    <3>2. Range(v[p[i]].val) \cap Range(v[p[j]].val) = {}
      BY <2>1, <3>1
    <3> QED BY <1>4, <3>2
  <2> QED BY <1>4, <2>3, <2>4 DEF Apart
<1> QED BY <1>4, <1>5, <1>6, <1>7

\* A batch that the merge function did not fail on becomes a chunk with its values.
LEMMA ChunkKeeps ==
    ASSUME NEW v \in Seq(Entry), Apart(v), NEW s \in Sorted(v)
    PROVE  WellWritten(Merged(s), v)
<1>1. WellWritten(Merged(s), s) /\ Values(s) = Values(v)
  BY SortedKeeps, MergedKeeps
<1> QED BY <1>1 DEF WellWritten

-------------------------------------------------------------------------------
(* Entries that move from one place to another *)

\* EveryValueOnce when n values have been added
Once(held, n) ==
    /\ \A p \in DOMAIN held : Apart(held[p])
    /\ \A p, q \in DOMAIN held : p # q => Values(held[p]) \cap Values(held[q]) = {}
    /\ UNION {Values(held[p]) : p \in DOMAIN held} = 1..n

LEMMA NoEntries == Apart(<<>>) /\ Values(<<>>) = {}
BY DEF Apart, Values

\* The place q is new, and has what the place p had, which is gone or empty.
LEMMA Moved ==
    ASSUME NEW n, NEW held, NEW after, Once(held, n),
           NEW p \in DOMAIN held, NEW q, q \notin DOMAIN held,
           (DOMAIN held \cup {q}) \ {p} = DOMAIN after \ {p},
           \A r \in DOMAIN held : r # p => after[r] = held[r],
           p \in DOMAIN after => after[p] = <<>>,
           Apart(after[q]), Values(after[q]) = Values(held[p])
    PROVE  Once(after, n)
<1>1. p # q /\ q \in DOMAIN after
  OBVIOUS
<1>2. \A r \in DOMAIN after : r = q \/ r = p \/ (r \in DOMAIN held /\ r # p /\ r # q /\ after[r] = held[r])
  OBVIOUS
<1>3. \A r \in DOMAIN held : r # p => r \in DOMAIN after
  OBVIOUS
<1>4. p \in DOMAIN after => Apart(after[p]) /\ Values(after[p]) = {}
  BY NoEntries
<1>5. \A r \in DOMAIN after : Apart(after[r])
  BY <1>2, <1>4 DEF Once
<1>6. ASSUME NEW r \in DOMAIN after, NEW t \in DOMAIN after, r # t
      PROVE  Values(after[r]) \cap Values(after[t]) = {}
  <2>1. \A x, y \in DOMAIN held : x # y => Values(held[x]) \cap Values(held[y]) = {}
    BY DEF Once
  <2>2. CASE r = p \/ t = p
    BY <1>4, <2>2
  <2>3. CASE r # p /\ t # p
    BY <1>2, <1>6, <2>1, <2>3
  <2> QED BY <2>2, <2>3
<1>7. UNION {Values(after[r]) : r \in DOMAIN after} = UNION {Values(held[r]) : r \in DOMAIN held}
  <2>1. ASSUME NEW r \in DOMAIN after, NEW x \in Values(after[r])
        PROVE  \E t \in DOMAIN held : x \in Values(held[t])
    BY <1>2, <1>4, <2>1
  <2>2. ASSUME NEW t \in DOMAIN held, NEW x \in Values(held[t])
        PROVE  \E r \in DOMAIN after : x \in Values(after[r])
    BY <1>1, <1>3, <2>2
  <2> QED BY <2>1, <2>2
<1> QED BY <1>5, <1>6, <1>7 DEF Once

\* The next value is added in the place p.
LEMMA Grown ==
    ASSUME NEW n \in Nat, NEW held, NEW after, Once(held, n),
           NEW p \in DOMAIN held, DOMAIN after = DOMAIN held,
           \A r \in DOMAIN held : r # p => after[r] = held[r],
           Apart(after[p]), Values(after[p]) = Values(held[p]) \cup {n + 1}
    PROVE  Once(after, n + 1)
<1>1. \A r \in DOMAIN held : Apart(after[r])
  BY DEF Once
<1>2. \A r \in DOMAIN held : n + 1 \notin Values(held[r])
  <2>1. \A r \in DOMAIN held : Values(held[r]) \subseteq 1..n
    BY DEF Once
  <2>2. n + 1 \notin 1..n
    OBVIOUS
  <2> QED BY <2>1, <2>2
<1>3. ASSUME NEW r \in DOMAIN held, NEW t \in DOMAIN held, r # t
      PROVE  Values(after[r]) \cap Values(after[t]) = {}
  <2>1. Values(held[r]) \cap Values(held[t]) = {}
    BY <1>3 DEF Once
  <2> QED BY <1>2, <1>3, <2>1
<1>4. UNION {Values(after[r]) : r \in DOMAIN held} = 1..(n + 1)
  <2>1. 1..(n + 1) = (1..n) \cup {n + 1}
    OBVIOUS
  <2>2. UNION {Values(held[r]) : r \in DOMAIN held} = 1..n
    BY DEF Once
  <2>3. UNION {Values(after[r]) : r \in DOMAIN held} = (UNION {Values(held[r]) : r \in DOMAIN held}) \cup {n + 1}
    <3>1. \A r \in DOMAIN held : r # p => Values(after[r]) = Values(held[r])
      OBVIOUS
    <3> QED BY <3>1
  <2> QED BY <2>1, <2>2, <2>3
<1> QED BY <1>1, <1>3, <1>4 DEF Once

\* An entry is put behind others that have none of its values.
LEMMA AppendEntry ==
    ASSUME NEW v \in Seq(Entry), Apart(v),
           NEW e \in Entry, IsInjective(e.val), Range(e.val) \cap Values(v) = {}
    PROVE  /\ Apart(Append(v, e))
           /\ Values(Append(v, e)) = Values(v) \cup Range(e.val)
<1> DEFINE m == Len(v)
           w == Append(v, e)
<1>1. m \in Nat
  BY LenProperties
<1>2. Len(w) = m + 1 /\ w[m + 1] = e /\ \A i \in 1..m : w[i] = v[i]
  BY AppendProperties
<1> HIDE DEF w
<1>3. /\ \A i \in 1..m : IsInjective(v[i].val)
      /\ \A i, j \in 1..m : i # j => Range(v[i].val) \cap Range(v[j].val) = {}
  BY DEF Apart
<1>4. \A i \in 1..m : Range(v[i].val) \cap Range(e.val) = {}
  BY DEF Values
<1>5. \A i \in 1..(m + 1) : i \in 1..m \/ i = m + 1
  BY <1>1
<1>6. Apart(w)
  <2>1. \A i \in 1..(m + 1) : IsInjective(w[i].val)
    BY <1>2, <1>3, <1>5
  <2>2. ASSUME NEW i \in 1..(m + 1), NEW j \in 1..(m + 1), i # j
        PROVE  Range(w[i].val) \cap Range(w[j].val) = {}
    <3>1. CASE i \in 1..m /\ j \in 1..m
      BY <1>2, <1>3, <2>2, <3>1
    <3>2. CASE i = m + 1 /\ j \in 1..m
      BY <1>2, <1>4, <3>2
    <3>3. CASE i \in 1..m /\ j = m + 1
      BY <1>2, <1>4, <3>3
    <3> QED BY <1>5, <2>2, <3>1, <3>2, <3>3
  <2> QED BY <1>2, <2>1, <2>2 DEF Apart
<1>7. Values(w) = Values(v) \cup Range(e.val)
  <2>1. Values(w) = UNION {Range(w[i].val) : i \in 1..(m + 1)}
    BY <1>2 DEF Values
  <2>2. Values(v) = UNION {Range(v[i].val) : i \in 1..m}
    BY DEF Values
  <2>3. m + 1 \in 1..(m + 1) /\ \A i \in 1..m : i \in 1..(m + 1)
    BY <1>1
  <2> QED BY <1>2, <1>5, <2>1, <2>2, <2>3
<1> QED BY <1>6, <1>7 DEF w

\* The entry that is added has the next value.
LEMMA AppendFresh ==
    ASSUME NEW n \in Nat, NEW v \in Seq(Entry), Apart(v), Values(v) \subseteq 1..n,
           NEW e \in Entry, e.val = <<n + 1>>
    PROVE  /\ Apart(Append(v, e))
           /\ Values(Append(v, e)) = Values(v) \cup {n + 1}
<1>1. IsInjective(e.val) /\ Range(e.val) = {n + 1}
  BY DEF IsInjective, Range
<1>2. n + 1 \notin 1..n
  OBVIOUS
<1> QED BY <1>1, <1>2, AppendEntry

-------------------------------------------------------------------------------
(* The inductive invariant *)

SorterTyped ==
    /\ pooled \in BOOLEAN /\ iterating \in BOOLEAN /\ failed \in BOOLEAN
    /\ vec \in Seq(Entry) /\ Len(vec) < MaxMemory
    /\ batches \in Seq(Seq(Entry)) /\ readers \in Seq(Seq(Entry))
    /\ rest \in Seq(Seq(Entry)) /\ out \in Seq(Entry)
    /\ phase \in {"idle", "collecting", "taking", "destroying", "gone", "crashed"}
    /\ mode \in {"iter", "write"} /\ wrote \in {"nothing", "success", "failure"}
    /\ added \in 0..MaxAdds

\* Every batch is a job of the pool.
JobsInv ==
    /\ sent[Handler] = Len(batches)
    /\ delivered \in [{Handler} -> Seq({Handler} \X (1..Len(batches)))]

\* What has not been merged yet has no value twice.
FreshInv ==
    /\ Apart(vec) /\ Values(vec) \subseteq 1..added
    /\ \A i \in 1..Len(batches) : Apart(batches[i])
    /\ phase \in {"collecting", "taking"} => vec = <<>>

DataInv == SorterTyped /\ PoolInv /\ JobsInv /\ FreshInv

\* The places
LEMMA PlacesAre ==
    /\ <<"memory", 0>> \in Places
    /\ \A i \in InPool : <<"pool", i>> \in Places
    /\ \A i \in 1..Len(readers) : <<"chunk", i>> \in Places
    /\ \A p \in Places : \/ p = <<"memory", 0>>
                         \/ \E i \in InPool : p = <<"pool", i>>
                         \/ \E i \in 1..Len(readers) : p = <<"chunk", i>>
BY DEF Places

LEMMA HeldIs ==
    /\ DOMAIN Held = Places
    /\ Held[<<"memory", 0>>] = vec
    /\ \A i \in InPool : Held[<<"pool", i>>] = batches[i]
    /\ \A i \in 1..Len(readers) : Held[<<"chunk", i>>] = readers[i]
BY PlacesAre DEF Held, EntriesAt

\* What dispatching and delivering do to the batches that are with the pool
LEMMA DeliveredAre ==
    ASSUME JobsInv, Len(batches) \in Nat
    PROVE  /\ J!DeliveredSet(Handler) \subseteq {Handler} \X (1..Len(batches))
           /\ J!Outstanding(Handler) \subseteq {Handler} \X (1..Len(batches))
           /\ \A j \in J!Outstanding(Handler) : \E i \in InPool : j = <<Handler, i>>
           /\ \A i \in InPool : <<Handler, i>> \in J!Outstanding(Handler)
<1>1. delivered[Handler] \in Seq({Handler} \X (1..Len(batches)))
  BY DEF JobsInv
<1>2. J!DeliveredSet(Handler) \subseteq {Handler} \X (1..Len(batches))
  BY <1>1, ElementOfSeq DEF J!DeliveredSet
<1>3. J!Outstanding(Handler) \subseteq {Handler} \X (1..Len(batches))
  BY DEF J!Outstanding, JobsInv
<1>4. ASSUME NEW j \in J!Outstanding(Handler) PROVE \E i \in InPool : j = <<Handler, i>>
  <2>1. j \in {Handler} \X (1..Len(batches))
    BY <1>3
  <2>2. PICK i \in 1..Len(batches) : j = <<Handler, i>>
    BY <2>1
  <2> QED BY <2>2 DEF InPool
<1>5. \A i \in InPool : <<Handler, i>> \in J!Outstanding(Handler)
  BY DEF InPool
<1> QED BY <1>2, <1>3, <1>4, <1>5

LEMMA InPoolUnchanged ==
    ASSUME UNCHANGED <<batches, sent, delivered>>
    PROVE  InPool' = InPool
BY DEF InPool, J!Outstanding, J!DeliveredSet

LEMMA DispatchAdds ==
    ASSUME JobsInv, PoolInv, batches \in Seq(Seq(Entry)), NEW v \in Seq(Entry),
           J!Dispatch(Handler), batches' = Append(batches, v)
    PROVE  /\ JobsInv'
           /\ Len(batches) + 1 \notin InPool
           /\ InPool' = InPool \cup {Len(batches) + 1}
<1> DEFINE n == Len(batches)
           X == {Handler} \X (1..n)
           Y == {Handler} \X (1..(n + 1))
<1>1. n \in Nat /\ Len(batches') = n + 1
  BY LenProperties, AppendProperties
<1>2. sent'[Handler] = n + 1 /\ delivered' = delivered
  BY <1>1 DEF J!Dispatch, JobsInv, PoolInv
<1>3. X \subseteq Y
  BY <1>1
<1>4. J!DeliveredSet(Handler) \subseteq X
  BY <1>1, DeliveredAre
<1>5. J!DeliveredSet(Handler)' = J!DeliveredSet(Handler)
  BY <1>2 DEF J!DeliveredSet
<1>6. JobsInv'
  <2>1. delivered \in [{Handler} -> Seq(X)]
    BY DEF JobsInv
  <2>2. delivered[Handler] \in Seq(Y)
    <3> HIDE DEF X, Y
    <3> QED BY <1>3, <2>1, SeqMonotonic
  <2>3. delivered \in [{Handler} -> Seq(Y)]
    <3> HIDE DEF X, Y
    <3> QED BY <2>1, <2>2
  <2> QED BY <1>1, <1>2, <2>3 DEF JobsInv
<1>7. n + 1 \notin InPool
  BY <1>1 DEF InPool
<1>8. InPool' = InPool \cup {n + 1}
  <2>1. \A i \in 1..(n + 1) : <<Handler, i>> \in J!Outstanding(Handler)' <=> <<Handler, i>> \notin J!DeliveredSet(Handler)
    BY <1>1, <1>2, <1>5 DEF J!Outstanding
  <2>2. \A i \in 1..n : <<Handler, i>> \in J!Outstanding(Handler) <=> <<Handler, i>> \notin J!DeliveredSet(Handler)
    BY <1>1 DEF J!Outstanding, JobsInv
  <2>3. <<Handler, n + 1>> \notin J!DeliveredSet(Handler)
    BY <1>1, <1>4
  <2>4. 1..(n + 1) = (1..n) \cup {n + 1}
    BY <1>1
  <2>5. InPool' = {i \in 1..(n + 1) : <<Handler, i>> \in J!Outstanding(Handler)'}
    BY <1>1 DEF InPool
  <2>6. InPool = {i \in 1..n : <<Handler, i>> \in J!Outstanding(Handler)}
    BY DEF InPool
  <2> QED BY <2>1, <2>2, <2>3, <2>4, <2>5, <2>6
<1> QED BY <1>6, <1>7, <1>8

LEMMA DeliverTakes ==
    ASSUME JobsInv, PoolInv, batches \in Seq(Seq(Entry)),
           J!Deliver(Handler), UNCHANGED batches
    PROVE  /\ JobsInv'
           /\ Last(delivered'[Handler])[2] \in InPool
           /\ InPool' = InPool \ {Last(delivered'[Handler])[2]}
<1> DEFINE n == Len(batches)
           X == {Handler} \X (1..n)
           old == delivered[Handler]
           new == delivered'[Handler]
<1>1. n \in Nat
  BY LenProperties
<1>2. delivered \in [{Handler} -> Seq(X)] /\ old \in Seq(X)
  BY DEF JobsInv
<1>3. PICK j \in J!Outstanding(Handler) :
        delivered' = [delivered EXCEPT ![Handler] = Append(@, j)] /\ sent' = sent
  BY DEF J!Deliver
<1>4. PICK i \in InPool : j = <<Handler, i>>
  BY <1>1, DeliveredAre
<1>5. i \in 1..n /\ j \in X
  BY <1>4 DEF InPool
<1>6. new = Append(old, j)
  BY <1>2, <1>3
<1>7. /\ new \in Seq(X) /\ Len(new) = Len(old) + 1
      /\ new[Len(old) + 1] = j
      /\ \A k \in 1..Len(old) : new[k] = old[k]
      /\ Len(old) \in Nat
  <2> HIDE DEF X, new, old
  <2> QED BY <1>2, <1>5, <1>6, AppendProperties, LenProperties
<1>8. Last(new) = j /\ j[2] = i
  BY <1>4, <1>7 DEF Last
<1>9. JobsInv'
  <2>1. delivered' \in [{Handler} -> Seq(X)]
    <3>1. DOMAIN delivered' = {Handler} /\ delivered' = [h \in {Handler} |-> new]
      BY <1>2, <1>3
    <3> HIDE DEF X, new
    <3> QED BY <1>7, <3>1
  <2> QED BY <1>3, <2>1 DEF JobsInv
<1>10. J!DeliveredSet(Handler)' = J!DeliveredSet(Handler) \cup {j}
  <2>1. J!DeliveredSet(Handler)' = {new[k] : k \in 1..(Len(old) + 1)}
    BY <1>7 DEF J!DeliveredSet
  <2>2. J!DeliveredSet(Handler) = {old[k] : k \in 1..Len(old)}
    BY DEF J!DeliveredSet
  <2>3. \A m \in Nat : 1..(m + 1) = (1..m) \cup {m + 1}
    OBVIOUS
  <2> DEFINE m == Len(old)
  <2>4. /\ m \in Nat /\ new[m + 1] = j
        /\ \A k \in 1..m : new[k] = old[k]
    BY <1>7
  <2>5. /\ J!DeliveredSet(Handler)' = {new[k] : k \in 1..(m + 1)}
        /\ J!DeliveredSet(Handler) = {old[k] : k \in 1..m}
    BY <2>1, <2>2
  <2> HIDE DEF m, new, old
  <2>6. 1..(m + 1) = (1..m) \cup {m + 1}
    BY <2>3, <2>4
  <2>7. {new[k] : k \in 1..(m + 1)} = {old[k] : k \in 1..m} \cup {j}
    BY <2>4, <2>6
  <2> QED BY <2>5, <2>7
<1>11. InPool' = InPool \ {i}
  <2>1. \A k \in 1..n : <<Handler, k>> \in J!Outstanding(Handler)' <=> <<Handler, k>> \in J!Outstanding(Handler) /\ k # i
    <3>1. J!Outstanding(Handler)' = J!Outstanding(Handler) \ {j}
      BY <1>3, <1>10 DEF J!Outstanding
    <3> QED BY <1>4, <3>1
  <2> QED BY <2>1 DEF InPool
<1> QED BY <1>4, <1>8, <1>9, <1>11

\* The same in the next state
HeldFacts ==
    /\ DOMAIN Held = Places
    /\ Held[<<"memory", 0>>] = vec
    /\ \A i \in InPool : Held[<<"pool", i>>] = batches[i]
    /\ \A i \in 1..Len(readers) : Held[<<"chunk", i>>] = readers[i]
    /\ <<"memory", 0>> \in Places
    /\ \A i \in InPool : <<"pool", i>> \in Places
    /\ \A i \in 1..Len(readers) : <<"chunk", i>> \in Places
    /\ \A p \in Places : \/ p = <<"memory", 0>>
                         \/ \E i \in InPool : p = <<"pool", i>>
                         \/ \E i \in 1..Len(readers) : p = <<"chunk", i>>

LEMMA HeldNow == HeldFacts
BY HeldIs, PlacesAre DEF HeldFacts

LEMMA HeldNext == HeldFacts'
BY HeldNow, PTL

LEMMA ChunkTyped ==
    ASSUME NEW v \in Seq(Entry), Apart(v), NEW s \in Sorted(v), NEW fail \in BOOLEAN
    PROVE  WriteChunk(s, fail) \in Seq(Entry)
BY ChunkKeeps, EmptySeq DEF WriteChunk, WellWritten, NullReader

\* A flush leaves everything typed.
LEMMA FlushData ==
    ASSUME DataInv, NEW v \in Seq(Entry), Apart(v), NEW fail \in BOOLEAN, Flush(v, fail)
    PROVE  /\ vec' = <<>>
           /\ batches' \in Seq(Seq(Entry)) /\ readers' \in Seq(Seq(Entry))
           /\ failed' \in BOOLEAN
           /\ \A i \in 1..Len(batches') : Apart(batches'[i])
           /\ JobsInv'
<1> USE DEF DataInv
<1>1. batches \in Seq(Seq(Entry)) /\ readers \in Seq(Seq(Entry)) /\ failed \in BOOLEAN
  BY DEF SorterTyped
<1>2. CASE pooled
  <2>1. batches' = Append(batches, v) /\ J!Dispatch(Handler) /\ readers' = readers /\ failed' = failed
    BY <1>2 DEF Flush
  <2>2. JobsInv'
    BY <1>1, <2>1, DispatchAdds
  <2>3. /\ batches' \in Seq(Seq(Entry)) /\ Len(batches') = Len(batches) + 1
        /\ batches'[Len(batches) + 1] = v
        /\ \A i \in 1..Len(batches) : batches'[i] = batches[i]
        /\ Len(batches) \in Nat
    BY <1>1, <2>1, AppendProperties, LenProperties
  <2>4. \A i \in 1..Len(batches') : Apart(batches'[i])
    <3>1. \A i \in 1..Len(batches') : i \in 1..Len(batches) \/ i = Len(batches) + 1
      BY <2>3
    <3> QED BY <2>3, <3>1 DEF FreshInv
  <2>5. vec' = <<>>
    BY DEF Flush
  <2> QED BY <1>1, <2>1, <2>2, <2>3, <2>4, <2>5
<1>3. CASE ~pooled
  <2>1. /\ failed' = (failed \/ fail)
        /\ UNCHANGED <<batches, jobs>>
        /\ \E s \in Sorted(v) : readers' = Append(readers, WriteChunk(s, fail))
    BY <1>3 DEF Flush
  <2>2. PICK s \in Sorted(v) : readers' = Append(readers, WriteChunk(s, fail))
    BY <2>1
  <2>3. readers' \in Seq(Seq(Entry))
    <3>1. WriteChunk(s, fail) \in Seq(Entry)
      BY ChunkTyped
    <3> QED BY <1>1, <2>2, <3>1, AppendProperties
  <2>4. JobsInv'
    BY <2>1 DEF JobsInv, jobs
  <2>5. vec' = <<>>
    BY DEF Flush
  <2> QED BY <1>1, <2>1, <2>3, <2>4, <2>5 DEF FreshInv
<1> QED BY <1>2, <1>3

AllIncreasing(s) == \A i \in 1..Len(s) : Increasing(s[i])

\* A chunk is put behind the others.
LEMMA ChunkAdded ==
    ASSUME readers \in Seq(Seq(Entry)), AllIncreasing(readers),
           NEW r \in Seq(Entry), Increasing(r), readers' = Append(readers, r)
    PROVE  /\ AllIncreasing(readers')
           /\ Len(readers) \in Nat /\ Len(readers') = Len(readers) + 1
           /\ readers'[Len(readers) + 1] = r
           /\ \A i \in 1..Len(readers) : readers'[i] = readers[i]
<1>1. /\ Len(readers) \in Nat /\ Len(readers') = Len(readers) + 1
      /\ readers'[Len(readers) + 1] = r
      /\ \A i \in 1..Len(readers) : readers'[i] = readers[i]
  BY AppendProperties, LenProperties
<1>2. \A i \in 1..(Len(readers) + 1) : i \in 1..Len(readers) \/ i = Len(readers) + 1
  BY <1>1
<1> QED BY <1>1, <1>2 DEF AllIncreasing

\* A flush of the entries v that were in memory takes each value along.
LEMMA FlushMoves ==
    ASSUME DataInv, NEW v \in Seq(Entry), Apart(v), NEW fail \in BOOLEAN, Flush(v, fail), ~failed',
           NEW n, Once([Held EXCEPT ![<<"memory", 0>>] = v], n), AllIncreasing(readers)
    PROVE  Once(Held', n) /\ AllIncreasing(readers')
<1> USE DEF DataInv
<1> DEFINE m == <<"memory", 0>>
           held == [Held EXCEPT ![m] = v]
           after == Held'
<1>1. batches \in Seq(Seq(Entry)) /\ readers \in Seq(Seq(Entry))
  BY DEF SorterTyped
<1>2. vec' = <<>>
  BY DEF Flush
<1>3. DOMAIN held = Places /\ held[m] = v /\ \A p \in Places : p # m => held[p] = Held[p]
  BY HeldNow DEF HeldFacts
<1>4. m \in Places /\ m \in Places' /\ after[m] = <<>> /\ DOMAIN after = Places'
  BY <1>2, HeldNow, HeldNext DEF HeldFacts
<1>5. CASE pooled
  <2> DEFINE b == Len(batches) + 1
             q == <<"pool", b>>
  <2>1. batches' = Append(batches, v) /\ J!Dispatch(Handler) /\ readers' = readers
    BY <1>5 DEF Flush
  <2>2. b \notin InPool /\ InPool' = InPool \cup {b}
    BY <1>1, <2>1, DispatchAdds
  <2>3. /\ batches'[b] = v
        /\ \A i \in InPool : batches'[i] = batches[i]
    BY <1>1, <2>1, AppendProperties, LenProperties DEF InPool
  <2> HIDE DEF b
  <2>4. q \notin Places /\ q # m
    BY <2>2, HeldNow DEF HeldFacts
  <2>5. Places' = Places \cup {q}
    <3>1. ASSUME NEW p \in Places' PROVE p \in Places \cup {q}
      <4>1. \/ p = m
            \/ \E i \in InPool' : p = <<"pool", i>>
            \/ \E i \in 1..Len(readers) : p = <<"chunk", i>>
        BY <2>1, HeldNext DEF HeldFacts
      <4>2. CASE \E i \in InPool' : p = <<"pool", i>>
        <5>1. PICK i \in InPool' : p = <<"pool", i>>
          BY <4>2
        <5> QED BY <2>2, <5>1, HeldNow DEF HeldFacts
      <4>3. CASE \E i \in 1..Len(readers) : p = <<"chunk", i>>
        BY <4>3, HeldNow DEF HeldFacts
      <4> QED BY <1>4, <4>1, <4>2, <4>3
    <3>2. ASSUME NEW p \in Places \cup {q} PROVE p \in Places'
      BY <2>1, <2>2, HeldNow, HeldNext DEF HeldFacts
    <3> QED BY <3>1, <3>2
  <2>6. after[q] = v
    BY <2>2, <2>3, HeldNext DEF HeldFacts
  <2>7. ASSUME NEW p \in Places, p # m PROVE after[p] = Held[p]
    <3>1. CASE \E i \in InPool : p = <<"pool", i>>
      <4>1. PICK i \in InPool : p = <<"pool", i>>
        BY <3>1
      <4>2. i \in InPool' /\ batches'[i] = batches[i]
        BY <2>2, <2>3
      <4> QED BY <4>1, <4>2, HeldNow, HeldNext DEF HeldFacts
    <3>2. CASE \E i \in 1..Len(readers) : p = <<"chunk", i>>
      BY <2>1, <3>2, HeldNow, HeldNext DEF HeldFacts
    <3> QED BY <2>7, <3>1, <3>2, HeldNow DEF HeldFacts
  <2> HIDE DEF held, after, m, q
  <2>8. Once(after, n)
    <3>1. Once(held, n)
      BY DEF held, m
    <3>2. (DOMAIN held \cup {q}) \ {m} = DOMAIN after \ {m}
      BY <1>3, <1>4, <2>5
    <3>3. \A r \in DOMAIN held : r # m => after[r] = held[r]
      BY <1>3, <2>7
    <3>4. q \notin DOMAIN held /\ m \in DOMAIN held
      BY <1>3, <1>4, <2>4
    <3>5. Apart(after[q]) /\ Values(after[q]) = Values(held[m])
      BY <1>3, <2>6
    <3> QED BY <1>4, <3>1, <3>2, <3>3, <3>4, <3>5, Moved
  <2> QED BY <2>1, <2>8 DEF after
<1>6. CASE ~pooled
  <2> DEFINE c == Len(readers) + 1
             q == <<"chunk", c>>
  <2>1. /\ failed' = (failed \/ fail)
        /\ UNCHANGED <<batches, jobs>>
        /\ \E s \in Sorted(v) : readers' = Append(readers, WriteChunk(s, fail))
    BY <1>6 DEF Flush
  <2>2. PICK s \in Sorted(v) : readers' = Append(readers, Merged(s))
    BY <2>1 DEF WriteChunk
  <2>3. WellWritten(Merged(s), v)
    BY ChunkKeeps
  <2>4. /\ AllIncreasing(readers')
        /\ Len(readers) \in Nat /\ Len(readers') = c
        /\ readers'[c] = Merged(s)
        /\ \A i \in 1..Len(readers) : readers'[i] = readers[i]
    BY <1>1, <2>2, <2>3, ChunkAdded DEF WellWritten
  <2>5. InPool' = InPool
    BY <2>1, InPoolUnchanged DEF jobs
  <2>6. 1..c = (1..Len(readers)) \cup {c} /\ c \notin 1..Len(readers)
    BY <2>4
  <2> HIDE DEF c
  <2>7. q \notin Places /\ q # m
    BY <2>6, HeldNow DEF HeldFacts
  <2>8. Places' = Places \cup {q}
    <3>1. ASSUME NEW p \in Places' PROVE p \in Places \cup {q}
      BY <2>4, <2>5, <2>6, HeldNow, HeldNext DEF HeldFacts
    <3>2. ASSUME NEW p \in Places \cup {q} PROVE p \in Places'
      BY <2>4, <2>5, <2>6, HeldNow, HeldNext DEF HeldFacts
    <3> QED BY <3>1, <3>2
  <2>9. after[q] = Merged(s)
    BY <2>4, <2>6, HeldNext DEF HeldFacts
  <2>10. \A p \in Places : p # m => after[p] = Held[p]
    BY <2>1, <2>4, <2>5, <2>6, HeldNow, HeldNext DEF HeldFacts
  <2> HIDE DEF held, after, m, q
  <2>11. Once(after, n)
    <3>1. Once(held, n)
      BY DEF held, m
    <3>2. (DOMAIN held \cup {q}) \ {m} = DOMAIN after \ {m}
      BY <1>3, <1>4, <2>8
    <3>3. \A r \in DOMAIN held : r # m => after[r] = held[r]
      BY <1>3, <2>10
    <3>4. q \notin DOMAIN held /\ m \in DOMAIN held
      BY <1>3, <1>4, <2>7
    <3>5. Apart(after[q]) /\ Values(after[q]) = Values(held[m])
      BY <1>3, <2>3, <2>9 DEF WellWritten
    <3> QED BY <1>4, <3>1, <3>2, <3>3, <3>4, <3>5, Moved
  <2> QED BY <2>4, <2>11 DEF after
<1> QED BY <1>5, <1>6

\* What an iterator's sources have in front
LEMMA SourcesAre ==
    ASSUME rest \in Seq(Seq(Entry))
    PROVE  /\ Len(rest) \in Nat /\ DOMAIN rest = 1..Len(rest)
           /\ Left \subseteq 1..Len(rest) /\ Holders \subseteq Left
           /\ \A i \in 1..Len(rest) : rest[i] \in Seq(Entry)
           /\ \A i \in Left : /\ rest[i] # <<>> /\ rest[i][1] \in Entry
                              /\ rest[i][1].key \in Nat /\ rest[i][1].val \in Seq(1..MaxAdds)
                              /\ Tail(rest[i]) \in Seq(Entry)
<1>1. Len(rest) \in Nat /\ DOMAIN rest = 1..Len(rest) /\ \A i \in 1..Len(rest) : rest[i] \in Seq(Entry)
  BY LenProperties, ElementOfSeq
<1>2. Left \subseteq 1..Len(rest) /\ Holders \subseteq Left
  BY <1>1 DEF Left, Holders
<1>3. ASSUME NEW s \in Seq(Entry), s # <<>>
      PROVE  /\ s[1] \in Entry /\ s[1].key \in Nat /\ s[1].val \in Seq(1..MaxAdds)
             /\ Tail(s) \in Seq(Entry)
  <2>1. 1 \in 1..Len(s)
    BY <1>3, LenProperties, EmptySeq
  <2>2. s[1] \in Entry
    BY <2>1, ElementOfSeq
  <2>3. Tail(s) \in Seq(Entry)
    BY <1>3, HeadTailProperties
  <2>4. \A e \in Entry : e.key \in Keys /\ e.val \in Seq(1..MaxAdds)
    BY DEF Entry
  <2> QED BY <2>2, <2>3, <2>4, SorterAssumption
<1>4. \A i \in Left : rest[i] \in Seq(Entry) /\ rest[i] # <<>>
  BY <1>1, <1>2 DEF Left
<1> QED BY <1>1, <1>2, <1>3, <1>4

\* The entry that sorter_iter_next() makes of the heads of the sources S
HeadOf(S) == rest[CHOOSE i \in S : TRUE][1]
ValuesOf(S) == [i \in 1..Len(rest) |-> IF i \in S THEN rest[i][1].val ELSE <<>>]
MergedHead(S) == [key |-> HeadOf(S).key, val |-> FlattenSeq(ValuesOf(S))]

LEMMA HeadsAre ==
    ASSUME rest \in Seq(Seq(Entry)), NEW S \in SUBSET Holders, S # {}
    PROVE  /\ HeadOf(S).key \in Keys
           /\ \A i \in S : rest[i][1].key = HeadOf(S).key
           /\ \A i \in Left : HeadOf(S).key <= rest[i][1].key
           /\ ValuesOf(S) \in Seq(Seq(1..MaxAdds)) /\ Len(ValuesOf(S)) = Len(rest)
           /\ MergedHead(S) \in Entry
<1> DEFINE c == CHOOSE i \in S : TRUE
<1>1. c \in S
  OBVIOUS
<1> HIDE DEF c
<1>2. /\ c \in Left /\ c \in Holders /\ S \subseteq Left /\ S \subseteq Holders
      /\ HeadOf(S) = rest[c][1]
  BY <1>1, SourcesAre DEF HeadOf, c
<1>3. \A i \in Left : rest[i][1] \in Entry /\ rest[i][1].key \in Nat /\ rest[i][1].val \in Seq(1..MaxAdds)
  BY SourcesAre
<1>4. \A e \in Entry : e.key \in Keys
  BY DEF Entry
<1>5. HeadOf(S).key \in Keys
  BY <1>2, <1>3, <1>4
<1>6. \A i \in Holders, j \in Left : rest[i][1].key <= rest[j][1].key
  BY DEF Holders
<1>7. \A i \in Left : HeadOf(S).key <= rest[i][1].key
  BY <1>2, <1>6
<1>8. ASSUME NEW i \in S PROVE rest[i][1].key = HeadOf(S).key
  <2>1. rest[i][1].key <= rest[c][1].key /\ rest[c][1].key <= rest[i][1].key
    BY <1>2, <1>6
  <2>2. i \in Left
    BY <1>2
  <2>3. rest[i][1].key \in Nat /\ rest[c][1].key \in Nat
    BY <1>2, <1>3, <2>2
  <2>4. rest[i][1].key = rest[c][1].key
    BY <2>1, <2>3
  <2> QED BY <1>2, <2>4
<1>9. ValuesOf(S) \in Seq(Seq(1..MaxAdds)) /\ Len(ValuesOf(S)) = Len(rest)
  <2>1. \A i \in 1..Len(rest) : ValuesOf(S)[i] \in Seq(1..MaxAdds)
    <3>1. <<>> \in Seq(1..MaxAdds)
      BY EmptySeq
    <3> QED BY <1>2, <1>3, <3>1 DEF ValuesOf
  <2>2. Len(rest) \in Nat
    BY SourcesAre
  <2>3. ValuesOf(S) \in [1..Len(rest) -> Seq(1..MaxAdds)]
    BY <2>1 DEF ValuesOf
  <2> DEFINE T == Seq(1..MaxAdds)
             n == Len(rest)
             f == ValuesOf(S)
  <2>4. n \in Nat /\ f \in [1..n -> T]
    BY <2>2, <2>3
  <2> HIDE DEF T, n, f
  <2>5. f \in Seq(T) /\ Len(f) = n
    BY <2>4
  <2> QED BY <2>5 DEF T, n, f
<1>10. MergedHead(S) \in Entry
  BY <1>5, <1>9, FlattenTyped DEF MergedHead, Entry
<1> QED BY <1>5, <1>7, <1>8, <1>9, <1>10

\* What is not typed by itself
DataNext == (SorterTyped /\ JobsInv /\ FreshInv)'

LEMMA NewEntry ==
    ASSUME added \in 0..MaxAdds, added < MaxAdds, NEW k \in Keys
    PROVE  /\ added \in Nat /\ added + 1 \in 0..MaxAdds
           /\ [key |-> k, val |-> <<added + 1>>] \in Entry
<1>1. added \in Nat /\ added + 1 \in 1..MaxAdds
  BY SorterAssumption
<1>2. <<added + 1>> \in Seq(1..MaxAdds)
  BY <1>1
<1> QED BY <1>1, <1>2 DEF Entry

LEMMA DataAdd ==
    ASSUME DataInv, NEW k \in Keys, NEW fail \in BOOLEAN, Add(k, fail)
    PROVE  DataNext
<1> DEFINE e == [key |-> k, val |-> <<added + 1>>]
           v == Append(vec, e)
<1>1. /\ added' = added + 1 /\ phase = "idle" /\ added < MaxAdds
      /\ UNCHANGED <<pooled, iterating, phase, output>>
      /\ IF Full(v) THEN Flush(v, fail)
         ELSE ~fail /\ vec' = v /\ UNCHANGED <<batches, readers, failed, jobs>>
  BY DEF Add
<1>2. added \in Nat /\ added' \in 0..MaxAdds /\ e \in Entry
  BY <1>1, NewEntry DEF DataInv, SorterTyped
<1>3. v \in Seq(Entry) /\ Len(v) \in Nat
  BY <1>2, AppendProperties, LenProperties DEF DataInv, SorterTyped
<1>4. Apart(v) /\ Values(v) \subseteq 1..added'
  <2>1. Apart(v) /\ Values(v) = Values(vec) \cup {added + 1}
    BY <1>2, AppendFresh DEF DataInv, SorterTyped, FreshInv
  <2>2. Values(vec) \subseteq 1..added
    BY DEF DataInv, FreshInv
  <2>3. (1..added) \cup {added + 1} \subseteq 1..(added + 1)
    BY <1>2
  <2> QED BY <1>1, <2>1, <2>2, <2>3
<1>5. MaxMemory \in Nat /\ 0 < MaxMemory /\ Len(<<>>) = 0
  BY SorterAssumption
<1> HIDE DEF v, e
<1>6. CASE Full(v)
  <2>1. Flush(v, fail)
    BY <1>1, <1>6
  <2>2. /\ vec' = <<>>
        /\ batches' \in Seq(Seq(Entry)) /\ readers' \in Seq(Seq(Entry))
        /\ failed' \in BOOLEAN
        /\ \A i \in 1..Len(batches') : Apart(batches'[i])
        /\ JobsInv'
    BY <1>3, <1>4, <2>1, FlushData
  <2>3. SorterTyped'
    BY <1>1, <1>2, <1>5, <2>2, EmptySeq DEF DataInv, SorterTyped, output
  <2>4. FreshInv'
    BY <1>1, <2>2, NoEntries DEF FreshInv
  <2> QED BY <2>2, <2>3, <2>4 DEF DataNext
<1>7. CASE ~Full(v)
  <2>1. vec' = v /\ UNCHANGED <<batches, readers, failed, jobs>>
    BY <1>1, <1>7
  <2>2. Len(v) < MaxMemory
    BY <1>3, <1>5, <1>7 DEF Full
  <2>3. SorterTyped'
    BY <1>1, <1>2, <1>3, <2>1, <2>2 DEF DataInv, SorterTyped, output
  <2>4. FreshInv'
    BY <1>1, <1>4, <2>1 DEF DataInv, FreshInv
  <2>5. JobsInv'
    BY <2>1 DEF DataInv, JobsInv, jobs
  <2> QED BY <2>3, <2>4, <2>5 DEF DataNext
<1> QED BY <1>6, <1>7

LEMMA DataStartIter ==
    ASSUME DataInv, NEW m \in {"iter", "write"}, NEW fail \in BOOLEAN, StartIter(m, fail)
    PROVE  DataNext
<1>1. /\ phase' \in {"idle", "collecting"} /\ mode' = m
      /\ wrote' \in {"failure", wrote}
      /\ UNCHANGED <<pooled, iterating, rest, out, added>>
      /\ IF Unflushed THEN Flush(vec, fail)
         ELSE ~fail /\ UNCHANGED <<vec, batches, readers, failed, jobs>>
  BY DEF StartIter
<1>2. MaxMemory \in Nat /\ 0 < MaxMemory /\ Len(<<>>) = 0
  BY SorterAssumption
<1>3. CASE Unflushed
  <2>1. vec \in Seq(Entry) /\ Apart(vec)
    BY DEF DataInv, SorterTyped, FreshInv
  <2>2. /\ vec' = <<>>
        /\ batches' \in Seq(Seq(Entry)) /\ readers' \in Seq(Seq(Entry))
        /\ failed' \in BOOLEAN
        /\ \A i \in 1..Len(batches') : Apart(batches'[i])
        /\ JobsInv'
    BY <1>1, <1>3, <2>1, FlushData
  <2>3. SorterTyped'
    BY <1>1, <1>2, <2>2, EmptySeq DEF DataInv, SorterTyped
  <2>4. FreshInv'
    BY <2>2, NoEntries DEF FreshInv
  <2> QED BY <2>2, <2>3, <2>4 DEF DataNext
<1>4. CASE ~Unflushed
  <2>1. UNCHANGED <<vec, batches, readers, failed, jobs>>
    BY <1>1, <1>4
  <2>2. SorterTyped'
    BY <1>1, <2>1 DEF DataInv, SorterTyped
  <2>3. FreshInv'
    BY <1>1, <1>4, <2>1 DEF DataInv, FreshInv, Unflushed
  <2>4. JobsInv'
    BY <2>1 DEF DataInv, JobsInv, jobs
  <2> QED BY <2>2, <2>3, <2>4 DEF DataNext
<1> QED BY <1>3, <1>4

LEMMA DataFinishIter ==
    ASSUME DataInv, FinishIter
    PROVE  DataNext
<1>1. /\ phase = "collecting" /\ phase' \in {"crashed", "taking"}
      /\ iterating' \in {iterating, TRUE}
      /\ rest' \in {rest, readers} /\ out' \in {out, <<>>}
      /\ UNCHANGED <<pooled, vec, batches, readers, mode, wrote, added, failed, jobs>>
  BY DEF FinishIter
<1>2. SorterTyped'
  BY <1>1, EmptySeq DEF DataInv, SorterTyped
<1>3. FreshInv'
  BY <1>1 DEF DataInv, FreshInv
<1>4. JobsInv'
  BY <1>1 DEF DataInv, JobsInv, jobs
<1> QED BY <1>2, <1>3, <1>4 DEF DataNext

LEMMA DataIterNext ==
    ASSUME DataInv, NEW S \in SUBSET Holders, S # {}, IterNext(S)
    PROVE  DataNext
<1>1. rest \in Seq(Seq(Entry)) /\ out \in Seq(Entry)
  BY DEF DataInv, SorterTyped
<1>2. /\ phase = "taking" /\ phase' \in {"taking", "idle"}
      /\ wrote' \in {wrote, "success"} /\ failed' \in {failed, TRUE}
      /\ out' \in {out, Append(out, MergedHead(S))}
      /\ rest' = [i \in DOMAIN rest |-> IF i \in S THEN Tail(rest[i]) ELSE rest[i]]
      /\ UNCHANGED <<pooled, vec, batches, readers, iterating, mode, added, jobs>>
  BY DEF IterNext, MergedHead, HeadOf, ValuesOf
<1>3. out' \in Seq(Entry)
  BY <1>1, <1>2, HeadsAre, AppendProperties
<1>4. rest' \in Seq(Seq(Entry))
  <2>1. \A i \in 1..Len(rest) : (IF i \in S THEN Tail(rest[i]) ELSE rest[i]) \in Seq(Entry)
    BY <1>1, SourcesAre
  <2>2. rest' = [i \in 1..Len(rest) |-> IF i \in S THEN Tail(rest[i]) ELSE rest[i]] /\ Len(rest) \in Nat
    BY <1>1, <1>2, SourcesAre
  <2>3. rest' \in [1..Len(rest) -> Seq(Entry)]
    BY <2>1, <2>2
  <2> QED BY <2>2, <2>3
<1>5. SorterTyped'
  BY <1>2, <1>3, <1>4 DEF DataInv, SorterTyped
<1>6. FreshInv'
  BY <1>2 DEF DataInv, FreshInv
<1>7. JobsInv'
  BY <1>2 DEF DataInv, JobsInv, jobs
<1> QED BY <1>5, <1>6, <1>7 DEF DataNext

LEMMA DataCollectReader ==
    ASSUME DataInv, NEW fail \in BOOLEAN, CollectReader(fail)
    PROVE  DataNext
<1> DEFINE i == Last(delivered'[Handler])[2]
<1>1. /\ J!Deliver(Handler) /\ UNCHANGED <<pooled, vec, batches, iterating, output, added>>
      /\ failed' = (failed \/ fail)
      /\ \/ phase' = "crashed" /\ UNCHANGED readers
         \/ /\ \E s \in Sorted(batches[i]) : readers' = Append(readers, WriteChunk(s, fail))
            /\ UNCHANGED phase
  BY DEF CollectReader
<1>2. batches \in Seq(Seq(Entry)) /\ readers \in Seq(Seq(Entry))
  BY DEF DataInv, SorterTyped
<1>3. JobsInv' /\ i \in 1..Len(batches)
  BY <1>1, <1>2, DeliverTakes DEF DataInv, InPool
<1> HIDE DEF i
<1>4. readers' \in Seq(Seq(Entry)) /\ phase' \in {phase, "crashed"}
  <2>1. batches[i] \in Seq(Entry) /\ Apart(batches[i])
    BY <1>2, <1>3, ElementOfSeq DEF DataInv, FreshInv
  <2>2. CASE \E s \in Sorted(batches[i]) : readers' = Append(readers, WriteChunk(s, fail))
    <3>1. PICK s \in Sorted(batches[i]) : readers' = Append(readers, WriteChunk(s, fail))
      BY <2>2
    <3>2. WriteChunk(s, fail) \in Seq(Entry)
      BY <2>1, ChunkTyped
    <3>3. readers' \in Seq(Seq(Entry))
      BY <1>2, <3>1, <3>2, AppendProperties
    <3> QED BY <1>1, <3>3
  <2> QED BY <1>1, <1>2, <2>2
<1>5. SorterTyped'
  BY <1>1, <1>4 DEF DataInv, SorterTyped, output
<1>6. FreshInv'
  BY <1>1, <1>4 DEF DataInv, FreshInv
<1> QED BY <1>3, <1>5, <1>6 DEF DataNext

LEMMA DataDestroy ==
    ASSUME DataInv, Destroy
    PROVE  DataNext
<1>1. /\ vec' = <<>> /\ readers' = <<>> /\ phase' \in {"gone", "destroying"}
      /\ UNCHANGED <<pooled, batches, iterating, output, added, failed, jobs>>
  BY DEF Destroy
<1>2. MaxMemory \in Nat /\ 0 < MaxMemory /\ Len(<<>>) = 0
  BY SorterAssumption
<1>3. SorterTyped'
  BY <1>1, <1>2, EmptySeq DEF DataInv, SorterTyped, output
<1>4. FreshInv'
  BY <1>1, NoEntries DEF DataInv, FreshInv
<1>5. JobsInv'
  BY <1>1 DEF DataInv, JobsInv, jobs
<1> QED BY <1>3, <1>4, <1>5 DEF DataNext

LEMMA DataStep ==
    ASSUME DataInv, [Next]_vars
    PROVE  DataInv'
<1> SUFFICES DataNext
  BY PoolStep DEF DataInv, DataNext
<1> USE DEF DataInv, DataNext
<1>1. CASE WriteRefused
  BY <1>1 DEF WriteRefused, SorterTyped, JobsInv, FreshInv, jobs
<1>2. CASE DestroyHandler
  BY <1>2 DEF DestroyHandler, J!Close, SorterTyped, JobsInv, FreshInv, output
<1>3. CASE IterEnd \/ WriterRefuses
  BY <1>3 DEF IterEnd, WriterRefuses, SorterTyped, JobsInv, FreshInv, jobs
<1>4. CASE UNCHANGED vars
  BY <1>4 DEF vars, SorterTyped, JobsInv, FreshInv, jobs, output
<1> QED BY <1>1, <1>2, <1>3, <1>4, DataAdd, DataStartIter, DataFinishIter, DataIterNext,
        DataCollectReader, DataDestroy DEF Next

-------------------------------------------------------------------------------
(* Nothing is lost on the way to the chunks *)

LEMMA OnceAdded == \A held : EveryValueOnce(held) <=> Once(held, added)
BY DEF EveryValueOnce, Once

HeldInv ==
    ~failed /\ phase \in {"idle", "collecting", "taking"} =>
        Once(Held, added) /\ AllIncreasing(readers)

LEMMA HeldUnchanged ==
    ASSUME UNCHANGED <<vec, batches, readers, sent, delivered>>
    PROVE  Held' = Held
<1>1. InPool' = InPool
  BY InPoolUnchanged
<1>2. Places' = Places
  BY <1>1 DEF Places
<1>3. \A p : EntriesAt(p)' = EntriesAt(p)
  BY DEF EntriesAt
<1> QED BY <1>2, <1>3 DEF Held

LEMMA HeldAdd ==
    ASSUME DataInv, HeldInv, NEW k \in Keys, NEW fail \in BOOLEAN, Add(k, fail)
    PROVE  HeldInv'
<1> DEFINE e == [key |-> k, val |-> <<added + 1>>]
           v == Append(vec, e)
           m == <<"memory", 0>>
           held == [Held EXCEPT ![m] = v]
<1>1. /\ added' = added + 1 /\ phase = "idle" /\ added < MaxAdds
      /\ IF Full(v) THEN Flush(v, fail)
         ELSE ~fail /\ vec' = v /\ UNCHANGED <<batches, readers, failed, jobs>>
  BY DEF Add
<1> SUFFICES ASSUME ~failed' PROVE Once(Held', added + 1) /\ AllIncreasing(readers')
  BY <1>1 DEF HeldInv, AllIncreasing
<1>2. ~failed
  BY <1>1 DEF Flush, DataInv, SorterTyped
<1>3. added \in Nat /\ e \in Entry
  BY <1>1, NewEntry DEF DataInv, SorterTyped
<1>4. vec \in Seq(Entry) /\ Apart(vec) /\ Values(vec) \subseteq 1..added
  BY DEF DataInv, SorterTyped, FreshInv
<1>5. v \in Seq(Entry) /\ Apart(v) /\ Values(v) = Values(vec) \cup {added + 1}
  BY <1>3, <1>4, AppendFresh, AppendProperties
<1>6. Once(Held, added) /\ AllIncreasing(readers)
  BY <1>1, <1>2 DEF HeldInv
<1> HIDE DEF v, e
<1>7. CASE Full(v)
  <2>1. Flush(v, fail)
    BY <1>1, <1>7
  <2>2. Once(held, added + 1)
    <3>1. /\ DOMAIN held = DOMAIN Held /\ m \in DOMAIN Held
          /\ held[m] = v /\ Held[m] = vec
          /\ \A r \in DOMAIN Held : r # m => held[r] = Held[r]
      BY HeldNow DEF HeldFacts
    <3> HIDE DEF held, m
    <3> QED BY <1>3, <1>5, <1>6, <3>1, Grown
  <2> QED BY <1>5, <1>6, <2>1, <2>2, FlushMoves
<1>8. CASE ~Full(v)
  <2>1. vec' = v /\ UNCHANGED <<batches, readers, failed, jobs>>
    BY <1>1, <1>8
  <2>2. InPool' = InPool
    BY <2>1, InPoolUnchanged DEF jobs
  <2> DEFINE after == Held'
  <2>3. DOMAIN after = DOMAIN Held /\ m \in DOMAIN Held
    <3>1. Places' = Places
      BY <2>1, <2>2 DEF Places
    <3> QED BY <3>1, HeldNow, HeldNext DEF HeldFacts
  <2>4. after[m] = v /\ Held[m] = vec
    BY <2>1, HeldNow, HeldNext DEF HeldFacts
  <2>5. ASSUME NEW r \in DOMAIN Held, r # m PROVE after[r] = Held[r]
    <3>1. r \in Places
      BY HeldNow DEF HeldFacts
    <3>2. CASE \E i \in InPool : r = <<"pool", i>>
      BY <2>1, <2>2, <3>2, HeldNow, HeldNext DEF HeldFacts
    <3>3. CASE \E i \in 1..Len(readers) : r = <<"chunk", i>>
      BY <2>1, <3>3, HeldNow, HeldNext DEF HeldFacts
    <3> QED BY <2>5, <3>1, <3>2, <3>3, HeldNow DEF HeldFacts
  <2> HIDE DEF after, m
  <2>6. Once(after, added + 1)
    BY <1>3, <1>5, <1>6, <2>3, <2>4, <2>5, Grown
  <2> QED BY <1>6, <2>1, <2>6 DEF after
<1> QED BY <1>7, <1>8

LEMMA HeldStartIter ==
    ASSUME DataInv, HeldInv, NEW m \in {"iter", "write"}, NEW fail \in BOOLEAN, StartIter(m, fail)
    PROVE  HeldInv'
<1>1. /\ phase = "idle" /\ added' = added
      /\ IF Unflushed THEN Flush(vec, fail)
         ELSE ~fail /\ UNCHANGED <<vec, batches, readers, failed, jobs>>
  BY DEF StartIter
<1> SUFFICES ASSUME ~failed' PROVE Once(Held', added) /\ AllIncreasing(readers')
  BY <1>1 DEF HeldInv, AllIncreasing
<1>2. ~failed
  BY <1>1 DEF Flush, DataInv, SorterTyped
<1>3. Once(Held, added) /\ AllIncreasing(readers)
  BY <1>1, <1>2 DEF HeldInv
<1>4. CASE Unflushed
  <2>1. vec \in Seq(Entry) /\ Apart(vec)
    BY DEF DataInv, SorterTyped, FreshInv
  <2>2. [Held EXCEPT ![<<"memory", 0>>] = vec] = Held
    <3>1. Held = [p \in DOMAIN Held |-> Held[p]] /\ Held[<<"memory", 0>>] = vec
      <4>1. Held[<<"memory", 0>>] = vec
        BY HeldNow DEF HeldFacts
      <4>2. Held = [p \in DOMAIN Held |-> Held[p]]
        BY DEF Held
      <4> QED BY <4>1, <4>2
    <3> QED BY <3>1
  <2> QED BY <1>1, <1>3, <1>4, <2>1, <2>2, FlushMoves
<1>5. CASE ~Unflushed
  <2>1. UNCHANGED <<vec, batches, readers, jobs>>
    BY <1>1, <1>5
  <2>2. Held' = Held
    BY <2>1, HeldUnchanged DEF jobs
  <2> QED BY <1>3, <2>1, <2>2 DEF AllIncreasing
<1> QED BY <1>4, <1>5

LEMMA HeldCollectReader ==
    ASSUME DataInv, HeldInv, NEW fail \in BOOLEAN, CollectReader(fail)
    PROVE  HeldInv'
<1> DEFINE b == Last(delivered'[Handler])[2]
           c == Len(readers) + 1
           p == <<"pool", b>>
           q == <<"chunk", c>>
           after == Held'
<1> SUFFICES ASSUME ~failed', phase' \in {"idle", "collecting", "taking"}
             PROVE  Once(after, added') /\ AllIncreasing(readers')
  BY DEF HeldInv, AllIncreasing
<1>1. /\ J!Deliver(Handler) /\ UNCHANGED <<pooled, vec, batches, iterating, output, added>>
      /\ failed' = (failed \/ fail)
      /\ \/ phase' = "crashed" /\ UNCHANGED readers
         \/ /\ \E s \in Sorted(batches[b]) : readers' = Append(readers, WriteChunk(s, fail))
            /\ UNCHANGED phase
  BY DEF CollectReader
<1>2. batches \in Seq(Seq(Entry)) /\ readers \in Seq(Seq(Entry))
  BY DEF DataInv, SorterTyped
<1>3. b \in InPool /\ InPool' = InPool \ {b}
  BY <1>1, <1>2, DeliverTakes DEF DataInv
<1> HIDE DEF b
<1>4. ~failed /\ ~fail /\ phase \in {"idle", "collecting", "taking"}
  BY <1>1
<1>5. Once(Held, added) /\ AllIncreasing(readers)
  BY <1>4 DEF HeldInv
<1>6. b \in 1..Len(batches) /\ batches[b] \in Seq(Entry) /\ Apart(batches[b])
  BY <1>2, <1>3, ElementOfSeq DEF DataInv, FreshInv, InPool
<1>7. PICK s \in Sorted(batches[b]) : readers' = Append(readers, Merged(s))
  BY <1>1, <1>4 DEF WriteChunk
<1>8. WellWritten(Merged(s), batches[b])
  BY <1>6, ChunkKeeps
<1>9. /\ AllIncreasing(readers')
      /\ Len(readers) \in Nat /\ Len(readers') = c
      /\ readers'[c] = Merged(s)
      /\ \A i \in 1..Len(readers) : readers'[i] = readers[i]
  BY <1>2, <1>5, <1>7, <1>8, ChunkAdded DEF WellWritten
<1>10. 1..c = (1..Len(readers)) \cup {c} /\ c \notin 1..Len(readers)
  BY <1>9
<1> HIDE DEF c
<1>11. p \in Places /\ q \notin Places /\ Held[p] = batches[b] /\ p # q
  BY <1>3, <1>10, HeldNow DEF HeldFacts
<1>12. Places' = (Places \ {p}) \cup {q}
  <2>1. ASSUME NEW r \in Places' PROVE r \in (Places \ {p}) \cup {q}
    <3>1. \/ r = <<"memory", 0>>
          \/ \E i \in InPool \ {b} : r = <<"pool", i>>
          \/ \E i \in 1..c : r = <<"chunk", i>>
      BY <1>3, <1>9, HeldNext DEF HeldFacts
    <3>2. CASE \E i \in InPool \ {b} : r = <<"pool", i>>
      BY <3>2, HeldNow DEF HeldFacts
    <3>3. CASE \E i \in 1..c : r = <<"chunk", i>>
      BY <1>10, <3>3, HeldNow DEF HeldFacts
    <3> QED BY <3>1, <3>2, <3>3, HeldNow DEF HeldFacts
  <2>2. ASSUME NEW r \in Places, r # p PROVE r \in Places'
    <3>1. CASE \E i \in InPool : r = <<"pool", i>>
      <4>1. PICK i \in InPool : r = <<"pool", i>>
        BY <3>1
      <4>2. i \in InPool'
        BY <1>3, <2>2, <4>1
      <4> QED BY <4>1, <4>2, HeldNext DEF HeldFacts
    <3>2. CASE \E i \in 1..Len(readers) : r = <<"chunk", i>>
      <4>1. PICK i \in 1..Len(readers) : r = <<"chunk", i>>
        BY <3>2
      <4>2. i \in 1..Len(readers')
        BY <1>9, <1>10
      <4> QED BY <4>1, <4>2, HeldNext DEF HeldFacts
    <3> QED BY <3>1, <3>2, HeldNow, HeldNext DEF HeldFacts
  <2>3. q \in Places'
    <3>1. c \in 1..Len(readers')
      BY <1>9, <1>10
    <3> QED BY <3>1, HeldNext DEF HeldFacts
  <2> QED BY <2>1, <2>2, <2>3
<1>13. DOMAIN after = Places' /\ DOMAIN Held = Places
  BY HeldNow, HeldNext DEF HeldFacts
<1>14. after[q] = Merged(s)
  <2>1. c \in 1..Len(readers')
    BY <1>9, <1>10
  <2> QED BY <1>9, <2>1, HeldNext DEF HeldFacts
<1>15. ASSUME NEW r \in Places, r # p PROVE after[r] = Held[r]
  <2>1. CASE \E i \in InPool : r = <<"pool", i>>
    <3>1. PICK i \in InPool : r = <<"pool", i>>
      BY <2>1
    <3>2. i \in InPool' /\ batches'[i] = batches[i]
      BY <1>1, <1>3, <1>15, <3>1
    <3> QED BY <3>1, <3>2, HeldNow, HeldNext DEF HeldFacts
  <2>2. CASE \E i \in 1..Len(readers) : r = <<"chunk", i>>
    <3>1. PICK i \in 1..Len(readers) : r = <<"chunk", i>>
      BY <2>2
    <3>2. i \in 1..Len(readers') /\ readers'[i] = readers[i]
      BY <1>9, <1>10
    <3> QED BY <3>1, <3>2, HeldNow, HeldNext DEF HeldFacts
  <2>3. CASE r = <<"memory", 0>>
    BY <1>1, <2>3, HeldNow, HeldNext DEF HeldFacts
  <2> QED BY <2>1, <2>2, <2>3, HeldNow DEF HeldFacts
<1> HIDE DEF after, p, q
<1>16. Once(after, added)
  <2>1. (DOMAIN Held \cup {q}) \ {p} = DOMAIN after \ {p}
    BY <1>11, <1>12, <1>13
  <2>2. p \notin DOMAIN after
    BY <1>11, <1>12, <1>13
  <2>3. Apart(after[q]) /\ Values(after[q]) = Values(Held[p])
    BY <1>8, <1>11, <1>14 DEF WellWritten
  <2> QED BY <1>5, <1>11, <1>13, <1>15, <2>1, <2>2, <2>3, Moved
<1> QED BY <1>1, <1>9, <1>16

LEMMA HeldStep ==
    ASSUME DataInv, HeldInv, [Next]_vars
    PROVE  HeldInv'
<1>1. ASSUME UNCHANGED <<vec, batches, readers, added, sent, delivered>>,
             \/ failed'
             \/ failed' = failed /\ phase' \in {phase, "crashed", "gone"}
             \/ failed' = failed /\ phase \in {"idle", "collecting", "taking"}
      PROVE  HeldInv'
  <2>1. Held' = Held
    BY <1>1, HeldUnchanged
  <2> QED BY <1>1, <2>1 DEF HeldInv, AllIncreasing
<1>2. CASE WriteRefused
  BY <1>1, <1>2 DEF WriteRefused, jobs
<1>3. CASE DestroyHandler
  BY <1>1, <1>3 DEF DestroyHandler, J!Close
<1>4. CASE FinishIter
  BY <1>1, <1>4 DEF FinishIter, jobs
<1>5. ASSUME NEW S \in SUBSET Holders, IterNext(S) PROVE HeldInv'
  BY <1>1, <1>5 DEF IterNext, jobs
<1>6. CASE IterEnd \/ WriterRefuses
  BY <1>1, <1>6 DEF IterEnd, WriterRefuses, jobs
<1>7. CASE Destroy
  BY <1>7 DEF Destroy, HeldInv
<1>8. CASE UNCHANGED vars
  BY <1>1, <1>8 DEF vars, jobs
<1> QED BY <1>2, <1>3, <1>4, <1>5, <1>6, <1>7, <1>8, HeldAdd, HeldStartIter, HeldCollectReader DEF Next

-------------------------------------------------------------------------------
(* An iterator starts with everything *)

\* result_handler_destroy() has waited for every batch.
WaitedInv == closed[Handler] => InPool = {}

LEMMA FlushWaited ==
    ASSUME DataInv, WaitedInv, NEW v \in Seq(Entry), NEW fail, Flush(v, fail)
    PROVE  WaitedInv'
<1>1. CASE pooled
  BY <1>1 DEF Flush, J!Dispatch, WaitedInv
<1>2. CASE ~pooled
  <2>1. UNCHANGED <<batches, sent, delivered, closed>>
    BY <1>2 DEF Flush, jobs
  <2> QED BY <2>1, InPoolUnchanged DEF WaitedInv
<1> QED BY <1>1, <1>2

LEMMA WaitedStep ==
    ASSUME DataInv, WaitedInv, [Next]_vars
    PROVE  WaitedInv'
<1>1. ASSUME UNCHANGED <<batches, sent, delivered, closed>> PROVE WaitedInv'
  BY <1>1, InPoolUnchanged DEF WaitedInv
<1>2. ASSUME NEW k \in Keys, NEW fail \in BOOLEAN, Add(k, fail) PROVE WaitedInv'
  <2> DEFINE v == Append(vec, [key |-> k, val |-> <<added + 1>>])
  <2>1. /\ added' = added + 1 /\ added < MaxAdds
        /\ IF Full(v) THEN Flush(v, fail) ELSE UNCHANGED <<batches, jobs>>
    BY <1>2 DEF Add
  <2>2. v \in Seq(Entry)
    <3>1. [key |-> k, val |-> <<added + 1>>] \in Entry /\ vec \in Seq(Entry)
      BY <2>1, NewEntry DEF DataInv, SorterTyped
    <3> QED BY <3>1, AppendProperties
  <2> HIDE DEF v
  <2> QED BY <1>1, <2>1, <2>2, FlushWaited DEF jobs
<1>3. ASSUME NEW m \in {"iter", "write"}, NEW fail \in BOOLEAN, StartIter(m, fail) PROVE WaitedInv'
  <2>1. vec \in Seq(Entry)
    BY DEF DataInv, SorterTyped
  <2>2. IF Unflushed THEN Flush(vec, fail) ELSE UNCHANGED <<batches, jobs>>
    BY <1>3 DEF StartIter
  <2> QED BY <1>1, <2>1, <2>2, FlushWaited DEF jobs
<1>4. CASE WriteRefused
  BY <1>1, <1>4 DEF WriteRefused, jobs
<1>5. CASE DestroyHandler
  <2>1. J!Outstanding(Handler) = {} /\ UNCHANGED <<batches, sent, delivered>>
    BY <1>5 DEF DestroyHandler, J!Close
  <2>2. InPool' = InPool
    BY <2>1, InPoolUnchanged
  <2> QED BY <2>1, <2>2 DEF WaitedInv, InPool
<1>6. CASE FinishIter
  BY <1>1, <1>6 DEF FinishIter, jobs
<1>7. ASSUME NEW S \in SUBSET Holders, IterNext(S) PROVE WaitedInv'
  BY <1>1, <1>7 DEF IterNext, jobs
<1>8. CASE IterEnd \/ WriterRefuses
  BY <1>1, <1>8 DEF IterEnd, WriterRefuses, jobs
<1>9. CASE Destroy
  BY <1>1, <1>9 DEF Destroy, jobs
<1>10. ASSUME NEW fail \in BOOLEAN, CollectReader(fail) PROVE WaitedInv'
  BY <1>10 DEF CollectReader, J!Deliver, WaitedInv
<1>11. CASE UNCHANGED vars
  BY <1>1, <1>11 DEF vars, jobs
<1> QED BY <1>2, <1>3, <1>4, <1>5, <1>6, <1>7, <1>8, <1>9, <1>10, <1>11 DEF Next

Below == \A i \in 1..Len(out), j \in Left : out[i].key < rest[j][1].key

ReturnInv ==
    phase = "taking" /\ ~failed =>
        /\ Once(Output, added) /\ AllIncreasing(rest)
        /\ Increasing(out) /\ Below

OutputFacts ==
    /\ DOMAIN Output = 0..Len(rest)
    /\ Output[0] = out
    /\ \A i \in 1..Len(rest) : Output[i] = rest[i]

LEMMA OutputNow ==
    ASSUME Len(rest) \in Nat
    PROVE  OutputFacts
BY DEF Output, OutputFacts

LEMMA OutputNext == (Len(rest) \in Nat => OutputFacts)'
<1>1. Len(rest) \in Nat => OutputFacts
  BY OutputNow
<1> QED BY <1>1, PTL

LEMMA ReturnStart ==
    ASSUME DataInv, WaitedInv, HeldInv, FinishIter
    PROVE  ReturnInv'
<1> SUFFICES ASSUME phase' = "taking", ~failed'
             PROVE  Once(Output', added') /\ AllIncreasing(rest') /\ Increasing(out') /\ Below'
  BY DEF ReturnInv, AllIncreasing, Increasing
<1>1. /\ phase = "collecting" /\ Waited
      /\ rest' = readers /\ out' = <<>>
      /\ UNCHANGED <<vec, batches, readers, added, failed, jobs>>
  BY DEF FinishIter
<1>2. InPool = {}
  <2>1. CASE pooled
    BY <1>1, <2>1 DEF Waited, WaitedInv
  <2>2. CASE ~pooled
    BY <2>2, NoneOutstanding DEF InPool, DataInv, PoolInv
  <2> QED BY <2>1, <2>2
<1>3. vec = <<>> /\ readers \in Seq(Seq(Entry))
  BY <1>1 DEF DataInv, FreshInv, SorterTyped
<1>4. Once(Held, added) /\ AllIncreasing(readers)
  BY <1>1 DEF HeldInv
<1> DEFINE n == Len(readers)
           after == Output'
           m == <<"memory", 0>>
<1>5. n \in Nat
  BY <1>3, LenProperties
<1>6. DOMAIN after = 0..n /\ after[0] = <<>> /\ \A i \in 1..n : after[i] = readers[i]
  BY <1>1, <1>5, OutputNext DEF OutputFacts
<1>7. \A i \in 1..n : <<"chunk", i>> \in DOMAIN Held /\ Held[<<"chunk", i>>] = readers[i]
  BY HeldNow DEF HeldFacts
<1>8. \A p \in DOMAIN Held : p = m \/ \E i \in 1..n : p = <<"chunk", i>>
  BY <1>2, HeldNow DEF HeldFacts
<1>9. m \in DOMAIN Held /\ Values(Held[m]) = {}
  BY <1>3, HeldNow, NoEntries DEF HeldFacts
<1>10. \A i \in 0..n : i = 0 \/ i \in 1..n
  BY <1>5
<1> HIDE DEF after, m, n
<1>11. Once(after, added)
  <2>1. \A i \in 0..n : Apart(after[i])
    <3>1. \A i \in 1..n : Apart(readers[i])
      BY <1>4, <1>7 DEF Once
    <3> QED BY <1>6, <1>10, <3>1, NoEntries
  <2>2. ASSUME NEW i \in 0..n, NEW j \in 0..n, i # j
        PROVE  Values(after[i]) \cap Values(after[j]) = {}
    <3>1. CASE i = 0 \/ j = 0
      BY <1>6, <3>1, NoEntries
    <3>2. CASE i \in 1..n /\ j \in 1..n
      <4>1. <<"chunk", i>> # <<"chunk", j>>
        BY <2>2
      <4>2. Values(Held[<<"chunk", i>>]) \cap Values(Held[<<"chunk", j>>]) = {}
        BY <1>4, <1>7, <3>2, <4>1 DEF Once
      <4> QED BY <1>6, <1>7, <3>2, <4>2
    <3> QED BY <1>10, <3>1, <3>2
  <2>3. UNION {Values(after[i]) : i \in 0..n} = UNION {Values(Held[p]) : p \in DOMAIN Held}
    <3>1. ASSUME NEW i \in 0..n, NEW x \in Values(after[i])
          PROVE  \E p \in DOMAIN Held : x \in Values(Held[p])
      <4>1. i \in 1..n
        BY <1>6, <1>10, <3>1, NoEntries
      <4> QED BY <1>6, <1>7, <3>1, <4>1
    <3>2. ASSUME NEW p \in DOMAIN Held, NEW x \in Values(Held[p])
          PROVE  \E i \in 0..n : x \in Values(after[i])
      <4>1. PICK i \in 1..n : p = <<"chunk", i>>
        BY <1>8, <1>9, <3>2
      <4>2. i \in 0..n
        BY <1>5
      <4> QED BY <1>6, <1>7, <3>2, <4>1, <4>2
    <3> QED BY <3>1, <3>2
  <2>4. UNION {Values(Held[p]) : p \in DOMAIN Held} = 1..added
    BY <1>4 DEF Once
  <2> QED BY <1>6, <2>1, <2>2, <2>3, <2>4 DEF Once
<1>12. Increasing(out') /\ Below'
  <2>1. Len(out') = 0
    BY <1>1, EmptySeq
  <2>2. \A i \in 1..Len(out') : FALSE
    BY <2>1
  <2> QED BY <2>2 DEF Increasing, Below
<1> QED BY <1>1, <1>4, <1>11, <1>12 DEF after

\* The first entry of a source is taken away.
LEMMA TailKeeps ==
    ASSUME NEW s \in Seq(Entry), s # <<>>, Apart(s), Increasing(s)
    PROVE  /\ Apart(Tail(s)) /\ Increasing(Tail(s))
           /\ Values(s) = Range(s[1].val) \cup Values(Tail(s))
           /\ Range(s[1].val) \cap Values(Tail(s)) = {}
           /\ IsInjective(s[1].val)
           /\ Tail(s) # <<>> => s[1].key < Tail(s)[1].key
<1> DEFINE n == Len(s)
           t == Tail(s)
<1>1. n \in Nat /\ 1 \in 1..n
  BY LenProperties, EmptySeq
<1>2. t \in Seq(Entry) /\ Len(t) = n - 1 /\ \A i \in 1..(n - 1) : t[i] = s[i + 1]
  BY HeadTailProperties
<1> HIDE DEF t
<1>3. \A i \in 1..(n - 1) : i + 1 \in 1..n /\ i + 1 # 1
  BY <1>1
<1>4. \A i \in 1..n : i # 1 => i - 1 \in 1..(n - 1) /\ (i - 1) + 1 = i
  BY <1>1
<1>5. /\ \A i \in 1..n : IsInjective(s[i].val)
      /\ \A i, j \in 1..n : i # j => Range(s[i].val) \cap Range(s[j].val) = {}
  BY DEF Apart
<1>6. Apart(t)
  <2>1. \A i \in 1..(n - 1) : IsInjective(t[i].val)
    BY <1>2, <1>3, <1>5
  <2>2. ASSUME NEW i \in 1..(n - 1), NEW j \in 1..(n - 1), i # j
        PROVE  Range(t[i].val) \cap Range(t[j].val) = {}
    <3>1. i + 1 # j + 1 /\ i + 1 \in 1..n /\ j + 1 \in 1..n
      BY <1>3, <2>2
    <3> QED BY <1>2, <1>5, <3>1
  <2> QED BY <1>2, <2>1, <2>2 DEF Apart
<1>7. Increasing(t)
  <2>1. ASSUME NEW i \in 1..(n - 1), NEW j \in 1..(n - 1), i < j PROVE t[i].key < t[j].key
    <3>1. i + 1 < j + 1 /\ i + 1 \in 1..n /\ j + 1 \in 1..n
      BY <1>3, <2>1
    <3>2. s[i + 1].key < s[j + 1].key
      BY <3>1 DEF Increasing
    <3> QED BY <1>2, <3>2
  <2> QED BY <1>2, <2>1 DEF Increasing
<1>8. Values(s) = UNION {Range(s[i].val) : i \in 1..n} /\ Values(t) = UNION {Range(t[i].val) : i \in 1..(n - 1)}
  BY <1>2 DEF Values
<1>9. Values(s) = Range(s[1].val) \cup Values(t)
  <2>1. ASSUME NEW x \in Values(s) PROVE x \in Range(s[1].val) \cup Values(t)
    <3>1. PICK i \in 1..n : x \in Range(s[i].val)
      BY <1>8
    <3>2. CASE i # 1
      <4>1. i - 1 \in 1..(n - 1) /\ t[i - 1] = s[i]
        BY <1>2, <1>4, <3>2
      <4> QED BY <1>8, <3>1, <4>1
    <3> QED BY <3>1, <3>2
  <2>2. ASSUME NEW x \in Values(t) PROVE x \in Values(s)
    <3>1. PICK i \in 1..(n - 1) : x \in Range(t[i].val)
      BY <1>8
    <3>2. i + 1 \in 1..n /\ t[i] = s[i + 1]
      BY <1>2, <1>3
    <3> QED BY <1>8, <3>1, <3>2
  <2>3. Range(s[1].val) \subseteq Values(s)
    BY <1>1, <1>8
  <2> QED BY <2>1, <2>2, <2>3
<1>10. Range(s[1].val) \cap Values(t) = {}
  <2>1. ASSUME NEW i \in 1..(n - 1) PROVE Range(s[1].val) \cap Range(t[i].val) = {}
    BY <1>1, <1>2, <1>3, <1>5
  <2> QED BY <1>8, <2>1
<1>11. ASSUME t # <<>> PROVE s[1].key < t[1].key
  <2>1. Len(t) \in Nat \ {0}
    BY <1>2, <1>11, EmptySeq
  <2>2. 1 \in 1..(n - 1) /\ 2 \in 1..n /\ 1 < 2 /\ 1 + 1 = 2
    BY <1>1, <1>2, <2>1
  <2>3. s[1].key < s[2].key
    BY <1>1, <2>2 DEF Increasing
  <2>4. t[1] = s[1 + 1]
    BY <1>2, <2>2
  <2> QED BY <2>2, <2>3, <2>4
<1> QED BY <1>1, <1>5, <1>6, <1>7, <1>9, <1>10, <1>11 DEF t

\* The values of the heads that have the least key
HeadValues == UNION {Range(rest[i][1].val) : i \in Holders}

LEMMA HeadsMerged ==
    ASSUME DataInv, Holders # {},
           \A i \in 1..Len(rest) : Apart(rest[i]) /\ Increasing(rest[i]),
           \A i, j \in 1..Len(rest) : i # j => Values(rest[i]) \cap Values(rest[j]) = {}
    PROVE  /\ IsInjective(MergedHead(Holders).val)
           /\ Range(MergedHead(Holders).val) = HeadValues
<1> DEFINE n == Len(rest)
           s == ValuesOf(Holders)
<1>1. rest \in Seq(Seq(Entry))
  BY DEF DataInv, SorterTyped
<1>2. /\ Holders \subseteq 1..n
      /\ \A i \in 1..n : rest[i] \in Seq(Entry)
      /\ \A i \in Holders : rest[i] # <<>>
  BY <1>1, SourcesAre
<1>3. s \in Seq(Seq(1..MaxAdds)) /\ Len(s) = n
  BY <1>1, HeadsAre
<1>4. \A i \in 1..n : s[i] = IF i \in Holders THEN rest[i][1].val ELSE <<>>
  BY DEF ValuesOf
<1>5. IsInjective(<<>>) /\ Range(<<>>) = {}
  BY DEF IsInjective, Range
<1>6. \A i \in Holders : IsInjective(rest[i][1].val) /\ Range(rest[i][1].val) \subseteq Values(rest[i])
  BY <1>2, TailKeeps
<1> HIDE DEF s, n
<1>7. \A i \in 1..n : IsInjective(s[i])
  BY <1>4, <1>5, <1>6
<1>8. ASSUME NEW i \in 1..n, NEW j \in 1..n, i # j PROVE Range(s[i]) \cap Range(s[j]) = {}
  <2>1. Values(rest[i]) \cap Values(rest[j]) = {}
    BY <1>8 DEF n
  <2>2. Range(s[i]) \subseteq Values(rest[i]) /\ Range(s[j]) \subseteq Values(rest[j])
    BY <1>4, <1>5, <1>6
  <2> QED BY <2>1, <2>2
<1>9. /\ IsInjective(FlattenSeq(s))
      /\ Range(FlattenSeq(s)) = UNION {Range(s[i]) : i \in 1..n}
  BY <1>3, <1>7, <1>8, FlattenInjective
<1>10. UNION {Range(s[i]) : i \in 1..n} = HeadValues
  BY <1>2, <1>4, <1>5 DEF HeadValues
<1> QED BY <1>9, <1>10 DEF MergedHead, s

LEMMA ReturnNext ==
    ASSUME DataInv, ReturnInv, Holders # {}, IterNext(Holders)
    PROVE  ReturnInv'
<1> SUFFICES ASSUME phase' = "taking", ~failed'
             PROVE  Once(Output', added') /\ AllIncreasing(rest') /\ Increasing(out') /\ Below'
  BY DEF ReturnInv, AllIncreasing, Increasing
<1> DEFINE S == Holders
           n == Len(rest)
           e == MergedHead(S)
           after == Output'
<1>1. /\ phase = "taking" /\ failed' = failed /\ added' = added
      /\ out' = Append(out, e)
      /\ rest' = [i \in DOMAIN rest |-> IF i \in S THEN Tail(rest[i]) ELSE rest[i]]
  BY DEF IterNext, MergedHead, HeadOf, ValuesOf
<1>2. rest \in Seq(Seq(Entry)) /\ out \in Seq(Entry)
  BY DEF DataInv, SorterTyped
<1>3. /\ n \in Nat /\ DOMAIN rest = 1..n
      /\ Left \subseteq 1..n /\ S \subseteq Left
      /\ \A i \in 1..n : rest[i] \in Seq(Entry)
      /\ \A i \in Left : /\ rest[i] # <<>> /\ rest[i][1] \in Entry
                         /\ rest[i][1].key \in Nat
                         /\ Tail(rest[i]) \in Seq(Entry)
  BY <1>2, SourcesAre
<1>4. /\ Once(Output, added) /\ AllIncreasing(rest)
      /\ Increasing(out) /\ Below
  BY <1>1 DEF ReturnInv
<1>5. DOMAIN Output = 0..n /\ Output[0] = out /\ \A i \in 1..n : Output[i] = rest[i]
  BY <1>3, OutputNow DEF OutputFacts
<1>6. 0 \in 0..n /\ \A i \in 0..n : i = 0 \/ (i \in 1..n /\ i # 0)
  BY <1>3
<1>7. /\ Apart(out)
      /\ \A i \in 1..n : Apart(rest[i]) /\ Increasing(rest[i]) /\ Values(out) \cap Values(rest[i]) = {}
      /\ \A i, j \in 1..n : i # j => Values(rest[i]) \cap Values(rest[j]) = {}
  <2>1. \A i \in 1..n : i \in 0..n /\ i # 0
    BY <1>3
  <2> QED BY <1>4, <1>5, <1>6, <2>1 DEF Once, AllIncreasing
<1>8. IsInjective(e.val) /\ Range(e.val) = HeadValues
  BY <1>7, HeadsMerged
<1>9. e \in Entry /\ e.key \in Nat /\ \A i \in Left : e.key <= rest[i][1].key
  <2>1. /\ HeadOf(S).key \in Keys
        /\ \A i \in Left : HeadOf(S).key <= rest[i][1].key
        /\ e \in Entry
    BY <1>2, HeadsAre
  <2>2. e.key = HeadOf(S).key
    BY DEF MergedHead
  <2> HIDE DEF e
  <2> QED BY <2>1, <2>2, SorterAssumption
<1>10. \A i \in S : e.key = rest[i][1].key
  <2>1. \A i \in S : rest[i][1].key = HeadOf(S).key
    BY <1>2, HeadsAre
  <2>2. e.key = HeadOf(S).key
    BY DEF MergedHead
  <2> HIDE DEF e
  <2> QED BY <2>1, <2>2
<1> HIDE DEF e
<1>11. Len(rest') = n /\ \A i \in 1..n : rest'[i] = IF i \in S THEN Tail(rest[i]) ELSE rest[i]
  <2>1. rest' = [i \in 1..n |-> IF i \in S THEN Tail(rest[i]) ELSE rest[i]]
    BY <1>1, <1>3
  <2> HIDE DEF n, S
  <2> QED BY <1>3, <2>1
<1>12. \A i \in S : /\ Apart(Tail(rest[i])) /\ Increasing(Tail(rest[i]))
                    /\ Values(rest[i]) = Range(rest[i][1].val) \cup Values(Tail(rest[i]))
                    /\ Range(rest[i][1].val) \cap Values(Tail(rest[i])) = {}
                    /\ Tail(rest[i]) # <<>> => rest[i][1].key < Tail(rest[i])[1].key
  BY <1>3, <1>7, TailKeeps
<1>13. DOMAIN after = 0..n /\ after[0] = out' /\ \A i \in 1..n : after[i] = rest'[i]
  BY <1>3, <1>11, OutputNext DEF OutputFacts
<1>14. HeadValues = UNION {Range(rest[i][1].val) : i \in S}
  BY DEF HeadValues
<1>15. ASSUME NEW i \in 1..n
       PROVE  /\ Apart(rest'[i]) /\ Increasing(rest'[i])
              /\ Values(rest'[i]) \subseteq Values(rest[i])
              /\ Values(rest'[i]) \cap HeadValues = {}
  <2>1. \A j \in S : j \in 1..n /\ Range(rest[j][1].val) \subseteq Values(rest[j])
    BY <1>3, <1>12
  <2>2. ASSUME NEW j \in S, j # i PROVE Values(rest[i]) \cap Range(rest[j][1].val) = {}
    BY <1>7, <2>1, <2>2
  <2>3. CASE i \in S
    <3>1. rest'[i] = Tail(rest[i]) /\ Range(rest[i][1].val) \cap Values(rest'[i]) = {}
          /\ Values(rest'[i]) \subseteq Values(rest[i])
      BY <1>11, <1>12, <2>3
    <3> HIDE DEF S
    <3> QED BY <1>12, <1>14, <2>2, <2>3, <3>1
  <2>4. CASE i \notin S
    <3>1. rest'[i] = rest[i]
      BY <1>11, <2>4
    <3> HIDE DEF S
    <3> QED BY <1>7, <1>14, <2>2, <2>4, <3>1
  <2> QED BY <2>3, <2>4
<1>16. Values(out) \cap HeadValues = {}
  <2>1. \A j \in S : j \in 1..n /\ Range(rest[j][1].val) \subseteq Values(rest[j])
    BY <1>3, <1>12
  <2> HIDE DEF S
  <2> QED BY <1>7, <1>14, <2>1
<1>17. Apart(out') /\ Values(out') = Values(out) \cup HeadValues
  BY <1>1, <1>2, <1>7, <1>8, <1>9, <1>16, AppendEntry
<1> HIDE DEF after
<1>18. Once(after, added)
  <2>1. \A i \in 0..n : Apart(after[i])
    BY <1>6, <1>13, <1>15, <1>17
  <2>2. \A i \in 1..n : Values(after[0]) \cap Values(after[i]) = {}
    BY <1>7, <1>13, <1>15, <1>17
  <2>3. \A i, j \in 1..n : i # j => Values(after[i]) \cap Values(after[j]) = {}
    BY <1>7, <1>13, <1>15
  <2>4. ASSUME NEW i \in 0..n, NEW j \in 0..n, i # j
        PROVE  Values(after[i]) \cap Values(after[j]) = {}
    BY <1>6, <2>2, <2>3, <2>4
  <2>5. UNION {Values(after[i]) : i \in 0..n} = UNION {Values(Output[i]) : i \in 0..n}
    <3>1. ASSUME NEW i \in 0..n, NEW x \in Values(after[i])
          PROVE  \E j \in 0..n : x \in Values(Output[j])
      <4>1. CASE i = 0 /\ x \in HeadValues
        <5>1. PICK j \in S : x \in Range(rest[j][1].val)
          BY <1>14, <4>1
        <5>2. j \in 1..n
          BY <1>3
        <5>3. j \in 0..n
          BY <1>3, <5>2
        <5>4. x \in Values(rest[j])
          <6> HIDE DEF S, n
          <6> QED BY <1>12, <5>1
        <5> QED BY <1>5, <5>2, <5>3, <5>4
      <4>2. CASE i = 0 /\ x \in Values(out)
        BY <1>5, <1>6, <4>2
      <4>3. CASE i \in 1..n
        <5>1. x \in Values(rest[i])
          BY <1>13, <1>15, <3>1, <4>3
        <5> QED BY <1>5, <4>3, <5>1
      <4> QED BY <1>6, <1>13, <1>17, <3>1, <4>1, <4>2, <4>3
    <3>2. ASSUME NEW j \in 0..n, NEW x \in Values(Output[j])
          PROVE  \E i \in 0..n : x \in Values(after[i])
      <4>1. CASE j = 0
        BY <1>5, <1>6, <1>13, <1>17, <3>2, <4>1
      <4>2. CASE j \in S
        <5>1. j \in 1..n /\ x \in Range(rest[j][1].val) \cup Values(Tail(rest[j]))
          BY <1>3, <1>5, <1>12, <3>2, <4>2
        <5>2. CASE x \in Range(rest[j][1].val)
          <6>1. x \in HeadValues
            BY <1>14, <4>2, <5>2
          <6> QED BY <1>6, <1>13, <1>17, <6>1
        <5>3. CASE x \in Values(Tail(rest[j]))
          <6>1. x \in Values(after[j])
            BY <1>11, <1>13, <4>2, <5>1, <5>3
          <6> QED BY <6>1
        <5> QED BY <5>1, <5>2, <5>3
      <4>3. CASE j \in 1..n /\ j \notin S
        <5>1. x \in Values(after[j])
          BY <1>5, <1>11, <1>13, <3>2, <4>3
        <5> QED BY <5>1
      <4> QED BY <1>6, <4>1, <4>2, <4>3
    <3> HIDE DEF n
    <3> QED BY <3>1, <3>2
  <2>6. UNION {Values(Output[i]) : i \in 0..n} = 1..added
    BY <1>4, <1>5 DEF Once
  <2> QED BY <1>13, <2>1, <2>4, <2>5, <2>6 DEF Once
<1>19. AllIncreasing(rest')
  BY <1>11, <1>15 DEF AllIncreasing
<1>20. /\ Len(out) \in Nat /\ Len(out') = Len(out) + 1 /\ out'[Len(out) + 1] = e
       /\ \A i \in 1..Len(out) : out'[i] = out[i] /\ out[i].key \in Nat
  <2>1. \A x \in Entry : x.key \in Nat
    BY SorterAssumption DEF Entry
  <2> QED BY <1>1, <1>2, <1>9, <2>1, AppendProperties, LenProperties, ElementOfSeq
<1>21. \A i \in 1..(Len(out) + 1) : i \in 1..Len(out) \/ i = Len(out) + 1
  BY <1>20
<1>22. PICK c \in S : TRUE
  OBVIOUS
<1>23. \A i \in 1..Len(out) : out[i].key < e.key
  <2>1. c \in Left /\ e.key = rest[c][1].key
    BY <1>3, <1>10, <1>22
  <2> QED BY <1>4, <2>1 DEF Below
<1>24. Increasing(out')
  <2>1. ASSUME NEW i \in 1..(Len(out) + 1), NEW j \in 1..(Len(out) + 1), i < j
        PROVE  out'[i].key < out'[j].key
    <3>1. i \in 1..Len(out)
      BY <1>20, <2>1
    <3>2. CASE j \in 1..Len(out)
      BY <1>4, <1>20, <2>1, <3>1, <3>2 DEF Increasing
    <3>3. CASE j = Len(out) + 1
      BY <1>20, <1>23, <3>1, <3>3
    <3> QED BY <1>21, <3>2, <3>3
  <2> QED BY <1>20, <2>1 DEF Increasing
<1>25. \A j \in Left' : j \in 1..n /\ e.key < rest'[j][1].key /\ rest'[j][1].key \in Nat
  <2> SUFFICES ASSUME NEW j \in Left'
               PROVE  j \in 1..n /\ e.key < rest'[j][1].key /\ rest'[j][1].key \in Nat
    OBVIOUS
  <2>1. j \in 1..n /\ rest'[j] # <<>>
    <3>1. DOMAIN rest' = 1..n
      BY <1>1, <1>3
    <3> QED BY <3>1 DEF Left
  <2>2. CASE j \in S
    <3>1. rest'[j] = Tail(rest[j]) /\ rest[j][1].key < rest'[j][1].key
      BY <1>11, <1>12, <2>1, <2>2
    <3>2. rest'[j][1].key \in Nat
      <4>1. rest'[j] \in Seq(Entry) /\ \A x \in Entry : x.key \in Nat
        BY <1>3, <2>2, <3>1, SorterAssumption DEF Entry
      <4>2. 1 \in 1..Len(rest'[j])
        BY <2>1, <4>1, EmptySeq, LenProperties
      <4> QED BY <4>1, <4>2, ElementOfSeq
    <3> QED BY <1>10, <2>1, <2>2, <3>1, <3>2
  <2>3. CASE j \notin S
    <3>1. rest'[j] = rest[j]
      BY <1>11, <2>1, <2>3
    <3>2. j \in Left
      BY <1>3, <2>1, <3>1 DEF Left
    <3>3. PICK k \in Left : ~(rest[j][1].key <= rest[k][1].key)
      BY <2>3, <3>2 DEF Holders
    <3>4. rest[j][1].key \in Nat /\ rest[k][1].key \in Nat /\ e.key <= rest[k][1].key
      BY <1>3, <1>9, <3>2, <3>3
    <3>5. e.key < rest[j][1].key
      BY <1>9, <3>3, <3>4
    <3> QED BY <2>1, <3>1, <3>4, <3>5
  <2> QED BY <2>2, <2>3
<1>26. Below'
  <2>1. ASSUME NEW i \in 1..(Len(out) + 1), NEW j \in Left' PROVE out'[i].key < rest'[j][1].key
    <3>1. CASE i \in 1..Len(out)
      <4>1. out'[i].key < e.key /\ out'[i].key \in Nat
        BY <1>20, <1>23, <3>1
      <4>2. e.key < rest'[j][1].key /\ rest'[j][1].key \in Nat
        BY <1>25, <2>1
      <4> QED BY <1>9, <4>1, <4>2
    <3>2. CASE i = Len(out) + 1
      BY <1>20, <1>25, <2>1, <3>2
    <3> QED BY <1>21, <3>1, <3>2
  <2> QED BY <1>20, <2>1 DEF Below
<1> QED BY <1>1, <1>18, <1>19, <1>24, <1>26 DEF after

LEMMA ReturnStep ==
    ASSUME DataInv, WaitedInv, HeldInv, ReturnInv, [Next]_vars
    PROVE  ReturnInv'
<1>1. ASSUME UNCHANGED <<rest, out, added>>, phase' = "taking" /\ ~failed' => phase = "taking" /\ ~failed
      PROVE  ReturnInv'
  <2>1. Output' = Output /\ Left' = Left
    BY <1>1 DEF Output, Left
  <2> QED BY <1>1, <2>1 DEF ReturnInv, AllIncreasing, Below
<1>2. ASSUME phase' # "taking" PROVE ReturnInv'
  BY <1>2 DEF ReturnInv
<1>3. ASSUME NEW k \in Keys, NEW fail \in BOOLEAN, Add(k, fail) PROVE ReturnInv'
  BY <1>2, <1>3 DEF Add
<1>4. ASSUME NEW m \in {"iter", "write"}, NEW fail \in BOOLEAN, StartIter(m, fail) PROVE ReturnInv'
  BY <1>2, <1>4 DEF StartIter
<1>5. CASE WriteRefused
  BY <1>1, <1>5 DEF WriteRefused
<1>6. CASE DestroyHandler
  BY <1>2, <1>6 DEF DestroyHandler
<1>7. CASE FinishIter
  BY <1>7, ReturnStart
<1>8. ASSUME NEW S \in SUBSET Holders, S # {}, IterNext(S) PROVE ReturnInv'
  <2>1. CASE S = Holders
    BY <1>8, <2>1, ReturnNext
  <2>2. CASE S # Holders
    BY <1>8, <2>2 DEF IterNext, ReturnInv
  <2> QED BY <2>1, <2>2
<1>9. CASE IterEnd \/ WriterRefuses
  BY <1>2, <1>9 DEF IterEnd, WriterRefuses
<1>10. CASE Destroy
  BY <1>2, <1>10 DEF Destroy, DataInv, SorterTyped
<1>11. ASSUME NEW fail \in BOOLEAN, CollectReader(fail) PROVE ReturnInv'
  BY <1>1, <1>11 DEF CollectReader, output, DataInv, SorterTyped
<1>12. CASE UNCHANGED vars
  BY <1>1, <1>12 DEF vars, output
<1> QED BY <1>3, <1>4, <1>5, <1>6, <1>7, <1>8, <1>9, <1>10, <1>11, <1>12 DEF Next

-------------------------------------------------------------------------------
(* The theorems *)

SorterInv == DataInv /\ WaitedInv /\ HeldInv /\ ReturnInv

LEMMA SorterInit == Init => SorterInv
<1> SUFFICES ASSUME Init PROVE SorterInv
  OBVIOUS
<1>1. /\ pooled \in BOOLEAN /\ vec = <<>> /\ batches = <<>> /\ readers = <<>> /\ iterating = FALSE
      /\ phase = "idle" /\ mode = "iter" /\ rest = <<>> /\ out = <<>> /\ wrote = "nothing"
      /\ added = 0 /\ failed = FALSE
      /\ J!Init
  BY DEF Init
<1>2. /\ MaxMemory \in Nat /\ 0 < MaxMemory /\ MaxAdds \in Nat /\ Len(<<>>) = 0
      /\ 0 \in 0..MaxAdds
  BY SorterAssumption
<1>3. SorterTyped
  <2>1. <<>> \in Seq(Entry) /\ <<>> \in Seq(Seq(Entry))
    BY EmptySeq
  <2> QED BY <1>1, <1>2, <2>1 DEF SorterTyped
<1>4. JobsInv
  <2>1. sent[Handler] = 0 /\ Len(batches) = 0
    BY <1>1, <1>2 DEF J!Init
  <2>2. <<>> \in Seq({Handler} \X (1..Len(batches)))
    BY EmptySeq
  <2>3. delivered \in [{Handler} -> Seq({Handler} \X (1..Len(batches)))]
    <3>1. delivered = [h \in {Handler} |-> <<>>]
      BY <1>1 DEF J!Init
    <3> QED BY <2>2, <3>1
  <2> QED BY <2>1, <2>3 DEF JobsInv
<1>5. FreshInv
  <2>1. \A i \in 1..Len(batches) : FALSE
    BY <1>1, <1>2
  <2> QED BY <1>1, <2>1, NoEntries DEF FreshInv
<1>6. WaitedInv
  BY <1>1 DEF WaitedInv, J!Init
<1>7. HeldInv
  <2>1. \A p \in DOMAIN Held : Held[p] = <<>>
    <3>1. InPool = {} /\ 1..Len(readers) = {}
      BY <1>1, <1>2 DEF InPool
    <3> QED BY <1>1, <3>1, HeldNow DEF HeldFacts
  <2>2. DOMAIN Held # {}
    BY HeldNow DEF HeldFacts
  <2>3. 1..0 = {}
    OBVIOUS
  <2>4. Once(Held, 0)
    BY <2>1, <2>3, NoEntries DEF Once
  <2>5. AllIncreasing(readers)
    BY <1>1, <1>2 DEF AllIncreasing
  <2> QED BY <1>1, <2>4, <2>5 DEF HeldInv
<1>8. ReturnInv
  BY <1>1 DEF ReturnInv
<1> QED BY <1>3, <1>4, <1>5, <1>6, <1>7, <1>8, PoolInit DEF SorterInv, DataInv

LEMMA SorterStep == SorterInv /\ [Next]_vars => SorterInv'
BY DataStep, WaitedStep, HeldStep, ReturnStep DEF SorterInv

LEMMA SorterInvariant == Spec => []SorterInv
BY SorterInit, SorterStep, PTL DEF Spec

LEMMA RangeOf ==
    ASSUME NEW A, NEW s \in Seq(A)
    PROVE  Range(s) = {s[i] : i \in 1..Len(s)} /\ Range(s) \subseteq A
BY LenProperties, ElementOfSeq DEF Range

\* The type invariant of run sorter.
THEOREM SorterTypeCorrect == Spec => []TypeOK
<1>1. SorterInv => TypeOK
  <2> SUFFICES ASSUME SorterInv PROVE TypeOK
    OBVIOUS
  <2>1. SorterTyped
    BY DEF SorterInv, DataInv
  <2>2. /\ Range(batches) \subseteq Seq(Entry) /\ Range(readers) \subseteq Seq(Entry)
        /\ Range(rest) \subseteq Seq(Entry)
    <3> DEFINE A == Seq(Entry)
    <3>1. batches \in Seq(A) /\ readers \in Seq(A) /\ rest \in Seq(A)
      BY <2>1 DEF SorterTyped
    <3> HIDE DEF A
    <3>2. Range(batches) \subseteq A /\ Range(readers) \subseteq A /\ Range(rest) \subseteq A
      BY <3>1, RangeOf
    <3> QED BY <3>2 DEF A
  <2>3. {pooled, iterating, failed} \subseteq BOOLEAN
    BY <2>1 DEF SorterTyped
  <2> QED BY <2>1, <2>2, <2>3 DEF SorterTyped, TypeOK
<1> QED BY <1>1, SorterInvariant, PTL

\* Invariant NothingLost of run sorter: whatever qsort() makes of entries with one
\* key, and in whatever order the pool returns the chunks, every value that was
\* added is in one place, as long as the merge function does not fail.
THEOREM SorterLosesNothing == Spec => []NothingLost
<1>1. SorterInv => NothingLost
  <2> SUFFICES ASSUME SorterInv, ~failed, phase \in {"idle", "collecting", "taking"}
               PROVE  EveryValueOnce(Held) /\ \A r \in Range(readers) : Increasing(r)
    BY DEF NothingLost
  <2>1. Once(Held, added) /\ AllIncreasing(readers)
    BY DEF SorterInv, HeldInv
  <2>2. readers \in Seq(Seq(Entry))
    BY DEF SorterInv, DataInv, SorterTyped
  <2>3. Range(readers) = {readers[i] : i \in 1..Len(readers)}
    BY <2>2, RangeOf
  <2> QED BY <2>1, <2>3, OnceAdded DEF AllIncreasing
<1> QED BY <1>1, SorterInvariant, PTL

\* Invariant OutputComplete of run sorter: an iterator starts with every chunk and
\* with the entries that were in memory, and returns their merged values in order.
THEOREM SorterOutputComplete == Spec => []OutputComplete
<1>1. SorterInv => OutputComplete
  <2> SUFFICES ASSUME SorterInv, phase = "taking", ~failed
               PROVE  /\ EveryValueOnce(Output) /\ Increasing(out)
                      /\ \A o \in Range(out), i \in Left : o.key < rest[i][1].key
    BY DEF OutputComplete
  <2>1. Once(Output, added) /\ Increasing(out) /\ Below
    BY DEF SorterInv, ReturnInv
  <2>2. out \in Seq(Entry)
    BY DEF SorterInv, DataInv, SorterTyped
  <2>3. Range(out) = {out[i] : i \in 1..Len(out)}
    BY <2>2, RangeOf
  <2> QED BY <2>1, <2>3, OnceAdded DEF Below
<1> QED BY <1>1, SorterInvariant, PTL

===============================================================================
