------------------------------ MODULE Reader_proofs ------------------------------
(***************************************************************************)
(* Why an iterator of a reader returns the keys of its file in order and   *)
(* skips none, for every file a writer produces, of any number of leaves   *)
(* and of keys in them, and for every sequence of calls.                   *)
(***************************************************************************)
EXTENDS Reader, Induction_proofs

\* The keys before the iterator and the separators of the leaves before its own
\* are below what the caller asks for; those from the iterator on are not.
AtFrom ==
    /\ leaf = index
    /\ index > 1 => file[index - 1].sep < from
    /\ from <= file[index].sep + 1
    /\ \A i \in 1..(Upcoming - 1) : KeysOf(leaf)[i] < from
    /\ Upcoming <= Len(KeysOf(leaf)) => from <= KeysOf(leaf)[Upcoming]

\* A decoded leaf is never one before the leaf that the index iterator stands on,
\* and block_offset never one after either: it is set by seeks only, while the two
\* advance together.
LeavesAhead ==
    /\ leaf # 0 /\ index <= NumLeaves => index <= leaf
    /\ leaf # 0 => off <= Offset(leaf)
    /\ off <= Offset(index)
    /\ valid => alive /\ leaf # 0 /\ index <= NumLeaves

\* What every step preserves.
ReaderInv ==
    /\ TypeOK
    /\ LeavesAhead
    /\ valid /\ ~lost => AtFrom

--------------------------------------------------------------------------------
(* The file *)

\* The leaves of a file and their keys are numbered from 1.
LEMMA FileTyped ==
    ASSUME file \in Files
    PROVE  /\ NumLeaves \in Nat
           /\ \A l \in 1..NumLeaves :
                 /\ file[l].sep \in Nat
                 /\ Len(KeysOf(l)) \in Nat /\ Len(KeysOf(l)) > 0
                 /\ \A i \in 1..Len(KeysOf(l)) : KeysOf(l)[i] \in Nat
<1>1. file \in Seq([keys : Seq(Nat), sep : Nat]) /\ WellFormed(file)
  BY FilesAssumption
<1>2. NumLeaves \in Nat
  BY <1>1 DEF NumLeaves
<1>3. ASSUME NEW l \in 1..NumLeaves
      PROVE  /\ file[l].sep \in Nat
             /\ Len(KeysOf(l)) \in Nat /\ Len(KeysOf(l)) > 0
             /\ \A i \in 1..Len(KeysOf(l)) : KeysOf(l)[i] \in Nat
  <2>1. file[l] \in [keys : Seq(Nat), sep : Nat]
    BY <1>1, <1>3, ElementOfSeq DEF NumLeaves
  <2>2. KeysOf(l) \in Seq(Nat) /\ file[l].sep \in Nat
    BY <2>1 DEF KeysOf
  <2>3. Len(KeysOf(l)) > 0
    BY <1>1, <1>3 DEF WellFormed, NumLeaves, KeysOf
  <2> DEFINE ks == KeysOf(l)
  <2>4. ks \in Seq(Nat) => Len(ks) \in Nat /\ \A i \in 1..Len(ks) : ks[i] \in Nat
    <3> HIDE DEF ks
    <3> QED OBVIOUS
  <2> QED BY <2>2, <2>3, <2>4
<1> QED BY <1>2, <1>3

\* The keys of a leaf ascend: a writer compares each key with the one before only.
LEMMA KeysAscend ==
    ASSUME file \in Files, NEW l \in 1..NumLeaves,
           NEW i \in 1..Len(KeysOf(l)), NEW j \in 1..Len(KeysOf(l)), i < j
    PROVE  KeysOf(l)[i] < KeysOf(l)[j]
<1> DEFINE ks == KeysOf(l)
           n == Len(ks)
           S == {d \in Nat : i + d + 1 <= n => ks[i] < ks[i + d + 1]}
<1>1. n \in Nat /\ \A m \in 1..n : ks[m] \in Nat
  BY FileTyped
<1>2. \A m \in 2..n : ks[m - 1] < ks[m]
  BY FilesAssumption DEF WellFormed, NumLeaves, KeysOf
<1> HIDE DEF ks, n
<1>3. 0 \in S
  <2> SUFFICES ASSUME i + 1 <= n PROVE ks[i] < ks[i + 1]
    OBVIOUS
  <2>1. i + 1 \in 2..n /\ (i + 1) - 1 = i
    BY <1>1 DEF n, ks
  <2> QED BY <1>2, <2>1
<1>4. ASSUME NEW d \in Nat, d \in S PROVE d + 1 \in S
  <2> SUFFICES ASSUME i + (d + 1) + 1 <= n PROVE ks[i] < ks[i + (d + 1) + 1]
    OBVIOUS
  <2> DEFINE m == i + (d + 1) + 1
  <2>1. m \in 2..n /\ m - 1 = i + d + 1 /\ m - 1 \in 1..n /\ i \in 1..n
    BY <1>1 DEF n, ks
  <2>2. ks[i] < ks[m - 1]
    BY <1>1, <1>4, <2>1
  <2>3. ks[m - 1] < ks[m]
    BY <1>2, <2>1
  <2> HIDE DEF m
  <2>4. ks[i] \in Nat /\ ks[m - 1] \in Nat /\ ks[m] \in Nat
    BY <1>1, <2>1
  <2>5. ks[i] < ks[m]
    BY <2>2, <2>3, <2>4
  <2> QED BY <2>5 DEF m
<1>5. \A d \in Nat : d \in S
  <2> HIDE DEF S
  <2> QED BY <1>3, <1>4, Induction
<1>6. j - i - 1 \in Nat /\ i + (j - i - 1) + 1 = j /\ j <= n
  BY <1>1 DEF n, ks
<1>7. j - i - 1 \in S
  BY <1>5, <1>6
<1>8. ks[i] < ks[i + (j - i - 1) + 1]
  BY <1>6, <1>7
<1> QED BY <1>6, <1>8 DEF ks

\* No key of a leaf is above the leaf's separator.
LEMMA BelowSeparator ==
    ASSUME file \in Files, NEW l \in 1..NumLeaves, NEW i \in 1..Len(KeysOf(l))
    PROVE  KeysOf(l)[i] <= file[l].sep
<1> DEFINE n == Len(KeysOf(l))
<1>1. n \in 1..n /\ n \in Nat /\ i \in 1..n /\ KeysOf(l)[n] \in Nat /\ KeysOf(l)[i] \in Nat
      /\ file[l].sep \in Nat
  BY FileTyped
<1>2. KeysOf(l)[n] <= file[l].sep
  BY FilesAssumption DEF WellFormed, NumLeaves, KeysOf
<1>3. i = n \/ KeysOf(l)[i] < KeysOf(l)[n]
  BY <1>1, KeysAscend
<1> QED BY <1>1, <1>2, <1>3

\* Every key of a leaf is above the separator of the leaf before.
LEMMA AbovePrevious ==
    ASSUME file \in Files, NEW l \in 2..NumLeaves, NEW i \in 1..Len(KeysOf(l))
    PROVE  file[l - 1].sep < KeysOf(l)[i]
<1>1. l \in 1..NumLeaves /\ l - 1 \in 1..NumLeaves
  BY FileTyped
<1>2. /\ file[l - 1].sep \in Nat /\ 1 \in 1..Len(KeysOf(l))
      /\ KeysOf(l)[1] \in Nat /\ KeysOf(l)[i] \in Nat
  BY <1>1, FileTyped
<1>3. file[l - 1].sep < KeysOf(l)[1]
  BY <1>1, FilesAssumption DEF WellFormed, NumLeaves, KeysOf
<1>4. i = 1 \/ KeysOf(l)[1] < KeysOf(l)[i]
  BY <1>1, <1>2, KeysAscend
<1> QED BY <1>2, <1>3, <1>4

\* Separators ascend with the leaves, by induction on the distance.
LEMMA SeparatorsAscend ==
    ASSUME file \in Files, NEW l \in 1..NumLeaves, NEW m \in 1..NumLeaves, l <= m
    PROVE  file[l].sep <= file[m].sep
<1> DEFINE S == {d \in Nat : l + d <= NumLeaves => file[l].sep <= file[l + d].sep}
<1>1. NumLeaves \in Nat /\ \A n \in 1..NumLeaves : file[n].sep \in Nat
  BY FileTyped
<1>2. 0 \in S
  BY <1>1
<1>3. ASSUME NEW d \in Nat, d \in S PROVE d + 1 \in S
  <2> SUFFICES ASSUME l + (d + 1) <= NumLeaves PROVE file[l].sep <= file[l + (d + 1)].sep
    OBVIOUS
  <2> DEFINE n == l + (d + 1)
  <2>1. n \in 2..NumLeaves /\ n \in 1..NumLeaves /\ n - 1 = l + d /\ n - 1 \in 1..NumLeaves
    BY <1>1
  <2>2. file[l].sep <= file[n - 1].sep
    BY <1>1, <1>3, <2>1
  <2> HIDE DEF n
  <2>3. 1 \in 1..Len(KeysOf(n)) /\ KeysOf(n)[1] \in Nat
    BY <2>1, FileTyped
  <2>4. file[n - 1].sep < KeysOf(n)[1] /\ KeysOf(n)[1] <= file[n].sep
    BY <2>1, <2>3, AbovePrevious, BelowSeparator
  <2>5. file[l].sep <= file[n].sep
    BY <1>1, <2>1, <2>2, <2>3, <2>4
  <2> QED BY <2>5 DEF n
<1>4. \A d \in Nat : d \in S
  <2> HIDE DEF S
  <2> QED BY <1>2, <1>3, Induction
<1>5. m - l \in Nat /\ l + (m - l) = m /\ m <= NumLeaves
  BY <1>1
<1>6. m - l \in S
  BY <1>4, <1>5
<1> QED BY <1>5, <1>6

\* Every key of a leaf is above the separators of all the leaves before.
LEMMA AboveSeparators ==
    ASSUME file \in Files, NEW l \in 1..NumLeaves, NEW m \in 1..NumLeaves, l < m,
           NEW i \in 1..Len(KeysOf(m))
    PROVE  file[l].sep < KeysOf(m)[i]
<1>1. m \in 2..NumLeaves /\ m - 1 \in 1..NumLeaves /\ l <= m - 1
  BY FileTyped
<1>2. file[l].sep <= file[m - 1].sep /\ file[m - 1].sep < KeysOf(m)[i]
  BY <1>1, SeparatorsAscend, AbovePrevious
<1> QED BY <1>1, <1>2, FileTyped

--------------------------------------------------------------------------------
(* Searches *)

\* block_iter_seek() on the index finds the first leaf that may hold k.
LEMMA IndexSeeks ==
    ASSUME file \in Files, NEW k \in Nat
    PROVE  /\ IndexSeek(k) \in 1..(NumLeaves + 1)
           /\ IndexSeek(k) <= NumLeaves => k <= file[IndexSeek(k)].sep
           /\ \A j \in 1..(IndexSeek(k) - 1) : file[j].sep < k
<1> DEFINE T == {i \in 1..NumLeaves : file[i].sep >= k}
           m == Min(T \cup {NumLeaves + 1})
<1>1. NumLeaves \in Nat /\ T \in SUBSET 1..NumLeaves
  BY FileTyped
<1>2. m \in 1..(NumLeaves + 1) /\ (m <= NumLeaves => m \in T) /\ \A i \in 1..(m - 1) : i \notin T
  <2> HIDE DEF T
  <2> QED BY <1>1, FirstOf
<1> HIDE DEF m
<1>3. m <= NumLeaves => k <= file[m].sep
  BY <1>1, <1>2, FileTyped
<1>4. ASSUME NEW j \in 1..(m - 1) PROVE file[j].sep < k
  <2>1. j \in 1..NumLeaves /\ j \notin T
    BY <1>1, <1>2
  <2> QED BY <2>1, FileTyped
<1> QED BY <1>2, <1>3, <1>4 DEF IndexSeek, m

\* block_iter_seek() on a leaf finds the first entry that is not below k.
LEMMA LeafSeeks ==
    ASSUME file \in Files, NEW l \in 1..NumLeaves, NEW k \in Nat
    PROVE  /\ LeafSeek(l, k) \in 1..(Len(KeysOf(l)) + 1)
           /\ LeafSeek(l, k) <= Len(KeysOf(l)) => k <= KeysOf(l)[LeafSeek(l, k)]
           /\ \A j \in 1..(LeafSeek(l, k) - 1) : KeysOf(l)[j] < k
<1> DEFINE n == Len(KeysOf(l))
           T == {i \in 1..n : KeysOf(l)[i] >= k}
           m == Min(T \cup {n + 1})
<1>1. n \in Nat /\ T \in SUBSET 1..n /\ \A i \in 1..n : KeysOf(l)[i] \in Nat
  BY FileTyped
<1>2. m \in 1..(n + 1) /\ (m <= n => m \in T) /\ \A i \in 1..(m - 1) : i \notin T
  <2> HIDE DEF T, n
  <2> QED BY <1>1, FirstOf
<1> HIDE DEF m
<1>3. m <= n => k <= KeysOf(l)[m]
  BY <1>1, <1>2
<1>4. ASSUME NEW j \in 1..(m - 1) PROVE KeysOf(l)[j] < k
  <2>1. j \in 1..n /\ j \notin T
    BY <1>1, <1>2
  <2> QED BY <1>1, <2>1
<1> QED BY <1>2, <1>3, <1>4 DEF LeafSeek, m

\* block_iter_next() moves by one entry and stays at the end.
LEMMA OneFurther ==
    ASSUME NEW p \in Nat, NEW n \in Nat
    PROVE  Min({p + 1, n + 1}) = IF p <= n THEN p + 1 ELSE n + 1
<1> DEFINE T == {p + 1, n + 1}
<1>1. T \in SUBSET Nat /\ T # {}
  OBVIOUS
<1>2. Min(T) \in T /\ \A y \in T : Min(T) <= y
  BY <1>1, MinIsLeast
<1>3. (Min(T) = p + 1 \/ Min(T) = n + 1) /\ Min(T) <= p + 1 /\ Min(T) <= n + 1
  BY <1>2
<1> QED BY <1>3

LEMMA UpcomingTyped ==
    ASSUME TypeOK, leaf # 0
    PROVE  /\ leaf \in 1..NumLeaves
           /\ Len(KeysOf(leaf)) \in Nat /\ Len(KeysOf(leaf)) > 0
           /\ pos \in 1..(Len(KeysOf(leaf)) + 1)
           /\ Upcoming \in 1..(Len(KeysOf(leaf)) + 1)
           /\ Upcoming = IF first THEN pos ELSE IF pos <= Len(KeysOf(leaf)) THEN pos + 1 ELSE pos
<1>1. leaf \in 1..NumLeaves
  BY FileTyped DEF TypeOK
<1>2. Len(KeysOf(leaf)) \in Nat /\ Len(KeysOf(leaf)) > 0
  BY <1>1, FileTyped DEF TypeOK
<1>3. pos \in 1..(Len(KeysOf(leaf)) + 1) /\ pos \in Nat
  BY <1>2 DEF TypeOK
<1>4. Min({pos + 1, Len(KeysOf(leaf)) + 1})
        = IF pos <= Len(KeysOf(leaf)) THEN pos + 1 ELSE Len(KeysOf(leaf)) + 1
  BY <1>2, <1>3, OneFurther
<1> QED BY <1>1, <1>2, <1>3, <1>4 DEF Upcoming

--------------------------------------------------------------------------------
(* The invariant *)

LEMMA ReaderInit == Init => ReaderInv
<1> SUFFICES ASSUME Init PROVE ReaderInv
  OBVIOUS
<1>1. NumLeaves \in Nat /\ base \in Bases /\ base \in Nat
  BY FileTyped, KeysAssumption DEF Init
<1>2. TypeOK
  <2>1. alive \in BOOLEAN /\ first \in BOOLEAN /\ valid \in BOOLEAN /\ lost \in BOOLEAN
    BY DEF Init
  <2>2. type \in Types /\ lo \in Keys \cup {0} /\ hi \in Keys \cup {0} /\ ret \in AllKeys \cup {None}
    BY DEF Init, Types
  <2>3. /\ index \in 1..(NumLeaves + 1) /\ leaf \in 0..NumLeaves /\ off \in 0..(base + NumLeaves) /\ from \in Nat
        /\ leaf = 0 /\ pos \in 1..1 /\ file \in Files
    BY <1>1 DEF Init
  <2> QED BY <1>1, <2>1, <2>2, <2>3 DEF TypeOK
<1>3. LeavesAhead
  BY <1>1 DEF Init, LeavesAhead, Offset
<1> QED BY <1>2, <1>3 DEF Init, ReaderInv

\* The keys that a leaf holds are keys of the file.
LEMMA KeyOfFile ==
    ASSUME NEW l \in 1..NumLeaves, NEW i \in 1..Len(KeysOf(l))
    PROVE  KeysOf(l)[i] \in AllKeys
BY DEF AllKeys

LEMMA CreateKeeps ==
    ASSUME ReaderInv, NEW t \in Types, NEW a \in Keys, NEW z \in Keys, Create(t, a, z)
    PROVE  ReaderInv'
<1> DEFINE i == IF t = "iter" THEN 1 ELSE IndexSeek(a)
           p == IF t = "iter" THEN 1 ELSE LeafSeek(i, a)
           n == Len(KeysOf(i))
<1>1. file \in Files /\ a \in Nat /\ NumLeaves \in Nat /\ base \in Bases /\ base \in Nat
  BY FileTyped, KeysAssumption DEF ReaderInv, TypeOK
<1>2. /\ file' = file /\ base' = base /\ index' = i /\ leaf' = i /\ pos' = p /\ i <= NumLeaves
      /\ alive' = TRUE /\ type' = t /\ lo' = a /\ hi' = z /\ off' = 0
      /\ first' = TRUE /\ valid' = TRUE /\ lost' = FALSE /\ ret' = None
      /\ from' = IF t = "iter" THEN 0 ELSE a
  BY DEF Create
<1>3. i \in 1..NumLeaves
  BY <1>1, <1>2, IndexSeeks
<1>4. n \in Nat /\ n > 0 /\ file[i].sep \in Nat /\ \A j \in 1..n : KeysOf(i)[j] \in Nat
  BY <1>1, <1>3, FileTyped
<1>5. /\ p \in 1..(n + 1)
      /\ p <= n => from' <= KeysOf(i)[p]
      /\ \A j \in 1..(p - 1) : KeysOf(i)[j] < from'
  <2>1. CASE t = "iter"
    BY <1>2, <1>4, <2>1
  <2>2. CASE t # "iter"
    <3> HIDE DEF i
    <3> QED BY <1>1, <1>2, <1>3, <2>2, LeafSeeks
  <2> QED BY <2>1, <2>2
<1>6. /\ i > 1 => file[i - 1].sep < from'
      /\ from' <= file[i].sep + 1
  <2>1. CASE t = "iter"
    BY <1>2, <1>4, <2>1
  <2>2. CASE t # "iter"
    <3> HIDE DEF i
    <3>1. i - 1 \in 1..(i - 1) \/ i = 1
      BY <1>3
    <3>2. i = IndexSeek(a) /\ from' = a
      BY <1>2, <2>2 DEF i
    <3>3. /\ i <= NumLeaves => a <= file[i].sep
          /\ \A j \in 1..(i - 1) : file[j].sep < a
      BY <1>1, <3>2, IndexSeeks
    <3> QED BY <1>1, <1>2, <1>4, <3>1, <3>2, <3>3
  <2> QED BY <2>1, <2>2
<1>7. from' \in Nat
  BY <1>1, <1>2
<1> HIDE DEF i, p
<1>8. TypeOK'
  <2>1. NumLeaves' = NumLeaves /\ AllKeys' = AllKeys /\ Len(KeysOf(leaf))' = n
    BY <1>2 DEF NumLeaves, AllKeys, KeysOf, n
  <2> HIDE DEF n
  <2>2. alive' \in BOOLEAN /\ first' \in BOOLEAN /\ valid' \in BOOLEAN /\ lost' \in BOOLEAN
    BY <1>2
  <2>3. off' \in 0..(base' + NumLeaves') /\ leaf' # 0
    BY <1>1, <1>2, <1>3, <2>1
  <2> QED BY <1>1, <1>2, <1>3, <1>5, <1>7, <2>1, <2>2, <2>3 DEF TypeOK
<1>9. LeavesAhead'
  BY <1>1, <1>2, <1>3 DEF LeavesAhead, NumLeaves, Offset
<1>10. AtFrom'
  BY <1>2, <1>5, <1>6 DEF AtFrom, Upcoming, KeysOf, n
<1> QED BY <1>8, <1>9, <1>10 DEF ReaderInv

\* The shortcut of reader_iter_seek() around the seek on the index never changes
\* its outcome, not even when the leaf that is decoded is the wrong one.
LEMMA ShortcutSound ==
    ASSUME ReaderInv, NEW k \in Nat
    PROVE  (IF NeedsIndexSeek(k) THEN IndexSeek(k) ELSE index) = IndexSeek(k)
<1> SUFFICES ASSUME ~NeedsIndexSeek(k) PROVE index = IndexSeek(k)
  OBVIOUS
<1>1. /\ leaf # 0 /\ ~(pos > Len(KeysOf(leaf))) /\ ~(KeysOf(leaf)[pos] > k)
      /\ ~(index > NumLeaves) /\ ~(file[index].sep < k)
  BY DEF NeedsIndexSeek, PastTarget, BeyondLeaf
<1>2. /\ file \in Files /\ NumLeaves \in Nat /\ index \in 1..NumLeaves
      /\ leaf \in 1..NumLeaves /\ index <= leaf /\ pos \in 1..Len(KeysOf(leaf))
  BY <1>1, FileTyped, UpcomingTyped DEF ReaderInv, TypeOK, LeavesAhead
<1>3. KeysOf(leaf)[pos] \in Nat /\ KeysOf(leaf)[pos] <= k
  BY <1>1, <1>2, FileTyped
<1>4. ASSUME NEW j \in 1..NumLeaves, j < index PROVE file[j].sep < k
  <2>1. file[j].sep \in Nat /\ file[j].sep < KeysOf(leaf)[pos]
    BY <1>2, <1>4, FileTyped, AboveSeparators
  <2> QED BY <1>3, <2>1
<1> DEFINE m == IndexSeek(k)
<1>5. m \in 1..(NumLeaves + 1)
  BY <1>2, IndexSeeks
<1>6. m <= NumLeaves => k <= file[m].sep
  BY <1>2, IndexSeeks
<1>7. index < m => file[index].sep < k
  <2> SUFFICES ASSUME index < m PROVE index \in 1..(m - 1)
    BY <1>2, IndexSeeks
  <2> HIDE DEF m
  <2> QED BY <1>2, <1>5
<1> HIDE DEF m
<1>8. ~(index < m)
  BY <1>1, <1>7
<1>9. ~(m < index)
  <2> SUFFICES ASSUME m < index PROVE FALSE
    OBVIOUS
  <2>1. m \in 1..NumLeaves
    BY <1>2, <1>5
  <2> QED BY <1>4, <1>6, <2>1, FileTyped, <1>2
<1>10. index = m
  BY <1>2, <1>5, <1>8, <1>9
<1> QED BY <1>10 DEF m

LEMMA SeekKeeps ==
    ASSUME ReaderInv, NEW k \in Keys, Seek(k)
    PROVE  ReaderInv'
<1> DEFINE i == IndexSeek(k)
           l == IF Decoded(i) THEN leaf ELSE i
           p == LeafSeek(l, k)
<1>1. /\ file \in Files /\ k \in Nat /\ NumLeaves \in Nat /\ i \in 1..(NumLeaves + 1)
      /\ base \in Bases /\ base \in Nat
  BY FileTyped, KeysAssumption, IndexSeeks DEF ReaderInv, TypeOK
<1>2. /\ index' = i /\ ret' = None /\ from' = k
      /\ file' = file /\ base' = base /\ type' = type /\ lo' = lo /\ hi' = hi
      /\ alive /\ alive' = alive
      /\ i > NumLeaves => /\ valid' = FALSE /\ leaf' = leaf /\ pos' = pos /\ off' = off
                          /\ first' = first /\ lost' = lost
      /\ ~(i > NumLeaves) => /\ leaf' = l /\ off' = Offset(i) /\ pos' = p /\ first' = TRUE
                             /\ valid' = TRUE /\ lost' = (l # i)
  BY <1>1, ShortcutSound DEF Seek, bounds
<1>3. /\ NumLeaves' = NumLeaves /\ AllKeys' = AllKeys /\ Len(KeysOf(leaf))' = Len(KeysOf(leaf'))
      /\ KeysOf(leaf)' = KeysOf(leaf')
  BY <1>2 DEF NumLeaves, AllKeys, KeysOf
<1>4. file' \in Files /\ type' \in Types /\ lo' \in Keys \cup {0} /\ hi' \in Keys \cup {0}
      /\ index' \in 1..(NumLeaves' + 1) /\ ret' \in AllKeys' \cup {None} /\ from' \in Nat
  BY <1>1, <1>2, <1>3 DEF ReaderInv, TypeOK
<1>5. CASE i > NumLeaves
  <2>1. TypeOK'
    BY <1>1, <1>2, <1>3, <1>4, <1>5 DEF ReaderInv, TypeOK
  <2>2. LeavesAhead'
    BY <1>1, <1>2, <1>3, <1>5 DEF ReaderInv, TypeOK, LeavesAhead, Offset
  <2> QED BY <1>2, <1>5, <2>1, <2>2 DEF ReaderInv
<1>6. CASE ~(i > NumLeaves)
  <2>1. i \in 1..NumLeaves
    BY <1>1, <1>6
  <2>2. l \in 1..NumLeaves /\ i <= l
    BY <1>1, <2>1 DEF Decoded, ReaderInv, TypeOK, LeavesAhead, Offset
  <2>3. Len(KeysOf(l)) \in Nat /\ Len(KeysOf(l)) > 0 /\ file[i].sep \in Nat
    BY <1>1, <2>1, <2>2, FileTyped
  <2>4. /\ p \in 1..(Len(KeysOf(l)) + 1)
        /\ p <= Len(KeysOf(l)) => k <= KeysOf(l)[p]
        /\ \A j \in 1..(p - 1) : KeysOf(l)[j] < k
    <3> HIDE DEF l
    <3> QED BY <1>1, <2>2, LeafSeeks
  <2>5. i > 1 => file[i - 1].sep < k
    <3>1. \A j \in 1..(i - 1) : file[j].sep < k
      BY <1>1, IndexSeeks
    <3> HIDE DEF i
    <3> QED BY <2>1, <3>1
  <2>6. k <= file[i].sep
    BY <1>1, <2>1, IndexSeeks
  <2> HIDE DEF i, l, p
  <2>7. /\ leaf' = l /\ off' = Offset(i) /\ pos' = p /\ first' = TRUE
        /\ valid' = TRUE /\ lost' = (l # i)
    BY <1>2, <1>6
  <2>8. TypeOK'
    <3>1. alive' \in BOOLEAN /\ first' \in BOOLEAN /\ valid' \in BOOLEAN /\ lost' \in BOOLEAN
      BY <1>2, <2>7 DEF ReaderInv, TypeOK
    <3>2. leaf' \in 0..NumLeaves' /\ leaf' # 0 /\ off' \in 0..(base' + NumLeaves')
          /\ pos' \in 1..(Len(KeysOf(leaf))' + 1)
      BY <1>1, <1>2, <1>3, <2>1, <2>2, <2>4, <2>7 DEF Offset
    <3> QED BY <1>1, <1>2, <1>4, <3>1, <3>2 DEF TypeOK
  <2>9. LeavesAhead'
    BY <1>1, <1>2, <1>3, <2>1, <2>2, <2>7 DEF LeavesAhead, Offset
  <2>10. lost' \/ AtFrom'
    <3> SUFFICES ASSUME ~lost' PROVE AtFrom'
      OBVIOUS
    <3>1. l = i
      BY <2>7
    <3>2. Upcoming' = p
      BY <2>7 DEF Upcoming
    <3>3. from' <= file'[i].sep + 1
      BY <1>1, <1>2, <2>3, <2>6
    <3> QED BY <1>2, <1>3, <2>4, <2>5, <2>7, <3>1, <3>2, <3>3 DEF AtFrom
  <2> QED BY <2>8, <2>9, <2>10 DEF ReaderInv
<1> QED BY <1>5, <1>6

\* What reader_iter_next() does to the caller's place when it returns entry u of
\* leaf i, or refuses it.
LEMMA EntryReturned ==
    ASSUME ReaderInv, NEW i \in 1..NumLeaves, NEW u \in 1..Len(KeysOf(i)),
           NEW m \in 1..i, lost \/ m = i, off <= Offset(m),
           index' = m, leaf' = i, pos' = u, first' = FALSE, lost' = lost, off' = off,
           Return(KeysOf(i)[u]), valid' = Accept(KeysOf(i)[u]),
           UNCHANGED bounds, alive, alive' = alive
    PROVE  ReaderInv'
<1> DEFINE n == Len(KeysOf(i))
           x == KeysOf(i)[u]
<1>1. /\ file \in Files /\ NumLeaves \in Nat /\ file[i].sep \in Nat
      /\ n \in Nat /\ u \in 1..n /\ \A j \in 1..n : KeysOf(i)[j] \in Nat
  BY FileTyped DEF ReaderInv, TypeOK
<1>2. file' = file /\ NumLeaves' = NumLeaves /\ AllKeys' = AllKeys /\ KeysOf(leaf)' = KeysOf(i)
  BY DEF bounds, NumLeaves, AllKeys, KeysOf
<1>3. x \in Nat /\ x \in AllKeys /\ x <= file[i].sep
  BY <1>1, BelowSeparator, KeyOfFile
<1>4. TypeOK'
  <2>1. alive' \in BOOLEAN /\ first' \in BOOLEAN /\ lost' \in BOOLEAN
    BY DEF ReaderInv, TypeOK
  <2>2. valid' \in BOOLEAN
    BY DEF Accept
  <2>3. ret' \in AllKeys' \cup {None} /\ from' \in Nat
    BY <1>2, <1>3 DEF Return, ReaderInv, TypeOK
  <2>4. file' \in Files /\ type' \in Types /\ lo' \in Keys \cup {0} /\ hi' \in Keys \cup {0}
    BY DEF bounds, ReaderInv, TypeOK
  <2>5. base' \in Bases /\ base' = base /\ base \in Nat
    BY KeysAssumption DEF bounds, ReaderInv, TypeOK
  <2>6. /\ index' \in 1..(NumLeaves' + 1) /\ leaf' \in 0..NumLeaves' /\ leaf' # 0
        /\ off' \in 0..(base' + NumLeaves') /\ pos' \in 1..(Len(KeysOf(leaf))' + 1)
    BY <1>1, <1>2, <2>5 DEF ReaderInv, TypeOK
  <2> QED BY <2>1, <2>2, <2>3, <2>4, <2>5, <2>6 DEF TypeOK
<1>5. LeavesAhead'
  <2>1. off \in Int /\ i \in Int /\ m \in Int /\ m <= i /\ i # 0 /\ m <= NumLeaves
    BY <1>1 DEF ReaderInv, TypeOK
  <2>2. base' = base /\ base \in Nat
    BY KeysAssumption DEF bounds, ReaderInv, TypeOK
  <2> QED BY <1>1, <1>2, <2>1, <2>2 DEF LeavesAhead, Offset
<1>6. valid' /\ ~lost' => AtFrom'
  <2> SUFFICES ASSUME valid', m = i PROVE AtFrom'
    OBVIOUS
  <2>1. from' = x + 1
    BY DEF Return
  <2>2. Upcoming' = u + 1
    BY <1>1, <1>2, OneFurther DEF Upcoming
  <2>3. index' > 1 => file'[index' - 1].sep < from'
    <3> SUFFICES ASSUME i > 1 PROVE file[i - 1].sep < x + 1
      BY <1>2, <2>1
    <3>1. i \in 2..NumLeaves /\ i - 1 \in 1..NumLeaves
      BY <1>1
    <3>2. file[i - 1].sep < x
      BY <1>1, <3>1, AbovePrevious
    <3> QED BY <1>1, <1>3, <3>1, <3>2, FileTyped
  <2>4. \A j \in 1..(Upcoming' - 1) : KeysOf(i)[j] < from'
    <3> SUFFICES ASSUME NEW j \in 1..u PROVE KeysOf(i)[j] < x + 1
      BY <1>1, <2>1, <2>2
    <3>1. j \in 1..n /\ (j = u \/ KeysOf(i)[j] < x)
      BY <1>1, KeysAscend
    <3> QED BY <1>1, <1>3, <3>1
  <2>5. Upcoming' <= n => from' <= KeysOf(i)[Upcoming']
    <3> SUFFICES ASSUME u + 1 <= n PROVE x + 1 <= KeysOf(i)[u + 1]
      BY <2>1, <2>2
    <3>1. u + 1 \in 1..n /\ u < u + 1
      BY <1>1
    <3>2. x < KeysOf(i)[u + 1]
      BY <1>1, <3>1, KeysAscend
    <3> QED BY <1>1, <1>3, <3>1, <3>2
  <2>6. from' <= file'[index'].sep + 1
    BY <1>1, <1>2, <1>3, <2>1
  <2> QED BY <1>2, <2>3, <2>4, <2>5, <2>6 DEF AtFrom
<1> QED BY <1>4, <1>5, <1>6 DEF ReaderInv

LEMMA NextInLeafKeeps == ASSUME ReaderInv, NextInLeaf PROVE ReaderInv'
<1>1. /\ leaf # 0 /\ index <= NumLeaves /\ index <= leaf /\ off <= Offset(index)
      /\ lost \/ index = leaf
  BY FileTyped DEF NextInLeaf, ReaderInv, LeavesAhead, AtFrom
<1>2. leaf \in 1..NumLeaves /\ Upcoming \in 1..Len(KeysOf(leaf))
  BY <1>1, UpcomingTyped DEF NextInLeaf, ReaderInv
<1>3. index \in 1..leaf
  BY <1>1, <1>2, FileTyped DEF ReaderInv, TypeOK
<1>4. /\ index' = index /\ leaf' = leaf /\ pos' = Upcoming /\ first' = FALSE /\ lost' = lost
      /\ off' = off /\ Return(KeysOf(leaf)[Upcoming]) /\ valid' = Accept(KeysOf(leaf)[Upcoming])
      /\ UNCHANGED bounds /\ alive /\ alive' = alive
  BY DEF NextInLeaf
<1> QED BY <1>1, <1>2, <1>3, <1>4, EntryReturned

LEMMA NextAcrossLeafKeeps == ASSUME ReaderInv, NextAcrossLeaf PROVE ReaderInv'
<1> DEFINE i == Min({index + 1, NumLeaves + 1})
<1>1. /\ file \in Files /\ NumLeaves \in Nat /\ index \in 1..NumLeaves /\ off <= Offset(index)
      /\ off \in Nat /\ base \in Bases /\ base \in Nat
  BY FileTyped, KeysAssumption DEF NextAcrossLeaf, ReaderInv, LeavesAhead, TypeOK
<1>2. i = index + 1
  BY <1>1, OneFurther
<1>3. /\ index' = i /\ leaf' = (IF i <= NumLeaves THEN i ELSE 0) /\ valid' = ValidAt(i)
      /\ IF i <= NumLeaves THEN Return(KeysOf(i)[1]) ELSE ret' = None /\ from' = from
      /\ pos' = 1 /\ first' = FALSE /\ lost' = lost /\ off' = off
      /\ UNCHANGED bounds /\ base' = base /\ alive /\ alive' = alive
  BY DEF NextAcrossLeaf, bounds
<1> HIDE DEF i
<1>4. CASE i <= NumLeaves
  <2>1. i \in 1..NumLeaves /\ i \in 1..i /\ off <= Offset(i)
    BY <1>1, <1>2, <1>4 DEF Offset
  <2>2. 1 \in 1..Len(KeysOf(i))
    BY <1>1, <2>1, FileTyped
  <2>3. valid' = Accept(KeysOf(i)[1])
    BY <1>3, <1>4 DEF ValidAt, Accept
  <2> QED BY <1>3, <1>4, <2>1, <2>2, <2>3, EntryReturned
<1>5. CASE ~(i <= NumLeaves)
  <2>1. ~valid'
    BY <1>3, <1>5 DEF ValidAt
  <2>2. NumLeaves' = NumLeaves /\ AllKeys' = AllKeys
    BY <1>3 DEF bounds, NumLeaves, AllKeys, KeysOf
  <2>3. TypeOK'
    <3>1. alive' \in BOOLEAN /\ first' \in BOOLEAN /\ valid' \in BOOLEAN /\ lost' \in BOOLEAN
      BY <1>3, <2>1 DEF ReaderInv, TypeOK, ValidAt
    <3>2. file' \in Files /\ type' \in Types /\ lo' \in Keys \cup {0} /\ hi' \in Keys \cup {0}
      BY <1>3 DEF bounds, ReaderInv, TypeOK
    <3>3. ret' \in AllKeys' \cup {None} /\ from' \in Nat
      BY <1>3, <1>5 DEF ReaderInv, TypeOK
    <3>4. index' \in 1..(NumLeaves' + 1) /\ leaf' = 0 /\ pos' = 1 /\ off' \in 0..(base' + NumLeaves')
      BY <1>1, <1>2, <1>3, <1>5, <2>2 DEF ReaderInv, TypeOK
    <3> QED BY <1>1, <1>3, <2>2, <3>1, <3>2, <3>3, <3>4 DEF TypeOK
  <2>4. LeavesAhead'
    BY <1>1, <1>2, <1>3, <1>5, <2>1 DEF LeavesAhead, Offset
  <2> QED BY <2>1, <2>3, <2>4 DEF ReaderInv
<1> QED BY <1>4, <1>5

LEMMA FreeKeeps == ASSUME ReaderInv, Free PROVE ReaderInv'
<1>1. /\ UNCHANGED bounds /\ alive' = FALSE /\ valid' = FALSE /\ leaf' = 0 /\ pos' = 1
      /\ ret' = None /\ index' = index /\ off' = off /\ first' = first /\ from' = from /\ lost' = lost
      /\ base' = base
  BY DEF Free, bounds
<1>2. NumLeaves' = NumLeaves /\ AllKeys' = AllKeys
  BY <1>1 DEF bounds, NumLeaves, AllKeys, KeysOf
<1>3. NumLeaves \in Nat /\ base \in Bases /\ base \in Nat
  BY FileTyped, KeysAssumption DEF ReaderInv, TypeOK
<1>4. TypeOK'
  <2>1. alive' \in BOOLEAN /\ first' \in BOOLEAN /\ valid' \in BOOLEAN /\ lost' \in BOOLEAN
    BY <1>1 DEF ReaderInv, TypeOK
  <2>2. file' \in Files /\ type' \in Types /\ lo' \in Keys \cup {0} /\ hi' \in Keys \cup {0}
    BY <1>1 DEF bounds, ReaderInv, TypeOK
  <2>3. /\ ret' \in AllKeys' \cup {None} /\ from' \in Nat /\ index' \in 1..(NumLeaves' + 1)
        /\ leaf' \in 0..NumLeaves' /\ leaf' = 0 /\ pos' \in 1..1 /\ off' \in 0..(base' + NumLeaves')
    BY <1>1, <1>2, <1>3 DEF ReaderInv, TypeOK
  <2> QED BY <1>1, <1>3, <2>1, <2>2, <2>3 DEF TypeOK
<1>5. LeavesAhead'
  BY <1>1, <1>2, <1>3 DEF ReaderInv, LeavesAhead, Offset
<1> QED BY <1>1, <1>4, <1>5 DEF ReaderInv

LEMMA ReaderStep == ASSUME ReaderInv, [Next]_vars PROVE ReaderInv'
<1>1. ASSUME NEW a \in Keys, Create("iter", a, a) \/ Create("get", a, a) PROVE ReaderInv'
  BY <1>1, CreateKeeps DEF Types
<1>2. ASSUME NEW a \in Keys, NEW z \in Keys, Create("range", a, z) \/ Create("prefix", a, z)
      PROVE  ReaderInv'
  BY <1>2, CreateKeeps DEF Types
<1>3. ASSUME NEW k \in Keys, Seek(k) PROVE ReaderInv'
  BY <1>3, SeekKeeps
<1>4. CASE NextInLeaf
  BY <1>4, NextInLeafKeeps
<1>5. CASE NextAcrossLeaf
  BY <1>5, NextAcrossLeafKeeps
<1>6. CASE NextInvalid
  <2>1. /\ UNCHANGED bounds /\ alive' = alive /\ index' = index /\ leaf' = leaf /\ pos' = pos
        /\ off' = off /\ first' = first /\ valid' = valid /\ from' = from /\ lost' = lost
        /\ ret' = None /\ ~valid
    BY <1>6 DEF NextInvalid
  <2>2. NumLeaves' = NumLeaves /\ AllKeys' = AllKeys /\ Len(KeysOf(leaf))' = Len(KeysOf(leaf))
    BY <2>1 DEF bounds, NumLeaves, AllKeys, KeysOf
  <2>3. TypeOK'
    BY <2>1, <2>2 DEF bounds, ReaderInv, TypeOK
  <2>4. LeavesAhead'
    BY <2>1, <2>2 DEF bounds, ReaderInv, LeavesAhead, Offset
  <2> QED BY <2>1, <2>3, <2>4 DEF ReaderInv
<1>7. CASE Free
  BY <1>7, FreeKeeps
<1>8. CASE UNCHANGED vars
  <2>1. /\ UNCHANGED bounds /\ alive' = alive /\ index' = index /\ leaf' = leaf /\ pos' = pos
        /\ off' = off /\ first' = first /\ valid' = valid /\ from' = from /\ lost' = lost
        /\ ret' = ret
    BY <1>8 DEF vars, bounds
  <2>2. /\ NumLeaves' = NumLeaves /\ AllKeys' = AllKeys /\ Upcoming' = Upcoming
        /\ KeysOf(leaf)' = KeysOf(leaf)
    BY <2>1 DEF bounds, NumLeaves, AllKeys, KeysOf, Upcoming
  <2>3. TypeOK' /\ LeavesAhead'
    BY <2>1, <2>2 DEF bounds, ReaderInv, TypeOK, LeavesAhead, Offset
  <2>4. AtFrom => AtFrom'
    BY <2>1, <2>2 DEF bounds, AtFrom
  <2> QED BY <2>1, <2>3, <2>4 DEF ReaderInv
<1> QED BY <1>1, <1>2, <1>3, <1>4, <1>5, <1>6, <1>7, <1>8 DEF Next, NextCall

LEMMA ReaderInvariant == Spec => []ReaderInv
<1>1. ReaderInv /\ [Next]_vars => ReaderInv'
  BY ReaderStep
<1> QED BY ReaderInit, <1>1, PTL DEF Spec

--------------------------------------------------------------------------------
(* What the invariant means to a caller *)

\* A key of the file is at some entry of some leaf.
LEMMA KeyAt ==
    ASSUME file \in Files, NEW x \in AllKeys
    PROVE  /\ x \in Nat
           /\ \E l \in 1..NumLeaves : \E i \in 1..Len(KeysOf(l)) : x = KeysOf(l)[i]
<1>1. PICK l \in 1..NumLeaves : \E i \in 1..Len(KeysOf(l)) : x = KeysOf(l)[i]
  BY DEF AllKeys
<1> QED BY <1>1, FileTyped

LEMMA OnlyLeast ==
    ASSUME NEW S \in SUBSET Nat, NEW y \in S, \A x \in S : y <= x
    PROVE  Least(S) = {y}
<1>1. \A x \in S : (\A z \in S : x <= z) => x = y
  OBVIOUS
<1> QED BY <1>1 DEF Least

\* The keys that the caller has not seen are those from the iterator on.
LEMMA UnseenAhead ==
    ASSUME ReaderInv, valid, ~lost, NEW x \in Unseen
    PROVE  /\ x \in Nat
           /\ \/ \E i \in 1..Len(KeysOf(leaf)) : i >= Upcoming /\ x = KeysOf(leaf)[i]
              \/ \E l \in 1..NumLeaves : \E i \in 1..Len(KeysOf(l)) : l > index /\ x = KeysOf(l)[i]
<1>1. /\ file \in Files /\ NumLeaves \in Nat /\ AtFrom /\ index \in 1..NumLeaves /\ leaf = index
      /\ from \in Nat /\ Upcoming \in Nat
  BY FileTyped, UpcomingTyped DEF ReaderInv, LeavesAhead, TypeOK, AtFrom
<1>2. x \in AllKeys /\ x \in Nat /\ x >= from
  BY <1>1, KeyAt DEF Unseen
<1>3. PICK l \in 1..NumLeaves : \E i \in 1..Len(KeysOf(l)) : x = KeysOf(l)[i]
  BY <1>1, <1>2, KeyAt
<1>4. PICK i \in 1..Len(KeysOf(l)) : x = KeysOf(l)[i]
  BY <1>3
<1>5. ~(l < index)
  <2> SUFFICES ASSUME l < index PROVE FALSE
    OBVIOUS
  <2>1. index - 1 \in 1..NumLeaves /\ l <= index - 1 /\ index > 1
    BY <1>1
  <2>2. x <= file[l].sep /\ file[l].sep <= file[index - 1].sep /\ file[index - 1].sep < from
    BY <1>1, <1>4, <2>1, BelowSeparator, SeparatorsAscend DEF AtFrom
  <2> QED BY <1>1, <1>2, <2>1, <2>2, FileTyped
<1>6. l = index => i >= Upcoming
  <2> SUFFICES ASSUME l = index, i < Upcoming PROVE FALSE
    BY <1>1, FileTyped
  <2>1. i \in 1..(Upcoming - 1)
    BY <1>1, <1>4, FileTyped
  <2> QED BY <1>1, <1>2, <1>4, <2>1 DEF AtFrom
<1> QED BY <1>1, <1>2, <1>4, <1>5, <1>6

LEMMA StandsHere == ASSUME ReaderInv PROVE StandsOnNextKey
<1> SUFFICES ASSUME valid, ~lost PROVE NextKey = Least(Unseen)
  BY DEF StandsOnNextKey
<1> DEFINE n == Len(KeysOf(leaf))
<1>1. /\ file \in Files /\ NumLeaves \in Nat /\ AtFrom /\ index \in 1..NumLeaves /\ leaf = index
      /\ from \in Nat /\ Upcoming \in Nat /\ Upcoming \in 1..(n + 1) /\ n \in Nat
      /\ file[index].sep \in Nat
  BY FileTyped, UpcomingTyped DEF ReaderInv, LeavesAhead, TypeOK, AtFrom
<1>2. Unseen \in SUBSET Nat
  BY UnseenAhead
<1>3. CASE Upcoming <= n
  <2> DEFINE y == KeysOf(leaf)[Upcoming]
  <2>1. Upcoming \in 1..n /\ y \in AllKeys /\ y \in Nat /\ y >= from
    <3>1. Upcoming \in 1..n
      BY <1>1, <1>3
    <3>2. y \in AllKeys /\ y \in Nat
      BY <1>1, <3>1, KeyOfFile, FileTyped
    <3> QED BY <1>1, <1>3, <3>1, <3>2 DEF AtFrom
  <2>2. ASSUME NEW x \in Unseen PROVE y <= x
    <3>1. ASSUME NEW i \in 1..n, i >= Upcoming, x = KeysOf(leaf)[i] PROVE y <= x
      <4>1. i = Upcoming \/ y < x
        BY <1>1, <2>1, <3>1, KeysAscend
      <4> QED BY <1>2, <2>1, <3>1, <4>1
    <3>2. ASSUME NEW l \in 1..NumLeaves, NEW i \in 1..Len(KeysOf(l)), l > index, x = KeysOf(l)[i]
          PROVE  y <= x
      <4>1. y <= file[index].sep /\ file[index].sep < x
        BY <1>1, <2>1, <3>2, BelowSeparator, AboveSeparators
      <4> QED BY <1>1, <1>2, <2>1, <4>1
    <3> QED BY <3>1, <3>2, UnseenAhead
  <2>3. y \in Unseen
    BY <2>1 DEF Unseen
  <2> HIDE DEF y
  <2>4. Least(Unseen) = {y}
    BY <1>2, <2>2, <2>3, OnlyLeast
  <2> QED BY <1>3, <2>4 DEF NextKey, y
<1>4. CASE ~(Upcoming <= n) /\ index < NumLeaves
  <2> DEFINE y == KeysOf(index + 1)[1]
  <2>1. index + 1 \in 1..NumLeaves /\ 1 \in 1..Len(KeysOf(index + 1))
    BY <1>1, <1>4, FileTyped
  <2>2. y \in AllKeys /\ y \in Nat /\ file[index].sep < y
    BY <1>1, <2>1, KeyOfFile, FileTyped, AboveSeparators
  <2>3. y \in Unseen
    BY <1>1, <2>2 DEF Unseen, AtFrom
  <2>4. ASSUME NEW x \in Unseen PROVE y <= x
    <3>1. PICK l \in 1..NumLeaves : \E i \in 1..Len(KeysOf(l)) : l > index /\ x = KeysOf(l)[i]
      BY <1>1, <1>4, UnseenAhead
    <3>2. PICK i \in 1..Len(KeysOf(l)) : l > index /\ x = KeysOf(l)[i]
      BY <3>1
    <3>3. CASE l = index + 1
      <4>1. i = 1 \/ y < x
        BY <1>1, <2>1, <3>2, <3>3, KeysAscend
      <4> QED BY <1>2, <2>2, <3>2, <3>3, <4>1
    <3>4. CASE l # index + 1
      <4>1. l > index + 1
        BY <1>1, <3>2, <3>4
      <4>2. y <= file[index + 1].sep /\ file[index + 1].sep < x
        BY <1>1, <2>1, <3>2, <4>1, BelowSeparator, AboveSeparators
      <4> QED BY <1>1, <1>2, <2>1, <2>2, <4>2, FileTyped
    <3> QED BY <3>3, <3>4
  <2> HIDE DEF y
  <2>5. Least(Unseen) = {y}
    BY <1>2, <2>3, <2>4, OnlyLeast
  <2> QED BY <1>4, <2>5 DEF NextKey, y
<1>5. CASE ~(Upcoming <= n) /\ ~(index < NumLeaves)
  <2>1. Unseen = {}
    BY <1>1, <1>5, UnseenAhead
  <2> QED BY <1>5, <2>1 DEF NextKey, Least
<1> QED BY <1>3, <1>4, <1>5

\* A call returns the key that the iterator stands before, if that is in bounds.
LEMMA NextCallReturns ==
    ASSUME ReaderInv, NextCall, valid, ~lost
    PROVE  \/ NextKey = {} /\ ret' = None
           \/ \E y \in Nat : NextKey = {y} /\ ret' = IF Accept(y) THEN y ELSE None
<1>1. /\ file \in Files /\ NumLeaves \in Nat /\ index \in 1..NumLeaves /\ leaf \in 1..NumLeaves
      /\ Upcoming \in 1..(Len(KeysOf(leaf)) + 1) /\ Len(KeysOf(leaf)) \in Nat
  BY FileTyped, UpcomingTyped DEF ReaderInv, LeavesAhead, TypeOK
<1>2. CASE NextInLeaf
  <2>1. Upcoming \in 1..Len(KeysOf(leaf))
    BY <1>1, <1>2 DEF NextInLeaf
  <2>2. KeysOf(leaf)[Upcoming] \in Nat /\ NextKey = {KeysOf(leaf)[Upcoming]}
    BY <1>1, <2>1, FileTyped DEF NextKey
  <2> QED BY <1>2, <2>2 DEF NextInLeaf, Return
<1>3. CASE NextAcrossLeaf
  <2> DEFINE i == Min({index + 1, NumLeaves + 1})
  <2>1. i = index + 1
    BY <1>1, OneFurther
  <2>2. /\ Upcoming > Len(KeysOf(leaf))
        /\ IF i <= NumLeaves THEN Return(KeysOf(i)[1]) ELSE ret' = None
    BY <1>3 DEF NextAcrossLeaf
  <2> HIDE DEF i
  <2>3. CASE i <= NumLeaves
    <3>1. i \in 1..NumLeaves
      BY <1>1, <2>1, <2>3
    <3>2. KeysOf(i)[1] \in Nat
      BY <1>1, <3>1, FileTyped
    <3>3. NextKey = {KeysOf(i)[1]}
      BY <1>1, <2>1, <2>2, <2>3 DEF NextKey
    <3> QED BY <2>2, <2>3, <3>2, <3>3 DEF Return
  <2>4. CASE ~(i <= NumLeaves)
    <3>1. NextKey = {}
      BY <1>1, <2>1, <2>2, <2>4 DEF NextKey
    <3> QED BY <2>2, <2>4, <3>1
  <2> QED BY <2>3, <2>4
<1> QED BY <1>2, <1>3 DEF NextCall, NextInvalid

LEMMA LeastReturned ==
    ASSUME ReaderInv, NextCall, valid, ~lost, type \in {"get", "prefix"} => from >= lo
    PROVE  Least(UnseenInBounds) = IF ret' = None THEN {} ELSE {ret'}
<1>1. /\ lo \in Nat /\ hi \in Nat /\ from \in Nat /\ type \in Types
  BY KeysAssumption DEF ReaderInv, TypeOK
<1>2. Unseen \in SUBSET Nat /\ UnseenInBounds \subseteq Unseen /\ \A x \in Unseen : from <= x
  BY <1>1, UnseenAhead DEF Unseen, UnseenInBounds
<1>3. NextKey = Least(Unseen)
  BY StandsHere DEF StandsOnNextKey
<1>4. CASE NextKey = {} /\ ret' = None
  <2>1. Unseen = {}
    BY <1>2, <1>3, <1>4, LeastNatural DEF Least
  <2> QED BY <1>2, <1>4, <2>1 DEF Least
<1>5. ASSUME NEW y \in Nat, NextKey = {y}, ret' = IF Accept(y) THEN y ELSE None
      PROVE  Least(UnseenInBounds) = IF ret' = None THEN {} ELSE {ret'}
  <2>1. y \in Unseen /\ \A x \in Unseen : y <= x
    BY <1>3, <1>5 DEF Least
  <2>2. CASE Accept(y)
    <3>1. y \in UnseenInBounds
      BY <1>1, <2>1, <2>2 DEF UnseenInBounds, Accept
    <3>2. Least(UnseenInBounds) = {y}
      BY <1>2, <2>1, <3>1, OnlyLeast
    <3> QED BY <1>5, <2>2, <3>2 DEF None
  <2>3. CASE ~Accept(y)
    <3>1. type # "iter" /\ y > hi
      BY <1>1, <1>2, <1>5, <2>1, <2>3 DEF Accept, Types
    <3>2. UnseenInBounds = {}
      <4> SUFFICES ASSUME NEW x \in UnseenInBounds PROVE FALSE
        OBVIOUS
      <4>1. x \in Unseen /\ x \in Nat /\ y <= x
        BY <1>2, <2>1
      <4>2. x <= hi
        BY <3>1 DEF UnseenInBounds
      <4> QED BY <1>1, <3>1, <4>1, <4>2
    <3> QED BY <1>5, <2>3, <3>2 DEF Least
  <2> QED BY <2>2, <2>3
<1> QED BY <1>4, <1>5, NextCallReturns

LEMMA SeekInSync ==
    ASSUME ReaderInv, NEW k \in Keys, Seek(k), leaf = 0 \/ off = Offset(leaf), valid'
    PROVE  leaf' = index' /\ index' = IndexSeek(k)
<1> DEFINE i == IndexSeek(k)
<1>1. k \in Nat /\ file \in Files
  BY KeysAssumption DEF ReaderInv, TypeOK
<1>2. index' = i
  BY <1>1, ShortcutSound DEF Seek
<1>3. i <= NumLeaves /\ leaf' = IF Decoded(i) THEN leaf ELSE i
  <2>1. i \in Int /\ NumLeaves \in Int
    BY <1>1, IndexSeeks, FileTyped
  <2>2. (IF NeedsIndexSeek(k) THEN i ELSE index) = i
    BY <1>1, ShortcutSound
  <2> HIDE DEF i
  <2> QED BY <2>1, <2>2 DEF Seek, i
<1>4. Decoded(i) => leaf = i
  <2>1. i \in Int /\ leaf \in Int /\ base \in Nat
    BY <1>1, IndexSeeks, FileTyped, KeysAssumption DEF ReaderInv, TypeOK
  <2> HIDE DEF i
  <2> QED BY <2>1 DEF Decoded, Offset
<1> QED BY <1>2, <1>3, <1>4

--------------------------------------------------------------------------------
(* Theorems *)

\* The index and leaf iterators never stand anywhere but on an entry or one past
\* the last, and block_offset always names a leaf or the end: mtbl/reader.c
\* dereferences no entry that does not exist.
THEOREM ReaderTypeCorrect == Spec => []TypeOK
<1>1. ReaderInv => TypeOK
  BY DEF ReaderInv
<1> QED BY <1>1, ReaderInvariant, PTL

\* reader_iter_next() skips and repeats nothing, within a leaf, across leaves and
\* after every seek that does not keep a wrong leaf, whatever the file.
THEOREM NothingSkipped == Spec => []StandsOnNextKey
<1>1. ReaderInv => StandsOnNextKey
  BY StandsHere
<1> QED BY <1>1, ReaderInvariant, PTL

\* reader_iter_seek() ends in the right leaf whenever block_offset is that of the
\* decoded leaf: the shortcuts it takes are sound under that condition.
THEOREM SeeksFindLeaf == Spec => SeekRightWhenInSync
<1>1. ReaderInv /\ [Next]_vars =>
        [\A k \in Keys :
            Seek(k) /\ (leaf = 0 \/ off = Offset(leaf)) /\ valid' =>
                /\ leaf' = index'
                /\ index' = IndexSeek(k)]_vars
  BY SeekInSync
<1> QED BY <1>1, ReaderInvariant, PTL DEF Spec, SeekRightWhenInSync

\* mtbl_iter_next() returns the least key within the bounds that the caller has
\* not seen, and fails only when there is none.
THEOREM NextCorrect == Spec => NextReturnsLeast
<1>1. ReaderInv /\ [Next]_vars =>
        [NextCall /\ valid /\ ~lost /\ (type \in {"get", "prefix"} => from >= lo) =>
            Least(UnseenInBounds) = IF ret' = None THEN {} ELSE {ret'}]_vars
  BY LeastReturned
<1> QED BY <1>1, ReaderInvariant, PTL DEF Spec, NextReturnsLeast

=================================================================================
