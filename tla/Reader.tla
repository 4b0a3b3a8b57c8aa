--------------------------------- MODULE Reader ---------------------------------
(***************************************************************************)
(* The iterator of mtbl/reader.c over one file: an index iterator that     *)
(* stands on a leaf block, the leaf that is decoded at present, and an     *)
(* iterator in that leaf.                                                  *)
(*                                                                         *)
(* A key is a number; a file is a sequence of leaves, each with its keys   *)
(* in order and the separator that the index holds for it.  Block iterators*)
(* do what module BlockIter shows of them: a seek finds the lower bound.   *)
(***************************************************************************)
EXTENDS Integers, Sequences, FiniteSetsExt

CONSTANTS
    Files,          \* the files an iterator may be opened on
    Bases,          \* where the first leaf may begin: behind bytes that were reserved
    Keys            \* the keys that callers ask for

Types == {"iter", "get", "prefix", "range"}

\* What a writer produces: keys in order, and separators between the leaves.
WellFormed(f) ==
    \A i \in 1..Len(f) :
        /\ Len(f[i].keys) > 0
        /\ \A j \in 2..Len(f[i].keys) : f[i].keys[j - 1] < f[i].keys[j]
        /\ f[i].keys[Len(f[i].keys)] <= f[i].sep
        /\ i > 1 => f[i - 1].sep < f[i].keys[1]

ASSUME FilesAssumption == \A f \in Files : f \in Seq([keys : Seq(Nat), sep : Nat]) /\ WellFormed(f)
ASSUME KeysAssumption == Keys \subseteq Nat /\ Bases \subseteq Nat

VARIABLES
    file, base, \* the reader's file, the offset of its first leaf
    alive,      \* an iterator exists
    type,       \* it->it_type
    lo, hi,     \* the bounds asked for; hi stands for it->k
    index,      \* it->index_iter: a leaf number, or one more at the end
    leaf,       \* it->b: the decoded leaf, 0 when there is none
    pos,        \* it->bi: an entry of the leaf, or one more at the end
    off,        \* it->block_offset
    first, valid,   \* it->first, it->valid
    ret,        \* the key that the last call returned, or None
    from,       \* history: the caller has seen every key below it
    lost        \* history: a seek kept a leaf that is not the one it wanted

bounds == <<file, base, type, lo, hi>>
vars == <<file, base, alive, type, lo, hi, index, leaf, pos, off, first, valid, ret, from, lost>>

None == -1

NumLeaves == Len(file)
KeysOf(l) == file[l].keys

\* Leaf offsets: they ascend from that of the first leaf and no two share one.
Offset(l) == base + (l - 1)

-------------------------------------------------------------------------------
(* Plausible bugs, each one the body of a definition below. *)

\* A leaf that is already decoded is always kept.
AlwaysDecoded(i) == leaf # 0
\* The end of the current leaf is not compared with the target.
IgnoreLeafEnd(k) == FALSE
\* The index iterator goes one too far at the end.
IndexEndLate(k) == Min({i \in 1..NumLeaves : file[i].sep >= k} \cup {NumLeaves + 2})
\* The upper bound is taken to be exclusive.
AcceptBelow(x) == type = "iter" \/ (x < hi /\ (type = "range" \/ lo <= x))

-------------------------------------------------------------------------------

\* block_iter_seek() on the index and on a leaf
IndexSeek(k) == Min({i \in 1..NumLeaves : file[i].sep >= k} \cup {NumLeaves + 1})
LeafSeek(l, k) == Min({i \in 1..Len(KeysOf(l)) : KeysOf(l)[i] >= k} \cup {Len(KeysOf(l)) + 1})

\* The keys of the type of iterator asked for.  A range is not checked from below.
Accept(x) ==
    \/ type = "iter"
    \/ type \in {"get", "prefix"} /\ lo <= x /\ x <= hi
    \/ type = "range" /\ x <= hi

Init ==
    /\ file \in Files /\ base \in Bases
    /\ alive = FALSE /\ type = "iter" /\ lo = 0 /\ hi = 0
    /\ index = 1 /\ leaf = 0 /\ pos = 1 /\ off = 0
    /\ first = FALSE /\ valid = FALSE
    /\ ret = None /\ from = 0 /\ lost = FALSE

\* mtbl_source_iter(), _get(), _get_prefix() and _get_range().  No iterator is
\* made when there is no leaf to start from.  block_offset is left at 0, which is the
\* offset of the first leaf unless bytes have been reserved in front of it.
Create(t, a, z) ==
    /\ ~alive
    /\ LET i == IF t = "iter" THEN 1 ELSE IndexSeek(a) IN
       /\ i <= NumLeaves
       /\ index' = i
       /\ leaf' = i
       /\ pos' = IF t = "iter" THEN 1 ELSE LeafSeek(i, a)
    /\ alive' = TRUE
    /\ type' = t /\ lo' = a /\ hi' = z
    /\ off' = 0
    /\ first' = TRUE /\ valid' = TRUE
    /\ ret' = None
    /\ from' = IF t = "iter" THEN 0 ELSE a
    /\ lost' = FALSE
    /\ UNCHANGED <<file, base>>

\* it->bi has no current key, or one that is past k
PastTarget(k) == pos > Len(KeysOf(leaf)) \/ KeysOf(leaf)[pos] > k

\* k is not in the leaf that the index iterator stands on
BeyondLeaf(k) == index > NumLeaves \/ file[index].sep < k

NeedsIndexSeek(k) == first \/ leaf = 0 \/ PastTarget(k) \/ BeyondLeaf(k)

\* reader_iter_seek() need not decode the leaf at i.
Decoded(i) == leaf # 0 /\ off = Offset(i)

Seek(k) ==
    /\ alive
    /\ LET i == IF NeedsIndexSeek(k) THEN IndexSeek(k) ELSE index
           l == IF Decoded(i) THEN leaf ELSE i IN
       /\ index' = i
       /\ IF i > NumLeaves
          THEN /\ valid' = FALSE
               /\ UNCHANGED <<leaf, pos, off, first, lost>>
          ELSE /\ leaf' = l
               /\ off' = Offset(i)
               /\ pos' = LeafSeek(l, k)
               /\ first' = TRUE
               /\ valid' = TRUE
               /\ lost' = (l # i)
    /\ ret' = None
    /\ from' = k
    /\ UNCHANGED <<bounds, alive>>

\* The entry at which the next call to reader_iter_next() looks, in the leaf.
Upcoming == IF first THEN pos ELSE Min({pos + 1, Len(KeysOf(leaf)) + 1})

\* it->valid after the index iterator was advanced to i
ValidAt(i) == i <= NumLeaves /\ Accept(KeysOf(i)[1])

Return(x) ==
    /\ ret' = IF Accept(x) THEN x ELSE None
    /\ from' = IF Accept(x) THEN x + 1 ELSE from

NextInLeaf ==
    /\ alive /\ valid
    /\ Upcoming <= Len(KeysOf(leaf))
    /\ pos' = Upcoming
    /\ first' = FALSE
    /\ valid' = Accept(KeysOf(leaf)[Upcoming])
    /\ Return(KeysOf(leaf)[Upcoming])
    /\ UNCHANGED <<bounds, alive, index, leaf, off, lost>>

\* The leaf is exhausted: the next one is decoded, and block_offset is not set.
NextAcrossLeaf ==
    /\ alive /\ valid
    /\ Upcoming > Len(KeysOf(leaf))
    /\ LET i == Min({index + 1, NumLeaves + 1}) IN
       /\ index' = i
       /\ leaf' = IF i <= NumLeaves THEN i ELSE 0
       /\ valid' = ValidAt(i)
       /\ IF i <= NumLeaves THEN Return(KeysOf(i)[1]) ELSE ret' = None /\ UNCHANGED from
    /\ pos' = 1
    /\ first' = FALSE
    /\ UNCHANGED <<bounds, alive, off, lost>>

NextInvalid ==
    /\ alive /\ ~valid
    /\ ret' = None
    /\ UNCHANGED <<bounds, alive, index, leaf, pos, off, first, valid, from, lost>>

NextCall == NextInLeaf \/ NextAcrossLeaf \/ NextInvalid

Free ==
    /\ alive
    /\ alive' = FALSE /\ valid' = FALSE /\ leaf' = 0 /\ pos' = 1 /\ ret' = None
    /\ UNCHANGED <<bounds, index, off, first, from, lost>>

Next ==
    \/ \E a \in Keys : \/ Create("iter", a, a)
                       \/ Create("get", a, a)
                       \/ \E z \in Keys : Create("range", a, z) \/ (a <= z /\ Create("prefix", a, z))
    \/ \E k \in Keys : Seek(k)
    \/ NextCall
    \/ Free

Spec == Init /\ [][Next]_vars

-------------------------------------------------------------------------------
(* Properties *)

AllKeys == UNION {{KeysOf(l)[i] : i \in 1..Len(KeysOf(l))} : l \in 1..NumLeaves}

\* The smallest of a set of keys, as a set of at most one key
Least(S) == {x \in S : \A y \in S : x <= y}

\* The key that reader_iter_next() comes to next, before it looks at the bounds
NextKey ==
    IF Upcoming <= Len(KeysOf(leaf)) THEN {KeysOf(leaf)[Upcoming]}
    ELSE IF index < NumLeaves THEN {KeysOf(index + 1)[1]} ELSE {}

Unseen == {x \in AllKeys : x >= from}
UnseenInBounds ==
    {x \in Unseen : type = "iter" \/ (x <= hi /\ (type # "range" => lo <= x))}

\* The type invariant.
TypeOK ==
    /\ file \in Files /\ base \in Bases
    /\ alive \in BOOLEAN /\ first \in BOOLEAN /\ valid \in BOOLEAN /\ lost \in BOOLEAN
    /\ type \in Types /\ lo \in Keys \cup {0} /\ hi \in Keys \cup {0}
    /\ index \in 1..(NumLeaves + 1)
    /\ leaf \in 0..NumLeaves
    /\ pos \in 1..(IF leaf = 0 THEN 1 ELSE Len(KeysOf(leaf)) + 1)
    /\ off \in 0..(base + NumLeaves)
    /\ ret \in AllKeys \cup {None}
    /\ from \in Nat

\* As long as no seek has kept a wrong leaf, the iterator stands on the first
\* key that the caller has not seen: nothing is skipped or repeated, within a
\* leaf, across leaves and after seeks in either direction.
StandsOnNextKey == valid /\ ~lost => NextKey = Least(Unseen)

\* A seek that reuses the decoded leaf is right whenever block_offset tells the
\* truth about that leaf, which it does not after creation or a leaf crossing.
SeekRightWhenInSync ==
    [][\A k \in Keys :
        Seek(k) /\ (leaf = 0 \/ off = Offset(leaf)) /\ valid' =>
            /\ leaf' = index'
            /\ index' = IndexSeek(k)]_vars

\* mtbl_iter_next() fails only when no key within the bounds is left and returns
\* the least one otherwise, unless a seek went below the start of a get or a
\* prefix: those end at the first key that does not match.
NextReturnsLeast ==
    [][NextCall /\ valid /\ ~lost /\ (type \in {"get", "prefix"} => from >= lo) =>
        Least(UnseenInBounds) = IF ret' = None THEN {} ELSE {ret'}]_vars

\* The test t/test-iter-seek.c: "Seek to a key, ensure that we get the one we
\* want and that we go all the way to the end", of every iterator and every seek.
SeekLands == valid => NextKey = Least(Unseen)

===============================================================================
