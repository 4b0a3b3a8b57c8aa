--------------------------------- MODULE Merger ---------------------------------
(***************************************************************************)
(* The iterator of mtbl/merger.c over several sources.                     *)
(*                                                                         *)
(* A key is a number and 0 is the empty key.  The value of key k in source *)
(* s is s itself, and a merged value is the sequence of the values that    *)
(* were merged, so that an entry is a pair <<key, source>>.  The iterators *)
(* of the sources do what mtbl_source promises: a seek finds the lower     *)
(* bound, and the type and the upper bound say where they stop.            *)
(***************************************************************************)
EXTENDS Integers, Sequences, FiniteSetsExt, Functions

CONSTANTS
    Collections,    \* the collections of sources: functions from 1..n to sets of keys
    Keys            \* the keys that callers ask for

ASSUME KeysAssumption == Keys \subseteq Nat /\ IsFiniteSet(Keys) /\ 0 \in Keys
ASSUME CollectionsAssumption == Collections \subseteq Seq(SUBSET Keys)

Types == {"iter", "range", "prefix"}

\* ubuf_size() = 0
Empty == 0
None == -1
Nothing == [key |-> None, val |-> <<>>]

VARIABLES
    sources,    \* m->sources
    opt,        \* m->opt: whether there is a merge, a dupsort function
    alive,      \* an iterator exists
    asked,      \* the type and the bounds of the iterators of the sources
    entries,    \* it->entries: the sources that take part
    it,         \* the rest of the iterator
    ret,        \* the key and the values that the last call returned, or Nothing
    todo,       \* history: what the caller is owed: the entries from the bound or the
                \* key sought on that no call has returned since
    last,       \* history: the key that next took last, unless a seek went before it
    missing,    \* history: entries of that key are missing: it was sought again, or
                \* merging its values failed, and no other key was sought since
    outside     \* history: a seek asked for a key before the bounds

request == <<sources, opt, asked>>
history == <<todo, last, missing, outside>>
vars == <<request, alive, entries, it, ret, history>>

\* _mtbl_merger_compare() <= 0
EntryLeq(a, b) == a.key < b.key \/ (a.key = b.key /\ (opt.dupsort => a.src <= b.src))

H == INSTANCE Heap WITH Leq <- EntryLeq

-------------------------------------------------------------------------------
(* Plausible bugs, each one the body of a definition below. *)

\* The rest of a source whose entry was taken is forgotten.
Forget(m) == [m EXCEPT !.heap = H!Pop(@)]
\* An entry is not merged when it is the last one in the heap.
MergeLast(m) == opt.merge /\ Len(m.heap) > 1
-------------------------------------------------------------------------------

Accept(r, x) == (r.type = "prefix" => r.lo <= x) /\ x <= r.hi

\* What iterator s returns when its next key is the first one from f on, and
\* all that it goes on to return.
NextOf(r, s, f) ==
    LET S == {x \in sources[s] : x >= f} IN
    IF S = {} \/ ~Accept(r, Min(S)) THEN None ELSE Min(S)
RestOf(r, s, f) ==
    IF NextOf(r, s, f) = None THEN {}
    ELSE {<<x, s>> : x \in {y \in sources[s] : y >= f /\ Accept(r, y)}}

\* entry_fill() after a seek to f, or after the entry with key f - 1
Entry(r, s, f) == [key |-> NextOf(r, s, f), src |-> s]

\* What is taken from the root of the heap: its key, and its value as the first one
\* or merged to those that were taken before it.
Taken(m) ==
    LET e == m.heap[1] IN
    [m EXCEPT !.cur = e.key, !.pending = TRUE,
              !.val = IF m.cur = Empty THEN <<e.src>> ELSE Append(@, e.src)]

\* The root is refilled in place and sifted; one that has nothing left stays where
\* it is, finished.
Refill(m) ==
    LET e == Entry(asked, m.heap[1].src, m.heap[1].key + 1) IN
    [m EXCEPT !.heap = IF e.key = None THEN [@ EXCEPT ![1] = e] ELSE H!Replace(@, e)]

MayMerge(m) == opt.merge

\* The heaps, and the states that the loops of an iterator go through, with given
\* keys of the entries; None is that of a finished one.
Distinct(h) == \A i, j \in 1..Len(h) : h[i].src = h[j].src => i = j
Heaps(keys) == {h \in Seq([key : keys, src : DOMAIN sources]) : Distinct(h)}
States(keys) ==
    [heap : Heaps(keys), cur : Keys, val : Seq(DOMAIN sources),
     finished : BOOLEAN, pending : BOOLEAN, failed : BOOLEAN]

\* The loop of merger_iter_next(): finished entries are dropped, until there are no
\* entries or the key or the value is complete.  The merge function fails on the
\* value that would be number fail, and never when that is 0.
Exhausted(m) == m.heap[1].key = None
Complete(m) ==
    \/ m.heap = <<>>
    \/ ~Exhausted(m) /\ m.cur # Empty /\ (~MayMerge(m) \/ m.cur # m.heap[1].key)
MergeFails(m, fail) == ~Exhausted(m) /\ m.cur # Empty /\ Len(m.val) + 1 = fail
Collected(n, fail) ==
    LET Collect[m \in States(Keys \cup {None})] ==
            IF Complete(m) THEN [m EXCEPT !.finished = (m.heap = <<>>)]
            ELSE IF MergeFails(m, fail) THEN [m EXCEPT !.failed = TRUE]
            ELSE Collect[IF Exhausted(m) THEN [m EXCEPT !.heap = H!Pop(@)] ELSE Refill(Taken(m))]
    IN  Collect[n]

\* Seek forward: the sources behind k are sought, from the root of the heap on.
Reached(m, k) == m.heap = <<>> \/ k <= m.heap[1].key
Moved(m, k) ==
    LET e == Entry(asked, m.heap[1].src, k) IN
    [m EXCEPT !.heap = IF e.key = None THEN H!Pop(@) ELSE H!Replace(@, e), !.cur = k, !.val = <<>>]
Forwarded(n, k) ==
    LET Forward[m \in States(Keys)] ==
            IF Reached(m, k) THEN [m EXCEPT !.finished = (m.heap = <<>>)] ELSE Forward[Moved(m, k)]
    IN  Forward[n]

\* The entries of the sources in S that return something from f on, in the order of
\* the sources.
Filled(r, S, f) ==
    LET Fill[s \in 0..Len(sources)] ==
            IF s = 0 THEN <<>>
            ELSE IF s \in S /\ NextOf(r, s, f) # None THEN Append(Fill[s - 1], Entry(r, s, f))
            ELSE Fill[s - 1]
    IN  Fill[Len(sources)]

\* heap_push() of one entry after the other.
PushedAll(q) ==
    LET Pushed[i \in 0..Len(q)] == IF i = 0 THEN <<>> ELSE H!Push(Pushed[i - 1], q[i])
    IN  Pushed[Len(q)]

\* A plausible bug in the next definition: every seek starts again, with the
\* sources that had nothing to return too.
SoughtAll(m, k) ==
    [m EXCEPT !.finished = FALSE, !.pending = FALSE,
              !.heap = H!Heapify(Filled(asked, DOMAIN sources, k))]

\* The current key is unknown, or the end was reached, or k is before the key.
Backward(m, k) == m.heap = <<>> \/ m.cur = Empty \/ k < m.cur

Sought(m, k) ==
    LET n == [m EXCEPT !.finished = FALSE, !.pending = FALSE] IN
    IF Backward(m, k) THEN [n EXCEPT !.heap = H!Heapify(Filled(asked, entries, k))]
    ELSE Forwarded(n, k)

Fresh == [heap |-> <<>>, cur |-> Empty, val |-> <<>>, finished |-> FALSE, pending |-> FALSE,
          failed |-> FALSE]

-------------------------------------------------------------------------------

\* An iterator over everything is one whose bounds leave nothing out.
Requests == {r \in [type : Types, lo : Keys, hi : Keys] :
                r.lo <= r.hi /\ (r.type = "iter" => r.lo = 0 /\ r.hi = Max(Keys))}

Init ==
    /\ sources \in Collections
    /\ opt \in [merge : BOOLEAN, dupsort : BOOLEAN]
    /\ alive = FALSE /\ asked = [type |-> "iter", lo |-> 0, hi |-> 0]
    /\ entries = {} /\ it = Fresh /\ ret = Nothing
    /\ todo = {} /\ last = None /\ missing = FALSE /\ outside = FALSE

\* The entries with a key among those of some sources, from f on.  (An empty
\* key stands for "no key yet" in merger_iter_next(), which drops it.)
Rest(r, S, f) == {x \in UNION {RestOf(r, s, f) : s \in S} : x[1] # Empty}

\* mtbl_source_iter(), _get() and _get_range(), _get_prefix() of the merger: the
\* sources that have nothing to return are left out, whatever is sought later.
Create(r) ==
    /\ ~alive
    /\ asked' = r
    /\ LET made == {s \in DOMAIN sources : NextOf(r, s, r.lo) # None} IN
       /\ r.type # "iter" => made # {}
       /\ entries' = made
       /\ it' = [Fresh EXCEPT !.heap = PushedAll(Filled(r, made, r.lo))]
    /\ todo' = Rest(r, DOMAIN sources, r.lo)
    /\ last' = None /\ missing' = FALSE /\ outside' = FALSE
    /\ alive' = TRUE
    /\ ret' = Nothing
    /\ UNCHANGED <<sources, opt>>

\* A seek to k promises every entry from k on, whatever was returned before it.
Seek(k) ==
    /\ alive
    /\ it' = Sought(it, k)
    /\ todo' = Rest(asked, DOMAIN sources, k)
    /\ missing' = (k = last)
    /\ last' = IF k < last THEN None ELSE last
    /\ outside' = (outside \/ k < asked.lo)
    /\ ret' = Nothing
    /\ UNCHANGED <<request, alive, entries>>

\* When the merge function fails, the values merged until then are gone, and the
\* caller has got none of them.
NextCall(fail) ==
    /\ alive
    /\ IF it.finished
       THEN /\ ret' = Nothing /\ last' = None
            /\ UNCHANGED <<it, missing>>
       ELSE LET m == Collected([it EXCEPT !.cur = Empty, !.val = <<>>], fail) IN
            /\ it' = [m EXCEPT !.failed = FALSE, !.pending = m.pending /\ m.failed]
            /\ ret' = IF m.pending /\ ~m.failed THEN [key |-> m.cur, val |-> m.val] ELSE Nothing
            /\ last' = IF m.pending THEN m.cur ELSE None
            /\ missing' = (missing \/ m.failed)
    /\ todo' = todo \ {<<ret'.key, s>> : s \in Range(ret'.val)}
    /\ UNCHANGED <<request, alive, entries, outside>>

Free ==
    /\ alive
    /\ alive' = FALSE /\ it' = Fresh /\ entries' = {} /\ ret' = Nothing /\ todo' = {}
    /\ last' = None /\ missing' = FALSE /\ outside' = FALSE
    /\ UNCHANGED request

Next ==
    \/ \E r \in Requests : Create(r)
    \/ \E k \in Keys : Seek(k)
    \/ \E fail \in 0..Cardinality(entries) : fail # 1 /\ NextCall(fail)
    \/ Free

Spec == Init /\ [][Next]_vars

-------------------------------------------------------------------------------
(* Properties *)

AllEntries == UNION {{<<x, s>> : x \in sources[s]} : s \in DOMAIN sources}

\* The type invariant.
TypeOK ==
    /\ sources \in Collections
    /\ alive \in BOOLEAN
    /\ asked \in [type : Types, lo : Keys, hi : Keys]
    /\ entries \subseteq DOMAIN sources
    /\ it.heap \in Seq([key : Keys \cup {None}, src : entries])
    /\ it.cur \in Keys /\ it.val \in Seq(entries)
    /\ {it.finished, it.pending, it.failed} \subseteq BOOLEAN
    /\ todo \subseteq AllEntries /\ last \in Keys \cup {None}
    /\ {missing, outside} \subseteq BOOLEAN

\* Between two calls the heap is ordered, holds no exhausted entry, and holds
\* every source at most once: entry_fill() changes an entry while it is in the
\* heap, which is right only for the root.
HeapOrdered ==
    /\ H!Ordered(it.heap)
    /\ \A i \in 1..Len(it.heap) : it.heap[i].key # None
    /\ Distinct(it.heap)

\* A caller that does not seek the key it was given last, nor before the bounds it
\* asked for, and whose merges do not fail, is on firm ground.
Firm == ~missing /\ ~outside

\* What the heap and the iterators of its sources are still going to give is
\* exactly what the caller is owed, on firm ground: no source is dropped, left behind
\* or served twice by any sequence of steps and of seeks in both directions, and a
\* seek makes good what an earlier one or a failed merge had lost.
NothingLost ==
    alive /\ Firm => todo = UNION {Rest(asked, {e.src}, e.key) : e \in Range(it.heap)}

LeastKey == {x \in todo : \A y \in todo : x[1] <= y[1]}

\* With a merge function a call returns the least key that is owed, once, with the
\* values of all its sources; without one it returns one entry of that key.  With
\* a dupsort function the values come in its order.  A call fails only when nothing
\* is owed or the merge function fails.
NextReturnsLeast ==
    [][\A fail \in 0..Cardinality(entries) : NextCall(fail) /\ Firm /\ todo # {} =>
        IF ret' = Nothing THEN fail # 0
        ELSE LET got == {<<ret'.key, s>> : s \in Range(ret'.val)} IN
             /\ IF opt.merge THEN got = LeastKey ELSE got \subseteq LeastKey /\ Len(ret'.val) = 1
             /\ opt.dupsort =>
                  /\ \A i \in 2..Len(ret'.val) : ret'.val[i - 1] < ret'.val[i]
                  /\ \A x \in LeastKey \ got, y \in got : y[2] < x[2]]_vars

===============================================================================
