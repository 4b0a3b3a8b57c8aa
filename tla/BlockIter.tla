------------------------------- MODULE BlockIter -------------------------------
(***************************************************************************)
(* mtbl/block.c: a block over bytes, and its iterator.                     *)
(*                                                                         *)
(* A block is a record: data, its bytes; size, 0 when it is malformed;     *)
(* restart_offset, where its entries end.  An iterator is a record with    *)
(* the offsets of the current and of the next entry, the restart index,    *)
(* the key decoded so far and where the value is.  Offsets and restart     *)
(* points are numbered from 0, as in the code.                             *)
(***************************************************************************)
EXTENDS BlockLayout, Separator, FiniteSetsExt

VARIABLES
    block,       \* struct block
    bi           \* struct block_iter

\* num_restarts()
CountAt(data, size) == DecodeFixed(data, size - Size32, Size32)

NumRestarts == CountAt(block.data, block.size)

\* bi->restarts, the offset just past the last entry
Restarts == block.restart_offset

Valid(it) == it.current < Restarts

-------------------------------------------------------------------------------
(* Plausible bugs, each one the body of a definition below. *)

\* The current entry is not compared with the target.
ContinueAlways(it, left, t) == it.restart_index = left

-------------------------------------------------------------------------------
(* The block *)

\* block_init()
BlockInit(data) ==
    LET size == Len(data)
        n == CountAt(data, size)
    IN  IF size < Size32 THEN [data |-> data, size |-> 0, restart_offset |-> 0]
        ELSE [data |-> data,
              size |-> IF Malformed(size, n) THEN 0 ELSE size,
              restart_offset |-> RestartOffset(size, n)]

\* bi of no block
NoIter == [current |-> 0, next |-> 0, key |-> <<>>, val |-> 0, val_len |-> 0, restart_index |-> 0]

\* block_iter_init(); its assertion stops at a malformed block.
IterInit(blk) ==
    IF blk.size = 0 THEN NoIter ELSE
    [current |-> blk.restart_offset, next |-> 0, key |-> <<>>, val |-> 0, val_len |-> 0,
     restart_index |-> CountAt(blk.data, blk.size)]

-------------------------------------------------------------------------------
(* Reading entries *)

RestartPoint(r) ==
    IF Restarts > Max32 THEN DecodeFixed(block.data, Restarts + r * Size64, Size64)
    ELSE DecodeFixed(block.data, Restarts + r * Size32, Size32)

\* The fast path of decode_entry(): three lengths of one byte each.
ShortHeader(a, b, c) == IsLast(a) /\ IsLast(b) /\ IsLast(c)

\* decode_entry(): the lengths in the header at offset p and where it ends.
DecodeEntry(p) ==
    LET a == block.data[p + 1]
        b == block.data[p + 2]
        c == block.data[p + 3]
        shared     == DecodeVarint(block.data, p)
        non_shared == DecodeVarint(block.data, p + shared.len)
        val_len    == DecodeVarint(block.data, p + shared.len + non_shared.len)
    IN  IF ShortHeader(a, b, c)
        THEN [shared |-> a, non_shared |-> b, val_len |-> c, key |-> p + 3]
        ELSE [shared |-> shared.value, non_shared |-> non_shared.value,
              val_len |-> val_len.value,
              key |-> p + shared.len + non_shared.len + val_len.len]

\* n bytes from offset p
Bytes(p, n) == SubSeq(block.data, p + 1, p + n)

SeekToRestart(it, r) ==
    [it EXCEPT !.key = <<>>, !.restart_index = r, !.next = RestartPoint(r)]

\* The restart points parse_next_key() steps over: it lags one behind when the
\* current entry is itself a restart point.
Passed(it, c) == {r \in it.restart_index..(NumRestarts - 1) : RestartPoint(r) < c}

AtEnd(c) == c >= Restarts

ParseNextKey(it) ==
    LET c == it.next
        e == DecodeEntry(c)
    IN  IF AtEnd(c)
        THEN [it EXCEPT !.current = Restarts, !.restart_index = NumRestarts]
        ELSE [current |-> c,
              next |-> e.key + e.non_shared + e.val_len,
              key |-> SubSeq(it.key, 1, Min({e.shared, Len(it.key)}))
                      \o Bytes(e.key, e.non_shared),
              val |-> e.key + e.non_shared,
              val_len |-> e.val_len,
              restart_index |-> Max({it.restart_index} \cup Passed(it, c))]

\* block_iter_get()
Get(it) == <<it.key, Bytes(it.val, it.val_len)>>

-------------------------------------------------------------------------------
(* Seeking *)

\* The iterator after as many calls of parse_next_key(): there are fewer entries
\* than bytes.
Parsed(it) ==
    LET Walk[i \in 0..Restarts] == IF i = 0 THEN it ELSE ParseNextKey(Walk[i - 1])
    IN  Walk

\* The first state of a walk, from 1 on, that is off the end, or at or after target t.
AtTarget(walk, t) ==
    LET Found(i) == ~Valid(walk[i]) \/ ~Less(walk[i].key, t)
    IN  walk[CHOOSE i \in 1..Restarts : Found(i) /\ \A j \in 1..(i - 1) : ~Found(j)]

\* The first that is off the end, or whose entry ends at offset limit.
AtLimit(walk, limit) ==
    LET Found(i) == ~Valid(walk[i]) \/ walk[i].next >= limit
    IN  walk[CHOOSE i \in 1..Restarts : Found(i) /\ \A j \in 1..(i - 1) : ~Found(j)]

\* Parse up to the first entry at or after the target, from the next one on.
Scan(it, t) == AtTarget(Parsed(it), t)

\* Parse up to the entry whose end is at offset limit.
ScanUpTo(it, limit) == AtLimit(Parsed(it), limit)

\* compare_restart_point() < 0
Before(r, t) ==
    LET e == DecodeEntry(RestartPoint(r)) IN Less(Bytes(e.key, e.non_shared), t)

PastEnd(i) == i > NumRestarts - 1

\* Gallop from restart point i: <<left, right>>.
Gallop(i, t) ==
    LET Reach[p \in [left : Nat, right : Nat, incr : Nat \ {0}]] ==
            IF ~Before(p.right, t) THEN <<p.left, p.right>>
            ELSE IF PastEnd(p.right + p.incr) THEN <<p.right, NumRestarts - 1>>
            ELSE Reach[[left |-> p.right, right |-> p.right + p.incr, incr |-> 2 * p.incr]]
    IN  Reach[[left |-> 0, right |-> i, incr |-> 1]]

\* right, when the key at mid is not before the target
ShrinkTo(mid) == mid - 1

Middle(p) == (p.left + p.right + 1) \div 2

BinarySearch(first, last, t) ==
    LET Place[p \in [left : Nat, right : Nat]] ==
            IF p.left >= p.right THEN p.left
            ELSE IF Before(Middle(p), t) THEN Place[[p EXCEPT !.left = Middle(p)]]
            ELSE Place[[p EXCEPT !.right = ShrinkTo(Middle(p))]]
    IN  Place[[left |-> first, right |-> last]]

\* The restart block in which the search for t goes on.
RestartBlock(it, t) ==
    LET range == IF it.restart_index \notin {0, NumRestarts}
                 THEN Gallop(it.restart_index, t)
                 ELSE <<0, NumRestarts - 1>>
    IN  IF range[1] + 1 < range[2] THEN BinarySearch(range[1], range[2], t) ELSE range[1]

\* Continue from the current entry rather than from the restart point.
FromCurrent(it, left, t) == it.restart_index = left /\ Less(it.key, t)

BlockIterSeek(it, t) ==
    LET left == RestartBlock(it, t) IN
    IF it.restart_index = left /\ it.key = t THEN it
    ELSE Scan(IF FromCurrent(it, left, t) THEN it ELSE SeekToRestart(it, left), t)

BlockIterNext(it) == IF Valid(it) THEN ParseNextKey(it) ELSE it

\* A plausible bug: stepping back may start from the current entry itself.
EarlierOrHere(it) == {r \in 0..it.restart_index : RestartPoint(r) <= it.current}

\* The restart points from which block_iter_prev() may parse forward.
Earlier(it) == {r \in 0..it.restart_index : RestartPoint(r) < it.current}

BlockIterPrev(it) ==
    IF Earlier(it) = {}
    THEN [it EXCEPT !.current = Restarts, !.restart_index = NumRestarts]
    ELSE ScanUpTo(SeekToRestart(it, Max(Earlier(it))), it.current)

-------------------------------------------------------------------------------
(* The operations of an iterator *)

SeekToFirst ==
    /\ bi' = ParseNextKey(SeekToRestart(bi, 0))
    /\ UNCHANGED block

SeekToLast ==
    /\ bi' = ScanUpTo(SeekToRestart(bi, NumRestarts - 1), Restarts)
    /\ UNCHANGED block

Seek(t) ==
    /\ bi' = BlockIterSeek(bi, t)
    /\ UNCHANGED block

Advance ==
    /\ bi' = BlockIterNext(bi)
    /\ UNCHANGED block

Prev ==
    /\ Valid(bi)
    /\ bi' = BlockIterPrev(bi)
    /\ UNCHANGED block

===============================================================================
