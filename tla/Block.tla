--------------------------------- MODULE Block ---------------------------------
(***************************************************************************)
(* A block from the builder to the iterator: entries are added in key      *)
(* order, the block is finished and the builder reset for the next block,  *)
(* as the writer does, and the finished block is opened and read.          *)
(***************************************************************************)
EXTENDS BlockBuilder, BlockIter

CONSTANTS
    Keys,           \* the keys of entries
    Targets,        \* what is sought
    ValueLengths,   \* the lengths of values; all values of a block have the same
    Intervals,      \* block_restart_interval
    MaxEntries,     \* entries of a block at most
    Longest         \* bytes that an entry takes at most

ASSUME BlockAssumption ==
    /\ Keys \subseteq Key /\ Targets \subseteq Key
    /\ ValueLengths \subseteq Nat /\ Intervals \subseteq Nat \ {0}
    /\ MaxEntries \in Nat /\ Longest \in Nat

\* Lengths and the number of restart points are numbers of 32 bits, and the size
\* of a block one of 64 bits.
ASSUME SizeAssumption ==
    /\ \A key \in Keys : Len(key) <= VarintMax
    /\ \A n \in ValueLengths : n <= VarintMax
    /\ \A key \in Keys, n \in ValueLengths : 3 * 5 + Len(key) + n <= Longest
    /\ MaxEntries <= Max32 /\ MaxEntries * Longest <= Max64

VARIABLES
    phase,     \* "build" or "read"
    b,         \* the builder
    valLen,    \* the length of the values in this block
    added      \* history: key, value and offset of each entry of this block

vars == <<block, bi, phase, b, valLen, added>>

NoBlock == [data |-> <<>>, size |-> 0, restart_offset |-> 0]

\* The i-th value: its bytes tell its entry.
ValueOf(i) == [j \in 1..valLen |-> i]

Init ==
    /\ phase = "build"
    /\ b \in {NewBuilder(interval) : interval \in Intervals}
    /\ valLen \in ValueLengths
    /\ added = <<>>
    /\ block = NoBlock /\ bi = NoIter

\* block_builder_add(); callers add keys in order.
Add(key) ==
    /\ phase = "build"
    /\ Len(added) < MaxEntries
    /\ added # <<>> => Less(Last(added).key, key)
    /\ LET value == ValueOf(Len(added) + 1) IN
       /\ b' = AddEntry(b, key, value)
       /\ added' = Append(added, [key |-> key, value |-> value, off |-> Len(b.buf)])
    /\ UNCHANGED <<phase, valLen, block, bi>>

\* block_builder_finish() and block_builder_reset(), and the block opened for
\* reading.
Finish ==
    /\ phase = "build" /\ ~Empty(b)
    /\ phase' = "read"
    /\ b' = Reset(b)
    /\ block' = BlockInit(Finished(b))
    /\ bi' = IterInit(BlockInit(Finished(b)))
    /\ UNCHANGED <<valLen, added>>

\* The builder goes on with the next block.
NextBlock ==
    /\ phase = "read"
    /\ phase' = "build"
    /\ valLen' \in ValueLengths
    /\ added' = <<>>
    /\ block' = NoBlock /\ bi' = NoIter
    /\ UNCHANGED b

Read ==
    /\ phase = "read"
    /\ SeekToFirst \/ SeekToLast \/ Advance \/ Prev \/ \E t \in Targets : Seek(t)
    /\ UNCHANGED <<phase, b, valLen, added>>

Next == (\E key \in Keys : Add(key)) \/ Finish \/ NextBlock \/ Read

Spec == Init /\ [][Next]_vars

-------------------------------------------------------------------------------
(* Properties *)

Reading == phase = "read"

\* What is written into a buffer fits the room that there is for it: entries and
\* restart points in the builder's buffer, where the assertion of vector_advance()
\* comes after the bytes were written, and the finished block, which deflate() may
\* make longer, in the output buffer of _mtbl_compress_zlib().
WritesFit ==
    phase = "build" =>
        /\ Len(b.buf) <= b.alloced
        /\ Len(Finished(b)) <= FinishRoom(b)
        /\ ~Empty(b) => LET size == Len(Finished(b))
                        IN  size + Overhead(size) <= CompressRoom(size)

\* The size estimate, by which the writer decides to end a block, is the size of
\* the block if it were finished now.
EstimateExact == phase = "build" => EstimateOf(b) = Len(Finished(b))

\* Builder and reader agree on where the array of restart points starts and how
\* wide they are: every one is the offset of an entry with its whole key.
ArrayFound ==
    Reading =>
        /\ block.size = Len(block.data)
        /\ \A r \in 0..(NumRestarts - 1) :
              \E e \in ToSet(added) : e.off = RestartPoint(r) /\ DecodeEntry(e.off).shared = 0

\* The iterator stands on an entry that was added to this block, with its whole
\* key and its value: an entry is never decoded against a key other than its
\* predecessor's, and the builder remembers nothing of an earlier block.
EntryDecoded ==
    Reading /\ Valid(bi) =>
        \E e \in ToSet(added) : e.off = bi.current /\ <<e.key, e.value>> = Get(bi)

LowerBound(t) == Min({e.off : e \in {d \in ToSet(added) : ~Less(d.key, t)}} \cup {Restarts})

\* Wherever the iterator stands, seeking to a target lands on the first entry
\* whose key is not below it, or past the end: galloping, binary search, the
\* shortcut from the current entry and the linear scan lose no entry.
SeekFindsLowerBound ==
    Reading => \A t \in Targets : BlockIterSeek(bi, t).current = LowerBound(t)

\* Stepping visits the entries one by one in both directions, from wherever
\* seeks have left the iterator.
StepsByOne ==
    Reading /\ Valid(bi) =>
        LET i == CHOOSE k \in DOMAIN added : added[k].off = bi.current
            OffsetOf(k) == IF k \in DOMAIN added THEN added[k].off ELSE Restarts
        IN  /\ BlockIterNext(bi).current = OffsetOf(i + 1)
            /\ BlockIterPrev(bi).current = OffsetOf(i - 1)

===============================================================================
