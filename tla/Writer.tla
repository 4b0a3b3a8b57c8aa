--------------------------------- MODULE Writer ---------------------------------
(***************************************************************************)
(* mtbl/writer.c: keys are gathered into blocks, blocks are compressed,    *)
(* possibly by a thread pool, and written one after the other, each with   *)
(* an index entry that says where it is and which keys it may hold; the    *)
(* index and a trailer come last.                                          *)
(*                                                                         *)
(* The thread of the result handler, which is the pool's in the model of   *)
(* JobService, writes blocks while the caller adds keys.  A key is a       *)
(* string of bytes; how much an entry adds to a block, and how much a      *)
(* compressed block takes on disk, are small numbers.                      *)
(***************************************************************************)
EXTENDS Separator, SequencesExt

CONSTANTS
    Keys,          \* the keys that callers add
    EntryBytes,    \* what an entry may add to a block
    BlockSize,     \* opt.block_size, in the same unit
    DiskBytes,     \* what a block may take on disk
    Starts         \* the offsets of the file descriptor when it is handed over

ASSUME WriterAssumption ==
    /\ Keys \subseteq Key /\ IsFiniteSet(Keys)
    /\ EntryBytes \subseteq Nat \ {0} /\ DiskBytes \subseteq Nat \ {0}
    /\ BlockSize \in Nat \ {0} /\ Starts \subseteq Nat

Handler == "writer"
None == [block |-> 0, bytes |-> 0]

VARIABLES
    pooled,            \* opt.pool is not NULL
    last_key, count,   \* the last key and m.count_entries
    data, size,        \* the open block: its keys and its size
    blocks,            \* the blocks that were finished: their keys, and their last_key
    writing,           \* the block that the handler has written and not yet recorded
    file, pos,         \* what is on disk, and the position of the file descriptor
    last_offset, pending_offset,
    index,             \* the entries of the index: key and offset
    phase,             \* "open", "finishing" in mtbl_writer_destroy(), "closed"
    res,               \* what the last mtbl_writer_add() returned
    sent, delivered, closed    \* of JobService

caller == <<last_key, count, data, size, blocks, phase, res>>
disk == <<file, pos, last_offset, pending_offset, index>>
jobs == <<sent, delivered, closed>>
vars == <<pooled, caller, writing, disk, jobs>>

-------------------------------------------------------------------------------
(* Plausible bugs, each one the body of a definition below. *)

\* What the entry adds is not counted.
FullAfter(n) == size >= BlockSize
\* The compressed blocks are taken as they come.
TakenAsTheyCome == {}
\* The offset is advanced before it is recorded.
OffsetAfter(n) == pending_offset + n
\* The result handler is not waited for,
NotWaiting == TRUE
\* or a handler is waited for where there is none.
NeverWaited == closed[Handler]

-------------------------------------------------------------------------------

\* The handlers whose jobs are dispatched with ordered = true
DispatchOrdered == {Handler}

J == INSTANCE JobService
        WITH Handlers <- {Handler}, Ordered <- DispatchOrdered,
             Jobs <- [h \in {Handler} |-> Cardinality(Keys)]

Full(n) == size + n >= BlockSize

\* _mtbl_writer_write_block()
WriteBlock(part, n) ==
    /\ file' = Append(file, part)
    /\ pos' = pos + n

Leaf(b) == [kind |-> "leaf", at |-> pos, keys |-> blocks'[b].keys]

OffsetOf(n) == pending_offset

\* The rest of _mtbl_writer_write_data_block()
RecordBlock(b, n) ==
    /\ last_offset' = OffsetOf(n)
    /\ pending_offset' = pending_offset + n
    /\ index' = Append(index, [key |-> blocks'[b].last_key, offset |-> last_offset'])

\* _mtbl_writer_flush() of the open block under the key k
Flush(k) ==
    IF data = <<>> THEN UNCHANGED <<blocks, disk, jobs>>
    ELSE /\ blocks' = Append(blocks, [keys |-> data, last_key |-> k])
         /\ IF pooled
            THEN J!Dispatch(Handler) /\ UNCHANGED disk
            ELSE /\ \E n \in DiskBytes :
                       WriteBlock(Leaf(Len(blocks')), n) /\ RecordBlock(Len(blocks'), n)
                 /\ UNCHANGED jobs

-------------------------------------------------------------------------------

Init ==
    /\ pooled \in BOOLEAN
    /\ last_key = <<>> /\ count = 0
    /\ data = <<>> /\ size = 0 /\ blocks = <<>>
    /\ writing = None
    /\ file = <<>>
    /\ \E start \in Starts : pos = start /\ last_offset = start /\ pending_offset = start
    /\ index = <<>> /\ phase = "open" /\ res = "success"
    /\ J!Init

\* mtbl_writer_add() of a key whose entry adds n to a block
Add(k, n) ==
    /\ phase = "open"
    /\ IF count > 0 /\ ~Less(last_key, k)
       THEN res' = "failure" /\ UNCHANGED <<last_key, count, data, size, blocks, disk, jobs>>
       ELSE /\ IF Full(n)
               THEN /\ Flush(ShortestSeparator(last_key, k))
                    /\ data' = <<k>> /\ size' = n
               ELSE /\ data' = Append(data, k) /\ size' = size + n
                    /\ UNCHANGED <<blocks, disk, jobs>>
            /\ last_key' = k
            /\ count' = count + 1
            /\ res' = "success"
    /\ UNCHANGED <<pooled, phase, writing>>

\* mtbl_writer_destroy(), up to the wait for the handler
Destroy ==
    /\ phase = "open"
    /\ Flush(last_key)
    /\ data' = <<>> /\ size' = 0
    /\ phase' = "finishing"
    /\ UNCHANGED <<pooled, last_key, count, res, writing>>

\* result_handler_destroy(): the handler's thread is joined.
DestroyHandler ==
    /\ pooled /\ phase = "finishing"
    /\ writing = None
    /\ J!Close(Handler)
    /\ UNCHANGED <<pooled, caller, writing, disk>>

Waited == pooled => closed[Handler]

\* The rest of _mtbl_writer_finish(): the index and the trailer
Finish ==
    /\ phase = "finishing"
    /\ Waited
    /\ \E n \in DiskBytes :
        /\ file' = file \o << [kind |-> "index", at |-> pos, entries |-> index],
                              [kind |-> "trailer", at |-> pos + n, count |-> count,
                               index_block_offset |-> pending_offset] >>
        /\ pos' = pos + n + 1
        /\ last_offset' = pending_offset
        /\ pending_offset' = pending_offset + n
    /\ index' = <<>>
    /\ phase' = "closed"
    /\ UNCHANGED <<pooled, last_key, count, data, size, blocks, res, writing, jobs>>

\* _write_data_block_wrapper() in the thread of the handler: the block is written,
HandlerWrite ==
    /\ writing = None
    /\ J!Deliver(Handler)
    /\ UNCHANGED <<pooled, caller, last_offset, pending_offset, index>>
    /\ LET b == Last(delivered'[Handler])[2] IN
       \E n \in DiskBytes :
           WriteBlock(Leaf(b), n) /\ writing' = [block |-> b, bytes |-> n]

\* and then gets its offset and its index entry.
HandlerRecord ==
    /\ writing # None
    /\ UNCHANGED <<pooled, caller, file, pos, jobs>>
    /\ RecordBlock(writing.block, writing.bytes)
    /\ writing' = None

Next ==
    \/ \E k \in Keys, n \in EntryBytes : Add(k, n)
    \/ Destroy
    \/ DestroyHandler
    \/ Finish
    \/ HandlerWrite
    \/ HandlerRecord

Spec == Init /\ [][Next]_vars

\* The handler's thread does not stop, and mtbl_writer_destroy(), once called,
\* goes on.
FairSpec ==
    /\ Spec
    /\ WF_vars(HandlerWrite) /\ WF_vars(HandlerRecord) /\ WF_vars(DestroyHandler) /\ WF_vars(Finish)

-------------------------------------------------------------------------------
(* Properties *)

Leaves == {p \in Range(file) : p.kind = "leaf"}

\* The type invariant.  A block grows past BlockSize only by its first entry.
TypeOK ==
    /\ pooled \in BOOLEAN
    /\ last_key \in Keys \cup {<<>>} /\ count \in 0..Cardinality(Keys)
    /\ data \in Seq(Keys) /\ size \in Nat
    /\ Len(data) > 1 => size < BlockSize
    /\ \A b \in Range(blocks) : b.keys \in Seq(Keys) \ {<<>>} /\ b.last_key \in Key
    /\ writing \in [block : 0..Len(blocks), bytes : DiskBytes \cup {0}]
    /\ {pos, last_offset, pending_offset} \subseteq Nat
    /\ phase \in {"open", "finishing", "closed"} /\ res \in {"success", "failure"}

\* The blocks get to the disk in the order in which they were finished, though
\* workers compress them, and the index entries are theirs, each with the offset at
\* which its block starts (bytes_written is added to pending_offset by another
\* thread than the one that reads it for the trailer), whatever the file
\* descriptor's offset was at the start.
IndexLocates ==
    phase # "closed" =>
        /\ Len(index) = Len(file) - (IF writing = None THEN 0 ELSE 1)
        /\ \A i \in 1..Len(file) : file[i].keys = blocks[i].keys
        /\ \A i \in 1..Len(index) :
              index[i] = [key |-> blocks[i].last_key, offset |-> file[i].at]
        /\ writing = None => pending_offset = pos

\* The key of an index entry is at least every key of its block and is less than
\* every key of the next block, and than those of the open one.
SeparatorsSeparate ==
    \A i \in 1..Len(blocks) :
        /\ \A k \in Range(blocks[i].keys) : ~Less(blocks[i].last_key, k)
        /\ LET next == IF i < Len(blocks) THEN blocks[i + 1].keys ELSE data IN
           \A k \in Range(next) : Less(blocks[i].last_key, k)

Trailer == Last(file)
\* What mtbl_reader_init() finds behind the trailer
Index == (CHOOSE p \in Range(file) : p.kind = "index" /\ p.at = Trailer.index_block_offset).entries
\* The first entry of the index that is not below t, and its block
LowerBound(t) == CHOOSE i \in 1..(Len(Index) + 1) :
    /\ i <= Len(Index) => ~Less(Index[i].key, t)
    /\ \A j \in 1..(i - 1) : Less(Index[j].key, t)
LeafAt(offset) == CHOOSE p \in Leaves : p.at = offset

\* A file with a trailer is complete and can be searched: the index is where the
\* trailer says, the entries are as many as it says, and looking any key up in
\* the index leads to the block with that key, if it was accepted, and otherwise
\* to one such that no key is passed over by going on from there.
FileIsReadable ==
    phase = "closed" =>
        LET stored == UNION {Range(l.keys) : l \in Leaves} IN
        /\ Trailer.kind = "trailer"
        /\ Trailer.count = Cardinality(stored)
        /\ \A t \in Keys :
            LET i == LowerBound(t)
                from == IF i > Len(Index) THEN {} ELSE Range(LeafAt(Index[i].offset).keys)
                before == UNION {Range(LeafAt(Index[j].offset).keys) : j \in 1..(i - 1)}
            IN  /\ t \in stored => t \in from
                /\ \A k \in before : Less(k, t)

\* A block that was dispatched and has not reached the disk
Pending(i) == pooled /\ <<Handler, i>> \in J!Outstanding(Handler)

Contents ==
    FlattenSeq([i \in 1..Len(file) |-> IF file[i].kind = "leaf" THEN file[i].keys ELSE <<>>]) \o
    FlattenSeq([i \in 1..Len(blocks) |-> IF Pending(i) THEN blocks[i].keys ELSE <<>>]) \o
    data

T == INSTANCE Table WITH contents <- Contents, sealed <- phase = "closed"

\* The writer is a Table: what is on disk, followed by what the pool still has
\* and by what is in the open block, is what was accepted, in order, at every
\* step of the caller and of the handler's thread.
ImplementsTable == T!Spec

\* mtbl_writer_destroy() returns.
DestroyReturns == phase = "finishing" ~> phase = "closed"

===============================================================================
