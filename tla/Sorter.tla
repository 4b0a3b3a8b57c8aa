--------------------------------- MODULE Sorter ---------------------------------
(***************************************************************************)
(* mtbl/sorter.c: entries are gathered in memory, sorted and merged into   *)
(* chunks, possibly by a thread pool, and the chunks are merged again      *)
(* while they are read.                                                    *)
(*                                                                         *)
(* The value of the i-th entry that is added is i, and a merged value is   *)
(* the sequence of the values that went into it.  The merge function may   *)
(* fail on any two values.  Keys are not empty (a merger drops an empty    *)
(* key).  The iterator over the chunks does what Merger shows of it; its   *)
(* seek, which hands the key on to the merger's, is left to Merger.        *)
(***************************************************************************)
EXTENDS Integers, SequencesExt, FiniteSetsExt

CONSTANTS
    Keys,          \* the keys that callers add
    MaxMemory,     \* opt.max_memory, in entries
    MaxAdds        \* bound on the number of entries

ASSUME SorterAssumption ==
    Keys \subseteq Nat \ {0} /\ MaxMemory \in Nat \ {0} /\ MaxAdds \in Nat

Handler == "sorter"
NullReader == <<>>

VARIABLES
    pooled,       \* opt.pool is not NULL
    vec,          \* s->vec: the entries in memory
    batches,      \* the batches that were dispatched to the pool
    readers,      \* s->readers: the chunks
    iterating,
    phase,        \* "idle", in mtbl_sorter_iter() "collecting", "taking" while there is an
                  \* iterator, "destroying", "gone", "crashed" by an assertion or a NULL pointer
    mode,         \* whose iterator it is: the caller's, or mtbl_sorter_write()'s
    rest, out,    \* what each source of the iterator still has, and what it returned
    wrote,        \* what the last mtbl_sorter_write() returned
    added,        \* history: the number of entries
    failed,       \* history: the merge function has failed
    sent, delivered, closed    \* of JobService

jobs == <<sent, delivered, closed>>
output == <<mode, rest, out, wrote>>
vars == <<pooled, vec, batches, readers, iterating, phase, output, added, failed, jobs>>

J == INSTANCE JobService
        WITH Handlers <- {Handler}, Ordered <- {}, Jobs <- [h \in {Handler} |-> MaxAdds]

-------------------------------------------------------------------------------
(* Plausible bugs, each one the body of a definition below. *)

\* Two entries with one key are written one after the other.
MergeNone(entries) == entries
\* The last entries stay in memory when they are few.
FewLeft == Len(vec) > 1
\* The batches that are still with the pool are not waited for,
NotWaiting == TRUE
\* or a handler is waited for where there is none.
NeverWaited == closed[Handler]
\* The memory limit is reached one entry late.
FullLate(v) == Len(v) > MaxMemory

-------------------------------------------------------------------------------

\* The loop of _mtbl_sorter_write_chunk(): an entry is merged into the one after
\* it when that has the same key.
MergeInto(entries, e) ==
    IF entries # <<>> /\ Last(entries).key = e.key
    THEN [entries EXCEPT ![Len(entries)].val = @ \o e.val]
    ELSE Append(entries, e)

Merged(entries) ==
    LET written[i \in 0..Len(entries)] ==
            IF i = 0 THEN <<>> ELSE MergeInto(written[i - 1], entries[i])
    IN  written[Len(entries)]

\* What qsort() may make of the entries: those with one key are in any order.
Sorted(entries) ==
    LET n == Len(entries) IN
    {[i \in 1..n |-> entries[p[i]]] : p \in
        {p \in Bijection(1..n, 1..n) :
            \A i, j \in 1..n : i < j => entries[p[i]].key <= entries[p[j]].key}}

MayFail(entries) == \E i, j \in 1..Len(entries) : i < j /\ entries[i].key = entries[j].key

WriteChunk(entries, fail) == IF fail THEN NullReader ELSE Merged(entries)

\* _mtbl_sorter_flush() of the entries v.  Only without a pool does it fail,
\* and the reader that there is not is added all the same.
Flush(v, fail) ==
    /\ vec' = <<>>
    /\ IF pooled
       THEN /\ batches' = Append(batches, v)
            /\ J!Dispatch(Handler)
            /\ ~fail /\ UNCHANGED <<readers, failed>>
       ELSE /\ fail => MayFail(v)
            /\ \E s \in Sorted(v) : readers' = Append(readers, WriteChunk(s, fail))
            /\ failed' = (failed \/ fail)
            /\ UNCHANGED <<batches, jobs>>

Full(v) == Len(v) >= MaxMemory

-------------------------------------------------------------------------------

Init ==
    /\ pooled \in BOOLEAN
    /\ vec = <<>> /\ batches = <<>> /\ readers = <<>> /\ iterating = FALSE
    /\ phase = "idle" /\ mode = "iter" /\ rest = <<>> /\ out = <<>> /\ wrote = "nothing"
    /\ added = 0 /\ failed = FALSE
    /\ J!Init

\* mtbl_sorter_add()
Add(k, fail) ==
    /\ phase = "idle" /\ added < MaxAdds
    /\ ~iterating
    /\ added' = added + 1
    /\ LET v == Append(vec, [key |-> k, val |-> <<added'>>]) IN
       IF Full(v) THEN Flush(v, fail)
       ELSE ~fail /\ vec' = v /\ UNCHANGED <<batches, readers, failed, jobs>>
    /\ UNCHANGED <<pooled, iterating, phase, output>>

Unflushed == vec # <<>>

\* mtbl_sorter_iter(), called by the caller or by mtbl_sorter_write(), up to the
\* wait for the pool
StartIter(m, fail) ==
    /\ phase = "idle"
    /\ m = "write" => ~iterating
    /\ IF Unflushed THEN Flush(vec, fail)
       ELSE ~fail /\ UNCHANGED <<vec, batches, readers, failed, jobs>>
    /\ phase' = IF fail THEN "idle" ELSE "collecting"
    /\ mode' = m
    /\ wrote' = IF fail /\ m = "write" THEN "failure" ELSE wrote
    /\ UNCHANGED <<pooled, iterating, rest, out, added>>

\* mtbl_sorter_write() while or after an iterator was in use
WriteRefused ==
    /\ phase = "idle" /\ iterating
    /\ wrote' = "failure"
    /\ UNCHANGED <<pooled, vec, batches, readers, iterating, phase, mode, rest, out, added, failed, jobs>>

\* result_handler_destroy(), which has nothing to do when there is no handler
\* (any more)
DestroyHandler ==
    /\ pooled /\ phase \in {"collecting", "destroying"}
    /\ J!Close(Handler)
    /\ phase' = IF phase = "destroying" THEN "gone" ELSE phase
    /\ UNCHANGED <<pooled, vec, batches, readers, iterating, output, added, failed>>

Waited == pooled => closed[Handler]

\* The rest of mtbl_sorter_iter().  mtbl_reader_source() takes no NULL reader.
FinishIter ==
    /\ phase = "collecting" /\ Waited
    /\ IF NullReader \in Range(readers)
       THEN phase' = "crashed" /\ UNCHANGED <<iterating, rest, out>>
       ELSE /\ phase' = "taking"
            /\ iterating' = TRUE
            /\ rest' = readers /\ out' = <<>>
    /\ UNCHANGED <<pooled, vec, batches, readers, mode, wrote, added, failed, jobs>>

Left == {i \in DOMAIN rest : rest[i] # <<>>}
\* The sources with the least key
Holders == {i \in Left : \A j \in Left : rest[i][1].key <= rest[j][1].key}

\* sorter_iter_next() with something left: the merge function is given the values
\* of the sources S and fails on the next one, if there is one.
IterNext(S) ==
    /\ phase = "taking"
    /\ LET e == rest[CHOOSE i \in S : TRUE][1] IN
       IF S = Holders
       THEN /\ out' = Append(out, [key |-> e.key,
                   val |-> FlattenSeq([i \in 1..Len(rest) |-> IF i \in S THEN rest[i][1].val ELSE <<>>])])
            /\ UNCHANGED <<phase, wrote, failed>>
       ELSE /\ failed' = TRUE
            /\ IF mode = "write" THEN phase' = "idle" /\ wrote' = "success"
               ELSE UNCHANGED <<phase, wrote>>
            /\ UNCHANGED out
    /\ rest' = [i \in DOMAIN rest |-> IF i \in S THEN Tail(rest[i]) ELSE rest[i]]
    /\ UNCHANGED <<pooled, vec, batches, readers, iterating, mode, added, jobs>>

\* mtbl_sorter_write() stops with the failure of mtbl_writer_add(), when the writer
\* was used before and has a key that is not less than that of the first entry; the
\* keys that follow it only grow.
WriterRefuses ==
    /\ phase = "taking" /\ mode = "write"
    /\ Left # {} /\ out = <<>>
    /\ phase' = "idle" /\ wrote' = "failure"
    /\ UNCHANGED <<pooled, vec, batches, readers, iterating, mode, rest, out, added, failed, jobs>>

\* mtbl_sorter_write() stops when there is nothing left; the caller destroys its
\* iterator whenever it likes.
IterEnd ==
    /\ phase = "taking"
    /\ mode = "write" => Left = {}
    /\ phase' = "idle"
    /\ wrote' = IF mode = "write" THEN "success" ELSE wrote
    /\ UNCHANGED <<pooled, vec, batches, readers, iterating, mode, rest, out, added, failed, jobs>>

\* mtbl_sorter_destroy(), up to the wait for the pool: the readers go first.
Destroy ==
    /\ phase = "idle"
    /\ vec' = <<>> /\ readers' = <<>>
    /\ phase' = IF Waited THEN "gone" ELSE "destroying"
    /\ UNCHANGED <<pooled, batches, iterating, output, added, failed, jobs>>

\* _collect_readers_cb() in the thread of the handler, with what a worker made of
\* a batch.  There is no vector of readers once mtbl_sorter_destroy() was called.
CollectReader(fail) ==
    /\ phase \notin {"gone", "crashed"}
    /\ J!Deliver(Handler)
    /\ LET b == batches[Last(delivered'[Handler])[2]] IN
       /\ fail => MayFail(b)
       /\ IF phase = "destroying"
          THEN phase' = "crashed" /\ UNCHANGED readers
          ELSE /\ \E s \in Sorted(b) : readers' = Append(readers, WriteChunk(s, fail))
               /\ UNCHANGED phase
    /\ failed' = (failed \/ fail)
    /\ UNCHANGED <<pooled, vec, batches, iterating, output, added>>

Next ==
    \/ \E k \in Keys, fail \in BOOLEAN : Add(k, fail)
    \/ \E m \in {"iter", "write"}, fail \in BOOLEAN : StartIter(m, fail)
    \/ WriteRefused
    \/ DestroyHandler
    \/ FinishIter
    \/ \E S \in SUBSET Holders : S # {} /\ IterNext(S)
    \/ WriterRefuses
    \/ IterEnd
    \/ Destroy
    \/ \E fail \in BOOLEAN : CollectReader(fail)

Spec == Init /\ [][Next]_vars

\* The pool's threads do not stop, and a call, once made, goes on.
FairSpec ==
    /\ Spec
    /\ WF_vars(\E fail \in BOOLEAN : CollectReader(fail))
    /\ WF_vars(DestroyHandler) /\ WF_vars(FinishIter)

-------------------------------------------------------------------------------
(* Properties *)

Entry == [key : Keys, val : Seq(1..MaxAdds)]

\* The type invariant.
TypeOK ==
    /\ {pooled, iterating, failed} \subseteq BOOLEAN
    /\ vec \in Seq(Entry) /\ Len(vec) < MaxMemory
    /\ Range(batches) \cup Range(readers) \cup Range(rest) \subseteq Seq(Entry)
    /\ out \in Seq(Entry)
    /\ phase \in {"idle", "collecting", "taking", "destroying", "gone", "crashed"}
    /\ mode \in {"iter", "write"} /\ wrote \in {"nothing", "success", "failure"}
    /\ added \in 0..MaxAdds

\* The values in entries, and that none of them is there twice
Values(entries) == UNION {Range(entries[i].val) : i \in 1..Len(entries)}
Apart(entries) ==
    /\ \A i \in 1..Len(entries) : IsInjective(entries[i].val)
    /\ \A i, j \in 1..Len(entries) : i # j => Range(entries[i].val) \cap Range(entries[j].val) = {}

\* Every value that was added is once in the entries of one place, and nowhere else.
EveryValueOnce(held) ==
    /\ \A p \in DOMAIN held : Apart(held[p])
    /\ \A p, q \in DOMAIN held : p # q => Values(held[p]) \cap Values(held[q]) = {}
    /\ UNION {Values(held[p]) : p \in DOMAIN held} = 1..added

Increasing(entries) == \A i, j \in 1..Len(entries) : i < j => entries[i].key < entries[j].key

\* The batches that the pool has not returned
InPool == {i \in 1..Len(batches) : <<Handler, i>> \in J!Outstanding(Handler)}

Places == {<<"memory", 0>>} \cup ({"pool"} \X InPool) \cup ({"chunk"} \X (1..Len(readers)))
EntriesAt(p) == CASE p[1] = "memory" -> vec
                  [] p[1] = "pool" -> batches[p[2]]
                  [] p[1] = "chunk" -> readers[p[2]]
Held == [p \in Places |-> EntriesAt(p)]

\* As long as the merge function does not fail, every value that was added is in
\* exactly one place: in memory, in a batch that the pool has not returned, or in
\* a chunk, whatever the order in which the pool returns them.  A chunk is sorted
\* and has no key twice, as mtbl_writer_add() would refuse it.
NothingLost ==
    ~failed /\ phase \in {"idle", "collecting", "taking"} =>
        /\ EveryValueOnce(Held)
        /\ \A r \in Range(readers) : Increasing(r)

\* What the iterator returned, and what its sources still have
Output == [i \in 0..Len(rest) |-> IF i = 0 THEN out ELSE rest[i]]

\* The output is sorted, has every key once, and together with what is left it
\* is everything that was added: no chunk is missing from an iterator, and the
\* entries in memory are part of it.
OutputComplete ==
    phase = "taking" /\ ~failed =>
        /\ EveryValueOnce(Output)
        /\ Increasing(out)
        /\ \A o \in Range(out), i \in Left : o.key < rest[i][1].key

\* Once there has been an iterator the handler's thread does nothing any more: the
\* chunks that the iterator was made of are all there ever are, the pool adds none
\* to the vector while the caller reads it, and none after mtbl_sorter_destroy()
\* has freed it.
ReadersFixed ==
    [][iterating => delivered' = delivered /\ (phase # "idle" => readers' = readers)]_vars

\* mtbl_sorter_iter() and mtbl_sorter_write() do not wait for ever.
IterReturns == phase = "collecting" ~> phase \in {"taking", "crashed"}

\* man/mtbl_sorter.3.txt: when the merge function fails, "the sort process will
\* be aborted, and mtbl_sorter_write() or mtbl_iter_next() will return
\* mtbl_res_failure".
WriteReportsFailure == wrote = "success" => Apart(out) /\ Values(out) = 1..added

===============================================================================
