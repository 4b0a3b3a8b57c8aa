------------------------------ MODULE BlockBuilder ------------------------------
(***************************************************************************)
(* mtbl/block_builder.c, with the growing buffer of libmy/vector.h that it *)
(* writes into: entries whose keys share a prefix with the key before      *)
(* them, except at the restart points, and the array of restart points at  *)
(* the end of a finished block.                                            *)
(*                                                                         *)
(* A builder is a record: buf, the bytes so far; alloced, the bytes there  *)
(* is room for; last_key; restarts, the offsets of the restart points;     *)
(* counter, the entries since the last of them; finished.                  *)
(***************************************************************************)
EXTENDS BlockLayout, Separator, SequencesExt

CONSTANT Hint       \* the initial room of a buffer, 65536 in the code

ASSUME BuilderAssumption == Hint \in Nat \ {0}

-------------------------------------------------------------------------------
(* Plausible bugs, each one the body of a definition below. *)

\* Room is made for a header of three bytes only.
RoomForShortHeader(non_shared, len_val) == 3 + non_shared + len_val

\* A reset leaves the last key.
ResetKeepsKey(b) == [b EXCEPT !.buf = <<>>, !.alloced = Hint, !.restarts = <<0>>,
                              !.counter = 0, !.finished = FALSE]

-------------------------------------------------------------------------------

\* vector_reserve(): the room is doubled until more elements fit behind n.
Reserve(alloced, n, more) ==
    LET Grown[a \in Nat \ {0}] == IF more <= a - n THEN a ELSE Grown[2 * a]
    IN  Grown[alloced]

NewBuilder(interval) ==
    [interval |-> interval, buf |-> <<>>, alloced |-> Hint, last_key |-> <<>>,
     restarts |-> <<0>>, counter |-> 0, finished |-> FALSE]

Reset(b) == [b EXCEPT !.buf = <<>>, !.alloced = Hint, !.last_key = <<>>,
                      !.restarts = <<0>>, !.counter = 0, !.finished = FALSE]

Empty(b) == b.buf = <<>>

-------------------------------------------------------------------------------

\* Is a new restart point due?
Restarting(b) == b.counter >= b.interval

\* The length of the prefix that key shares with the last one.
SharedWith(b, key) == IF Restarting(b) THEN 0 ELSE DiffIndex(b.last_key, key) - 1

\* What block_builder_add() reserves for an entry: three varints, key and value.
Room(non_shared, len_val) == 5 * 3 + non_shared + len_val

Entry(shared, key, val) ==
    LET suffix == SubSeq(key, shared + 1, Len(key))
    IN  EncodeVarint(shared) \o EncodeVarint(Len(suffix)) \o EncodeVarint(Len(val))
        \o suffix \o val

AddEntry(b, key, val) ==
    LET shared == SharedWith(b, key)
    IN  [b EXCEPT
            !.buf = @ \o Entry(shared, key, val),
            !.alloced = Reserve(@, Len(b.buf), Room(Len(key) - shared, Len(val))),
            !.last_key = key,
            !.restarts = IF Restarting(b) THEN Append(@, Len(b.buf)) ELSE @,
            !.counter = IF Restarting(b) THEN 1 ELSE @ + 1]

-------------------------------------------------------------------------------

\* block_builder_current_size_estimate()
EstimateOf(b) == SizeEstimate(Len(b.buf), Len(b.restarts))

RestartWidth(b) == IF Wide(Len(b.buf), Len(b.restarts)) THEN Size64 ELSE Size32

\* The block of block_builder_finish(): the entries, the restart points, their
\* number.
Finished(b) ==
    b.buf \o FlattenSeq([r \in DOMAIN b.restarts |-> EncodeFixed(b.restarts[r], RestartWidth(b))])
          \o EncodeFixed(Len(b.restarts), Size32)

\* The room that it is written into.
FinishRoom(b) == Reserve(b.alloced, Len(b.buf), EstimateOf(b))

===============================================================================
