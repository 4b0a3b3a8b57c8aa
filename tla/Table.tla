--------------------------------- MODULE Table ---------------------------------
(***************************************************************************)
(* What mtbl_writer promises its caller: the keys it accepts are in order  *)
(* and without duplicates, a key that is out of order is refused, and      *)
(* mtbl_writer_destroy() seals a file that holds exactly what was          *)
(* accepted.  Nothing is said of blocks, threads, offsets or the index.    *)
(***************************************************************************)
EXTENDS Sequences, Naturals

CONSTANTS
    Keys,
    Less(_, _)

VARIABLES
    contents,    \* the keys accepted so far
    sealed

tvars == <<contents, sealed>>

Init == contents = <<>> /\ sealed = FALSE

Add(k) ==
    /\ ~sealed
    /\ contents # <<>> => Less(contents[Len(contents)], k)
    /\ contents' = Append(contents, k)
    /\ UNCHANGED sealed

Seal ==
    /\ ~sealed
    /\ sealed' = TRUE
    /\ UNCHANGED contents

Next == Seal \/ \E k \in Keys : Add(k)

Spec == Init /\ [][Next]_tvars

===============================================================================
