------------------------------- MODULE Separator -------------------------------
(***************************************************************************)
(* Keys as strings of bytes, their order, and bytes_shortest_separator()   *)
(* of mtbl/bytes.h, which shortens the last key of a block before it goes  *)
(* into the index: the result must not be below that key and must be below *)
(* the first key of the next block.                                        *)
(***************************************************************************)
EXTENDS Integers, Sequences

Byte == 0..255
Key == Seq(Byte)

\* bytes_compare() < 0: memcmp() on the common length, then the lengths.
Less(s, t) ==
    \E i \in 1..Len(t) :
        /\ i <= Len(s) + 1
        /\ \A j \in 1..(i - 1) : s[j] = t[j]
        /\ i <= Len(s) => s[i] < t[i]

MinLength(s, t) == IF Len(s) < Len(t) THEN Len(s) ELSE Len(t)

\* The first position at which two keys differ, or one past the shorter one.
DiffIndex(s, t) ==
    CHOOSE i \in 1..(MinLength(s, t) + 1) :
        /\ \A j \in 1..(i - 1) : s[j] = t[j]
        /\ i <= MinLength(s, t) => s[i] # t[i]

Uint16 == {w \in Nat : w < 65536}

\* Two bytes as a big-endian uint16_t (be16toh()), its bytes (htobe16()) and its
\* successor, which wraps.
WordOf(hi, lo) == 256 * hi + lo
High(w) == w \div 256
Low(w) == w % 256
Successor(w) == (w + 1) % 65536

\* The word at i and i + 1
Word(s, i) == WordOf(s[i], s[i + 1])

-------------------------------------------------------------------------------
(* Plausible bugs, each one the body of a definition below. *)

\* The limit may end with the word.
WordUpTo(s, t, i) == i + 1 <= MinLength(s, t) /\ 256 * s[i] + s[i + 1] + 1 <= 256 * t[i] + t[i + 1]

-------------------------------------------------------------------------------

\* The differing byte can be incremented and stays below the limit's.
ByteFits(s, t, i) == s[i] < 255 /\ s[i] + 1 < t[i]

Between(s, i) == Successor(Word(s, i))

\* The differing byte and the next one, as a word, can be incremented without
\* overflow, the limit's word is not exceeded and the limit is longer.
WordFits(s, t, i) ==
    /\ i + 1 < MinLength(s, t)
    /\ Word(s, i) <= Between(s, i)
    /\ Between(s, i) <= Word(t, i)

ShortestSeparator(s, t) ==
    LET i == DiffIndex(s, t)
        common == SubSeq(s, 1, i - 1)
    IN  IF i > MinLength(s, t) THEN s
        ELSE IF ByteFits(s, t, i) THEN Append(common, s[i] + 1)
        ELSE IF WordFits(s, t, i)
             THEN Append(Append(common, High(Between(s, i))), Low(Between(s, i)))
        ELSE s

===============================================================================
