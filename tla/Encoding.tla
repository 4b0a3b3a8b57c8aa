-------------------------------- MODULE Encoding --------------------------------
(***************************************************************************)
(* How mtbl writes integers into bytes: varints (mtbl/varint.c) and fixed  *)
(* little-endian integers (mtbl/fixed.c).                                  *)
(*                                                                         *)
(* Both are parameters of the size of a byte: a varint byte has a          *)
(* continuation bit and VarintBase values below it (128 in the code), a    *)
(* byte of a fixed integer has ByteBase values (256 in the code), and      *)
(* uint32_t has Size32 bytes, uint64_t Size64.  Small bases let small      *)
(* instances reach the boundaries.                                         *)
(***************************************************************************)
EXTENDS Integers, Sequences

CONSTANTS VarintBase, ByteBase, Size32, Size64

ASSUME EncodingAssumption ==
    /\ VarintBase \in Nat \ {0, 1} /\ ByteBase \in Nat \ {0, 1}
    /\ Size32 \in Nat \ {0} /\ Size64 \in Nat /\ Size32 <= Size64

\* How many values so many bytes have
Power[n \in 0..Size64] == IF n = 0 THEN 1 ELSE ByteBase * Power[n - 1]

\* UINT32_MAX, UINT64_MAX
Max32 == Power[Size32] - 1
Max64 == Power[Size64] - 1

\* How many values so many groups have; ten of them hold any 64 bits.
GroupPower[n \in 0..10] == IF n = 0 THEN 1 ELSE VarintBase * GroupPower[n - 1]

ASSUME Varint64Assumption == Max64 < GroupPower[10]

\* v >> 7, v >> 14, ...
Shift(v)  == v \div VarintBase
Shift2(v) == Shift(Shift(v))
Shift3(v) == Shift(Shift2(v))
Shift4(v) == Shift(Shift3(v))

\* The largest value of five groups.
VarintMax == VarintBase * (VarintBase * (VarintBase * (VarintBase * VarintBase))) - 1

\* The low bits, and the low bits of a byte that has a successor: v | B.
Group(v) == v % VarintBase
More(v)  == VarintBase + Group(v)

-------------------------------------------------------------------------------

\* mtbl_varint_encode32(): up to five groups
EncodeVarint(v) ==
    IF v < VarintBase THEN <<v>>
    ELSE IF Shift(v) < VarintBase THEN <<More(v), Shift(v)>>
    ELSE IF Shift2(v) < VarintBase THEN <<More(v), More(Shift(v)), Shift2(v)>>
    ELSE IF Shift3(v) < VarintBase
         THEN <<More(v), More(Shift(v)), More(Shift2(v)), Shift3(v)>>
    ELSE <<More(v), More(Shift(v)), More(Shift2(v)), More(Shift3(v)), Shift4(v)>>

\* mtbl_varint_length()
VarintLength(v) ==
    IF v < VarintBase THEN 1
    ELSE IF Shift(v) < VarintBase THEN 2
    ELSE IF Shift2(v) < VarintBase THEN 3
    ELSE IF Shift3(v) < VarintBase THEN 4
    ELSE 5

\* No continuation bit.
IsLast(byte) == byte < VarintBase

ValueOf2(a, b) == Group(a) + VarintBase * Group(b)

\* mtbl_varint_decode32() at offset p (offsets count from 0): the length and the
\* value; a fifth byte with a continuation bit is an overflow.
DecodeVarint(data, p) ==
    LET a == data[p + 1]
        b == data[p + 2]
        c == data[p + 3]
        d == data[p + 4]
        e == data[p + 5]
    IN  IF IsLast(a) THEN [len |-> 1, value |-> Group(a)]
        ELSE IF IsLast(b) THEN [len |-> 2, value |-> ValueOf2(a, b)]
        ELSE IF IsLast(c)
             THEN [len |-> 3, value |-> Group(a) + VarintBase * ValueOf2(b, c)]
        ELSE IF IsLast(d)
             THEN [len |-> 4, value |-> ValueOf2(a, b)
                                        + VarintBase * (VarintBase * ValueOf2(c, d))]
        ELSE IF IsLast(e)
             THEN [len |-> 5,
                   value |-> Group(a) + VarintBase * (Group(b)
                             + VarintBase * (Group(c) + VarintBase * ValueOf2(d, e)))]
        ELSE [len |-> 0, value |-> 0]

\* mtbl_varint_encode64(): a byte with a continuation bit for each group as long as
\* more is left than one of them holds.
EncodeVarint64(v) ==
    LET Left[i \in 0..9] == IF i = 0 THEN v ELSE Shift(Left[i - 1])
        n == CHOOSE k \in 1..10 :
                Left[k - 1] < VarintBase /\ \A j \in 1..(k - 1) : Left[j - 1] >= VarintBase
    IN  [i \in 1..n |-> IF i = n THEN Left[i - 1] ELSE More(Left[i - 1])]

\* The k-th byte at offset p is the first without a continuation bit.
EndsAt(data, p, k) == IsLast(data[p + k]) /\ \A j \in 1..(k - 1) : ~IsLast(data[p + j])

\* mtbl_varint_decode64() at offset p: a tenth byte with a continuation bit is an
\* overflow, and what is shifted out of 64 bits is lost.
DecodeVarint64(data, p) ==
    LET n == CHOOSE k \in 1..10 : EndsAt(data, p, k)
        Value[i \in 0..n] ==
            IF i = 0 THEN 0 ELSE VarintBase * Value[i - 1] + Group(data[p + n + 1 - i])
    IN  IF \A k \in 1..10 : ~IsLast(data[p + k]) THEN [len |-> 0, value |-> 0]
        ELSE [len |-> n, value |-> Value[n] % (Max64 + 1)]

-------------------------------------------------------------------------------

\* mtbl_fixed_encode32() and mtbl_fixed_encode64()
EncodeFixed(v, size) ==
    LET Left[i \in 0..size] == IF i = 0 THEN v ELSE Left[i - 1] \div ByteBase
    IN  [i \in 1..size |-> Left[i - 1] % ByteBase]

\* mtbl_fixed_decode32() and mtbl_fixed_decode64() at offset p
DecodeFixed(data, p, size) ==
    LET Value[i \in 0..size] ==
            IF i = 0 THEN 0 ELSE ByteBase * Value[i - 1] + data[p + size + 1 - i]
    IN  Value[size]

===============================================================================
