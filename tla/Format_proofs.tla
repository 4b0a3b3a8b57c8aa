------------------------------ MODULE Format_proofs -----------------------------
(***************************************************************************)
(* Proofs about the bytes that mtbl writes and reads: first about a block  *)
(* (Block and what it is made of, for any bases, sizes, keys and values),  *)
(* then about a file (File, for any contents, bytes in front and formats). *)
(* Both rest on what is proved about Encoding.                             *)
(***************************************************************************)
EXTENDS Block, File, Induction_proofs

-------------------------------------------------------------------------------
(* Varints *)

\* v is its low bits and what is left when they are shifted out.
LEMMA Divide ==
    ASSUME NEW v \in Nat
    PROVE  /\ Shift(v) \in Nat /\ Group(v) \in Nat
           /\ v = Group(v) + VarintBase * Shift(v)
BY EncodingAssumption DEF Shift, Group

\* A byte with a successor has its continuation bit set over the low bits.
LEMMA MoreByte ==
    ASSUME NEW v \in Nat
    PROVE  Group(More(v)) = Group(v) /\ ~IsLast(More(v))
BY EncodingAssumption DEF More, Group, IsLast

\* The last byte is the value itself.
LEMMA LastByte ==
    ASSUME NEW v \in Nat, v < VarintBase
    PROVE  Group(v) = v /\ IsLast(v)
BY EncodingAssumption DEF Group, IsLast

\* Shifting out a group divides a bound by the base.
LEMMA ShiftBound ==
    ASSUME NEW v \in Nat, NEW n \in Nat, v < VarintBase * n
    PROVE  Shift(v) < n
<1>1. VarintBase \in Nat \ {0} /\ Shift(v) \in Nat /\ VarintBase * Shift(v) <= v
    BY Divide, EncodingAssumption
<1>2. Shift(v) >= n => VarintBase * Shift(v) >= VarintBase * n
    BY <1>1
<1> QED BY <1>1, <1>2

\* Two groups at once are the same as one after the other.
LEMMA Distribute ==
    ASSUME NEW x \in Nat, NEW y \in Nat
    PROVE  VarintBase * (x + VarintBase * y) = VarintBase * x + VarintBase * (VarintBase * y)
BY EncodingAssumption

\* The fifth group of a value of 32 bits is the last.
LEMMA FiveGroups ==
    ASSUME NEW v \in Nat, v <= VarintMax
    PROVE  Shift(Shift(Shift(Shift(v)))) < VarintBase
<1> DEFINE b2 == VarintBase * VarintBase
           b3 == VarintBase * b2
           b4 == VarintBase * b3
<1>1. VarintBase \in Nat /\ b2 \in Nat
    BY EncodingAssumption
<1>2. b3 \in Nat
    BY <1>1
<1>3. b4 \in Nat
    BY <1>1, <1>2
<1>4. VarintBase * b4 \in Nat /\ v < VarintBase * b4
    BY <1>1, <1>3 DEF VarintMax
<1> DEFINE v1 == Shift(v)
           v2 == Shift(v1)
           v3 == Shift(v2)
<1>5. v1 \in Nat /\ v2 \in Nat /\ v3 \in Nat
    BY Divide
<1>6. v1 < b4
    BY <1>3, <1>4, ShiftBound
<1>7. v2 < b3
    BY <1>2, <1>5, <1>6, ShiftBound
<1>8. v3 < b2
    BY <1>1, <1>5, <1>7, ShiftBound
<1> QED BY <1>1, <1>5, <1>8, ShiftBound

\* What mtbl_varint_encode32() and mtbl_varint_encode64() write has the length
\* that mtbl_varint_length() says, and _varint_decode() reads the value back from
\* wherever it stands, whatever follows it, for values of up to five groups.
THEOREM VarintRoundTrip ==
    ASSUME NEW v \in Nat, v <= VarintMax, NEW data, NEW p \in Nat,
           \A i \in 1..Len(EncodeVarint(v)) : data[p + i] = EncodeVarint(v)[i]
    PROVE  /\ Len(EncodeVarint(v)) = VarintLength(v)
           /\ DecodeVarint(data, p) = [len |-> VarintLength(v), value |-> v]
<1> DEFINE v1 == Shift(v)
           v2 == Shift2(v)
           v3 == Shift3(v)
           v4 == Shift4(v)
<1>1. v1 \in Nat /\ v2 \in Nat /\ v3 \in Nat /\ v4 \in Nat
    BY Divide DEF Shift2, Shift3, Shift4
<1>2. /\ v  = Group(v)  + VarintBase * v1 /\ v1 = Group(v1) + VarintBase * v2
      /\ v2 = Group(v2) + VarintBase * v3 /\ v3 = Group(v3) + VarintBase * v4
    BY <1>1, Divide DEF Shift2, Shift3, Shift4
<1>3. CASE v < VarintBase
  <2>1. EncodeVarint(v) = <<v>> /\ VarintLength(v) = 1
      BY <1>3 DEF EncodeVarint, VarintLength
  <2>2. data[p + 1] = v
      BY <2>1
  <2> QED BY <1>3, <2>1, <2>2, LastByte DEF DecodeVarint
<1>4. CASE ~(v < VarintBase) /\ v1 < VarintBase
  <2>1. EncodeVarint(v) = <<More(v), v1>> /\ VarintLength(v) = 2
      BY <1>4 DEF EncodeVarint, VarintLength
  <2>2. data[p + 1] = More(v) /\ data[p + 2] = v1
      BY <2>1
  <2>3. ~IsLast(More(v)) /\ IsLast(v1) /\ Group(More(v)) = Group(v) /\ Group(v1) = v1
      BY <1>1, <1>4, MoreByte, LastByte
  <2>4. DecodeVarint(data, p) = [len |-> 2, value |-> ValueOf2(More(v), v1)]
      BY <2>2, <2>3 DEF DecodeVarint
  <2>5. ValueOf2(More(v), v1) = v
      BY <1>2, <2>3 DEF ValueOf2
  <2> QED BY <2>1, <2>4, <2>5
<1>5. CASE ~(v < VarintBase) /\ ~(v1 < VarintBase) /\ v2 < VarintBase
  <2>1. EncodeVarint(v) = <<More(v), More(v1), v2>> /\ VarintLength(v) = 3
      BY <1>5 DEF EncodeVarint, VarintLength
  <2>2. data[p + 1] = More(v) /\ data[p + 2] = More(v1) /\ data[p + 3] = v2
      BY <2>1
  <2>3. /\ ~IsLast(More(v)) /\ ~IsLast(More(v1)) /\ IsLast(v2)
        /\ Group(More(v)) = Group(v) /\ Group(More(v1)) = Group(v1) /\ Group(v2) = v2
      BY <1>1, <1>5, MoreByte, LastByte
  <2>4. DecodeVarint(data, p)
            = [len |-> 3, value |-> Group(More(v)) + VarintBase * ValueOf2(More(v1), v2)]
      BY <2>2, <2>3 DEF DecodeVarint
  <2>5. ValueOf2(More(v1), v2) = v1
      BY <1>2, <2>3 DEF ValueOf2
  <2> QED BY <1>2, <2>1, <2>3, <2>4, <2>5
<1>6. CASE /\ ~(v < VarintBase) /\ ~(v1 < VarintBase) /\ ~(v2 < VarintBase)
           /\ v3 < VarintBase
  <2>1. EncodeVarint(v) = <<More(v), More(v1), More(v2), v3>> /\ VarintLength(v) = 4
      BY <1>6 DEF EncodeVarint, VarintLength
  <2>2. /\ data[p + 1] = More(v) /\ data[p + 2] = More(v1)
        /\ data[p + 3] = More(v2) /\ data[p + 4] = v3
      BY <2>1
  <2>3. /\ ~IsLast(More(v)) /\ ~IsLast(More(v1)) /\ ~IsLast(More(v2)) /\ IsLast(v3)
        /\ Group(More(v)) = Group(v) /\ Group(More(v1)) = Group(v1)
        /\ Group(More(v2)) = Group(v2) /\ Group(v3) = v3
      BY <1>1, <1>6, MoreByte, LastByte
  <2>4. DecodeVarint(data, p)
            = [len |-> 4, value |-> ValueOf2(More(v), More(v1))
                                    + VarintBase * (VarintBase * ValueOf2(More(v2), v3))]
      BY <2>2, <2>3 DEF DecodeVarint
  <2>5. ValueOf2(More(v2), v3) = v2
      BY <1>2, <2>3 DEF ValueOf2
  <2>6. ValueOf2(More(v), More(v1)) + VarintBase * (VarintBase * v2) = v
    <3> DEFINE g == Group(v)
               g1 == Group(v1)
               x == VarintBase * g1
               y == VarintBase * (VarintBase * v2)
    <3>1. g \in Nat /\ g1 \in Nat /\ x \in Nat /\ y \in Nat
      <4>1. VarintBase \in Nat /\ v2 \in Nat
          BY <1>1, EncodingAssumption
      <4>2. g \in Nat /\ g1 \in Nat
          BY <1>1, Divide
      <4> HIDE DEF g, g1, v2
      <4>3. x \in Nat /\ VarintBase * v2 \in Nat
          BY <4>1, <4>2
      <4>4. y \in Nat
          BY <4>1, <4>3
      <4> QED BY <4>2, <4>3, <4>4
    <3>2. v = g + VarintBase * (g1 + VarintBase * v2)
        BY <1>2
    <3>3. VarintBase * (g1 + VarintBase * v2) = x + y
        BY <1>1, <3>1, Distribute
    <3>4. ValueOf2(More(v), More(v1)) = g + x
        BY <2>3 DEF ValueOf2
    <3> HIDE DEF g, x, y
    <3> QED BY <3>1, <3>2, <3>3, <3>4 DEF y
  <2> QED BY <2>1, <2>4, <2>5, <2>6
<1>7. CASE /\ ~(v < VarintBase) /\ ~(v1 < VarintBase) /\ ~(v2 < VarintBase)
           /\ ~(v3 < VarintBase)
  <2>1. /\ EncodeVarint(v) = <<More(v), More(v1), More(v2), More(v3), v4>>
        /\ VarintLength(v) = 5
      BY <1>7 DEF EncodeVarint, VarintLength
  <2>2. /\ data[p + 1] = More(v) /\ data[p + 2] = More(v1)
        /\ data[p + 3] = More(v2) /\ data[p + 4] = More(v3) /\ data[p + 5] = v4
      BY <2>1
  <2>3. v4 < VarintBase
      BY <1>1, FiveGroups DEF Shift2, Shift3, Shift4
  <2>4. /\ ~IsLast(More(v)) /\ ~IsLast(More(v1)) /\ ~IsLast(More(v2)) /\ ~IsLast(More(v3))
        /\ IsLast(v4) /\ Group(v4) = v4
      BY <1>1, <2>3, MoreByte, LastByte
  <2>5. /\ Group(More(v)) = Group(v) /\ Group(More(v1)) = Group(v1)
        /\ Group(More(v2)) = Group(v2) /\ Group(More(v3)) = Group(v3)
      BY <1>1, MoreByte
  <2>6. DecodeVarint(data, p)
            = [len |-> 5,
               value |-> Group(More(v)) + VarintBase * (Group(More(v1))
                         + VarintBase * (Group(More(v2)) + VarintBase * ValueOf2(More(v3), v4)))]
      BY <2>2, <2>4 DEF DecodeVarint
  <2>7. ValueOf2(More(v3), v4) = v3
      BY <1>2, <2>4, <2>5 DEF ValueOf2
  <2> QED BY <1>2, <2>1, <2>5, <2>6, <2>7
<1> QED BY <1>3, <1>4, <1>5, <1>6, <1>7

-------------------------------------------------------------------------------
(* Fixed integers *)

LEMMA PowerIs ==
    /\ Power \in [0..Size64 -> Nat \ {0}]
    /\ Power[0] = 1
    /\ \A n \in 1..Size64 : Power[n] = ByteBase * Power[n - 1]
<1> DEFINE A == Nat \ {0}
           step == [q \in (1..Size64) \X A |-> ByteBase * q[2]]
           Is(f) == f = [n \in 0..Size64 |-> IF n = 0 THEN 1 ELSE ByteBase * f[n - 1]]
<1>1. Size64 \in Nat /\ step \in [(1..Size64) \X A -> A] /\ 1 \in A
  <2>1. ByteBase \in A /\ Size64 \in Nat
    BY EncodingAssumption
  <2>2. \A x \in A : ByteBase * x \in A
    BY <2>1
  <2> QED BY <2>1, <2>2
<1>2. \E g : IsSteps(g, 1, Size64, step)
  <2> HIDE DEF step, A
  <2> QED BY <1>1, StepsOn
<1>3. PICK g : IsSteps(g, 1, Size64, step)
  BY <1>2
<1>4. g \in [0..Size64 -> A]
  <2> HIDE DEF step, A
  <2> QED BY <1>1, <1>3, StepsOn
<1>5. Is(g)
  <2>1. ASSUME NEW n \in 0..Size64 PROVE g[n] = IF n = 0 THEN 1 ELSE ByteBase * g[n - 1]
    <3>1. n = 0 \/ (n \in 1..Size64 /\ n - 1 \in 0..Size64)
      BY <1>1
    <3> QED BY <1>3, <1>4, <3>1 DEF IsSteps
  <2> QED BY <1>4, <2>1
<1>6. Is(Power)
  <2>1. Power = CHOOSE f : Is(f)
    BY DEF Power
  <2> HIDE DEF Is
  <2> QED BY <1>5, <2>1
<1>7. \A n \in 0..Size64 : Power[n] = IF n = 0 THEN 1 ELSE ByteBase * Power[n - 1]
  BY <1>6
<1>8. IsSteps(Power, 1, Size64, step)
  <2> DEFINE S == {n \in Nat : n <= Size64 => Power[n] \in A}
  <2>1. 0 \in S
    BY <1>1, <1>7
  <2>2. ASSUME NEW n \in Nat, n \in S PROVE n + 1 \in S
    <3> SUFFICES ASSUME n + 1 <= Size64 PROVE Power[n + 1] \in A
      OBVIOUS
    <3>1. n + 1 \in 0..Size64 /\ n + 1 # 0 /\ (n + 1) - 1 = n /\ n <= Size64
      BY <1>1
    <3>2. Power[n] \in A /\ Power[n + 1] = ByteBase * Power[n] /\ ByteBase \in A
      BY <1>7, <2>2, <3>1, EncodingAssumption
    <3> QED BY <3>2
  <2>3. \A n \in Nat : n \in S
    <3> HIDE DEF S
    <3> QED BY <2>1, <2>2, Induction
  <2>4. \A n \in 0..Size64 : Power[n] \in A
    BY <2>3
  <2>5. ASSUME NEW n \in 0..Size64
        PROVE  Power[n] = IF n = 0 THEN 1 ELSE step[<<n, Power[n - 1]>>]
    <3>1. n = 0 \/ (n \in 1..Size64 /\ n - 1 \in 0..Size64)
      BY <1>1
    <3> QED BY <1>7, <2>4, <3>1
  <2>6. Power = [n \in 0..Size64 |-> Power[n]]
    BY <1>6
  <2> HIDE DEF step
  <2> QED BY <2>5, <2>6 DEF IsSteps
<1>9. Power \in [0..Size64 -> A]
  <2> HIDE DEF step, A
  <2> QED BY <1>1, <1>8, StepsOn
<1>10. \A n \in 1..Size64 : n \in 0..Size64 /\ n # 0
  BY <1>1
<1> QED BY <1>1, <1>7, <1>9, <1>10

LEMMA MaxAre == Max32 \in Nat /\ Max64 \in Nat
<1>1. Size32 \in 0..Size64 /\ Size64 \in 0..Size64
  BY EncodingAssumption
<1>2. Power[Size32] \in Nat \ {0} /\ Power[Size64] \in Nat \ {0}
  BY <1>1, PowerIs
<1> QED BY <1>2 DEF Max32, Max64

LEMMA DivideByte ==
    ASSUME NEW v \in Nat
    PROVE  /\ v \div ByteBase \in Nat /\ v % ByteBase \in Nat
           /\ v = (ByteBase * (v \div ByteBase)) + (v % ByteBase)
BY EncodingAssumption

\* A multiple of ByteBase leaves nothing.
LEMMA ByteDivides ==
    ASSUME NEW u \in Nat
    PROVE  (ByteBase * u) % ByteBase = 0
<1> DEFINE v == ByteBase * u
           q == v \div ByteBase
           r == v % ByteBase
<1>1. ByteBase \in Nat \ {0} /\ v \in Nat
  BY EncodingAssumption
<1>2. q \in Nat /\ r \in Nat /\ r < ByteBase /\ v = ByteBase * q + r
  <2> HIDE DEF v
  <2> QED BY <1>1, DivideByte
<1>3. v = ByteBase * u
  OBVIOUS
<1> HIDE DEF v, q, r
<1>4. q < u => ByteBase * u >= ByteBase * q + ByteBase
  BY <1>1, <1>2
<1>5. u < q => ByteBase * q >= ByteBase * u + ByteBase
  BY <1>1, <1>2
<1> DEFINE bq == ByteBase * q
           bu == ByteBase * u
<1>6. bq \in Nat /\ bu \in Nat /\ v = bq + r /\ v = bu
  BY <1>1, <1>2, <1>3
<1>7. q = u => bq = bu
  OBVIOUS
<1>8. (q < u => bu >= bq + ByteBase) /\ (u < q => bq >= bu + ByteBase)
  BY <1>4, <1>5
<1> HIDE DEF bq, bu
<1>9. r = 0
  BY <1>1, <1>2, <1>6, <1>7, <1>8
<1> QED BY <1>9 DEF r, v

LEMMA DivideBound ==
    ASSUME NEW v \in Nat, NEW n \in Nat, v < ByteBase * n
    PROVE  v \div ByteBase < n
<1> DEFINE q == v \div ByteBase
<1>1. ByteBase \in Nat \ {0} /\ q \in Nat /\ ByteBase * q <= v
  BY DivideByte, EncodingAssumption
<1> HIDE DEF q
<1>2. q >= n => ByteBase * q >= ByteBase * n
  BY <1>1
<1> QED BY <1>1, <1>2 DEF q

\* What is left of v when byte after byte is shifted out.
IsLeft(g, v, size) ==
    /\ g \in [0..size -> Nat] /\ g[0] = v
    /\ \A i \in 1..size : g[i] = g[i - 1] \div ByteBase

LEMMA FixedIs ==
    ASSUME NEW v \in Nat, NEW size \in Nat
    PROVE  \E g : IsLeft(g, v, size) /\ EncodeFixed(v, size) = [i \in 1..size |-> g[i - 1] % ByteBase]
<1> DEFINE step == [q \in (1..size) \X Nat |-> q[2] \div ByteBase]
           Is(f) == f = [i \in 0..size |-> IF i = 0 THEN v ELSE f[i - 1] \div ByteBase]
           Left == CHOOSE f : Is(f)
<1>1. step \in [(1..size) \X Nat -> Nat]
  BY DivideByte
<1>2. PICK g : IsSteps(g, v, size, step) /\ g \in [0..size -> Nat]
  <2> HIDE DEF step
  <2> QED BY <1>1, StepsOn
<1>3. Is(g)
  <2>1. ASSUME NEW i \in 0..size PROVE g[i] = IF i = 0 THEN v ELSE g[i - 1] \div ByteBase
    <3>1. i = 0 \/ (i \in 1..size /\ i - 1 \in 0..size)
      OBVIOUS
    <3> QED BY <1>2, <3>1 DEF IsSteps
  <2> QED BY <1>2, <2>1
<1>4. Is(Left)
  <2> HIDE DEF Is
  <2> QED BY <1>3
<1>5. EncodeFixed(v, size) = [i \in 1..size |-> Left[i - 1] % ByteBase]
  BY DEF EncodeFixed
<1> HIDE DEF Left
<1>6. \A i \in 0..size : Left[i] = IF i = 0 THEN v ELSE Left[i - 1] \div ByteBase
  BY <1>4
<1>7. \A i \in 1..size : i \in 0..size /\ i # 0 /\ i - 1 \in 0..size
  OBVIOUS
<1>8. \A i \in 0..size : Left[i] \in Nat
  <2> DEFINE S == {n \in Nat : n <= size => Left[n] \in Nat}
  <2>1. 0 \in S
    BY <1>6
  <2>2. ASSUME NEW n \in Nat, n \in S PROVE n + 1 \in S
    <3> SUFFICES ASSUME n + 1 <= size PROVE Left[n + 1] \in Nat
      OBVIOUS
    <3>1. n + 1 \in 0..size /\ n + 1 # 0 /\ (n + 1) - 1 = n /\ n <= size
      OBVIOUS
    <3>2. Left[n] \in Nat /\ Left[n + 1] = Left[n] \div ByteBase
      BY <1>6, <2>2, <3>1
    <3> QED BY <3>2, DivideByte
  <2>3. \A n \in Nat : n \in S
    <3> HIDE DEF S
    <3> QED BY <2>1, <2>2, Induction
  <2> QED BY <2>3
<1>9. Left \in [0..size -> Nat]
  BY <1>4, <1>8
<1>10. IsLeft(Left, v, size)
  <2>1. Left[0] = v
    BY <1>6
  <2>2. \A i \in 1..size : Left[i] = Left[i - 1] \div ByteBase
    BY <1>6, <1>7
  <2> QED BY <1>9, <2>1, <2>2 DEF IsLeft
<1> QED BY <1>5, <1>10

LEMMA FixedTyped ==
    ASSUME NEW v \in Nat, NEW size \in Nat
    PROVE  EncodeFixed(v, size) \in Seq(Nat) /\ Len(EncodeFixed(v, size)) = size
<1>1. PICK g : IsLeft(g, v, size) /\ EncodeFixed(v, size) = [i \in 1..size |-> g[i - 1] % ByteBase]
  BY FixedIs
<1>2. ASSUME NEW i \in 1..size PROVE g[i - 1] % ByteBase \in Nat
  <2>1. i - 1 \in 0..size
    OBVIOUS
  <2>2. g[i - 1] \in Nat
    BY <1>1, <2>1 DEF IsLeft
  <2> QED BY <2>2, DivideByte
<1>3. EncodeFixed(v, size) \in [1..size -> Nat]
  BY <1>1, <1>2
<1> QED BY <1>3

\* What is left after all bytes is nothing, when the number fits.
LEMMA NothingLeft ==
    ASSUME NEW v \in Nat, NEW size \in 0..Size64, v < Power[size], NEW g, IsLeft(g, v, size)
    PROVE  g[size] = 0
<1> DEFINE S == {n \in Nat : n <= size => g[n] < Power[size - n]}
<1>1. size \in Nat /\ Size64 \in Nat /\ size - 0 = size
  BY EncodingAssumption
<1>2. 0 \in S
  BY <1>1 DEF IsLeft
<1>3. ASSUME NEW n \in Nat, n \in S PROVE n + 1 \in S
  <2> SUFFICES ASSUME n + 1 <= size PROVE g[n + 1] < Power[size - (n + 1)]
    OBVIOUS
  <2> DEFINE m == size - (n + 1)
  <2>1. /\ n \in 0..size /\ n + 1 \in 1..size /\ (n + 1) - 1 = n /\ n <= size
        /\ m \in 0..Size64 /\ size - n \in 1..Size64 /\ (size - n) - 1 = m
    BY <1>1
  <2>2. g[n] \in Nat /\ g[n] < Power[size - n] /\ g[n + 1] = g[n] \div ByteBase
    BY <1>3, <2>1 DEF IsLeft
  <2> HIDE DEF m
  <2>3. Power[size - n] = ByteBase * Power[m] /\ Power[m] \in Nat
    BY <2>1, PowerIs
  <2>4. g[n + 1] < Power[m]
    BY <2>2, <2>3, DivideBound
  <2> QED BY <2>4 DEF m
<1>4. \A n \in Nat : n \in S
  <2> HIDE DEF S
  <2> QED BY <1>2, <1>3, Induction
<1>5. g[size] < Power[size - size]
  BY <1>1, <1>4
<1>6. size - size = 0 /\ size \in 0..size
  BY <1>1
<1>7. g[size] \in Nat /\ g[size] < 1
  BY <1>5, <1>6, PowerIs DEF IsLeft
<1> QED BY <1>7

\* mtbl_fixed_decode32() and mtbl_fixed_decode64() read back what
\* mtbl_fixed_encode32() and mtbl_fixed_encode64() wrote, wherever it stands, for
\* every number that fits.
THEOREM FixedRoundTrip ==
    ASSUME NEW v \in Nat, NEW size \in 0..Size64, v < Power[size], NEW data, NEW p \in Nat,
           \A i \in 1..size : data[p + i] = EncodeFixed(v, size)[i]
    PROVE  DecodeFixed(data, p, size) = v
<1>0. size \in Nat
  BY EncodingAssumption
<1>1. PICK g : IsLeft(g, v, size) /\ EncodeFixed(v, size) = [i \in 1..size |-> g[i - 1] % ByteBase]
  BY <1>0, FixedIs
<1> DEFINE Is(f) == f = [i \in 0..size |-> IF i = 0 THEN 0
                                           ELSE ByteBase * f[i - 1] + data[p + size + 1 - i]]
           Value == CHOOSE f : Is(f)
           h == [i \in 0..size |-> g[size - i]]
<1>2. ASSUME NEW i \in 1..size
      PROVE  g[size - i] = (ByteBase * g[size - (i - 1)]) + data[p + size + 1 - i]
  <2> DEFINE k == size - (i - 1)
  <2>1. k \in 1..size /\ k - 1 = size - i /\ p + size + 1 - i = p + k /\ k - 1 \in 0..size
    BY <1>0
  <2> HIDE DEF k
  <2>2. g[k - 1] \in Nat /\ g[k] = g[k - 1] \div ByteBase
    BY <1>1, <2>1 DEF IsLeft
  <2>3. data[p + k] = g[k - 1] % ByteBase
    BY <1>1, <2>1
  <2>4. g[k - 1] = ByteBase * g[k] + data[p + k]
    BY <2>2, <2>3, DivideByte
  <2> QED BY <2>1, <2>4 DEF k
<1>3. Is(h)
  <2>1. ASSUME NEW i \in 0..size
        PROVE  h[i] = IF i = 0 THEN 0 ELSE ByteBase * h[i - 1] + data[p + size + 1 - i]
    <3>1. CASE i = 0
      <4>1. size - 0 = size
        BY <1>0
      <4> QED BY <1>1, <3>1, <4>1, NothingLeft
    <3>2. CASE i # 0
      <4>1. i \in 1..size /\ i - 1 \in 0..size
        BY <1>0, <3>2
      <4>2. h[i] = g[size - i] /\ h[i - 1] = g[size - (i - 1)]
        BY <4>1
      <4> HIDE DEF h
      <4> QED BY <1>2, <3>2, <4>1, <4>2
    <3> QED BY <3>1, <3>2
  <2>2. h = [i \in 0..size |-> h[i]]
    OBVIOUS
  <2> HIDE DEF h
  <2> QED BY <2>1, <2>2
<1>4. Is(Value)
  <2> HIDE DEF Is, h
  <2> QED BY <1>3
<1>5. DecodeFixed(data, p, size) = Value[size]
  BY DEF DecodeFixed
<1> HIDE DEF Value
<1>6. \A i \in 0..size : Value[i] = IF i = 0 THEN 0 ELSE ByteBase * Value[i - 1] + data[p + size + 1 - i]
  BY <1>4
<1> DEFINE S == {n \in Nat : n <= size => Value[n] = g[size - n]}
<1>7. 0 \in S
  <2>1. 0 \in 0..size /\ size - 0 = size
    BY <1>0
  <2> QED BY <1>1, <1>6, <2>1, NothingLeft
<1>8. ASSUME NEW n \in Nat, n \in S PROVE n + 1 \in S
  <2> SUFFICES ASSUME n + 1 <= size PROVE Value[n + 1] = g[size - (n + 1)]
    OBVIOUS
  <2>1. n + 1 \in 0..size /\ n + 1 \in 1..size /\ n + 1 # 0 /\ (n + 1) - 1 = n /\ n <= size
    BY <1>0
  <2>2. Value[n + 1] = ByteBase * Value[n] + data[p + size + 1 - (n + 1)]
    BY <1>6, <2>1
  <2>3. Value[n] = g[size - n]
    BY <1>8, <2>1
  <2>4. g[size - (n + 1)] = ByteBase * g[size - n] + data[p + size + 1 - (n + 1)]
    BY <1>2, <2>1
  <2> QED BY <2>2, <2>3, <2>4
<1>9. \A n \in Nat : n \in S
  <2> HIDE DEF S
  <2> QED BY <1>7, <1>8, Induction
<1>10. Value[size] = g[size - size] /\ size - size = 0
  BY <1>0, <1>9
<1> QED BY <1>1, <1>5, <1>10 DEF IsLeft

-------------------------------------------------------------------------------
(* Varints of 64 bits *)

LEMMA GroupPowerIs ==
    /\ GroupPower \in [0..10 -> Nat \ {0}]
    /\ GroupPower[0] = 1
    /\ \A n \in 1..10 : GroupPower[n] = VarintBase * GroupPower[n - 1]
<1> DEFINE A == Nat \ {0}
           step == [q \in (1..10) \X A |-> VarintBase * q[2]]
           Is(f) == f = [n \in 0..10 |-> IF n = 0 THEN 1 ELSE VarintBase * f[n - 1]]
<1>1. step \in [(1..10) \X A -> A] /\ 1 \in A
  <2>1. VarintBase \in A
    BY EncodingAssumption
  <2>2. \A x \in A : VarintBase * x \in A
    BY <2>1
  <2> QED BY <2>1, <2>2
<1>2. PICK g : IsSteps(g, 1, 10, step) /\ g \in [0..10 -> A]
  <2> DEFINE l == 10
  <2>1. l \in Nat /\ step \in [(1..l) \X A -> A] /\ 1 \in A
    BY <1>1
  <2> HIDE DEF step, A, l
  <2>2. \E g : IsSteps(g, 1, l, step) /\ g \in [0..l -> A]
    BY <2>1, StepsOn
  <2> QED BY <2>2 DEF l
<1>3. Is(g)
  <2>1. ASSUME NEW n \in 0..10 PROVE g[n] = IF n = 0 THEN 1 ELSE VarintBase * g[n - 1]
    <3>1. n = 0 \/ (n \in 1..10 /\ n - 1 \in 0..10)
      OBVIOUS
    <3> QED BY <1>2, <3>1 DEF IsSteps
  <2> QED BY <1>2, <2>1
<1>4. Is(GroupPower)
  <2>1. GroupPower = CHOOSE f : Is(f)
    BY DEF GroupPower
  <2> HIDE DEF Is
  <2> QED BY <1>3, <2>1
<1>5. \A n \in 0..10 : GroupPower[n] = IF n = 0 THEN 1 ELSE VarintBase * GroupPower[n - 1]
  BY <1>4
<1>6. \A n \in 0..10 : GroupPower[n] \in A
  <2> DEFINE S == {n \in Nat : n <= 10 => GroupPower[n] \in A}
  <2>1. 0 \in S
    BY <1>5
  <2>2. ASSUME NEW n \in Nat, n \in S PROVE n + 1 \in S
    <3> SUFFICES ASSUME n + 1 <= 10 PROVE GroupPower[n + 1] \in A
      OBVIOUS
    <3>1. n + 1 \in 0..10 /\ n + 1 # 0 /\ (n + 1) - 1 = n /\ n <= 10
      OBVIOUS
    <3>2. GroupPower[n] \in A /\ GroupPower[n + 1] = VarintBase * GroupPower[n] /\ VarintBase \in A
      BY <1>5, <2>2, <3>1, EncodingAssumption
    <3> QED BY <3>2
  <2>3. \A n \in Nat : n \in S
    <3> HIDE DEF S
    <3> QED BY <2>1, <2>2, Induction
  <2> QED BY <2>3
<1>7. GroupPower \in [0..10 -> A]
  BY <1>4, <1>6
<1>8. \A n \in 1..10 : n \in 0..10 /\ n # 0
  OBVIOUS
<1> QED BY <1>5, <1>7, <1>8

\* What is left of v when group after group is shifted out.
IsShifted(g, v) ==
    /\ g \in [0..9 -> Nat] /\ g[0] = v
    /\ \A i \in 1..9 : g[i] = Shift(g[i - 1])

\* Ten groups hold all of 64 bits.
LEMMA TenGroups ==
    ASSUME NEW v \in Nat, v <= Max64, NEW g, IsShifted(g, v)
    PROVE  g[9] < VarintBase
<1> DEFINE S == {n \in Nat : n <= 9 => g[n] < GroupPower[10 - n]}
<1>1. 0 \in S
  <2>1. Max64 < GroupPower[10] /\ Max64 \in Nat /\ GroupPower[10] \in Nat
    BY Varint64Assumption, MaxAre, GroupPowerIs
  <2>2. 10 - 0 = 10
    OBVIOUS
  <2> QED BY <2>1, <2>2 DEF IsShifted
<1>2. ASSUME NEW n \in Nat, n \in S PROVE n + 1 \in S
  <2> SUFFICES ASSUME n + 1 <= 9 PROVE g[n + 1] < GroupPower[10 - (n + 1)]
    OBVIOUS
  <2> DEFINE m == 10 - (n + 1)
  <2>1. /\ n \in 0..9 /\ n + 1 \in 1..9 /\ (n + 1) - 1 = n /\ n <= 9
        /\ m \in 0..10 /\ 10 - n \in 1..10 /\ (10 - n) - 1 = m
    OBVIOUS
  <2>2. g[n] \in Nat /\ g[n] < GroupPower[10 - n] /\ g[n + 1] = Shift(g[n])
    BY <1>2, <2>1 DEF IsShifted
  <2> HIDE DEF m
  <2>3. GroupPower[10 - n] = VarintBase * GroupPower[m] /\ GroupPower[m] \in Nat
    BY <2>1, GroupPowerIs
  <2>4. g[n + 1] < GroupPower[m]
    BY <2>2, <2>3, ShiftBound
  <2> QED BY <2>4 DEF m
<1>3. \A n \in Nat : n \in S
  <2> HIDE DEF S
  <2> QED BY <1>1, <1>2, Induction
<1>4. g[9] < GroupPower[10 - 9] /\ 10 - 9 = 1
  BY <1>3
<1>5. GroupPower[1] = VarintBase * GroupPower[0] /\ GroupPower[0] = 1 /\ VarintBase \in Nat
  <2>1. 1 \in 1..10 /\ 1 - 1 = 0
    OBVIOUS
  <2> QED BY <2>1, GroupPowerIs, EncodingAssumption
<1> QED BY <1>4, <1>5

\* The last of the groups is the first that needs no other behind it.
LastGroup(g, k) == g[k - 1] < VarintBase /\ \A j \in 1..(k - 1) : g[j - 1] >= VarintBase

LEMMA Varint64Is ==
    ASSUME NEW v \in Nat, v <= Max64
    PROVE  \E g : \E k \in 1..10 :
              /\ IsShifted(g, v) /\ LastGroup(g, k)
              /\ EncodeVarint64(v) = [i \in 1..k |-> IF i = k THEN g[i - 1] ELSE More(g[i - 1])]
<1> DEFINE step == [q \in (1..9) \X Nat |-> Shift(q[2])]
           Is(f) == f = [i \in 0..9 |-> IF i = 0 THEN v ELSE Shift(f[i - 1])]
           Left == CHOOSE f : Is(f)
           n == CHOOSE k \in 1..10 :
                   Left[k - 1] < VarintBase /\ \A j \in 1..(k - 1) : Left[j - 1] >= VarintBase
<1>1. step \in [(1..9) \X Nat -> Nat]
  BY Divide
<1>2. PICK g : IsSteps(g, v, 9, step) /\ g \in [0..9 -> Nat]
  <2> DEFINE l == 9
  <2>1. l \in Nat /\ step \in [(1..l) \X Nat -> Nat]
    BY <1>1
  <2> HIDE DEF step, l
  <2>2. \E g : IsSteps(g, v, l, step) /\ g \in [0..l -> Nat]
    BY <2>1, StepsOn
  <2> QED BY <2>2 DEF l
<1>3. Is(g)
  <2>1. ASSUME NEW i \in 0..9 PROVE g[i] = IF i = 0 THEN v ELSE Shift(g[i - 1])
    <3>1. i = 0 \/ (i \in 1..9 /\ i - 1 \in 0..9)
      OBVIOUS
    <3> QED BY <1>2, <3>1 DEF IsSteps
  <2> QED BY <1>2, <2>1
<1>4. Is(Left)
  <2> HIDE DEF Is
  <2> QED BY <1>3
<1>5. EncodeVarint64(v) = [i \in 1..n |-> IF i = n THEN Left[i - 1] ELSE More(Left[i - 1])]
  BY DEF EncodeVarint64
<1>6. n = CHOOSE k \in 1..10 : LastGroup(Left, k)
  BY Zenon DEF LastGroup
<1> HIDE DEF Left, n
<1>7. \A i \in 0..9 : Left[i] = IF i = 0 THEN v ELSE Shift(Left[i - 1])
  BY <1>4
<1>8. \A i \in 0..9 : Left[i] \in Nat
  <2> DEFINE S == {m \in Nat : m <= 9 => Left[m] \in Nat}
  <2>1. 0 \in S
    BY <1>7
  <2>2. ASSUME NEW m \in Nat, m \in S PROVE m + 1 \in S
    <3> SUFFICES ASSUME m + 1 <= 9 PROVE Left[m + 1] \in Nat
      OBVIOUS
    <3>1. m + 1 \in 0..9 /\ m + 1 # 0 /\ (m + 1) - 1 = m /\ m <= 9
      OBVIOUS
    <3>2. Left[m] \in Nat /\ Left[m + 1] = Shift(Left[m])
      BY <1>7, <2>2, <3>1
    <3> QED BY <3>2, Divide
  <2>3. \A m \in Nat : m \in S
    <3> HIDE DEF S
    <3> QED BY <2>1, <2>2, Induction
  <2> QED BY <2>3
<1>9. IsShifted(Left, v)
  <2>1. Left \in [0..9 -> Nat] /\ Left[0] = v
    BY <1>4, <1>7, <1>8
  <2>2. \A i \in 1..9 : i \in 0..9 /\ i # 0
    OBVIOUS
  <2> QED BY <1>7, <2>1, <2>2 DEF IsShifted
<1>10. \E k \in 1..10 : LastGroup(Left, k)
  <2> DEFINE T == {k \in 1..10 : Left[k - 1] < VarintBase}
             first == Min(T \cup {10 + 1})
  <2>1. first \in 1..(10 + 1) /\ (first <= 10 => first \in T) /\ \A i \in 1..(first - 1) : i \notin T
    <3>1. T \in SUBSET (1..10) /\ 10 \in Nat
      OBVIOUS
    <3> HIDE DEF T
    <3> QED BY <3>1, FirstOf
  <2>2. 10 \in T
    BY <1>9, TenGroups
  <2> HIDE DEF first
  <2>3. first \in 1..10
    <3>1. first = 11 => 10 \in 1..(first - 1)
      OBVIOUS
    <3> HIDE DEF T
    <3> QED BY <2>1, <2>2, <3>1
  <2>4. \A j \in 1..(first - 1) : j \in 1..10 /\ j - 1 \in 0..9 /\ j \notin T
    BY <2>1, <2>3
  <2>5. \A j \in 1..(first - 1) : Left[j - 1] >= VarintBase
    BY <1>8, <2>4, EncodingAssumption
  <2> QED BY <2>1, <2>3, <2>5 DEF LastGroup
<1>11. n \in 1..10 /\ LastGroup(Left, n)
  BY <1>6, <1>10
<1> QED BY <1>5, <1>9, <1>11

\* mtbl_varint_encode64() writes one to ten bytes.
LEMMA Varint64Typed ==
    ASSUME NEW v \in Nat, v <= Max64
    PROVE  /\ EncodeVarint64(v) \in Seq(Nat) /\ Len(EncodeVarint64(v)) \in 1..10
           /\ \A i \in 1..Len(EncodeVarint64(v)) : EncodeVarint64(v)[i] < 2 * VarintBase
<1>0. PICK g : \E k \in 1..10 :
         /\ IsShifted(g, v) /\ LastGroup(g, k)
         /\ EncodeVarint64(v) = [i \in 1..k |-> IF i = k THEN g[i - 1] ELSE More(g[i - 1])]
  BY Varint64Is
<1>1. PICK k \in 1..10 :
         /\ IsShifted(g, v) /\ LastGroup(g, k)
         /\ EncodeVarint64(v) = [i \in 1..k |-> IF i = k THEN g[i - 1] ELSE More(g[i - 1])]
  BY <1>0
<1> DEFINE x == EncodeVarint64(v)
<1>2. ASSUME NEW i \in 1..k PROVE x[i] \in Nat /\ x[i] < 2 * VarintBase
  <2>1. i - 1 \in 0..9
    OBVIOUS
  <2>2. g[i - 1] \in Nat
    BY <1>1, <2>1 DEF IsShifted
  <2>3. More(g[i - 1]) \in Nat /\ More(g[i - 1]) < 2 * VarintBase
    BY <2>2, EncodingAssumption DEF More, Group
  <2>4. i = k => g[i - 1] < VarintBase
    BY <1>1 DEF LastGroup
  <2>5. x[i] = IF i = k THEN g[i - 1] ELSE More(g[i - 1])
    BY <1>1
  <2> HIDE DEF x
  <2> QED BY <2>2, <2>3, <2>4, <2>5, EncodingAssumption
<1>3. DOMAIN x = 1..k /\ x = [i \in 1..k |-> x[i]]
  BY <1>1
<1> HIDE DEF x
<1>4. x \in [1..k -> Nat] /\ k \in Nat
  BY <1>2, <1>3
<1>5. x \in Seq(Nat) /\ Len(x) = k
  BY <1>4
<1> QED BY <1>2, <1>5 DEF x

\* mtbl_varint_decode64() reads back every integer of 64 bits that
\* mtbl_varint_encode64() wrote, and takes as many bytes for it, wherever it stands
\* and whatever follows it.
THEOREM Varint64RoundTrip ==
    ASSUME NEW v \in Nat, v <= Max64, NEW data, NEW p \in Nat,
           \A i \in 1..Len(EncodeVarint64(v)) : data[p + i] = EncodeVarint64(v)[i]
    PROVE  DecodeVarint64(data, p) = [len |-> Len(EncodeVarint64(v)), value |-> v]
<1>0. PICK g : \E k \in 1..10 :
         /\ IsShifted(g, v) /\ LastGroup(g, k)
         /\ EncodeVarint64(v) = [i \in 1..k |-> IF i = k THEN g[i - 1] ELSE More(g[i - 1])]
  BY Varint64Is
<1>1. PICK k \in 1..10 :
         /\ IsShifted(g, v) /\ LastGroup(g, k)
         /\ EncodeVarint64(v) = [i \in 1..k |-> IF i = k THEN g[i - 1] ELSE More(g[i - 1])]
  BY <1>0
<1> DEFINE x == EncodeVarint64(v)
<1>2. Len(x) = k
  <2>1. DOMAIN x = 1..k /\ k \in Nat
    BY <1>1
  <2>2. x \in Seq(Nat)
    BY Varint64Typed
  <2> HIDE DEF x
  <2> QED BY <2>1, <2>2, LenProperties
<1>3. \A i \in 1..k : i - 1 \in 0..9 /\ g[i - 1] \in Nat
  <2>1. \A i \in 1..k : i - 1 \in 0..9
    OBVIOUS
  <2> QED BY <1>1, <2>1 DEF IsShifted
<1>4. \A i \in 1..k : data[p + i] = IF i = k THEN g[i - 1] ELSE More(g[i - 1])
  BY <1>1, <1>2
<1>5. g[k - 1] < VarintBase
  BY <1>1 DEF LastGroup
\* The k-th byte is the one without a continuation bit,
<1>6. IsLast(data[p + k]) /\ \A i \in 1..(k - 1) : ~IsLast(data[p + i])
  <2>1. data[p + k] = g[k - 1] /\ g[k - 1] \in Nat
    BY <1>3, <1>4
  <2>2. \A i \in 1..(k - 1) : i \in 1..k /\ i # k
    OBVIOUS
  <2>3. \A i \in 1..(k - 1) : data[p + i] = More(g[i - 1]) /\ g[i - 1] \in Nat
    BY <1>3, <1>4, <2>2
  <2>4. IsLast(data[p + k])
    BY <1>5, <2>1, LastByte
  <2>5. \A i \in 1..(k - 1) : ~IsLast(data[p + i])
    BY <2>3, MoreByte
  <2> QED BY <2>4, <2>5
<1> DEFINE n == CHOOSE m \in 1..10 : EndsAt(data, p, m)
<1>7. n = k
  <2>1. EndsAt(data, p, k)
    BY <1>6 DEF EndsAt
  <2>2. ASSUME NEW m \in 1..10, EndsAt(data, p, m) PROVE m = k
    <3>1. m < k => m \in 1..(k - 1)
      OBVIOUS
    <3>2. k < m => k \in 1..(m - 1)
      OBVIOUS
    <3>3. m < k \/ k < m \/ m = k
      OBVIOUS
    <3> QED BY <1>6, <2>2, <3>1, <3>2, <3>3 DEF EndsAt
  <2> QED BY <2>1, <2>2
<1> DEFINE Is(f) == f = [i \in 0..n |-> IF i = 0 THEN 0
                                        ELSE VarintBase * f[i - 1] + Group(data[p + n + 1 - i])]
           Value == CHOOSE f : Is(f)
           h == [i \in 0..n |-> IF i = 0 THEN 0 ELSE g[k - i]]
<1>8. DecodeVarint64(data, p) = [len |-> n, value |-> Value[n] % (Max64 + 1)]
  <2>1. ~\A m \in 1..10 : ~IsLast(data[p + m])
    BY <1>6
  <2> QED BY <2>1 DEF DecodeVarint64
<1> HIDE DEF n
\* and from it on backwards the groups make up what was left at each of them.
<1>9. ASSUME NEW i \in 1..k
      PROVE  g[k - i] = (VarintBase * (IF i = 1 THEN 0 ELSE g[k - (i - 1)])) + Group(data[p + k + 1 - i])
  <2> DEFINE m == k + 1 - i
  <2>1. m \in 1..k /\ m - 1 = k - i /\ p + k + 1 - i = p + m /\ k - (i - 1) = m /\ (i = 1 <=> m = k)
    OBVIOUS
  <2> HIDE DEF m
  <2>2. g[m - 1] \in Nat
    BY <1>3, <2>1
  <2>3. CASE m = k
    <3>1. data[p + m] = g[m - 1] /\ Group(g[m - 1]) = g[m - 1]
      BY <1>4, <1>5, <2>1, <2>2, <2>3, LastByte
    <3>2. i = 1 /\ VarintBase * 0 = 0
      BY <2>1, <2>3, EncodingAssumption
    <3>3. VarintBase * (IF i = 1 THEN 0 ELSE g[k - (i - 1)]) = 0
      BY <3>2
    <3>4. g[k - i] = Group(data[p + k + 1 - i]) /\ g[k - i] \in Nat
      BY <2>1, <2>2, <2>3, <3>1
    <3> QED BY <3>3, <3>4
  <2>4. CASE m # k
    <3>1. m \in 1..9
      BY <2>1, <2>4
    <3>2. g[m] = Shift(g[m - 1])
      BY <1>1, <3>1 DEF IsShifted
    <3>3. Group(data[p + m]) = Group(g[m - 1])
      BY <1>4, <2>1, <2>2, <2>4, MoreByte
    <3>4. g[m - 1] = Group(g[m - 1]) + VarintBase * g[m] /\ g[m] \in Nat /\ Group(g[m - 1]) \in Nat
      BY <2>2, <3>2, Divide
    <3>5. VarintBase * (IF i = 1 THEN 0 ELSE g[k - (i - 1)]) = VarintBase * g[m]
      BY <2>1, <2>4
    <3>6. VarintBase * g[m] \in Nat
      BY <3>4, EncodingAssumption
    <3>7. g[k - i] = Group(data[p + k + 1 - i]) + VarintBase * g[m]
      BY <2>1, <3>3, <3>4
    <3>8. Group(data[p + k + 1 - i]) \in Nat
      BY <2>1, <3>3, <3>4
    <3> QED BY <3>5, <3>6, <3>7, <3>8
  <2> QED BY <2>3, <2>4
<1>10. Is(h)
  <2>1. ASSUME NEW i \in 0..n
        PROVE  h[i] = IF i = 0 THEN 0 ELSE VarintBase * h[i - 1] + Group(data[p + n + 1 - i])
    <3>1. CASE i = 0
      BY <3>1
    <3>2. CASE i # 0
      <4>1. i \in 1..k /\ i - 1 \in 0..n /\ (i = 1 <=> i - 1 = 0)
        BY <1>7, <3>2
      <4>2. h[i] = g[k - i] /\ h[i - 1] = IF i = 1 THEN 0 ELSE g[k - (i - 1)]
        BY <3>2, <4>1
      <4> HIDE DEF h
      <4> QED BY <1>7, <1>9, <3>2, <4>1, <4>2
    <3> QED BY <3>1, <3>2
  <2>2. h = [i \in 0..n |-> h[i]]
    OBVIOUS
  <2> HIDE DEF h
  <2> QED BY <2>1, <2>2
<1>11. Is(Value)
  <2> HIDE DEF Is, h
  <2> QED BY <1>10
<1> HIDE DEF Value, h
<1>12. \A i \in Nat : i <= k => Value[i] = h[i]
  <2> DEFINE S == {i \in Nat : i <= k => Value[i] = h[i]}
  <2>1. 0 \in S
    <3>1. 0 \in 0..n
      BY <1>7
    <3> QED BY <1>10, <1>11, <3>1
  <2>2. ASSUME NEW i \in Nat, i \in S PROVE i + 1 \in S
    <3> SUFFICES ASSUME i + 1 <= k PROVE Value[i + 1] = h[i + 1]
      OBVIOUS
    <3>1. i + 1 \in 0..n /\ i + 1 # 0 /\ (i + 1) - 1 = i /\ i <= k
      BY <1>7
    <3>2. /\ Value[i + 1] = VarintBase * Value[i] + Group(data[p + n + 1 - (i + 1)])
          /\ h[i + 1] = VarintBase * h[i] + Group(data[p + n + 1 - (i + 1)])
      BY <1>10, <1>11, <3>1
    <3> QED BY <2>2, <3>1, <3>2
  <2>3. \A i \in Nat : i \in S
    <3> HIDE DEF S
    <3> QED BY <2>1, <2>2, Induction
  <2> QED BY <2>3
<1>13. Value[n] = v
  <2>1. n \in 0..n /\ n # 0 /\ k - n = 0 /\ n <= k /\ n \in Nat
    BY <1>7
  <2>2. h[n] = g[0]
    BY <2>1 DEF h
  <2> QED BY <1>1, <1>12, <2>1, <2>2 DEF IsShifted
<1>14. v % (Max64 + 1) = v
  <2> DEFINE m == Max64 + 1
             q == v \div m
  <2>1. m \in Nat \ {0} /\ v < m
    BY MaxAre
  <2> HIDE DEF m
  <2>2. q \in Nat /\ v % m \in Nat /\ v = (m * q) + (v % m)
    BY <2>1
  <2> HIDE DEF q
  <2>3. q >= 1 => m * q >= m
    BY <2>1, <2>2
  <2> DEFINE t == m * q
             rest == v % m
  <2>4. t \in Nat /\ rest \in Nat /\ v = t + rest /\ (q >= 1 => t >= m)
    BY <2>1, <2>2, <2>3
  <2>5. q = 0 => t = 0
    BY <2>1
  <2> HIDE DEF t, rest
  <2>6. rest = v
    BY <2>1, <2>2, <2>4, <2>5
  <2> QED BY <2>6 DEF rest, m
<1> QED BY <1>2, <1>7, <1>8, <1>13, <1>14 DEF x

-------------------------------------------------------------------------------
(* Blocks *)

\* The two widths of an array of restart points.
LEMMA ArrayWidths ==
    ASSUME NEW n \in Nat
    PROVE  /\ n * Size32 \in Nat
           /\ n * Size64 = n * Size32 + n * Size32
           /\ Size64 * n = n * Size32 + n * Size32
           /\ (Size64 * n) \div 2 = n * Size32
           /\ (1 + n) * Size32 = Size32 + n * Size32
<1> DEFINE a == n * Size32
<1>1. Size32 \in Nat /\ Size64 = 2 * Size32
    BY EncodingAssumption, LayoutAssumption
<1>2. a \in Nat /\ n * Size64 = a + a /\ Size64 * n = a + a /\ (1 + n) * Size32 = Size32 + a
    BY <1>1
<1>3. (a + a) \div 2 = a
  <2> HIDE DEF a
  <2> QED BY <1>2
<1> QED BY <1>2, <1>3

\* block_builder_current_size_estimate() says how long the block is that
\* block_builder_finish() writes, on both sides of the change of widths.
THEOREM EstimateIsExact ==
    ASSUME NEW bytes \in Nat, NEW n \in Nat
    PROVE  SizeEstimate(bytes, n) = SizeWritten(bytes, n)
BY ArrayWidths DEF SizeEstimate, SizeWritten, Wide

\* block_init() finds the array of restart points where block_builder_finish()
\* put it, accepts the block, and takes the points to be as wide as they are.
THEOREM LayoutAgrees ==
    ASSUME NEW bytes \in Nat, NEW n \in Nat
    PROVE  LET size == SizeWritten(bytes, n) IN
           /\ RestartOffset(size, n) = bytes
           /\ ~Malformed(size, n)
           /\ Wide(bytes, n) <=> RestartOffset(size, n) > Max32
<1> DEFINE size == SizeWritten(bytes, n)
           a == n * Size32
<1>1. Size32 \in Nat /\ a \in Nat /\ n * Size64 = a + a /\ (1 + n) * Size32 = Size32 + a
    BY ArrayWidths, EncodingAssumption
<1>2. Max32 \in Nat
    BY MaxAre
<1>3. CASE bytes > Max32
  <2>1. size = bytes + (a + a) + Size32
      BY <1>1, <1>3 DEF SizeWritten, Wide
  <2>2. Offset32(size, n) = bytes + a /\ Offset64(size, n) = bytes
    <3> HIDE DEF size, a
    <3> QED BY <1>1, <2>1 DEF Offset32, Offset64
  <2>3. RestartOffset(size, n) = bytes /\ bytes \in 0..(size - Size32)
    <3> HIDE DEF size, a
    <3> QED BY <1>1, <1>2, <1>3, <2>1, <2>2 DEF RestartOffset
  <2> QED
    <3> HIDE DEF size, a
    <3> QED BY <1>2, <1>3, <2>2, <2>3 DEF Malformed, Wide, size
<1>4. CASE ~(bytes > Max32)
  <2>1. size = bytes + a + Size32
      BY <1>1, <1>4 DEF SizeWritten, Wide
  <2>2. Offset32(size, n) = bytes
    <3> HIDE DEF size, a
    <3> QED BY <1>1, <2>1 DEF Offset32
  <2>3. RestartOffset(size, n) = bytes /\ bytes \in 0..(size - Size32)
    <3> HIDE DEF size, a
    <3> QED BY <1>1, <1>2, <1>4, <2>1, <2>2 DEF RestartOffset
  <2> QED
    <3> HIDE DEF size, a
    <3> QED BY <1>2, <1>4, <2>2, <2>3 DEF Malformed, Wide, size
<1> QED BY <1>3, <1>4

\* As many bytes as the least block has, or more, grow by no more than their number,
\* however many pieces deflate() stores.
LEMMA OverheadFits ==
    ASSUME NEW size \in Nat, size >= Frame + PerPiece
    PROVE  size + Overhead(size) <= CompressRoom(size)
<1> DEFINE q == size \div Piece
           u == PerPiece * q
           g == (Frame + 2 * PerPiece) * q
<1>1. Frame \in Nat /\ PerPiece \in Nat /\ Piece \in Nat \ {0} /\ Frame + 2 * PerPiece <= Piece
  BY LayoutAssumption
<1>2. q \in Nat /\ Piece * q <= size
  BY <1>1
<1> HIDE DEF q
<1>3. (Frame + 2 * PerPiece) * q <= Piece * q
  BY <1>1, <1>2
<1>4. Piece * q \in Nat
  BY <1>1, <1>2
<1>5. g \in Nat /\ g <= size
  BY <1>1, <1>2, <1>3, <1>4
<1>6. PerPiece * (q + 1) = u + PerPiece /\ u \in Nat
  BY <1>1, <1>2
<1>7. q = 0 => u = 0
  BY <1>1
<1>8. ASSUME q # 0 PROVE Frame + PerPiece + u <= g
  <2>1. PICK p \in Nat : q = p + 1
    <3>1. q - 1 \in Nat /\ q = (q - 1) + 1
      BY <1>2, <1>8
    <3> QED BY <3>1
  <2>2. u = PerPiece * p + PerPiece
    BY <1>1, <2>1
  <2>3. g = (Frame + 2 * PerPiece) * p + (Frame + 2 * PerPiece)
    BY <1>1, <2>1
  <2>4. PerPiece * p <= (Frame + 2 * PerPiece) * p
    BY <1>1
  <2>5. PerPiece * p \in Nat /\ (Frame + 2 * PerPiece) * p \in Nat
    BY <1>1
  <2> HIDE DEF u, g
  <2> QED BY <1>1, <2>2, <2>3, <2>4, <2>5
<1> HIDE DEF u, g
<1>9. Frame + PerPiece + u <= size
  BY <1>1, <1>5, <1>6, <1>7, <1>8
<1>10. Overhead(size) = Frame + (u + PerPiece)
  BY <1>6 DEF Overhead, q
<1> QED BY <1>1, <1>6, <1>9, <1>10 DEF CompressRoom

\* A block with an entry and a restart point, which take at least three bytes and
\* Size32, fits the output buffer of _mtbl_compress_zlib() even if deflate() stores
\* all of it, in however many pieces.
THEOREM CompressedBlockFits ==
    ASSUME NEW bytes \in Nat, bytes >= 3, NEW n \in Nat \ {0}
    PROVE  LET size == SizeWritten(bytes, n)
           IN  size + Overhead(size) <= CompressRoom(size)
<1> DEFINE size == SizeWritten(bytes, n)
           a == n * Size32
<1>1. Size32 \in Nat /\ a \in Nat /\ n * Size64 = a + a
    BY ArrayWidths, EncodingAssumption
<1>2. a >= Size32
    BY EncodingAssumption
<1>3. size = bytes + a + Size32 \/ size = bytes + (a + a) + Size32
    BY <1>1 DEF SizeWritten, Wide
<1> HIDE DEF size, a
<1>4. size \in Nat /\ size >= 3 + 2 * Size32
    BY <1>1, <1>2, <1>3
<1>5. size >= Frame + PerPiece
    BY <1>1, <1>4, LayoutAssumption
<1>6. size + Overhead(size) <= CompressRoom(size)
    BY <1>4, <1>5, OverheadFits
<1> QED BY <1>6 DEF size

-------------------------------------------------------------------------------
(* The builder *)

\* Two keys agree up to their first difference.
LEMMA DiffIndexIs ==
    ASSUME NEW s \in Key, NEW t \in Key
    PROVE  LET i == DiffIndex(s, t) IN
           /\ i \in 1..(MinLength(s, t) + 1)
           /\ \A j \in 1..(i - 1) : s[j] = t[j]
<1> DEFINE m == MinLength(s, t)
           T == {i \in 1..m : s[i] # t[i]}
           P(i) == /\ \A j \in 1..(i - 1) : s[j] = t[j]
                   /\ i <= m => s[i] # t[i]
           f == Min(T \cup {m + 1})
           d == DiffIndex(s, t)
<1>1. m \in Nat
  BY KeyElements DEF MinLength
<1> HIDE DEF m
<1>2. f \in 1..(m + 1) /\ (f <= m => f \in T) /\ \A i \in 1..(f - 1) : i \notin T
  <2>1. T \in SUBSET (1..m)
    OBVIOUS
  <2> HIDE DEF T
  <2> QED BY <1>1, <2>1, FirstOf
<1> HIDE DEF f
<1>3. \A j \in 1..(f - 1) : j \in 1..m
  BY <1>1, <1>2
<1>4. P(f)
  BY <1>2, <1>3
<1>5. d = CHOOSE i \in 1..(m + 1) : P(i)
  BY Zenon DEF DiffIndex, m
<1> HIDE DEF d, P
<1>6. d \in 1..(m + 1) /\ P(d)
  BY <1>2, <1>4, <1>5
<1> QED BY <1>6 DEF d, P, m

\* vector_reserve() makes the room that it is asked for, and takes none away.
LEMMA ReserveFits ==
    ASSUME NEW alloced \in Nat \ {0}, NEW n \in Nat, NEW more \in Nat
    PROVE  LET room == Reserve(alloced, n, more) IN
           /\ room \in Nat \ {0} /\ room >= alloced
           /\ n + more <= room
<1> DEFINE X == Nat \ {0}
           Stop == {a \in X : more <= a - n}
           turn == [a \in X |-> 2 * a]
           size == [a \in X |-> IF a < n + more THEN n + more - a ELSE 0]
           res == [a \in X |-> a]
           P == {a \in X : a >= alloced}
           Is(f) == f = [a \in X |-> IF more <= a - n THEN a ELSE f[2 * a]]
           Grown == CHOOSE f : Is(f)
<1>1. Shrinks(X, Stop, turn, size)
  <2>1. turn \in [X -> X] /\ size \in [X -> Nat]
    OBVIOUS
  <2>2. \A a \in X : a \notin Stop => size[turn[a]] < size[a]
    OBVIOUS
  <2> HIDE DEF X, Stop, turn, size
  <2> QED BY <2>1, <2>2 DEF Shrinks
<1>2. res \in [X -> X] /\ P \in SUBSET X
  OBVIOUS
<1>3. \A a \in P : a \notin Stop => turn[a] \in P
  OBVIOUS
<1>4. ASSUME NEW f, NEW a \in X
      PROVE  (IF a \in Stop THEN res[a] ELSE f[turn[a]]) = IF more <= a - n THEN a ELSE f[2 * a]
  <2>1. (a \in Stop <=> more <= a - n) /\ res[a] = a /\ turn[a] = 2 * a
    OBVIOUS
  <2> HIDE DEF Stop, res, turn
  <2>2. CASE more <= a - n
    BY <2>1, <2>2
  <2>3. CASE ~(more <= a - n)
    BY <2>1, <2>3
  <2> QED BY <2>2, <2>3
<1>5. \A a \in Stop : more <= a - n /\ res[a] = a
  OBVIOUS
<1>6. alloced \in P /\ \A a \in P : a \in Nat \ {0} /\ a >= alloced
  OBVIOUS
<1>7. Reserve(alloced, n, more) = Grown[alloced]
  BY DEF Reserve
<1> HIDE DEF X, Stop, turn, size, res, P
<1>8. \E f : Is(f)
  <2>1. PICK f \in [X -> X] : IsLoop(f, X, Stop, turn, res)
    BY <1>1, <1>2, LoopExists
  <2>2. ASSUME NEW a \in X PROVE f[a] = IF more <= a - n THEN a ELSE f[2 * a]
    <3>1. f[a] = IF a \in Stop THEN res[a] ELSE f[turn[a]]
      BY <2>1 DEF IsLoop
    <3> QED BY <1>4, <3>1
  <2>3. f = [a \in X |-> f[a]]
    BY <2>1
  <2>4. Is(f)
    BY <2>2, <2>3
  <2> QED BY <2>4
<1>9. Is(Grown)
  <2> HIDE DEF Is
  <2> QED BY <1>8
<1> HIDE DEF Grown
<1>10. IsLoop(Grown, X, Stop, turn, res)
  <2>1. ASSUME NEW a \in X PROVE Grown[a] = IF a \in Stop THEN res[a] ELSE Grown[turn[a]]
    BY <1>4, <1>9
  <2> QED BY <2>1 DEF IsLoop
<1>11. PICK a \in P : a \in Stop /\ Grown[alloced] = res[a]
  <2>1. \A x \in P : \E y \in P : y \in Stop /\ Grown[x] = res[y]
    <3> HIDE DEF Is
    <3> QED BY <1>1, <1>2, <1>3, <1>10, LoopKeeps
  <2> QED BY <1>6, <2>1
<1>12. a \in Nat \ {0} /\ a >= alloced /\ more <= a - n /\ Grown[alloced] = a
  BY <1>5, <1>6, <1>11
<1> QED BY <1>7, <1>12

\* The bytes of a varint
LEMMA VarintTyped ==
    ASSUME NEW v \in Nat
    PROVE  /\ EncodeVarint(v) \in Seq(Nat) /\ Len(EncodeVarint(v)) \in Nat \ {0}
           /\ 1 <= Len(EncodeVarint(v)) /\ Len(EncodeVarint(v)) <= 5
<1>1. Shift(v) \in Nat /\ Shift2(v) \in Nat /\ Shift3(v) \in Nat /\ Shift4(v) \in Nat
  BY Divide DEF Shift2, Shift3, Shift4
<1>2. \A u \in Nat : More(u) \in Nat
  BY Divide, EncodingAssumption DEF More
<1> QED BY <1>1, <1>2 DEF EncodeVarint

-------------------------------------------------------------------------------
(* Entries *)

\* The bytes of s are at offset p of data.
Placed(data, p, s) == \A j \in 1..Len(s) : data[p + j] = s[j]

LEMMA PlacedConcat ==
    ASSUME NEW A, NEW x \in Seq(A), NEW y \in Seq(A), NEW data, NEW p \in Nat,
           Placed(data, p, x \o y)
    PROVE  Placed(data, p, x) /\ Placed(data, p + Len(x), y)
<1>1. Len(x) \in Nat /\ Len(y) \in Nat
  BY LenProperties
<1>2. /\ Len(x \o y) = Len(x) + Len(y)
      /\ \A i \in 1..(Len(x) + Len(y)) :
            (x \o y)[i] = IF i <= Len(x) THEN x[i] ELSE y[i - Len(x)]
  BY ConcatProperties
<1>3. ASSUME NEW j \in 1..Len(x) PROVE data[p + j] = x[j]
  <2>1. j \in 1..(Len(x) + Len(y)) /\ j <= Len(x)
    BY <1>1
  <2> QED BY <1>2, <2>1 DEF Placed
<1>4. ASSUME NEW j \in 1..Len(y) PROVE data[(p + Len(x)) + j] = y[j]
  <2> DEFINE i == Len(x) + j
  <2>1. i \in 1..(Len(x) + Len(y)) /\ ~(i <= Len(x)) /\ i - Len(x) = j /\ (p + Len(x)) + j = p + i
    BY <1>1
  <2> HIDE DEF i
  <2> QED BY <1>2, <2>1 DEF Placed
<1> QED BY <1>3, <1>4 DEF Placed

\* What is before does not change when something is appended.
LEMMA PlacedStays ==
    ASSUME NEW A, NEW x \in Seq(A), NEW y \in Seq(A), NEW p \in Nat, NEW s,
           Len(s) \in Nat, p + Len(s) <= Len(x), Placed(x, p, s)
    PROVE  Placed(x \o y, p, s)
<1>1. Len(x) \in Nat /\ Len(y) \in Nat
  BY LenProperties
<1>2. \A i \in 1..(Len(x) + Len(y)) : (x \o y)[i] = IF i <= Len(x) THEN x[i] ELSE y[i - Len(x)]
  BY ConcatProperties
<1>3. ASSUME NEW j \in 1..Len(s) PROVE (x \o y)[p + j] = s[j]
  <2>1. p + j \in 1..(Len(x) + Len(y)) /\ p + j <= Len(x)
    BY <1>1
  <2> QED BY <1>2, <2>1 DEF Placed
<1> QED BY <1>3 DEF Placed

\* What is appended is there.
LEMMA PlacedBehind ==
    ASSUME NEW A, NEW x \in Seq(A), NEW y \in Seq(A)
    PROVE  Placed(x \o y, Len(x), y)
<1>1. Len(x) \in Nat /\ Len(y) \in Nat
  BY LenProperties
<1>2. \A i \in 1..(Len(x) + Len(y)) : (x \o y)[i] = IF i <= Len(x) THEN x[i] ELSE y[i - Len(x)]
  BY ConcatProperties
<1>3. ASSUME NEW j \in 1..Len(y) PROVE (x \o y)[Len(x) + j] = y[j]
  <2> DEFINE i == Len(x) + j
  <2>1. i \in 1..(Len(x) + Len(y)) /\ ~(i <= Len(x)) /\ i - Len(x) = j
    BY <1>1
  <2> HIDE DEF i
  <2>2. (x \o y)[i] = y[j]
    BY <1>2, <2>1
  <2> QED BY <2>2 DEF i
<1> QED BY <1>3 DEF Placed

\* A varint of one byte is the number itself.
LEMMA ShortVarint ==
    ASSUME NEW v \in Nat, IsLast(EncodeVarint(v)[1])
    PROVE  EncodeVarint(v) = <<v>>
<1>1. ~IsLast(More(v))
  BY MoreByte
<1>2. ASSUME ~(v < VarintBase) PROVE EncodeVarint(v)[1] = More(v)
  <2> DEFINE m == More(v)
             v1 == Shift(v)
             v2 == Shift2(v)
             v3 == Shift3(v)
  <2>1. \/ EncodeVarint(v) = <<m, v1>>
        \/ EncodeVarint(v) = <<m, More(v1), v2>>
        \/ EncodeVarint(v) = <<m, More(v1), More(v2), v3>>
        \/ EncodeVarint(v) = <<m, More(v1), More(v2), More(v3), Shift4(v)>>
    BY <1>2 DEF EncodeVarint
  <2> QED BY <2>1
<1>3. v < VarintBase
  BY <1>1, <1>2
<1> QED BY <1>3 DEF EncodeVarint

Suffix(shared, key) == SubSeq(key, shared + 1, Len(key))

LEMMA SuffixIs ==
    ASSUME NEW key \in Key, NEW shared \in 0..Len(key)
    PROVE  /\ Suffix(shared, key) \in Seq(Nat)
           /\ Len(Suffix(shared, key)) = Len(key) - shared
           /\ \A j \in 1..(Len(key) - shared) : Suffix(shared, key)[j] = key[shared + j]
<1> DEFINE n == Len(key)
           m == n - shared
           s == Suffix(shared, key)
<1>1. n \in Nat /\ (\A j \in 1..n : key[j] \in Nat) /\ key \in Seq(Byte)
  <2>1. Byte \subseteq Nat /\ key \in Seq(Byte)
    BY DEF Byte, Key
  <2> QED BY <2>1, KeyElements
<1>2. m \in Nat
  BY <1>1
<1>3. s = [j \in 1..m |-> key[shared + j]]
  <2>1. s = [j \in 1..(n - (shared + 1) + 1) |-> key[(shared + 1) + j - 1]]
    BY <1>1 DEF Suffix
  <2>2. n - (shared + 1) + 1 = m
    BY <1>1
  <2>3. \A j \in 1..m : (shared + 1) + j - 1 = shared + j
    BY <1>2
  <2> HIDE DEF n, m, s
  <2> QED BY <2>1, <2>2, <2>3
<1>4. \A j \in 1..m : key[shared + j] \in Nat
  <2>1. \A j \in 1..m : shared + j \in 1..n
    BY <1>1
  <2> HIDE DEF n, m
  <2> QED BY <1>1, <2>1
<1>5. s \in [1..m -> Nat]
  <2> HIDE DEF n, m, s
  <2> QED BY <1>3, <1>4
<1>6. s \in Seq(Nat) /\ Len(s) = m
  <2> HIDE DEF n, m, s
  <2> QED BY <1>2, <1>5
<1>7. \A j \in 1..m : s[j] = key[shared + j]
  <2> HIDE DEF n, m, s
  <2> QED BY <1>3
<1> QED BY <1>6, <1>7

\* The bytes of the header of an entry
Header(shared, n, m) == EncodeVarint(shared) \o EncodeVarint(n) \o EncodeVarint(m)

LEMMA HeaderTyped ==
    ASSUME NEW shared \in Nat, NEW n \in Nat, NEW m \in Nat
    PROVE  /\ Header(shared, n, m) \in Seq(Nat) /\ Len(Header(shared, n, m)) \in Nat
           /\ 3 <= Len(Header(shared, n, m)) /\ Len(Header(shared, n, m)) <= 15
<1> DEFINE x == EncodeVarint(shared)
           y == EncodeVarint(n)
           z == EncodeVarint(m)
<1>1. /\ x \in Seq(Nat) /\ y \in Seq(Nat) /\ z \in Seq(Nat)
      /\ Len(x) \in Nat /\ Len(y) \in Nat /\ Len(z) \in Nat
      /\ 1 <= Len(x) /\ 1 <= Len(y) /\ 1 <= Len(z)
      /\ Len(x) <= 5 /\ Len(y) <= 5 /\ Len(z) <= 5
  BY VarintTyped
<1>2. Header(shared, n, m) = (x \o y) \o z
  BY DEF Header
<1> HIDE DEF x, y, z
<1>3. x \o y \in Seq(Nat) /\ Len(x \o y) = Len(x) + Len(y)
  BY <1>1, ConcatProperties
<1>4. (x \o y) \o z \in Seq(Nat) /\ Len((x \o y) \o z) = Len(x \o y) + Len(z)
  BY <1>1, <1>3, ConcatProperties
<1> DEFINE l == Len(x \o y) + Len(z)
<1>5. l \in Nat /\ 3 <= l /\ l <= 15
  BY <1>1, <1>3
<1> QED BY <1>2, <1>4, <1>5

\* An entry takes a header of up to 15 bytes, what its key does not share with the
\* last one, and its value.
LEMMA EntryTyped ==
    ASSUME NEW key \in Key, NEW shared \in 0..Len(key), NEW val \in Seq(Nat)
    PROVE  LET n == Len(key) - shared
               m == Len(val)
               header == Header(shared, n, m)
           IN  /\ Entry(shared, key, val) = (header \o Suffix(shared, key)) \o val
               /\ header \o Suffix(shared, key) \in Seq(Nat)
               /\ Len(header \o Suffix(shared, key)) = Len(header) + n
               /\ Entry(shared, key, val) \in Seq(Nat)
               /\ Len(Entry(shared, key, val)) = Len(header) + n + m
               /\ n \in Nat /\ m \in Nat /\ shared \in Nat
<1> DEFINE s == Suffix(shared, key)
           n == Len(key) - shared
           m == Len(val)
           header == Header(shared, n, m)
<1>1. s \in Seq(Nat) /\ Len(s) = n
  BY SuffixIs
<1>2. n \in Nat /\ m \in Nat /\ shared \in Nat
  <2>1. Len(key) \in Nat /\ Len(val) \in Nat
    BY KeyElements, LenProperties
  <2> QED BY <2>1
<1>3. Entry(shared, key, val) = (Header(shared, Len(s), m) \o s) \o val
  BY DEF Entry, Suffix, Header
<1> HIDE DEF n, m, s
<1>4. header \in Seq(Nat) /\ Len(header) \in Nat
  BY <1>2, HeaderTyped
<1> HIDE DEF header
<1>5. header \o s \in Seq(Nat) /\ Len(header \o s) = Len(header) + n
  BY <1>1, <1>4, ConcatProperties
<1>6. (header \o s) \o val \in Seq(Nat) /\ Len((header \o s) \o val) = (Len(header) + n) + m
  BY <1>5, ConcatProperties DEF m
<1> QED BY <1>1, <1>2, <1>3, <1>5, <1>6 DEF n, m, s, header

\* decode_entry() finds the lengths in the header of an entry, by the fast path or
\* without it, and the rest of the key and the value behind it.
LEMMA DecodeIs ==
    ASSUME NEW key \in Key, NEW shared \in 0..Len(key), NEW val \in Seq(Nat),
           Len(key) <= VarintMax, Len(val) <= VarintMax,
           NEW p \in Nat, Placed(block.data, p, Entry(shared, key, val))
    PROVE  LET e == DecodeEntry(p) IN
           /\ e.shared = shared /\ e.non_shared = Len(key) - shared /\ e.val_len = Len(val)
           /\ e.key + e.non_shared + e.val_len = p + Len(Entry(shared, key, val))
           /\ Placed(block.data, e.key, Suffix(shared, key))
           /\ Placed(block.data, e.key + e.non_shared, val)
           /\ e.key \in Nat /\ e.non_shared \in Nat /\ e.val_len \in Nat
<1> DEFINE data == block.data
           s == Suffix(shared, key)
           n == Len(key) - shared
           m == Len(val)
           header == Header(shared, n, m)
           x == EncodeVarint(shared)
           y == EncodeVarint(n)
           z == EncodeVarint(m)
           lx == Len(x)
           ly == Len(y)
           lz == Len(z)
           e == DecodeEntry(p)
<1>1. /\ n \in Nat /\ m \in Nat /\ shared \in Nat /\ s \in Seq(Nat) /\ Len(s) = n
      /\ header \o s \in Seq(Nat) /\ Len(header \o s) = Len(header) + n
      /\ Entry(shared, key, val) = (header \o s) \o val
      /\ Len(Entry(shared, key, val)) = Len(header) + n + m
  BY EntryTyped, SuffixIs
<1>2. shared <= VarintMax /\ n <= VarintMax /\ m <= VarintMax
  <2>1. VarintMax \in Int
    <3> DEFINE b2 == VarintBase * VarintBase
               b3 == VarintBase * b2
               b4 == VarintBase * b3
    <3>1. VarintBase \in Nat /\ b2 \in Nat
      BY EncodingAssumption
    <3>2. b3 \in Nat
      BY <3>1
    <3>3. b4 \in Nat
      BY <3>1, <3>2
    <3>4. VarintBase * b4 \in Nat
      BY <3>1, <3>3
    <3> QED BY <3>4 DEF VarintMax
  <2>2. Len(key) \in Nat
    BY KeyElements
  <2> HIDE DEF header, s
  <2> QED BY <1>1, <2>1, <2>2
<1>3. /\ x \in Seq(Nat) /\ y \in Seq(Nat) /\ z \in Seq(Nat)
      /\ lx \in Nat \ {0} /\ ly \in Nat \ {0} /\ lz \in Nat \ {0}
  <2>1. \A v \in Nat : EncodeVarint(v) \in Seq(Nat) /\ Len(EncodeVarint(v)) \in Nat \ {0}
    BY VarintTyped
  <2> HIDE DEF n, m
  <2> QED BY <1>1, <2>1
<1>4. header = (x \o y) \o z
  BY DEF Header
<1>5. header \in Seq(Nat)
  BY <1>1, HeaderTyped
<1>6. ~(shared < 0)
  OBVIOUS
<1> HIDE DEF data, s, n, m, header, x, y, z
<1>7. Placed(data, p, header \o s) /\ Placed(data, p + Len(header \o s), val)
  BY <1>1, PlacedConcat DEF data
<1>8. Placed(data, p, header) /\ Placed(data, p + Len(header), s)
  BY <1>1, <1>5, <1>7, PlacedConcat
<1>9. x \o y \in Seq(Nat) /\ Len(x \o y) = lx + ly
  BY <1>3, ConcatProperties
<1>10. Placed(data, p, x \o y) /\ Placed(data, p + Len(x \o y), z)
  BY <1>3, <1>4, <1>8, <1>9, PlacedConcat
<1>11. Placed(data, p, x) /\ Placed(data, p + lx, y)
  BY <1>3, <1>10, PlacedConcat
<1>12. Len(header) = (lx + ly) + lz
  BY <1>3, <1>4, <1>9, ConcatProperties
<1>13. p + lx \in Nat /\ p + (lx + ly) \in Nat /\ (p + lx) + ly = p + (lx + ly)
  <2> HIDE DEF lx, ly, lz
  <2> QED BY <1>3
<1>14. /\ DecodeVarint(data, p) = [len |-> lx, value |-> shared]
       /\ DecodeVarint(data, p + lx) = [len |-> ly, value |-> n]
       /\ DecodeVarint(data, p + (lx + ly)) = [len |-> lz, value |-> m]
  <2>1. \A v \in Nat, q \in Nat : v <= VarintMax /\ Placed(data, q, EncodeVarint(v)) =>
            DecodeVarint(data, q) = [len |-> Len(EncodeVarint(v)), value |-> v]
    BY VarintRoundTrip DEF Placed
  <2>2. Placed(data, p + (lx + ly), z)
    BY <1>9, <1>10
  <2> QED BY <1>1, <1>2, <1>11, <1>13, <2>1, <2>2 DEF x, y, z
<1>15. /\ IsLast(data[p + 1]) => lx = 1 /\ data[p + 1] = shared
       /\ IsLast(data[(p + lx) + 1]) => ly = 1 /\ data[(p + lx) + 1] = n
       /\ IsLast(data[(p + (lx + ly)) + 1]) => lz = 1 /\ data[(p + (lx + ly)) + 1] = m
  <2>1. ASSUME NEW v \in Nat, NEW q \in Nat, Placed(data, q, EncodeVarint(v)),
               IsLast(data[q + 1])
        PROVE  Len(EncodeVarint(v)) = 1 /\ data[q + 1] = v
    <3>1. 1 \in 1..Len(EncodeVarint(v))
      BY VarintTyped
    <3>2. data[q + 1] = EncodeVarint(v)[1]
      BY <2>1, <3>1 DEF Placed
    <3>3. EncodeVarint(v) = <<v>>
      BY <2>1, <3>2, ShortVarint
    <3> QED BY <3>2, <3>3
  <2>2. Placed(data, p + (lx + ly), z)
    BY <1>9, <1>10
  <2> QED BY <1>1, <1>11, <1>13, <2>1, <2>2 DEF x, y, z
<1> DEFINE h == p + ((lx + ly) + lz)
<1>16. e = [shared |-> shared, non_shared |-> n, val_len |-> m, key |-> h]
  <2>1. CASE ShortHeader(data[p + 1], data[p + 2], data[p + 3])
    <3>1. IsLast(data[p + 1]) /\ IsLast(data[p + 2]) /\ IsLast(data[p + 3])
      BY <2>1 DEF ShortHeader
    <3>2. lx = 1 /\ data[p + 1] = shared
      BY <1>15, <3>1
    <3>3. (p + lx) + 1 = p + 2
      BY <3>2
    <3>4. ly = 1 /\ data[p + 2] = n
      BY <1>15, <3>1, <3>3
    <3>5. (p + (lx + ly)) + 1 = p + 3
      BY <3>2, <3>4
    <3>6. lz = 1 /\ data[p + 3] = m
      BY <1>15, <3>1, <3>5
    <3>7. h = p + 3
      BY <3>2, <3>4, <3>6
    <3> HIDE DEF h, lx, ly, lz
    <3> QED BY <2>1, <3>2, <3>4, <3>6, <3>7 DEF DecodeEntry, data
  <2>2. CASE ~ShortHeader(data[p + 1], data[p + 2], data[p + 3])
    <3>1. DecodeVarint(data, (p + lx) + ly) = [len |-> lz, value |-> m]
      BY <1>13, <1>14
    <3>2. ((p + lx) + ly) + lz = h
      <4> HIDE DEF lx, ly, lz
      <4> QED BY <1>3
    <3> HIDE DEF h, lx, ly, lz
    <3> QED BY <1>14, <2>2, <3>1, <3>2 DEF DecodeEntry, data
  <2> QED BY <2>1, <2>2
<1> HIDE DEF e
<1>17. e.shared = shared /\ e.non_shared = n /\ e.val_len = m /\ e.key = p + Len(header)
  <2>1. h = p + Len(header)
    BY <1>12
  <2> HIDE DEF h
  <2> QED BY <1>16, <2>1
<1>18. Len(header) \in Nat
  BY <1>5, LenProperties
<1>19. /\ (p + Len(header)) + n + m = p + (Len(header) + n + m)
       /\ p + Len(header \o s) = (p + Len(header)) + n
       /\ p + Len(header) \in Nat
  BY <1>1, <1>18
<1> QED BY <1>1, <1>7, <1>8, <1>17, <1>19 DEF e, n, m, s, data

-------------------------------------------------------------------------------
(* The invariant of a block that is being built *)

Items == [key : Keys, value : {v \in Seq(Nat) : Len(v) \in ValueLengths}, off : Nat]

Builders == [interval : Nat \ {0}, buf : Seq(Nat), alloced : Nat \ {0}, last_key : Key,
             restarts : Seq(Nat), counter : Nat, finished : BOOLEAN]

\* Where the i-th of the entries as ends, all of which end at end, and the key that
\* it may share a prefix with.
EndOf(as, end, i) == IF i < Len(as) THEN as[i + 1].off ELSE end
KeyBefore(as, i)  == IF i = 1 THEN <<>> ELSE as[i - 1].key

\* The i-th entry is in the data, with all of its key but the prefix it shares.
Laid(data, as, end, i, shared) ==
    /\ shared \in 0..Len(as[i].key) /\ shared <= Len(KeyBefore(as, i))
    /\ \A j \in 1..shared : as[i].key[j] = KeyBefore(as, i)[j]
    /\ Placed(data, as[i].off, Entry(shared, as[i].key, as[i].value))
    /\ EndOf(as, end, i) = as[i].off + Len(Entry(shared, as[i].key, as[i].value))

\* The entries are in order, one behind the other.
InOrder(as, end) ==
    /\ as[1].off = 0
    /\ \A i, j \in 1..Len(as) : i < j => as[i].off < as[j].off /\ Less(as[i].key, as[j].key)
    /\ \A i \in 1..Len(as) : as[i].off < end

\* Each of the restart points rs is the offset of an entry with its whole key.
Restarted(data, as, end, rs) ==
    /\ Len(rs) >= 1 /\ rs[1] = 0
    /\ \A r \in 1..Len(rs) : \E i \in 1..Len(as) : rs[r] = as[i].off /\ Laid(data, as, end, i, 0)

HoldEntries(data, as, end, rs) ==
    /\ InOrder(as, end)
    /\ \A i \in 1..Len(as) : \E shared \in Nat : Laid(data, as, end, i, shared)
    /\ Restarted(data, as, end, rs)

\* What the builder c knows of the entries as.
Building(c, as) ==
    /\ c \in Builders /\ as \in Seq(Items) /\ Len(as) <= MaxEntries
    /\ c.last_key = IF as = <<>> THEN <<>> ELSE as[Len(as)].key
    /\ Len(c.buf) <= c.alloced
    /\ 3 * Len(as) <= Len(c.buf) /\ Len(c.buf) <= Len(as) * Longest
    /\ as = <<>> => c.restarts = <<0>> /\ c.counter = 0
    /\ as # <<>> => Len(c.restarts) <= Len(as) /\ HoldEntries(c.buf, as, Len(c.buf), c.restarts)

\* The prefix that an entry shares with the last key is one, and none when the
\* entry becomes a restart point.
LEMMA SharedIs ==
    ASSUME NEW c \in Builders, NEW key \in Key
    PROVE  LET shared == SharedWith(c, key) IN
           /\ shared \in 0..Len(key) /\ shared <= Len(c.last_key)
           /\ \A j \in 1..shared : key[j] = c.last_key[j]
           /\ Restarting(c) => shared = 0
<1> DEFINE k == c.last_key
           d == DiffIndex(k, key)
           m == MinLength(k, key)
<1>1. k \in Key /\ Len(k) \in Nat /\ Len(key) \in Nat
  BY KeyElements DEF Builders
<1>2. m \in Nat /\ m <= Len(k) /\ m <= Len(key)
  BY <1>1 DEF MinLength
<1>3. d \in 1..(m + 1) /\ \A j \in 1..(d - 1) : k[j] = key[j]
  BY <1>1, DiffIndexIs
<1>4. SharedWith(c, key) = IF Restarting(c) THEN 0 ELSE d - 1
  BY DEF SharedWith
<1> HIDE DEF d, m, k
<1>5. CASE Restarting(c)
  BY <1>1, <1>4, <1>5 DEF k
<1>6. CASE ~Restarting(c)
  <2>1. d - 1 \in 0..Len(key) /\ d - 1 <= Len(k)
    BY <1>1, <1>2, <1>3
  <2> QED BY <1>3, <1>4, <1>6, <2>1 DEF k
<1> QED BY <1>5, <1>6

\* The entries before stay where they are when one is added.
LEMMA LaidStays ==
    ASSUME NEW as \in Seq(Items), NEW x \in Seq(Nat), NEW y \in Seq(Nat), NEW a \in Items,
           a.off = Len(x), NEW i \in 1..Len(as), NEW shared \in Nat,
           InOrder(as, Len(x)), Laid(x, as, Len(x), i, shared), NEW end
    PROVE  Laid(x \o y, Append(as, a), end, i, shared)
<1> DEFINE n == Len(as)
           bs == Append(as, a)
<1>1. n \in Nat /\ Len(bs) = n + 1 /\ Len(x) \in Nat /\ i \in 1..n
  <2>1. n \in Nat /\ Len(x) \in Nat
    BY LenProperties
  <2>2. Len(bs) = n + 1
    BY AppendProperties
  <2> HIDE DEF bs
  <2> QED BY <2>1, <2>2
<1>2. \A j \in 1..n : bs[j] = as[j]
  BY AppendProperties
<1>3. bs[n + 1] = a
  BY <1>1, AppendProperties
<1>4. as[i] \in Items
  BY ElementOfSeq
<1> HIDE DEF n
<1> DEFINE key == as[i].key
           val == as[i].value
           off == as[i].off
           e == Entry(shared, key, val)
<1>5. key \in Key /\ val \in Seq(Nat) /\ off \in Nat
  BY <1>4, BlockAssumption DEF Items
<1>6. shared \in 0..Len(key)
  BY DEF Laid
<1>7. Len(e) \in Nat
  <2>1. e \in Seq(Nat)
    BY <1>5, <1>6, EntryTyped
  <2> QED BY <2>1, LenProperties
<1>8. EndOf(bs, end, i) = EndOf(as, Len(x), i)
  <2> HIDE DEF bs
  <2>1. CASE i < n
    <3>1. i + 1 \in 1..n /\ i < n + 1
      BY <1>1, <2>1
    <3> QED BY <1>1, <1>2, <2>1, <3>1 DEF EndOf, n
  <2>2. CASE ~(i < n)
    <3>1. i = n /\ i < n + 1
      BY <1>1, <2>2
    <3> QED BY <1>1, <1>3, <2>2, <3>1 DEF EndOf, n
  <2> QED BY <2>1, <2>2
<1>9. EndOf(as, Len(x), i) <= Len(x)
  <2>1. EndOf(as, Len(x), i) = IF i < n THEN as[i + 1].off ELSE Len(x)
    BY DEF EndOf, n
  <2>2. CASE i < n
    <3>1. i + 1 \in 1..n
      BY <1>1, <2>2
    <3>2. as[i + 1].off < Len(x) /\ as[i + 1].off \in Nat
      <4>1. as[i + 1] \in Items
        BY <3>1, ElementOfSeq DEF n
      <4> QED BY <3>1, <4>1 DEF InOrder, Items, n
    <3> DEFINE next == as[i + 1].off
    <3>3. EndOf(as, Len(x), i) = next
      BY <2>1, <2>2
    <3> HIDE DEF next
    <3>4. next < Len(x) /\ next \in Nat
      BY <3>2 DEF next
    <3> QED BY <1>1, <3>3, <3>4
  <2>3. CASE ~(i < n)
    <3>1. EndOf(as, Len(x), i) = Len(x)
      BY <2>1, <2>3
    <3> QED BY <1>1, <3>1
  <2> QED BY <2>2, <2>3
<1>10. KeyBefore(bs, i) = KeyBefore(as, i)
  <2>1. i = 1 \/ i - 1 \in 1..n
    BY <1>1
  <2> HIDE DEF bs
  <2> QED BY <1>2, <2>1 DEF KeyBefore
<1>11. bs[i] = as[i]
  BY <1>1, <1>2
<1> HIDE DEF bs
<1>12. Placed(x, off, e) /\ EndOf(as, Len(x), i) = off + Len(e)
  BY DEF Laid
<1>13. Placed(x \o y, off, e)
  <2>1. off + Len(e) <= Len(x)
    BY <1>9, <1>12
  <2> HIDE DEF off, e
  <2> QED BY <1>5, <1>7, <1>12, <2>1, PlacedStays DEF off
<1> QED BY <1>6, <1>8, <1>10, <1>11, <1>12, <1>13 DEF Laid, bs

\* An entry that is added behind the others is there, and they stay.
LEMMA ContentsGrow ==
    ASSUME NEW as \in Seq(Items), NEW x \in Seq(Nat), NEW a \in Items, NEW rs \in Seq(Nat),
           a.off = Len(x),
           \A i \in 1..Len(as) : Less(as[i].key, a.key),
           NEW shared \in 0..Len(a.key),
           as = <<>> => shared = 0 /\ x = <<>>,
           as # <<>> => /\ shared <= Len(as[Len(as)].key)
                        /\ \A j \in 1..shared : a.key[j] = as[Len(as)].key[j]
                        /\ HoldEntries(x, as, Len(x), rs),
           NEW ts \in Seq(Nat),
           as = <<>> => Len(ts) = 1 /\ ts[1] = 0,
           as # <<>> => ts = rs \/ (ts = Append(rs, Len(x)) /\ shared = 0)
    PROVE  LET y == x \o Entry(shared, a.key, a.value)
           IN  HoldEntries(y, Append(as, a), Len(y), ts)
<1> DEFINE e == Entry(shared, a.key, a.value)
           y == x \o e
           n == Len(as)
           bs == Append(as, a)
           end == Len(y)
           r == Len(rs)
<1>1. a.key \in Key /\ a.value \in Seq(Nat) /\ a.off \in Nat
  BY BlockAssumption DEF Items
<1>2. e \in Seq(Nat) /\ Len(e) \in Nat /\ Len(e) >= 3 /\ shared \in Nat
  <2> DEFINE m == Len(a.key) - shared
             v == Len(a.value)
             h == Len(Header(shared, m, v))
  <2>1. e \in Seq(Nat) /\ Len(e) = h + m + v /\ m \in Nat /\ v \in Nat /\ shared \in Nat
    BY <1>1, EntryTyped
  <2> HIDE DEF m, v
  <2>2. h \in Nat /\ 3 <= h
    BY <2>1, HeaderTyped
  <2> HIDE DEF h, e
  <2>3. h + m + v \in Nat /\ h + m + v >= 3
    BY <2>1, <2>2
  <2> QED BY <2>1, <2>3
<1> HIDE DEF e
<1>3. y \in Seq(Nat) /\ end = Len(x) + Len(e) /\ Len(x) \in Nat
  BY <1>2, ConcatProperties, LenProperties
<1> HIDE DEF y
<1>4. /\ n \in Nat /\ bs \in Seq(Items) /\ Len(bs) = n + 1 /\ bs[n + 1] = a
      /\ \A i \in 1..n : bs[i] = as[i]
  <2>1. n \in Nat
    BY LenProperties
  <2>2. \A s \in Seq(Items) : /\ Append(s, a) \in Seq(Items) /\ Len(Append(s, a)) = Len(s) + 1
                              /\ \A i \in 1..Len(s) : Append(s, a)[i] = s[i]
                              /\ Append(s, a)[Len(s) + 1] = a
    BY AppendProperties
  <2>3. /\ bs \in Seq(Items) /\ Len(bs) = n + 1 /\ bs[n + 1] = a
        /\ \A i \in 1..n : bs[i] = as[i]
    BY <2>2, Zenon
  <2> QED BY <2>1, <2>3
<1>5. as = <<>> <=> n = 0
  BY EmptySeq, LenProperties
<1> HIDE DEF n
<1>6. \A i \in 1..(n + 1) : i \in 1..n \/ i = n + 1
  BY <1>4
<1>7. ASSUME NEW i \in 1..n PROVE as # <<>> /\ as[i] \in Items /\ n \in 1..n
  <2>1. n \in 1..n /\ n # 0
    BY <1>4
  <2> QED BY <1>5, <2>1, ElementOfSeq DEF n
<1> HIDE DEF bs
<1>8. InOrder(bs, end)
  <2>1. bs[1].off = 0
    <3>1. CASE n = 0
      <4>1. bs[1] = a /\ Len(x) = 0
        BY <1>4, <1>5, <3>1
      <4> QED BY <4>1
    <3>2. CASE n # 0
      <4>1. 1 \in 1..n
        BY <1>4, <3>2
      <4> QED BY <1>4, <1>7, <4>1 DEF HoldEntries, InOrder, n
    <3> QED BY <3>1, <3>2
  <2>2. \A i \in 1..n : as[i].off \in Nat /\ as[i].off < Len(x)
    <3> SUFFICES ASSUME NEW i \in 1..n PROVE as[i].off \in Nat /\ as[i].off < Len(x)
      OBVIOUS
    <3> QED BY <1>7 DEF HoldEntries, InOrder, Items, n
  <2>3. ASSUME NEW i \in 1..(n + 1), NEW j \in 1..(n + 1), i < j
        PROVE  bs[i].off < bs[j].off /\ Less(bs[i].key, bs[j].key)
    <3>1. i \in 1..n
      BY <1>4, <2>3
    <3>2. CASE j = n + 1
      <4>1. bs[i] = as[i] /\ bs[j] = a
        BY <1>4, <3>1, <3>2
      <4>2. as[i].off < a.off /\ Less(as[i].key, a.key)
        BY <2>2, <3>1 DEF n
      <4> QED BY <4>1, <4>2
    <3>3. CASE j \in 1..n
      <4>1. bs[i] = as[i] /\ bs[j] = as[j]
        BY <1>4, <3>1, <3>3
      <4>2. as[i].off < as[j].off /\ Less(as[i].key, as[j].key)
        BY <1>7, <2>3, <3>1, <3>3 DEF HoldEntries, InOrder, n
      <4> QED BY <4>1, <4>2
    <3> QED BY <1>6, <3>2, <3>3
  <2>4. ASSUME NEW i \in 1..(n + 1) PROVE bs[i].off < end
    <3>1. Len(x) < end /\ end \in Nat
      BY <1>2, <1>3
    <3> HIDE DEF end
    <3>2. CASE i \in 1..n
      <4> DEFINE off == as[i].off
      <4>1. bs[i].off = off
        BY <1>4, <3>2
      <4>2. off \in Nat /\ off < Len(x)
        BY <2>2, <3>2
      <4> HIDE DEF off
      <4> QED BY <1>3, <3>1, <4>1, <4>2
    <3>3. CASE i = n + 1
      BY <1>4, <3>1, <3>3
    <3> QED BY <1>6, <3>2, <3>3
  <2> QED BY <1>4, <2>1, <2>3, <2>4 DEF InOrder
<1>9. Laid(y, bs, end, n + 1, shared)
  <2>1. shared <= Len(KeyBefore(bs, n + 1)) /\ \A j \in 1..shared : a.key[j] = KeyBefore(bs, n + 1)[j]
    <3>1. CASE n = 0
      <4>1. KeyBefore(bs, n + 1) = <<>> /\ shared = 0
        BY <1>5, <3>1 DEF KeyBefore
      <4> QED BY <4>1
    <3>2. CASE n # 0
      <4>1. n \in 1..n /\ n + 1 # 1 /\ (n + 1) - 1 = n
        BY <1>4, <3>2
      <4>2. KeyBefore(bs, n + 1) = as[n].key
        BY <1>4, <4>1 DEF KeyBefore
      <4> QED BY <1>7, <4>1, <4>2 DEF n
    <3> QED BY <3>1, <3>2
  <2>2. EndOf(bs, end, n + 1) = end
    BY <1>4 DEF EndOf
  <2>3. Placed(y, Len(x), e)
    BY <1>2, PlacedBehind DEF y
  <2> QED BY <1>3, <1>4, <2>1, <2>2, <2>3 DEF Laid, e
<1>10. ASSUME NEW i \in 1..n, NEW s \in Nat, Laid(x, as, Len(x), i, s)
       PROVE  Laid(y, bs, end, i, s)
  <2>1. InOrder(as, Len(x))
    BY <1>7 DEF HoldEntries
  <2> HIDE DEF end
  <2> QED BY <1>2, <1>10, <2>1, LaidStays DEF y, bs, n
<1>11. ASSUME NEW i \in 1..(n + 1) PROVE \E s \in Nat : Laid(y, bs, end, i, s)
  <2>1. CASE i = n + 1
    BY <1>2, <1>9, <2>1
  <2>2. CASE i \in 1..n
    <3>1. PICK s \in Nat : Laid(x, as, Len(x), i, s)
      BY <1>7, <2>2 DEF HoldEntries, n
    <3> QED BY <1>10, <2>2, <3>1
  <2> QED BY <1>6, <2>1, <2>2
<1> DEFINE StartsEntry(k) == \E i \in 1..(n + 1) : k = bs[i].off /\ Laid(y, bs, end, i, 0)
<1>12. shared = 0 => StartsEntry(Len(x))
  BY <1>4, <1>9
<1>13. ASSUME as # <<>>, NEW k \in 1..r PROVE StartsEntry(rs[k])
  <2>1. PICK i \in 1..n : rs[k] = as[i].off /\ Laid(x, as, Len(x), i, 0)
    BY <1>13 DEF HoldEntries, Restarted, n
  <2>2. bs[i] = as[i] /\ i \in 1..(n + 1)
    <3>1. i \in 1..n
      BY <2>1
    <3>2. i \in 1..(n + 1)
      BY <1>4, <3>1
    <3> QED BY <1>4, <3>1, <3>2
  <2>3. Laid(y, bs, end, i, 0)
    BY <1>10, <2>1
  <2> QED BY <2>1, <2>2, <2>3
<1>14. Len(ts) >= 1 /\ ts[1] = 0 /\ \A k \in 1..Len(ts) : StartsEntry(ts[k])
  <2> HIDE DEF StartsEntry
  <2>1. CASE as = <<>>
    <3>1. Len(x) = 0 /\ Len(ts) = 1 /\ ts[1] = 0 /\ shared = 0
      BY <2>1
    <3> QED BY <1>12, <3>1
  <2>2. CASE as # <<>>
    <3>1. Len(rs) >= 1 /\ rs[1] = 0 /\ Len(rs) \in Nat
      BY <2>2, LenProperties DEF HoldEntries, Restarted
    <3>2. CASE ts = rs
      BY <1>13, <2>2, <3>1, <3>2
    <3>3. CASE ts = Append(rs, Len(x)) /\ shared = 0
      <4>1. Len(ts) = r + 1 /\ ts[r + 1] = Len(x) /\ \A k \in 1..r : ts[k] = rs[k]
        BY <1>3, <3>3, AppendProperties
      <4>2. 1 \in 1..r /\ r + 1 >= 1 /\ \A k \in 1..(r + 1) : k \in 1..r \/ k = r + 1
        BY <3>1
      <4> HIDE DEF r
      <4> QED BY <1>12, <1>13, <2>2, <3>1, <3>3, <4>1, <4>2
    <3> QED BY <2>2, <3>2, <3>3
  <2> QED BY <2>1, <2>2
<1>15. Restarted(y, bs, end, ts)
  BY <1>4, <1>14 DEF Restarted
<1> QED BY <1>4, <1>8, <1>11, <1>15 DEF HoldEntries, y, bs, e

LEMMA NewBuilding ==
    ASSUME NEW interval \in Intervals
    PROVE  Building(NewBuilder(interval), <<>>)
<1> DEFINE c == NewBuilder(interval)
<1>1. /\ c.interval = interval /\ c.buf = <<>> /\ c.alloced = Hint /\ c.last_key = <<>>
      /\ c.restarts = <<0>> /\ c.counter = 0
  BY DEF NewBuilder
<1>2. c \in Builders
  BY BlockAssumption, BuilderAssumption DEF NewBuilder, Builders, Key
<1>3. Len(<<>>) = 0 /\ <<>> \in Seq(Items) /\ 0 <= MaxEntries /\ 0 <= Hint /\ 3 * 0 = 0 /\ 0 * Longest = 0
  BY BlockAssumption, BuilderAssumption
<1> HIDE DEF c
<1> QED BY <1>1, <1>2, <1>3 DEF Building, c

LEMMA ResetBuilding ==
    ASSUME NEW c \in Builders
    PROVE  Building(Reset(c), <<>>)
<1> DEFINE d == Reset(c)
<1>1. /\ d.buf = <<>> /\ d.alloced = Hint /\ d.last_key = <<>>
      /\ d.restarts = <<0>> /\ d.counter = 0
  BY DEF Reset, Builders
<1>2. d \in Builders
  <2>1. <<>> \in Seq(Nat) /\ <<0>> \in Seq(Nat) /\ <<>> \in Key /\ FALSE \in BOOLEAN
    BY DEF Key
  <2> QED BY <2>1, BuilderAssumption DEF Reset, Builders
<1>3. Len(<<>>) = 0 /\ <<>> \in Seq(Items) /\ 0 <= MaxEntries /\ 0 <= Hint /\ 3 * 0 = 0 /\ 0 * Longest = 0
  BY BlockAssumption, BuilderAssumption
<1> HIDE DEF d
<1> QED BY <1>1, <1>2, <1>3 DEF Building, d

\* block_builder_add() keeps a block readable, and there is room for what it writes.
LEMMA AddBuilding ==
    ASSUME NEW c, NEW as, Building(c, as), Len(as) < MaxEntries,
           NEW key \in Keys, as # <<>> => Less(as[Len(as)].key, key),
           NEW val \in Seq(Nat), Len(val) \in ValueLengths
    PROVE  Building(AddEntry(c, key, val),
                    Append(as, [key |-> key, value |-> val, off |-> Len(c.buf)]))
<1> DEFINE shared == SharedWith(c, key)
           e == Entry(shared, key, val)
           d == AddEntry(c, key, val)
           a == [key |-> key, value |-> val, off |-> Len(c.buf)]
           bs == Append(as, a)
           n == Len(as)
           l == Len(c.buf)
           room == Room(Len(key) - shared, Len(val))
           ts == IF Restarting(c) THEN Append(c.restarts, l) ELSE c.restarts
<1>1. /\ c \in Builders /\ as \in Seq(Items) /\ n <= MaxEntries
      /\ c.last_key = IF as = <<>> THEN <<>> ELSE as[n].key
      /\ l <= c.alloced
      /\ 3 * n <= l /\ l <= n * Longest
      /\ as = <<>> => c.restarts = <<0>> /\ c.counter = 0
      /\ as # <<>> => Len(c.restarts) <= n /\ HoldEntries(c.buf, as, l, c.restarts)
  BY DEF Building
<1>2. /\ c.interval \in Nat \ {0} /\ c.buf \in Seq(Nat) /\ c.alloced \in Nat \ {0}
      /\ c.last_key \in Key /\ c.restarts \in Seq(Nat) /\ c.counter \in Nat
  BY <1>1 DEF Builders
<1>3. key \in Key /\ Len(val) \in Nat /\ Len(key) \in Nat /\ n \in Nat /\ l \in Nat
  <2>1. key \in Key
    BY BlockAssumption
  <2>2. Len(key) \in Nat
    BY <2>1, KeyElements
  <2> QED BY <1>1, <1>2, <2>1, <2>2, BlockAssumption, LenProperties
<1>4. /\ n < MaxEntries /\ (as # <<>> => Less(as[n].key, key))
      /\ (as = <<>>) <=> (n = 0)
  BY <1>1, EmptySeq, LenProperties
<1>5. bs \in Seq(Items) /\ Len(bs) = n + 1 /\ bs[n + 1] = a /\ a.key = key
  <2>1. a \in Items
    BY <1>3 DEF Items
  <2>2. a.key = key
    OBVIOUS
  <2> HIDE DEF a
  <2> QED BY <1>1, <1>3, <2>1, <2>2, AppendProperties
<1> HIDE DEF n
<1>6. /\ shared \in 0..Len(key) /\ shared <= Len(c.last_key)
      /\ \A j \in 1..shared : key[j] = c.last_key[j]
      /\ Restarting(c) => shared = 0
  BY <1>1, <1>3, SharedIs
<1>7. /\ d.buf = c.buf \o e /\ d.alloced = Reserve(c.alloced, l, room) /\ d.last_key = key
      /\ d.restarts = ts /\ d.interval = c.interval /\ d.finished = c.finished
      /\ d.counter = IF Restarting(c) THEN 1 ELSE c.counter + 1
  BY <1>1 DEF AddEntry, Builders
<1>8. as = <<>> => ~Restarting(c)
  BY <1>1, <1>2 DEF Restarting
<1> HIDE DEF shared
<1>9. /\ e \in Seq(Nat) /\ Len(e) \in Nat /\ room \in Nat
      /\ 3 <= Len(e) /\ Len(e) <= room /\ room <= 15 + Len(key) + Len(val)
  <2> DEFINE m == Len(key) - shared
             v == Len(val)
             h == Len(Header(shared, m, v))
  <2>1. e \in Seq(Nat) /\ Len(e) = h + m + v /\ m \in Nat /\ v \in Nat /\ shared \in Nat
    BY <1>3, <1>6, EntryTyped
  <2>2. m <= Len(key)
    BY <1>3, <1>6
  <2>3. room = 15 + m + v
    BY <1>3, <2>1 DEF Room
  <2> HIDE DEF m
  <2>4. h \in Nat /\ 3 <= h /\ h <= 15
    BY <2>1, HeaderTyped
  <2> HIDE DEF h, e, room
  <2> QED BY <1>3, <2>1, <2>2, <2>3, <2>4
<1>10. d.buf \in Seq(Nat) /\ Len(d.buf) = l + Len(e)
  <2> HIDE DEF e
  <2> QED BY <1>2, <1>7, <1>9, ConcatProperties
<1>11. d.alloced \in Nat \ {0} /\ l + room <= d.alloced
  <2>1. \A x \in Nat \ {0}, y, z \in Nat :
            Reserve(x, y, z) \in Nat \ {0} /\ y + z <= Reserve(x, y, z)
    BY ReserveFits
  <2> HIDE DEF room, l, d, e, ts
  <2>2. c.alloced \in Nat \ {0} /\ l \in Nat /\ room \in Nat
    BY <1>2, <1>3, <1>9
  <2> QED BY <1>7, <2>1, <2>2
<1>12. ts \in Seq(Nat) /\ Len(ts) <= Len(c.restarts) + 1 /\ Len(c.restarts) \in Nat
  <2>1. Append(c.restarts, l) \in Seq(Nat) /\ Len(Append(c.restarts, l)) = Len(c.restarts) + 1
    BY <1>2, <1>3, AppendProperties
  <2> QED BY <1>2, <2>1, LenProperties
<1>13. d \in Builders
  <2>1. d = [c EXCEPT !.buf = d.buf, !.alloced = d.alloced, !.last_key = d.last_key,
                      !.restarts = d.restarts, !.counter = d.counter]
    BY <1>1 DEF AddEntry, Builders
  <2>2. d.counter \in Nat
    BY <1>2, <1>7
  <2> HIDE DEF d, ts
  <2> QED BY <1>1, <1>3, <1>7, <1>10, <1>11, <1>12, <2>1, <2>2 DEF Builders
<1>14. a \in Items
  BY <1>3 DEF Items
<1>15. bs # <<>>
  <2>1. n + 1 # 0
    BY <1>3
  <2>2. Len(bs) # 0
    BY <1>5, <2>1
  <2> HIDE DEF bs
  <2> QED BY <2>2
<1>16. Len(d.buf) <= d.alloced
  <2> HIDE DEF d, e, room, l
  <2> QED BY <1>3, <1>9, <1>10, <1>11
<1>17. 3 * (n + 1) <= Len(d.buf) /\ Len(d.buf) <= (n + 1) * Longest
  <2>1. Len(e) <= Longest
    <3>1. 3 * 5 + Len(key) + Len(val) <= Longest
      BY SizeAssumption
    <3> HIDE DEF e, room
    <3> QED BY <1>3, <1>9, <3>1, BlockAssumption
  <2>2. n * Longest \in Nat /\ (n + 1) * Longest = n * Longest + Longest
    BY <1>3, BlockAssumption
  <2> DEFINE w == n * Longest
  <2> HIDE DEF w, e, d, l
  <2> QED BY <1>1, <1>3, <1>9, <1>10, <2>1, <2>2, BlockAssumption DEF w
<1>18. Len(d.restarts) <= n + 1
  <2>1. CASE as = <<>>
    <3>1. ts = <<0>> /\ Len(<<0>>) = 1
      BY <1>1, <1>8, <2>1
    <3>2. 1 <= n + 1
      BY <1>3
    <3> HIDE DEF ts, d
    <3>3. Len(d.restarts) = 1
      BY <1>7, <3>1
    <3> QED BY <3>2, <3>3
  <2>2. CASE as # <<>>
    <3> DEFINE k == Len(ts)
    <3>1. k \in Nat /\ Len(d.restarts) = k
      BY <1>7, <1>12, LenProperties
    <3>2. k <= Len(c.restarts) + 1 /\ Len(c.restarts) <= n
      BY <1>1, <1>12, <2>2
    <3> HIDE DEF k, d
    <3>3. k <= n + 1
      BY <1>3, <1>12, <3>1, <3>2
    <3> QED BY <3>1, <3>3
  <2> QED BY <2>1, <2>2
<1>19. HoldEntries(d.buf, bs, Len(d.buf), d.restarts)
  <2>1. ASSUME NEW i \in 1..n PROVE Less(as[i].key, key)
    <3>1. n \in 1..n /\ as # <<>>
      <4>1. n # 0
        BY <1>3
      <4>2. n \in 1..n
        BY <1>3, <4>1
      <4>3. as # <<>>
        BY <1>4, <4>1
      <4> QED BY <4>2, <4>3
    <3>2. Less(as[n].key, key)
      BY <1>4, <3>1
    <3>3. CASE i = n
      BY <3>2, <3>3
    <3>4. CASE i # n
      <4>1. i < n
        BY <1>3, <3>4
      <4>2. Less(as[i].key, as[n].key)
        BY <1>1, <3>1, <4>1 DEF HoldEntries, InOrder, n
      <4>3. as[i].key \in Key /\ as[n].key \in Key
        <5>1. as[i] \in Items /\ as[n] \in Items
          BY <1>1, <3>1, ElementOfSeq DEF n
        <5> QED BY <5>1, BlockAssumption DEF Items
      <4> QED BY <1>3, <3>2, <4>2, <4>3, LessTransitive
    <3> QED BY <3>3, <3>4
  <2>2. as = <<>> => shared = 0 /\ c.buf = <<>>
    <3> SUFFICES ASSUME as = <<>> PROVE shared = 0 /\ c.buf = <<>>
      OBVIOUS
    <3>1. n = 0 /\ c.last_key = <<>>
      BY <1>1, <1>4
    <3>2. Len(<<>>) = 0 /\ 0 * Longest = 0
      BY BlockAssumption
    <3>3. l = 0
      BY <1>1, <1>3, <3>1, <3>2
    <3> QED BY <1>2, <1>3, <1>6, <3>1, <3>2, <3>3, EmptySeq
  <2>3. as = <<>> => Len(ts) = 1 /\ ts[1] = 0
    <3>1. as = <<>> => ts = <<0>>
      BY <1>1, <1>8
    <3> HIDE DEF ts
    <3> QED BY <3>1
  <2>4. as # <<>> => ts = c.restarts \/ (ts = Append(c.restarts, l) /\ shared = 0)
    BY <1>6
  <2>5. as # <<>> => /\ shared <= Len(as[n].key)
                     /\ \A j \in 1..shared : a.key[j] = as[n].key[j]
    BY <1>1, <1>6, <1>5
  <2>6. a.off = l /\ a.key = key /\ a.value = val
    OBVIOUS
  <2> HIDE DEF a, ts
  <2> HIDE DEF d, e
  <2>7. HoldEntries(c.buf \o e, bs, Len(c.buf \o e), ts)
    BY <1>1, <1>2, <1>6, <1>12, <1>14, <2>1, <2>2, <2>3, <2>4, <2>5, <2>6, ContentsGrow DEF n, bs, e, l
  <2> QED BY <1>7, <2>7
<1> HIDE DEF d, bs, e, a
<1>20. n + 1 <= MaxEntries
  <2>1. n \in Nat
    BY <1>3
  <2>2. n < MaxEntries
    BY <1>4
  <2>3. MaxEntries \in Nat
    BY BlockAssumption
  <2> QED BY <2>1, <2>2, <2>3
<1>21. d.last_key = bs[n + 1].key
  BY <1>7, <1>5
<1> QED BY <1>13, <1>15, <1>16, <1>17, <1>18, <1>19, <1>20, <1>21, <1>5 DEF Building, d, bs, a

\* The finished block: the entries, as many numbers of one width as there are restart
\* points, and how many there are.
LEMMA FinishedIs ==
    ASSUME NEW c \in Builders
    PROVE  LET l == Len(c.buf)
               n == Len(c.restarts)
               w == RestartWidth(c)
               data == Finished(c)
           IN  /\ \E tail \in Seq(Nat) : data = c.buf \o tail
               /\ data \in Seq(Nat) /\ Len(data) = SizeWritten(l, n)
               /\ \A r \in 1..n : Placed(data, l + (r - 1) * w, EncodeFixed(c.restarts[r], w))
               /\ Placed(data, Len(data) - Size32, EncodeFixed(n, Size32))
<1> DEFINE buf == c.buf
           rs == c.restarts
           l == Len(buf)
           n == Len(rs)
           w == RestartWidth(c)
           pieces == [r \in DOMAIN rs |-> EncodeFixed(rs[r], w)]
           array == FlattenSeq(pieces)
           count == EncodeFixed(n, Size32)
           data == Finished(c)
<1>1. buf \in Seq(Nat) /\ rs \in Seq(Nat)
  BY DEF Builders
<1>2. l \in Nat /\ n \in Nat /\ DOMAIN rs = 1..n
  BY <1>1, LenProperties
<1>3. w \in Nat /\ Size32 \in Nat
  BY EncodingAssumption DEF RestartWidth
<1>4. SizeWritten(l, n) = l + n * w + Size32
  BY DEF SizeWritten, RestartWidth
<1>5. data = (buf \o array) \o count
  BY DEF Finished
<1>6. \A r \in 1..n : rs[r] \in Nat
  BY <1>1, ElementOfSeq
<1> HIDE DEF n, w, rs, buf, data, l
<1>7. /\ pieces \in Seq(Seq(Nat)) /\ Len(pieces) = n
      /\ \A r \in 1..n : pieces[r] = EncodeFixed(rs[r], w) /\ Len(pieces[r]) = w
  <2>1. \A r \in 1..n : EncodeFixed(rs[r], w) \in Seq(Nat) /\ Len(EncodeFixed(rs[r], w)) = w
    BY <1>3, <1>6, FixedTyped
  <2>2. pieces = [r \in 1..n |-> EncodeFixed(rs[r], w)]
    BY <1>2
  <2> HIDE DEF pieces
  <2>3. pieces \in [1..n -> Seq(Nat)]
    BY <2>1, <2>2
  <2> QED BY <1>2, <2>1, <2>2, <2>3
<1> HIDE DEF pieces
<1>8. /\ array \in Seq(Nat) /\ Len(array) = n * w
      /\ \A r \in 1..n : \A j \in 1..w : array[(r - 1) * w + j] = pieces[r][j]
  <2>1. array \in Seq(Nat)
    BY <1>7, FlattenTyped
  <2>2. Len(array) = Len(pieces) * w
        /\ \A r \in 1..Len(pieces) : \A j \in 1..w : array[(r - 1) * w + j] = pieces[r][j]
    BY <1>3, <1>7, FlattenEven
  <2> QED BY <1>7, <2>1, <2>2
<1>9. count \in Seq(Nat) /\ Len(count) = Size32
  BY <1>2, <1>3, FixedTyped
<1> HIDE DEF array, count
<1>10. buf \o array \in Seq(Nat) /\ Len(buf \o array) = l + n * w
  BY <1>1, <1>8, ConcatProperties DEF l
<1>11. data \in Seq(Nat) /\ Len(data) = (l + n * w) + Size32
  BY <1>5, <1>9, <1>10, ConcatProperties
<1>12. array \o count \in Seq(Nat) /\ data = buf \o (array \o count)
  <2>1. array \o count \in Seq(Nat)
    BY <1>8, <1>9, ConcatProperties
  <2>2. buf \in Seq(Nat) /\ array \in Seq(Nat) /\ count \in Seq(Nat)
    BY <1>1, <1>8, <1>9
  <2>3. Cat(buf, Cat(array, count)) = Cat(Cat(buf, array), count)
    BY <2>2, CatAssociative
  <2> QED BY <1>5, <2>1, <2>3 DEF Cat
<1>13. Placed(data, l + n * w, count)
  BY <1>5, <1>9, <1>10, PlacedBehind
<1> DEFINE c0 == n * w
<1>14. c0 \in Nat
  BY <1>2, <1>3
<1>15. Len(data) - Size32 = l + n * w
  <2> HIDE DEF c0
  <2>1. Len(data) = (l + c0) + Size32
    BY <1>11 DEF c0
  <2>2. Len(data) - Size32 = l + c0
    BY <1>2, <1>3, <1>14, <2>1
  <2> QED BY <2>2 DEF c0
<1>16. ASSUME NEW r \in 1..n PROVE Placed(data, l + (r - 1) * w, pieces[r])
  <2> DEFINE a == (r - 1) * w
  <2>1. a \in Nat /\ a + w <= c0
    <3>1. r - 1 \in Nat /\ n - r \in Nat /\ n = (r - 1) + 1 + (n - r)
      BY <1>2
    <3>2. (n - r) * w \in Nat /\ a \in Nat
      BY <1>3, <3>1
    <3>3. c0 = a + w + (n - r) * w
      BY <1>2, <1>3
    <3> HIDE DEF a, c0
    <3> QED BY <1>3, <3>2, <3>3
  <2>2. Placed(buf \o array, l, array)
    BY <1>1, <1>8, PlacedBehind DEF l
  <2>3. Placed(data, l, array)
    <3>1. l + Len(array) <= Len(buf \o array) /\ Len(array) \in Nat
      BY <1>2, <1>8, <1>10, <1>14
    <3> QED BY <1>2, <1>5, <1>9, <1>10, <2>2, <3>1, PlacedStays
  <2>4. \A j \in 1..w : array[a + j] = pieces[r][j]
    BY <1>8
  <2>5. Len(array) = c0 /\ Len(pieces[r]) = w
    BY <1>7, <1>8
  <2> HIDE DEF a, c0
  <2>6. ASSUME NEW j \in 1..w PROVE data[(l + a) + j] = pieces[r][j]
    <3>1. a + j \in 1..c0 /\ (l + a) + j = l + (a + j)
      BY <1>2, <1>3, <1>14, <2>1
    <3>2. data[l + (a + j)] = array[a + j]
      BY <2>3, <2>5, <3>1 DEF Placed
    <3> QED BY <2>4, <3>1, <3>2
  <2> QED BY <2>5, <2>6 DEF Placed, a
<1> QED BY <1>4, <1>7, <1>11, <1>12, <1>13, <1>15, <1>16 DEF l, n, w, rs, buf, data, count

\* block_init() opens the finished block: it is not malformed, its entries end where
\* they ended, and the restart points are read back.
LEMMA FinishedOpens ==
    ASSUME NEW c \in Builders, Len(c.restarts) <= Max32, Len(c.buf) <= Max64,
           \A r \in 1..Len(c.restarts) : c.restarts[r] <= Len(c.buf)
    PROVE  LET l == Len(c.buf)
               n == Len(c.restarts)
               data == Finished(c)
           IN  /\ BlockInit(data) = [data |-> data, size |-> Len(data), restart_offset |-> l]
               /\ CountAt(data, Len(data)) = n
               /\ \A r \in 0..(n - 1) :
                     c.restarts[r + 1] = IF l > Max32
                                         THEN DecodeFixed(data, l + r * Size64, Size64)
                                         ELSE DecodeFixed(data, l + r * Size32, Size32)
               /\ Len(data) \in Nat \ {0}
<1> DEFINE rs == c.restarts
           l == Len(c.buf)
           n == Len(rs)
           w == RestartWidth(c)
           data == Finished(c)
           size == Len(data)
<1>1. l \in Nat /\ n \in Nat /\ rs \in Seq(Nat) /\ c.buf \in Seq(Nat)
  <2>1. rs \in Seq(Nat) /\ c.buf \in Seq(Nat)
    BY DEF Builders
  <2> QED BY <2>1, LenProperties
<1>2. /\ data \in Seq(Nat) /\ size = SizeWritten(l, n)
      /\ \A r \in 1..n : Placed(data, l + (r - 1) * w, EncodeFixed(rs[r], w))
      /\ Placed(data, size - Size32, EncodeFixed(n, Size32))
  BY FinishedIs
<1>3. n <= Max32 /\ l <= Max64 /\ \A r \in 1..n : rs[r] <= l
  OBVIOUS
<1>4. w = IF l > Max32 THEN Size64 ELSE Size32
  BY DEF RestartWidth, Wide
<1> HIDE DEF rs, l, n, w, data
<1>5. /\ Size32 \in Nat \ {0} /\ Size32 \in 0..Size64 /\ Size64 \in 0..Size64
      /\ Max32 \in Nat /\ Max64 \in Nat
      /\ Power[Size32] \in Nat /\ Power[Size64] \in Nat
      /\ Max32 = Power[Size32] - 1 /\ Max64 = Power[Size64] - 1
  <2>1. Size32 \in Nat \ {0} /\ Size32 \in 0..Size64 /\ Size64 \in 0..Size64
    BY EncodingAssumption
  <2> QED BY <2>1, MaxAre, PowerIs DEF Max32, Max64
<1>6. size \in Nat /\ size >= Size32 /\ size - Size32 \in Nat
  <2> DEFINE t == n * w
  <2>1. size = l + t + Size32
    BY <1>2, <1>4 DEF SizeWritten, Wide
  <2>2. t \in Nat
    BY <1>1, <1>4, <1>5
  <2>3. l \in Nat /\ Size32 \in Nat
    BY <1>1, <1>5
  <2> HIDE DEF t, size
  <2> QED BY <2>1, <2>2, <2>3
<1>7. CountAt(data, size) = n
  <2>1. Len(EncodeFixed(n, Size32)) = Size32
    BY <1>1, <1>5, FixedTyped
  <2>2. \A i \in 1..Size32 : data[(size - Size32) + i] = EncodeFixed(n, Size32)[i]
    BY <1>2, <2>1 DEF Placed
  <2>3. n < Power[Size32]
    BY <1>1, <1>3, <1>5
  <2> HIDE DEF size
  <2>4. DecodeFixed(data, size - Size32, Size32) = n
    BY <1>1, <1>5, <1>6, <2>2, <2>3, FixedRoundTrip
  <2> QED BY <2>4 DEF CountAt
<1>8. RestartOffset(size, n) = l /\ ~Malformed(size, n)
  BY <1>1, <1>2, LayoutAgrees
<1>9. BlockInit(data) = [data |-> data, size |-> size, restart_offset |-> l]
  <2>1. ~(size < Size32)
    BY <1>5, <1>6
  <2> QED BY <1>7, <1>8, <2>1 DEF BlockInit
<1>10. ASSUME NEW r \in 0..(n - 1)
       PROVE  rs[r + 1] = IF l > Max32 THEN DecodeFixed(data, l + r * Size64, Size64)
                          ELSE DecodeFixed(data, l + r * Size32, Size32)
  <2>1. r + 1 \in 1..n /\ (r + 1) - 1 = r /\ r \in Nat
    BY <1>1
  <2>2. rs[r + 1] \in Nat
    BY <1>1, <2>1, ElementOfSeq DEF n
  <2>3. w \in 0..Size64 /\ w \in Nat
    BY <1>4, <1>5
  <2>4. rs[r + 1] < Power[w]
    <3> DEFINE k == rs[r + 1]
    <3>1. k \in Nat /\ k <= l
      BY <1>3, <2>1, <2>2
    <3> HIDE DEF k
    <3>2. l <= Max64 /\ (w = Size64 \/ (w = Size32 /\ l <= Max32))
      BY <1>1, <1>3, <1>4, <1>5
    <3>3. k < Power[w]
      BY <1>1, <1>5, <3>1, <3>2
    <3> QED BY <3>3 DEF k
  <2> DEFINE p == l + r * w
  <2>5. p \in Nat
    <3> DEFINE t == r * w
    <3>1. l \in Nat /\ r \in Nat /\ w \in Nat
      BY <1>1, <2>1, <2>3
    <3> HIDE DEF l, w
    <3>2. t \in Nat
      BY <3>1
    <3> HIDE DEF t
    <3>3. l + t \in Nat
      BY <3>1, <3>2
    <3> QED BY <3>3 DEF t
  <2>6. Placed(data, p, EncodeFixed(rs[r + 1], w))
    BY <1>2, <2>1
  <2>7. Len(EncodeFixed(rs[r + 1], w)) = w
    BY <2>2, <2>3, FixedTyped
  <2> HIDE DEF p
  <2>8. \A i \in 1..w : data[p + i] = EncodeFixed(rs[r + 1], w)[i]
    BY <2>6, <2>7 DEF Placed
  <2>9. DecodeFixed(data, p, w) = rs[r + 1]
    BY <2>2, <2>3, <2>4, <2>5, <2>8, FixedRoundTrip
  <2> QED BY <1>4, <2>9 DEF p
<1>11. size # 0
  BY <1>5, <1>6
<1> QED BY <1>6, <1>7, <1>9, <1>10, <1>11 DEF rs, l, n, data

-------------------------------------------------------------------------------
(* The invariant of a block that is being read *)

Iters == [current : Nat, next : Nat, key : Key, val : Nat, val_len : Nat, restart_index : Nat]

\* The block has the entries that were added, and restart points at some of them.
Open ==
    /\ added \in Seq(Items) /\ Len(added) >= 1
    /\ block.size = Len(block.data)
    /\ Restarts \in Nat /\ Restarts > Len(added)
    /\ NumRestarts \in Nat \ {0}
    /\ \E rs \in Seq(Nat) :
          /\ Len(rs) = NumRestarts
          /\ \A r \in 0..(NumRestarts - 1) : RestartPoint(r) = rs[r + 1]
          /\ HoldEntries(block.data, added, Restarts, rs)

\* The iterator it is on the i-th entry, or off the end.
Stands(it, i) ==
    /\ it.current = added[i].off /\ it.next = EndOf(added, Restarts, i)
    /\ Get(it) = <<added[i].key, added[i].value>>
    /\ it.restart_index \in 0..(NumRestarts - 1)

Off(it) == it.current = Restarts /\ it.restart_index = NumRestarts

IsIter(it) == it \in Iters /\ (Off(it) \/ \E i \in 1..Len(added) : Stands(it, i))

\* The next entry is the k-th one or the end, and the key before is there if it is
\* needed.
Ready(it, k) ==
    /\ it \in Iters /\ it.restart_index \in 0..(NumRestarts - 1)
    /\ it.next = IF k <= Len(added) THEN added[k].off ELSE Restarts
    /\ k <= Len(added) =>
          \/ it.key = KeyBefore(added, k)
          \/ Laid(block.data, added, Restarts, k, 0)

\* What HoldEntries says of the entries and the restart points.
LEMMA OpenEntries ==
    ASSUME Open
    PROVE  /\ Len(added) \in Nat \ {0} /\ added[1].off = 0
           /\ \A i \in 1..Len(added) : /\ added[i].key \in Key /\ added[i].key \in Keys
                                       /\ added[i].value \in Seq(Nat)
                                       /\ Len(added[i].value) \in ValueLengths
                                       /\ added[i].off \in Nat /\ added[i].off < Restarts
           /\ \A i, j \in 1..Len(added) :
                 i < j => added[i].off < added[j].off /\ Less(added[i].key, added[j].key)
           /\ \A i \in 1..Len(added) :
                 \E shared \in Nat : Laid(block.data, added, Restarts, i, shared)
<1>1. Len(added) \in Nat \ {0}
  <2>1. Len(added) \in Nat /\ Len(added) >= 1
    BY LenProperties DEF Open
  <2> QED BY <2>1
<1>2. ASSUME NEW i \in 1..Len(added)
      PROVE  /\ added[i].key \in Key /\ added[i].key \in Keys /\ added[i].value \in Seq(Nat)
             /\ Len(added[i].value) \in ValueLengths /\ added[i].off \in Nat
  <2>1. added[i] \in Items
    BY ElementOfSeq DEF Open
  <2> QED BY <2>1, BlockAssumption DEF Items
<1> QED BY <1>1, <1>2 DEF Open, HoldEntries, InOrder

LEMMA OpenRestarts ==
    ASSUME Open
    PROVE  /\ RestartPoint(0) = 0
           /\ \A r \in 0..(NumRestarts - 1) :
                 \E i \in 1..Len(added) :
                    /\ RestartPoint(r) = added[i].off
                    /\ Laid(block.data, added, Restarts, i, 0)
<1>1. PICK rs \in Seq(Nat) : /\ Len(rs) = NumRestarts
                             /\ \A r \in 0..(NumRestarts - 1) : RestartPoint(r) = rs[r + 1]
                             /\ HoldEntries(block.data, added, Restarts, rs)
  BY DEF Open
<1>2. NumRestarts \in Nat \ {0}
  BY DEF Open
<1>3. 0 \in 0..(NumRestarts - 1) /\ \A r \in 0..(NumRestarts - 1) : r + 1 \in 1..NumRestarts
  BY <1>2
<1>4. rs[1] = 0 /\ \A r \in 1..NumRestarts :
                      \E i \in 1..Len(added) :
                         rs[r] = added[i].off /\ Laid(block.data, added, Restarts, i, 0)
  BY <1>1 DEF HoldEntries, Restarted
<1>5. RestartPoint(0) = 0
  BY <1>1, <1>3, <1>4
<1>6. ASSUME NEW r \in 0..(NumRestarts - 1)
      PROVE  \E i \in 1..Len(added) :
                RestartPoint(r) = added[i].off /\ Laid(block.data, added, Restarts, i, 0)
  BY <1>1, <1>3, <1>4
<1> QED BY <1>5, <1>6

\* The bytes that are read from where x is are x.
LEMMA BytesAre ==
    ASSUME NEW x \in Seq(Nat), NEW p \in Nat, Placed(block.data, p, x)
    PROVE  Bytes(p, Len(x)) = x
<1> DEFINE n == Len(x)
           data == block.data
<1>1. n \in Nat /\ x = [j \in 1..n |-> x[j]]
  BY LenProperties
<1>2. Bytes(p, n) = [j \in 1..((p + n) - (p + 1) + 1) |-> data[j + (p + 1) - 1]]
  BY DEF Bytes
<1>3. (p + n) - (p + 1) + 1 = n /\ \A j \in 1..n : j + (p + 1) - 1 = p + j
  BY <1>1
<1>4. \A j \in 1..n : data[p + j] = x[j]
  BY DEF Placed
<1> HIDE DEF n, data
<1>5. Bytes(p, n) = [j \in 1..n |-> x[j]]
  BY <1>2, <1>3, <1>4
<1> QED BY <1>1, <1>5 DEF n

\* ubuf_clip() and ubuf_append() make the key of an entry from the key before and
\* what it does not share with it.
LEMMA KeyRebuilt ==
    ASSUME NEW key \in Key, NEW last \in Key, NEW shared \in 0..Len(key), shared <= Len(last),
           \A j \in 1..shared : key[j] = last[j]
    PROVE  SubSeq(last, 1, shared) \o Suffix(shared, key) = key
<1> DEFINE x == SubSeq(last, 1, shared)
           y == Suffix(shared, key)
           n == Len(key)
           m == n - shared
<1>1. n \in Nat /\ key = [j \in 1..n |-> key[j]]
  BY LenProperties DEF Key
<1>2. shared \in 0..Len(last) /\ shared \in Nat /\ m \in Nat /\ shared + m = n
  <2>1. Len(last) \in Nat
    BY KeyElements
  <2> QED BY <1>1, <2>1
<1>3. x \in Key /\ Len(x) = shared /\ \A j \in 1..shared : x[j] = last[j]
  BY <1>2, Clip
<1>4. Len(y) = m /\ (\A j \in 1..m : y[j] = key[shared + j]) /\ y \in Seq(Nat)
  BY SuffixIs
<1> HIDE DEF x, y, n, m
<1>5. x \in Seq(Nat)
  <2>1. Byte \subseteq Nat
    BY DEF Byte
  <2>2. x = [j \in 1..shared |-> x[j]]
    BY <1>3, LenProperties DEF Key
  <2>3. \A j \in 1..shared : x[j] \in Nat
    BY <1>3, <2>1, KeyElements
  <2>4. x \in [1..shared -> Nat]
    BY <2>2, <2>3
  <2> QED BY <1>2, <2>4
<1>6. /\ x \o y \in Seq(Nat) /\ Len(x \o y) = n
      /\ \A j \in 1..n : (x \o y)[j] = IF j <= shared THEN x[j] ELSE y[j - shared]
  <2>1. /\ x \o y \in Seq(Nat) /\ Len(x \o y) = Len(x) + Len(y)
        /\ \A j \in 1..(Len(x) + Len(y)) :
              (x \o y)[j] = IF j <= Len(x) THEN x[j] ELSE y[j - Len(x)]
    BY <1>4, <1>5, ConcatProperties
  <2>2. Len(x) + Len(y) = n
    BY <1>2, <1>3, <1>4
  <2> QED BY <1>3, <2>1, <2>2
<1>7. ASSUME NEW j \in 1..n PROVE (x \o y)[j] = key[j]
  <2>1. CASE j <= shared
    <3>1. j \in 1..shared
      BY <1>2, <2>1
    <3> QED BY <1>3, <1>6, <2>1, <3>1
  <2>2. CASE ~(j <= shared)
    <3>1. j - shared \in 1..m /\ shared + (j - shared) = j
      BY <1>1, <1>2, <2>2
    <3> QED BY <1>4, <1>6, <2>2, <3>1
  <2> QED BY <2>1, <2>2
<1>8. x \o y = [j \in 1..n |-> (x \o y)[j]]
  BY <1>6, LenProperties
<1> QED BY <1>1, <1>7, <1>8 DEF x, y

\* A bounded set of numbers has a greatest element.
LEMMA MaxIsGreatest ==
    ASSUME NEW n \in Nat, NEW T \in SUBSET (0..n), T # {}
    PROVE  Max(T) \in T /\ \A y \in T : Max(T) >= y
<1> DEFINE U == {k \in Nat : k <= n /\ n - k \in T}
<1>1. U \in SUBSET Nat /\ U # {}
  <2>1. PICK x \in T : TRUE
    OBVIOUS
  <2>2. n - x \in Nat /\ n - x <= n /\ n - (n - x) = x
    OBVIOUS
  <2> QED BY <2>2
<1>2. PICK k \in U : \A j \in U : k <= j
  BY <1>1, LeastNatural
<1>3. k \in Nat /\ n - k \in T
  BY <1>2
<1>4. ASSUME NEW y \in T PROVE n - k >= y
  <2>1. y \in 0..n
    OBVIOUS
  <2>2. n - y \in Nat /\ n - y <= n /\ n - (n - y) = y
    BY <2>1
  <2>3. n - y \in U
    BY <2>2
  <2>4. k <= n - y
    BY <1>2, <2>3
  <2> QED BY <1>3, <2>1, <2>4
<1>5. \E x \in T : \A y \in T : x >= y
  BY <1>3, <1>4
<1> QED BY <1>5 DEF Max

\* parse_next_key() steps onto the next entry.
LEMMA ParseStands ==
    ASSUME Open, NEW it, NEW k \in 1..Len(added), Ready(it, k)
    PROVE  /\ ParseNextKey(it) \in Iters
           /\ Stands(ParseNextKey(it), k)
           /\ Ready(ParseNextKey(it), k + 1)
<1> DEFINE key == added[k].key
           val == added[k].value
           c == added[k].off
           e == DecodeEntry(c)
           last == it.key
           s == ParseNextKey(it)
           n == Len(added)
           ns == Len(key)
           end == EndOf(added, Restarts, k)
           ri == it.restart_index
           T == {ri} \cup Passed(it, c)
<1>1. /\ key \in Key /\ key \in Keys /\ val \in Seq(Nat) /\ Len(val) \in ValueLengths
      /\ c \in Nat /\ c < Restarts /\ n \in Nat \ {0}
  BY OpenEntries
<1>2. it \in Iters /\ ri \in 0..(NumRestarts - 1) /\ it.next = c /\ last \in Key
  <2>1. k <= Len(added)
    BY <1>1
  <2> QED BY <2>1 DEF Ready, Iters
<1>3. PICK shared \in Nat : /\ Laid(block.data, added, Restarts, k, shared)
                            /\ shared = 0 \/ last = KeyBefore(added, k)
  <2>1. last = KeyBefore(added, k) \/ Laid(block.data, added, Restarts, k, 0)
    BY <1>1 DEF Ready
  <2>2. CASE last = KeyBefore(added, k)
    BY <2>2, OpenEntries
  <2>3. CASE Laid(block.data, added, Restarts, k, 0)
    BY <2>3
  <2> QED BY <2>1, <2>2, <2>3
<1>4. /\ shared \in 0..ns
      /\ Placed(block.data, c, Entry(shared, key, val))
      /\ end = c + Len(Entry(shared, key, val))
  BY <1>3 DEF Laid
<1>5. shared <= Len(last) /\ (\A j \in 1..shared : key[j] = last[j]) /\ Len(last) \in Nat
  <2>1. Len(last) \in Nat
    BY <1>2, KeyElements
  <2>2. CASE shared = 0
    BY <2>1, <2>2
  <2>3. CASE last = KeyBefore(added, k)
    BY <1>3, <2>1, <2>3 DEF Laid
  <2> QED BY <1>3, <2>2, <2>3
<1>6. ns <= VarintMax /\ Len(val) <= VarintMax
  BY <1>1, SizeAssumption
<1> HIDE DEF c, key, val, last, end
<1>7. /\ e.shared = shared /\ e.non_shared = ns - shared /\ e.val_len = Len(val)
      /\ e.key + e.non_shared + e.val_len = end
      /\ Placed(block.data, e.key, Suffix(shared, key))
      /\ Placed(block.data, e.key + e.non_shared, val)
      /\ e.key \in Nat /\ e.non_shared \in Nat /\ e.val_len \in Nat
  BY <1>1, <1>4, <1>6, DecodeIs
<1> HIDE DEF e, ns
<1>8. ~AtEnd(it.next)
  <2>1. Restarts \in Nat
    BY DEF Open
  <2> HIDE DEF n
  <2> QED BY <1>1, <1>2, <2>1 DEF AtEnd
<1>9. /\ s.current = c /\ s.next = end
      /\ s.key = SubSeq(last, 1, Min({e.shared, Len(last)})) \o Bytes(e.key, e.non_shared)
      /\ s.val = e.key + e.non_shared /\ s.val_len = e.val_len
      /\ s.restart_index = Max(T)
      /\ s = [current |-> s.current, next |-> s.next, key |-> s.key, val |-> s.val,
              val_len |-> s.val_len, restart_index |-> s.restart_index]
  BY <1>2, <1>7, <1>8 DEF ParseNextKey, e, last
<1> HIDE DEF s
<1>10. Min({e.shared, Len(last)}) = shared
  <2>1. {shared, Len(last)} \in SUBSET Nat /\ shared \in {shared, Len(last)}
    BY <1>5
  <2>2. /\ Min({shared, Len(last)}) \in {shared, Len(last)}
        /\ \A y \in {shared, Len(last)} : Min({shared, Len(last)}) <= y
    BY <2>1, MinIsLeast
  <2>3. Min({shared, Len(last)}) = shared
    BY <1>5, <2>2
  <2> QED BY <1>7, <2>3
<1>11. s.key = key
  <2>1. Suffix(shared, key) \in Seq(Nat) /\ Len(Suffix(shared, key)) = ns - shared
    BY <1>1, <1>4, SuffixIs DEF ns
  <2>2. Bytes(e.key, e.non_shared) = Suffix(shared, key)
    BY <1>7, <2>1, BytesAre
  <2>3. SubSeq(last, 1, shared) \o Suffix(shared, key) = key
    BY <1>1, <1>2, <1>4, <1>5, KeyRebuilt DEF ns
  <2> QED BY <1>9, <1>10, <2>2, <2>3
<1>12. Bytes(s.val, s.val_len) = val
  <2>1. e.key + e.non_shared \in Nat
    BY <1>7
  <2>2. Bytes(e.key + e.non_shared, Len(val)) = val
    BY <1>1, <1>7, <2>1, BytesAre
  <2> QED BY <1>7, <1>9, <2>2
<1>13. Get(s) = <<key, val>>
  BY <1>11, <1>12 DEF Get
<1>14. s.restart_index \in 0..(NumRestarts - 1)
  <2>1. NumRestarts - 1 \in Nat
    BY DEF Open
  <2>2. T \in SUBSET (0..(NumRestarts - 1)) /\ T # {}
    <3>1. \A r \in ri..(NumRestarts - 1) : r \in 0..(NumRestarts - 1)
      BY <1>2, <2>1
    <3>2. Passed(it, c) \subseteq ri..(NumRestarts - 1)
      BY DEF Passed
    <3> HIDE DEF ri
    <3> QED BY <1>2, <3>1, <3>2
  <2>3. Max(T) \in T
    <3> HIDE DEF T
    <3> QED BY <2>1, <2>2, MaxIsGreatest
  <2> HIDE DEF T
  <2> QED BY <1>9, <2>2, <2>3
<1>15. end \in Nat /\ s.current \in Nat
  <2> DEFINE l == Len(Entry(shared, key, val))
  <2>1. l \in Nat
    <3>1. Entry(shared, key, val) \in Seq(Nat)
      BY <1>1, <1>4, EntryTyped DEF ns
    <3> QED BY <3>1, LenProperties
  <2> HIDE DEF l
  <2> QED BY <1>1, <1>4, <1>9, <2>1 DEF l
<1>16. s \in Iters
  <2>1. s.restart_index \in Nat
    BY <1>14
  <2>2. s.val \in Nat /\ s.val_len \in Nat
    BY <1>7, <1>9
  <2> QED BY <1>1, <1>9, <1>11, <1>15, <2>1, <2>2 DEF Iters
<1>17. Stands(s, k)
  BY <1>9, <1>13, <1>14 DEF Stands, key, val, c, end
<1>18. Ready(s, k + 1)
  <2>1. end = IF k + 1 <= n THEN added[k + 1].off ELSE Restarts
    <3>1. k < n <=> k + 1 <= n
      BY <1>1
    <3>2. end = IF k < n THEN added[k + 1].off ELSE Restarts
      BY DEF EndOf, end
    <3> HIDE DEF n
    <3> QED BY <3>1, <3>2
  <2>2. s.key = KeyBefore(added, k + 1)
    <3>1. k + 1 # 1 /\ (k + 1) - 1 = k
      BY <1>1
    <3> QED BY <1>11, <3>1 DEF KeyBefore, key
  <2> QED BY <1>9, <1>14, <1>16, <2>1, <2>2 DEF Ready
<1> QED BY <1>16, <1>17, <1>18 DEF s

\* Behind the last entry it goes off the end, and stays there.
LEMMA ParseOff ==
    ASSUME Open, NEW it \in Iters, it.next = Restarts
    PROVE  ParseNextKey(it) \in Iters /\ Off(ParseNextKey(it)) /\ ParseNextKey(it).next = Restarts
<1>1. Restarts \in Nat /\ NumRestarts \in Nat
  BY DEF Open
<1>2. AtEnd(it.next)
  BY <1>1 DEF AtEnd
<1>3. ParseNextKey(it) = [it EXCEPT !.current = Restarts, !.restart_index = NumRestarts]
  BY <1>2 DEF ParseNextKey
<1> HIDE DEF Restarts
<1> QED BY <1>1, <1>3 DEF Iters, Off

\* Where parse_next_key() has come after so many calls: at the entries one by one,
\* then off the end.
LEMMA ParsedStands ==
    ASSUME Open, NEW it, NEW k \in 1..(Len(added) + 1), Ready(it, k)
    PROVE  LET n == Len(added) IN
           /\ n - k + 2 \in 1..Restarts
           /\ \A j \in 1..(n - k + 1) : /\ Parsed(it)[j] \in Iters
                                        /\ Stands(Parsed(it)[j], k + j - 1)
           /\ Parsed(it)[n - k + 2] \in Iters /\ Off(Parsed(it)[n - k + 2])
<1> DEFINE n == Len(added)
           R == Restarts
           A == {x \in Iters : x.next = R \/ \E i \in 1..(n + 1) : Ready(x, i)}
           step == [q \in (1..R) \X A |-> ParseNextKey(q[2])]
           Is(f) == f = [i \in 0..R |-> IF i = 0 THEN it ELSE ParseNextKey(f[i - 1])]
           Walk == CHOOSE f : Is(f)
<1>1. n \in Nat \ {0} /\ R \in Nat /\ R > n
  BY OpenEntries DEF Open
<1> HIDE DEF n, R
<1>2. ASSUME NEW x \in Iters, NEW i \in 1..(n + 1), Ready(x, i), i # n + 1
      PROVE  /\ ParseNextKey(x) \in Iters /\ Stands(ParseNextKey(x), i)
             /\ Ready(ParseNextKey(x), i + 1) /\ i + 1 \in 1..(n + 1)
  <2>1. i \in 1..n /\ i + 1 \in 1..(n + 1)
    BY <1>1, <1>2
  <2> QED BY <1>2, <2>1, ParseStands DEF n
<1>3. ASSUME NEW x \in Iters, Ready(x, n + 1) PROVE x.next = R
  <2>1. ~(n + 1 <= n)
    BY <1>1
  <2> QED BY <1>3, <2>1 DEF Ready, n, R
<1>4. ASSUME NEW x \in Iters, x.next = R
      PROVE  ParseNextKey(x) \in Iters /\ Off(ParseNextKey(x)) /\ ParseNextKey(x).next = R
  BY <1>4, ParseOff DEF R
<1>5. it \in A
  BY DEF Ready, n
<1>6. step \in [(1..R) \X A -> A]
  <2>1. ASSUME NEW x \in A PROVE ParseNextKey(x) \in A
    <3>1. CASE x.next = R
      BY <1>4, <3>1
    <3>2. CASE x.next # R
      <4>1. PICK i \in 1..(n + 1) : Ready(x, i)
        BY <3>2
      <4>2. i # n + 1
        BY <1>3, <3>2, <4>1
      <4> QED BY <1>2, <4>1, <4>2
    <3> QED BY <3>1, <3>2
  <2> HIDE DEF A
  <2> QED BY <2>1
<1>7. PICK g : IsSteps(g, it, R, step) /\ g \in [0..R -> A]
  <2> HIDE DEF step, A
  <2> QED BY <1>1, <1>5, <1>6, StepsOn
<1>8. Is(g)
  <2>1. ASSUME NEW i \in 0..R PROVE g[i] = IF i = 0 THEN it ELSE ParseNextKey(g[i - 1])
    <3>1. i = 0 \/ (i \in 1..R /\ i - 1 \in 0..R)
      BY <1>1
    <3>2. i # 0 => g[i - 1] \in A
      <4> HIDE DEF A
      <4> QED BY <1>7, <3>1
    <3> HIDE DEF A
    <3> QED BY <1>7, <3>1, <3>2 DEF IsSteps
  <2> QED BY <1>7, <2>1
<1>9. Is(Walk)
  <2> HIDE DEF Is
  <2> QED BY <1>8
<1>10. Parsed(it) = Walk
  BY DEF Parsed, R
<1> HIDE DEF Walk, A, step
<1>11. \A i \in 0..R : Walk[i] = IF i = 0 THEN it ELSE ParseNextKey(Walk[i - 1])
  BY <1>9
<1> HIDE DEF Is
<1> DEFINE m == n - k + 1
           S == {j \in Nat : j <= m => /\ Walk[j] \in Iters /\ Ready(Walk[j], k + j)
                                       /\ j # 0 => Stands(Walk[j], k + j - 1)}
<1>12. m \in Nat /\ m <= n /\ k + m = n + 1 /\ m + 1 \in 1..R /\ k \in Nat /\ k >= 1
  BY <1>1 DEF n
<1>13. k + 0 = k /\ 0 \in 0..R
  BY <1>1, <1>12
<1>14. 0 \in S
  BY <1>11, <1>13 DEF Ready
<1>15. ASSUME NEW j \in Nat, j \in S PROVE j + 1 \in S
  <2> SUFFICES ASSUME j + 1 <= m
               PROVE  /\ Walk[j + 1] \in Iters /\ Ready(Walk[j + 1], k + (j + 1))
                      /\ Stands(Walk[j + 1], k + (j + 1) - 1)
    OBVIOUS
  <2> HIDE DEF m
  <2>1. /\ j <= m /\ j + 1 \in 0..R /\ j + 1 # 0 /\ (j + 1) - 1 = j
        /\ k + j \in 1..(n + 1) /\ k + j # n + 1
        /\ k + (j + 1) = (k + j) + 1 /\ k + (j + 1) - 1 = k + j
    BY <1>1, <1>12
  <2>2. Walk[j] \in Iters /\ Ready(Walk[j], k + j)
    BY <1>15, <2>1
  <2>3. Walk[j + 1] = ParseNextKey(Walk[j])
    BY <1>11, <2>1
  <2> QED BY <1>2, <2>1, <2>2, <2>3
<1>16. \A j \in Nat : j \in S
  <2> HIDE DEF S
  <2> QED BY <1>14, <1>15, Induction
<1>17. ASSUME NEW j \in 1..m PROVE Walk[j] \in Iters /\ Stands(Walk[j], k + j - 1)
  <2>1. j \in Nat /\ j <= m /\ j # 0
    BY <1>12
  <2> QED BY <1>16, <2>1
<1>18. Walk[m + 1] \in Iters /\ Off(Walk[m + 1])
  <2>1. m <= m /\ m \in Nat
    BY <1>12
  <2>2. Walk[m] \in Iters /\ Ready(Walk[m], k + m)
    BY <1>16, <2>1
  <2> HIDE DEF m
  <2>3. Walk[m].next = R
    BY <1>3, <1>12, <2>2
  <2>4. m + 1 \in 0..R /\ m + 1 # 0 /\ (m + 1) - 1 = m
    BY <1>12
  <2>5. Walk[m + 1] = ParseNextKey(Walk[m])
    BY <1>11, <2>4
  <2> QED BY <1>4, <2>2, <2>3, <2>5
<1>19. n - k + 2 = m + 1
  BY <1>1, <1>12
<1> QED BY <1>10, <1>12, <1>17, <1>18, <1>19 DEF n, R

\* A search from the front finds the first place in T.
LEMMA FirstPlace ==
    ASSUME NEW n \in Nat, NEW T \in SUBSET (1..n), T # {}
    PROVE  \E i \in T : \A j \in 1..(i - 1) : j \notin T
<1>1. T \subseteq Nat
  OBVIOUS
<1>2. PICK i \in T : \A y \in T : i <= y
  BY <1>1, LeastNatural
<1>3. ASSUME NEW j \in 1..(i - 1) PROVE j \notin T
  <2>1. i \in Nat
    BY <1>1
  <2>2. ~(i <= j)
    BY <2>1
  <2> QED BY <1>2, <2>2
<1> QED BY <1>3

\* Scanning from the k-th entry on ends at the first that is not below the target,
\* or off the end.
LEMMA ScanIs ==
    ASSUME Open, NEW it, NEW k \in 1..(Len(added) + 1), Ready(it, k), NEW t
    PROVE  LET s == Scan(it, t)
               n == Len(added)
           IN  /\ s \in Iters
               /\ \/ Off(s) /\ \A i \in k..n : Less(added[i].key, t)
                  \/ \E i \in k..n : /\ Stands(s, i) /\ ~Less(added[i].key, t)
                                     /\ \A j \in k..(i - 1) : Less(added[j].key, t)
<1> DEFINE n == Len(added)
           R == Restarts
           W == Parsed(it)
           m == n - k + 1
           Found(i) == ~Valid(W[i]) \/ ~Less(W[i].key, t)
           T == {i \in 1..R : Found(i)}
           First(i) == i \in 1..R /\ Found(i) /\ \A j \in 1..(i - 1) : ~Found(j)
           w == CHOOSE i \in 1..R : Found(i) /\ \A j \in 1..(i - 1) : ~Found(j)
<1>1. n \in Nat \ {0} /\ R \in Nat /\ R > n
  BY OpenEntries DEF Open
<1>2. n - k + 2 = m + 1 /\ m \in Nat /\ k \in Nat /\ k >= 1 /\ k + m = n + 1
  BY <1>1
<1>3. /\ m + 1 \in 1..R
      /\ \A j \in 1..m : W[j] \in Iters /\ Stands(W[j], k + j - 1)
      /\ W[m + 1] \in Iters /\ Off(W[m + 1])
  BY <1>2, ParsedStands
<1>4. Scan(it, t) = W[w]
  BY DEF Scan, AtTarget
<1> HIDE DEF W, R, n, m
<1>5. ASSUME NEW j \in 1..m
      PROVE  /\ k + j - 1 \in k..n /\ k + j - 1 \in 1..n
             /\ Found(j) <=> ~Less(added[k + j - 1].key, t)
  <2> DEFINE i == k + j - 1
  <2>1. i \in k..n /\ i \in 1..n
    BY <1>1, <1>2
  <2> HIDE DEF i
  <2>2. W[j].current = added[i].off /\ W[j].key = added[i].key
    BY <1>3 DEF Stands, Get, i
  <2>3. added[i].off < Restarts
    BY <2>1, OpenEntries DEF n
  <2> QED BY <2>1, <2>2, <2>3 DEF Valid, i
<1>6. Found(m + 1)
  BY <1>1, <1>3 DEF Off, Valid, R
<1>7. \E i \in 1..R : Found(i) /\ \A j \in 1..(i - 1) : ~Found(j)
  <2>1. T \in SUBSET (1..R) /\ T # {}
    BY <1>3, <1>6
  <2>2. PICK i \in T : \A j \in 1..(i - 1) : j \notin T
    <3> HIDE DEF T
    <3> QED BY <1>1, <2>1, FirstPlace
  <2>3. i \in 1..R /\ Found(i)
    BY <2>2
  <2>4. \A j \in 1..(i - 1) : j \in 1..R
    BY <1>1, <2>3
  <2> HIDE DEF Found
  <2> QED BY <2>2, <2>3, <2>4
<1>8. w \in 1..R /\ Found(w) /\ \A j \in 1..(w - 1) : ~Found(j)
  <2> HIDE DEF Found
  <2> QED BY <1>7
<1> HIDE DEF w, Found
<1>9. w <= m + 1
  <2>1. ~(m + 1 \in 1..(w - 1))
    BY <1>6, <1>8
  <2> QED BY <1>1, <1>2, <1>3, <1>8, <2>1
<1>10. CASE w = m + 1
  <2>1. ASSUME NEW i \in k..n PROVE Less(added[i].key, t)
    <3> DEFINE j == i - k + 1
    <3>1. j \in 1..m /\ j \in 1..(w - 1) /\ k + j - 1 = i
      BY <1>1, <1>2, <1>10
    <3> HIDE DEF j
    <3> QED BY <1>5, <1>8, <3>1
  <2> QED BY <1>3, <1>4, <1>10, <2>1 DEF n
<1>11. CASE w # m + 1
  <2>1. w \in 1..m
    BY <1>1, <1>2, <1>8, <1>9, <1>11
  <2> DEFINE i == k + w - 1
  <2>2. i \in k..n /\ ~Less(added[i].key, t) /\ Stands(W[w], i) /\ W[w] \in Iters
    BY <1>3, <1>5, <1>8, <2>1
  <2>3. ASSUME NEW j \in k..(i - 1) PROVE Less(added[j].key, t)
    <3> DEFINE h == j - k + 1
    <3>1. h \in 1..m /\ h \in 1..(w - 1) /\ k + h - 1 = j
      BY <1>1, <1>2, <2>1
    <3> HIDE DEF h
    <3> QED BY <1>5, <1>8, <3>1
  <2> HIDE DEF i
  <2> QED BY <1>4, <2>2, <2>3 DEF n
<1> QED BY <1>10, <1>11

\* Scanning from the k-th entry up to the end of the i-th comes to the i-th.
LEMMA ScanUpToIs ==
    ASSUME Open, NEW k \in 1..Len(added), NEW i \in k..Len(added), NEW it, Ready(it, k),
           NEW limit, limit = EndOf(added, Restarts, i)
    PROVE  ScanUpTo(it, limit) \in Iters /\ Stands(ScanUpTo(it, limit), i)
<1> DEFINE n == Len(added)
           R == Restarts
           W == Parsed(it)
           m == n - k + 1
           h == i - k + 1
           Found(j) == ~Valid(W[j]) \/ W[j].next >= limit
           w == CHOOSE a \in 1..R : Found(a) /\ \A j \in 1..(a - 1) : ~Found(j)
<1>1. n \in Nat \ {0} /\ R \in Nat /\ R > n /\ k \in 1..(n + 1)
  BY OpenEntries DEF Open
<1>2. /\ n - k + 2 = m + 1 /\ m \in Nat /\ k \in Nat /\ k >= 1
      /\ i \in 1..n /\ h \in 1..m /\ k + h - 1 = i
  BY <1>1
<1>3. m + 1 \in 1..R /\ \A j \in 1..m : W[j] \in Iters /\ Stands(W[j], k + j - 1)
  BY <1>1, <1>2, ParsedStands
<1>4. ScanUpTo(it, limit) = W[w]
  BY DEF ScanUpTo, AtLimit
<1>5. \A j \in 1..n : added[j].off \in Nat /\ added[j].off < R
  BY OpenEntries
<1>6. \A a, j \in 1..n : a < j => added[a].off < added[j].off
  BY OpenEntries
<1> HIDE DEF W, R, n, m, h
<1>7. Found(h)
  <2>1. W[h].next = limit /\ limit \in Nat
    <3>1. W[h].next = EndOf(added, R, i)
      BY <1>2, <1>3 DEF Stands, R
    <3>2. limit = IF i < n THEN added[i + 1].off ELSE R
      BY DEF EndOf, n, R
    <3>3. i < n => i + 1 \in 1..n
      BY <1>1, <1>2
    <3>4. limit \in Nat
      BY <1>1, <1>5, <3>2, <3>3
    <3> QED BY <3>1, <3>4 DEF R
  <2> QED BY <2>1
<1>8. ASSUME NEW j \in 1..(h - 1) PROVE ~Found(j)
  <2> DEFINE a == k + j - 1
  <2>1. j \in 1..m /\ a \in 1..n /\ a + 1 \in 1..n /\ a < n /\ a + 1 <= i
    BY <1>1, <1>2
  <2>2. W[j].current = added[a].off /\ W[j].next = EndOf(added, R, a)
    BY <1>3, <2>1 DEF Stands, R
  <2> HIDE DEF a
  <2>3. W[j].next = added[a + 1].off
    BY <2>1, <2>2 DEF EndOf, n
  <2>4. added[a + 1].off < limit /\ limit \in Nat
    <3>1. limit = IF i < n THEN added[i + 1].off ELSE R
      BY DEF EndOf, n, R
    <3>2. CASE i < n
      <4>1. i + 1 \in 1..n /\ a + 1 < i + 1
        BY <1>1, <1>2, <2>1, <3>2
      <4> QED BY <1>5, <1>6, <2>1, <3>1, <3>2, <4>1
    <3>3. CASE ~(i < n)
      BY <1>1, <1>5, <2>1, <3>1, <3>3
    <3> QED BY <3>2, <3>3
  <2>5. added[a].off < R /\ added[a + 1].off \in Nat
    BY <1>5, <2>1
  <2>6. Valid(W[j])
    BY <2>2, <2>5 DEF Valid, R
  <2> DEFINE p == added[a + 1].off
  <2>7. p \in Nat /\ p < limit /\ W[j].next = p
    BY <2>3, <2>4, <2>5
  <2> HIDE DEF p
  <2>8. ~(W[j].next >= limit)
    BY <2>4, <2>7
  <2> QED BY <2>6, <2>8
<1> HIDE DEF Found
<1>9. w = h
  <2>1. h \in 1..R
    BY <1>1, <1>2, <1>3
  <2>2. \E a \in 1..R : Found(a) /\ \A j \in 1..(a - 1) : ~Found(j)
    BY <1>7, <1>8, <2>1
  <2>3. w \in 1..R /\ Found(w) /\ \A j \in 1..(w - 1) : ~Found(j)
    BY <2>2
  <2> HIDE DEF w
  <2>4. ~(w \in 1..(h - 1)) /\ ~(h \in 1..(w - 1))
    BY <1>7, <1>8, <2>3
  <2> QED BY <1>1, <2>1, <2>3, <2>4
<1> QED BY <1>2, <1>3, <1>4, <1>9

\* seek_to_restart_point() makes ready for the entry at the restart point.
LEMMA RestartReady ==
    ASSUME Open, NEW it \in Iters, NEW r \in 0..(NumRestarts - 1)
    PROVE  \E k \in 1..Len(added) :
              /\ RestartPoint(r) = added[k].off /\ Ready(SeekToRestart(it, r), k)
              /\ Laid(block.data, added, Restarts, k, 0)
<1>1. PICK k \in 1..Len(added) : /\ RestartPoint(r) = added[k].off
                                 /\ Laid(block.data, added, Restarts, k, 0)
  BY OpenRestarts
<1> DEFINE s == SeekToRestart(it, r)
<1>2. s = [it EXCEPT !.key = <<>>, !.restart_index = r, !.next = RestartPoint(r)]
  BY DEF SeekToRestart
<1>3. <<>> \in Key /\ RestartPoint(r) \in Nat /\ r \in Nat /\ k <= Len(added)
  <2>1. added[k].off \in Nat /\ Len(added) \in Nat
    BY <1>1, OpenEntries
  <2>2. NumRestarts \in Nat
    BY DEF Open
  <2> QED BY <1>1, <2>1, <2>2 DEF Key
<1>4. s \in Iters /\ s.restart_index = r /\ s.next = RestartPoint(r)
  BY <1>2, <1>3 DEF Iters
<1> HIDE DEF s
<1>5. Ready(s, k)
  BY <1>1, <1>3, <1>4 DEF Ready
<1> QED BY <1>1, <1>5 DEF s

\* What compare_restart_point() compares is the whole key of an entry.
LEMMA BeforeIs ==
    ASSUME Open, NEW r \in 0..(NumRestarts - 1), NEW t,
           NEW k \in 1..Len(added), RestartPoint(r) = added[k].off,
           Laid(block.data, added, Restarts, k, 0)
    PROVE  Before(r, t) <=> Less(added[k].key, t)
<1> DEFINE key == added[k].key
           val == added[k].value
           c == added[k].off
           e == DecodeEntry(c)
<1>1. /\ key \in Key /\ key \in Keys /\ val \in Seq(Nat) /\ Len(val) \in ValueLengths
      /\ c \in Nat /\ c < Restarts
  BY OpenEntries
<1>2. 0 \in 0..Len(key) /\ Placed(block.data, c, Entry(0, key, val))
  BY DEF Laid
<1>3. Len(key) <= VarintMax /\ Len(val) <= VarintMax
  BY <1>1, SizeAssumption
<1> HIDE DEF c, key, val
<1>4. /\ e.non_shared = Len(key) - 0 /\ e.key \in Nat
      /\ Placed(block.data, e.key, Suffix(0, key))
  BY <1>1, <1>2, <1>3, DecodeIs
<1> HIDE DEF e
<1>5. Suffix(0, key) \in Seq(Nat) /\ Len(Suffix(0, key)) = Len(key) - 0
  BY <1>1, <1>2, SuffixIs
<1>6. Bytes(e.key, e.non_shared) = Suffix(0, key)
  BY <1>4, <1>5, BytesAre
<1>7. Suffix(0, key) = key
  <2>1. SubSeq(key, 1, 0) \o Suffix(0, key) = key
    <3>1. 0 <= Len(key) /\ \A j \in 1..0 : key[j] = key[j]
      BY <1>2
    <3> QED BY <1>1, <1>2, <3>1, KeyRebuilt
  <2>2. SubSeq(key, 1, 0) = <<>>
    BY <1>1 DEF Key
  <2> QED BY <1>5, <2>1, <2>2
<1> QED BY <1>6, <1>7 DEF Before, c, e, key

\* Galloping from restart point i yields a range of restart points, with the target not
\* before its left end unless that is the first one.
LEMMA GallopIs ==
    ASSUME Open, NEW i \in 0..(NumRestarts - 1), NEW t
    PROVE  LET g == Gallop(i, t) IN
           /\ g[1] \in 0..(NumRestarts - 1) /\ g[2] \in 0..(NumRestarts - 1)
           /\ g[1] = 0 \/ Before(g[1], t)
<1> DEFINE N == NumRestarts
           X == [left : Nat, right : Nat, incr : Nat \ {0}]
           Stop == {p \in X : ~Before(p.right, t) \/ p.right + p.incr > N - 1}
           turn == [p \in X |-> [left |-> p.right, right |-> p.right + p.incr,
                                 incr |-> 2 * p.incr]]
           size == [p \in X |-> IF p.right < N THEN N - p.right ELSE 0]
           res == [p \in X |-> IF ~Before(p.right, t) THEN <<p.left, p.right>>
                               ELSE <<p.right, N - 1>>]
           P == {p \in X : /\ p.left < N /\ p.right < N
                           /\ p.left = 0 \/ Before(p.left, t)}
           Is(f) == f = [p \in X |->
                           IF ~Before(p.right, t) THEN <<p.left, p.right>>
                           ELSE IF p.right + p.incr > N - 1 THEN <<p.right, N - 1>>
                           ELSE f[[left |-> p.right, right |-> p.right + p.incr,
                                   incr |-> 2 * p.incr]]]
           Reach == CHOOSE f : Is(f)
           first == [left |-> 0, right |-> i, incr |-> 1]
<1>1. N \in Nat \ {0}
  BY DEF Open
<1>2. Gallop(i, t) = Reach[first]
  BY DEF Gallop, PastEnd
<1> HIDE DEF N
<1>3. ASSUME NEW p \in X
      PROVE  /\ p.left \in Nat /\ p.right \in Nat /\ p.incr \in Nat \ {0}
             /\ p.right + p.incr \in Nat /\ 2 * p.incr \in Nat \ {0}
             /\ turn[p] \in X /\ turn[p].left = p.right /\ turn[p].right = p.right + p.incr
             /\ turn[p] = [left |-> p.right, right |-> p.right + p.incr, incr |-> 2 * p.incr]
             /\ size[p] = IF p.right < N THEN N - p.right ELSE 0
             /\ res[p] = IF ~Before(p.right, t) THEN <<p.left, p.right>> ELSE <<p.right, N - 1>>
             /\ p \in Stop <=> ~Before(p.right, t) \/ p.right + p.incr > N - 1
             /\ p \in P <=> /\ p.left < N /\ p.right < N
                            /\ p.left = 0 \/ Before(p.left, t)
  <2>1. p.left \in Nat /\ p.right \in Nat /\ p.incr \in Nat \ {0}
    OBVIOUS
  <2>2. p.right + p.incr \in Nat /\ 2 * p.incr \in Nat \ {0}
    BY <2>1
  <2>3. turn[p] = [left |-> p.right, right |-> p.right + p.incr, incr |-> 2 * p.incr]
    OBVIOUS
  <2>4. turn[p] \in X /\ turn[p].left = p.right /\ turn[p].right = p.right + p.incr
    <3> HIDE DEF turn
    <3> QED BY <2>1, <2>2, <2>3
  <2>5. /\ size[p] = IF p.right < N THEN N - p.right ELSE 0
        /\ res[p] = IF ~Before(p.right, t) THEN <<p.left, p.right>> ELSE <<p.right, N - 1>>
    OBVIOUS
  <2>6. p \in Stop <=> ~Before(p.right, t) \/ p.right + p.incr > N - 1
    OBVIOUS
  <2>7. p \in P <=> /\ p.left < N /\ p.right < N
                    /\ p.left = 0 \/ Before(p.left, t)
    OBVIOUS
  <2> HIDE DEF X, turn, size, res, Stop, P
  <2> QED BY <2>1, <2>2, <2>3, <2>4, <2>5, <2>6, <2>7
<1>4. /\ DOMAIN turn = X /\ DOMAIN size = X /\ DOMAIN res = X
      /\ turn = [p \in X |-> turn[p]] /\ size = [p \in X |-> size[p]]
      /\ res = [p \in X |-> res[p]] /\ P \in SUBSET X
  OBVIOUS
<1>5. first \in X /\ first.left = 0 /\ first.right = i
  BY <1>1 DEF N
<1> HIDE DEF X, Stop, turn, size, res, P, first
<1>6. Shrinks(X, Stop, turn, size)
  <2>1. turn \in [X -> X]
    BY <1>3, <1>4
  <2>2. ASSUME NEW p \in X PROVE size[p] \in Nat
    <3>1. p.right \in Nat /\ size[p] = IF p.right < N THEN N - p.right ELSE 0
      BY <1>3
    <3> QED BY <1>1, <3>1
  <2>3. size \in [X -> Nat]
    BY <1>4, <2>2
  <2>4. ASSUME NEW p \in X, p \notin Stop PROVE size[turn[p]] < size[p]
    <3>1. p.right + p.incr <= N - 1 /\ p.right \in Nat /\ p.incr \in Nat \ {0}
      <4>1. p.right \in Nat /\ p.incr \in Nat \ {0} /\ ~(p.right + p.incr > N - 1)
        BY <1>3, <2>4
      <4> QED BY <1>1, <4>1
    <3>2. size[turn[p]] = IF p.right + p.incr < N THEN N - (p.right + p.incr) ELSE 0
      BY <1>3
    <3>3. size[p] = IF p.right < N THEN N - p.right ELSE 0
      BY <1>3
    <3> QED BY <1>1, <3>1, <3>2, <3>3
  <2> QED BY <2>1, <2>3, <2>4 DEF Shrinks
<1>7. res \in [X -> {res[p] : p \in X}]
  BY <1>4
<1>8. ASSUME NEW p \in P, p \notin Stop PROVE turn[p] \in P
  <2>1. p \in X
    BY <1>4
  <2>2. Before(p.right, t) /\ p.right + p.incr < N /\ p.right < N
    <3>1. Before(p.right, t) /\ ~(p.right + p.incr > N - 1)
      BY <1>3, <1>8, <2>1
    <3>2. p.right \in Nat /\ p.incr \in Nat \ {0}
      BY <1>3, <2>1
    <3> QED BY <1>1, <3>1, <3>2
  <2>3. turn[p] \in X /\ turn[p].left = p.right /\ turn[p].right = p.right + p.incr
    BY <1>3, <2>1
  <2> QED BY <1>3, <2>2, <2>3
<1>9. ASSUME NEW f, NEW p \in X
      PROVE  (IF p \in Stop THEN res[p] ELSE f[turn[p]])
                = IF ~Before(p.right, t) THEN <<p.left, p.right>>
                  ELSE IF p.right + p.incr > N - 1 THEN <<p.right, N - 1>>
                  ELSE f[[left |-> p.right, right |-> p.right + p.incr, incr |-> 2 * p.incr]]
  BY <1>3
<1>10. \E f : Is(f)
  <2>1. PICK f \in [X -> {res[p] : p \in X}] : IsLoop(f, X, Stop, turn, res)
    BY <1>6, <1>7, LoopExists
  <2>2. \A p \in X : f[p] = IF p \in Stop THEN res[p] ELSE f[turn[p]]
    BY <2>1 DEF IsLoop
  <2>3. f = [p \in X |-> f[p]]
    BY <2>1
  <2>4. Is(f)
    BY <1>9, <2>2, <2>3
  <2> QED BY <2>4
<1>11. Is(Reach)
  <2> HIDE DEF Is
  <2> QED BY <1>10
<1> HIDE DEF Reach
<1>12. IsLoop(Reach, X, Stop, turn, res)
  <2>1. ASSUME NEW p \in X PROVE Reach[p] = IF p \in Stop THEN res[p] ELSE Reach[turn[p]]
    <3>1. Reach[p] = IF ~Before(p.right, t) THEN <<p.left, p.right>>
                     ELSE IF p.right + p.incr > N - 1 THEN <<p.right, N - 1>>
                     ELSE Reach[[left |-> p.right, right |-> p.right + p.incr,
                                 incr |-> 2 * p.incr]]
      BY <1>11
    <3> HIDE DEF Is
    <3> QED BY <1>9, <3>1
  <2> QED BY <2>1 DEF IsLoop
<1> HIDE DEF Is
<1>13. first \in P
  <2>1. i \in Nat /\ i < N /\ 0 < N
    BY <1>1 DEF N
  <2>2. first \in P <=> /\ first.left < N /\ first.right < N
                        /\ first.left = 0 \/ Before(first.left, t)
    BY <1>3, <1>5
  <2> QED BY <1>5, <2>1, <2>2
<1>14. PICK p \in P : p \in Stop /\ Reach[first] = res[p]
  <2>1. P \in SUBSET X
    BY <1>4
  <2>2. \A x \in P : x \notin Stop => turn[x] \in P
    BY <1>8
  <2>3. \A x \in P : \E y \in P : y \in Stop /\ Reach[x] = res[y]
    BY <1>6, <1>12, <2>1, <2>2, LoopKeeps
  <2> QED BY <1>13, <2>3
<1>15. p \in X
  BY <1>4, <1>14
<1>16. /\ p.left \in Nat /\ p.right \in Nat /\ p.left < N /\ p.right < N
       /\ p.left = 0 \/ Before(p.left, t)
       /\ res[p] = IF ~Before(p.right, t) THEN <<p.left, p.right>> ELSE <<p.right, N - 1>>
  BY <1>3, <1>14, <1>15
<1>17. p.left \in 0..(N - 1) /\ p.right \in 0..(N - 1) /\ N - 1 \in 0..(N - 1)
  BY <1>1, <1>16
<1> QED BY <1>2, <1>14, <1>16, <1>17 DEF N

\* The binary search keeps in its range, and its left end is the first restart point or
\* one whose key is before the target.
LEMMA BinaryIs ==
    ASSUME Open, NEW l \in 0..(NumRestarts - 1), NEW r \in 0..(NumRestarts - 1), NEW t,
           l = 0 \/ Before(l, t)
    PROVE  /\ BinarySearch(l, r, t) \in 0..(NumRestarts - 1)
           /\ BinarySearch(l, r, t) = 0 \/ Before(BinarySearch(l, r, t), t)
<1> DEFINE N == NumRestarts
           X == [left : Nat, right : Nat]
           To(p) == IF Before(Middle(p), t) THEN [left |-> Middle(p), right |-> p.right]
                    ELSE [left |-> p.left, right |-> ShrinkTo(Middle(p))]
           Stop == {p \in X : p.left >= p.right}
           turn == [p \in X |-> IF p \in Stop THEN p ELSE To(p)]
           size == [p \in X |-> IF p.left < p.right THEN p.right - p.left ELSE 0]
           res == [p \in X |-> p.left]
           P == {p \in X : p.left < N /\ p.right < N /\ (p.left = 0 \/ Before(p.left, t))}
           Is(f) == f = [p \in X |->
                           IF p.left >= p.right THEN p.left
                           ELSE IF Before(Middle(p), t)
                                THEN f[[p EXCEPT !.left = Middle(p)]]
                                ELSE f[[p EXCEPT !.right = ShrinkTo(Middle(p))]]]
           Place == CHOOSE f : Is(f)
           first == [left |-> l, right |-> r]
<1>1. N \in Nat \ {0}
  BY DEF Open
<1>2. BinarySearch(l, r, t) = Place[first]
  BY DEF BinarySearch
<1> HIDE DEF N
<1>3. ASSUME NEW p \in X
      PROVE  /\ p.left \in Nat /\ p.right \in Nat
             /\ p = [left |-> p.left, right |-> p.right]
             /\ ~(p.left >= p.right) =>
                   /\ Middle(p) \in Nat /\ p.left < Middle(p) /\ Middle(p) <= p.right
                   /\ ShrinkTo(Middle(p)) \in Nat /\ ShrinkTo(Middle(p)) < p.right
                   /\ p.left <= ShrinkTo(Middle(p))
  <2>1. p.left \in Nat /\ p.right \in Nat /\ p = [left |-> p.left, right |-> p.right]
    OBVIOUS
  <2> DEFINE a == p.left
             z == p.right
             m == (a + z + 1) \div 2
  <2>2. a \in Nat /\ z \in Nat /\ Middle(p) = m /\ ShrinkTo(Middle(p)) = m - 1
    BY <2>1 DEF Middle, ShrinkTo
  <2> HIDE DEF a, z
  <2>3. ~(a >= z) => m \in Nat /\ a < m /\ m <= z
    BY <2>2
  <2> HIDE DEF m
  <2>4. ~(a >= z) => m - 1 \in Nat /\ m - 1 < z /\ a <= m - 1
    BY <2>2, <2>3
  <2> QED BY <2>1, <2>2, <2>3, <2>4 DEF a, z
<1>4. ASSUME NEW p \in X, ~(p.left >= p.right)
      PROVE  /\ To(p) \in X /\ To(p).left \in Nat /\ To(p).right \in Nat
             /\ To(p).left <= To(p).right
             /\ To(p).left >= p.left /\ To(p).right <= p.right
             /\ To(p).left > p.left \/ To(p).right < p.right
             /\ To(p).left = p.left \/ Before(To(p).left, t)
             /\ Before(Middle(p), t) => To(p) = [p EXCEPT !.left = Middle(p)]
             /\ ~Before(Middle(p), t) => To(p) = [p EXCEPT !.right = ShrinkTo(Middle(p))]
  <2>1. /\ p.left \in Nat /\ p.right \in Nat
        /\ Middle(p) \in Nat /\ p.left < Middle(p) /\ Middle(p) <= p.right
        /\ ShrinkTo(Middle(p)) \in Nat /\ ShrinkTo(Middle(p)) < p.right
        /\ p.left <= ShrinkTo(Middle(p))
    BY <1>3, <1>4
  <2>2. /\ [p EXCEPT !.left = Middle(p)] = [left |-> Middle(p), right |-> p.right]
        /\ [p EXCEPT !.right = ShrinkTo(Middle(p))]
              = [left |-> p.left, right |-> ShrinkTo(Middle(p))]
    OBVIOUS
  <2> DEFINE q == To(p)
  <2>3. CASE Before(Middle(p), t)
    <3>1. q = [left |-> Middle(p), right |-> p.right]
      BY <2>3
    <3> HIDE DEF q
    <3>2. q \in X /\ q.left = Middle(p) /\ q.right = p.right
      BY <2>1, <3>1
    <3>3. /\ q.left \in Nat /\ q.right \in Nat /\ q.left <= q.right
          /\ q.left >= p.left /\ q.right <= p.right /\ q.left > p.left
      BY <2>1, <3>2
    <3> HIDE DEF X
    <3> QED BY <2>2, <2>3, <3>1, <3>2, <3>3 DEF q
  <2>4. CASE ~Before(Middle(p), t)
    <3>1. q = [left |-> p.left, right |-> ShrinkTo(Middle(p))]
      BY <2>4
    <3> HIDE DEF q
    <3>2. q \in X /\ q.left = p.left /\ q.right = ShrinkTo(Middle(p))
      BY <2>1, <3>1
    <3>3. /\ q.left \in Nat /\ q.right \in Nat /\ q.left <= q.right
          /\ q.left >= p.left /\ q.right <= p.right /\ q.right < p.right
      BY <2>1, <3>2
    <3> HIDE DEF X
    <3> QED BY <2>2, <2>4, <3>1, <3>2, <3>3 DEF q
  <2> QED BY <2>3, <2>4
<1>5. ASSUME NEW p \in X
      PROVE  /\ p \in Stop <=> p.left >= p.right
             /\ turn[p] = IF p \in Stop THEN p ELSE To(p)
             /\ size[p] = IF p.left < p.right THEN p.right - p.left ELSE 0
             /\ res[p] = p.left
             /\ p \in P <=> p.left < N /\ p.right < N /\ (p.left = 0 \/ Before(p.left, t))
  <2> HIDE DEF To
  <2>1. p \in Stop <=> p.left >= p.right
    OBVIOUS
  <2>2. /\ size[p] = IF p.left < p.right THEN p.right - p.left ELSE 0
        /\ res[p] = p.left
    OBVIOUS
  <2>3. p \in P <=> p.left < N /\ p.right < N /\ (p.left = 0 \/ Before(p.left, t))
    OBVIOUS
  <2>4. turn[p] = IF p \in Stop THEN p ELSE To(p)
    <3> HIDE DEF Stop, X
    <3> QED OBVIOUS
  <2> HIDE DEF X, turn, size, res, Stop, P
  <2> QED BY <2>1, <2>2, <2>3, <2>4
<1>6. /\ turn = [p \in X |-> turn[p]] /\ size = [p \in X |-> size[p]]
      /\ res = [p \in X |-> res[p]] /\ P \in SUBSET X
  <2> HIDE DEF To
  <2> QED OBVIOUS
<1>7. first \in X /\ first.left = l /\ first.right = r
  BY <1>1 DEF N
<1> HIDE DEF X, Stop, turn, size, res, P, first, To
<1>8. Shrinks(X, Stop, turn, size)
  <2>1. \A p \in X : turn[p] \in X
    BY <1>4, <1>5
  <2>2. turn \in [X -> X]
    BY <1>6, <2>1
  <2>3. ASSUME NEW p \in X PROVE size[p] \in Nat
    BY <1>3, <1>5
  <2>4. size \in [X -> Nat]
    BY <1>6, <2>3
  <2>5. ASSUME NEW p \in X, p \notin Stop PROVE size[turn[p]] < size[p]
    <3> DEFINE q == To(p)
    <3>1. ~(p.left >= p.right) /\ p.left \in Nat /\ p.right \in Nat /\ turn[p] = q
      BY <1>3, <1>5, <2>5
    <3>2. /\ q \in X /\ q.left \in Nat /\ q.right \in Nat /\ q.left <= q.right
          /\ q.left >= p.left /\ q.right <= p.right /\ (q.left > p.left \/ q.right < p.right)
      BY <1>4, <3>1
    <3> HIDE DEF q
    <3>3. size[q] = IF q.left < q.right THEN q.right - q.left ELSE 0
      BY <1>5, <3>2
    <3>4. size[p] = IF p.left < p.right THEN p.right - p.left ELSE 0
      BY <1>5
    <3> QED BY <3>1, <3>2, <3>3, <3>4
  <2> QED BY <2>2, <2>4, <2>5 DEF Shrinks
<1>9. res \in [X -> {res[p] : p \in X}]
  BY <1>6
<1>10. ASSUME NEW p \in P, p \notin Stop PROVE turn[p] \in P
  <2> DEFINE q == To(p)
  <2>1. p \in X
    BY <1>6
  <2>2. ~(p.left >= p.right) /\ p.right \in Nat /\ turn[p] = q
    BY <1>3, <1>5, <1>10, <2>1
  <2>3. /\ q \in X /\ q.left \in Nat /\ q.right \in Nat /\ q.left <= q.right
        /\ q.right <= p.right /\ (q.left = p.left \/ Before(q.left, t))
    BY <1>4, <2>1, <2>2
  <2> HIDE DEF q
  <2>4. p.right < N /\ (p.left = 0 \/ Before(p.left, t))
    BY <1>5, <2>1
  <2>5. q.left < N /\ q.right < N
    BY <1>1, <2>2, <2>3, <2>4
  <2> QED BY <1>5, <2>2, <2>3, <2>4, <2>5
<1>11. ASSUME NEW f, NEW p \in X
      PROVE  (IF p \in Stop THEN res[p] ELSE f[turn[p]])
                = IF p.left >= p.right THEN p.left
                  ELSE IF Before(Middle(p), t)
                       THEN f[[p EXCEPT !.left = Middle(p)]]
                       ELSE f[[p EXCEPT !.right = ShrinkTo(Middle(p))]]
  <2>1. CASE p.left >= p.right
    BY <1>5, <2>1
  <2>2. CASE ~(p.left >= p.right)
    <3>1. p \notin Stop /\ turn[p] = To(p)
      BY <1>5, <2>2
    <3>2. CASE Before(Middle(p), t)
      <4>1. To(p) = [p EXCEPT !.left = Middle(p)]
        BY <1>4, <2>2, <3>2
      <4> QED BY <2>2, <3>1, <3>2, <4>1
    <3>3. CASE ~Before(Middle(p), t)
      <4>1. To(p) = [p EXCEPT !.right = ShrinkTo(Middle(p))]
        BY <1>4, <2>2, <3>3
      <4> QED BY <2>2, <3>1, <3>3, <4>1
    <3> QED BY <3>2, <3>3
  <2> QED BY <2>1, <2>2
<1>12. \E f : Is(f)
  <2>1. PICK f \in [X -> {res[p] : p \in X}] : IsLoop(f, X, Stop, turn, res)
    BY <1>8, <1>9, LoopExists
  <2>2. \A p \in X : f[p] = IF p \in Stop THEN res[p] ELSE f[turn[p]]
    BY <2>1 DEF IsLoop
  <2>3. f = [p \in X |-> f[p]]
    BY <2>1
  <2>4. Is(f)
    BY <1>11, <2>2, <2>3
  <2> QED BY <2>4
<1>13. Is(Place)
  <2> HIDE DEF Is
  <2> QED BY <1>12
<1> HIDE DEF Place
<1>14. IsLoop(Place, X, Stop, turn, res)
  <2>1. ASSUME NEW p \in X PROVE Place[p] = IF p \in Stop THEN res[p] ELSE Place[turn[p]]
    BY <1>11, <1>13
  <2> QED BY <2>1 DEF IsLoop
<1> HIDE DEF Is
<1>15. first \in P
  <2>1. l < N /\ r < N
    BY <1>1 DEF N
  <2> QED BY <1>5, <1>7, <2>1
<1>16. PICK p \in P : p \in Stop /\ Place[first] = res[p]
  <2>1. P \in SUBSET X
    BY <1>6
  <2>2. \A x \in P : x \notin Stop => turn[x] \in P
    BY <1>10
  <2>3. \A x \in P : \E y \in P : y \in Stop /\ Place[x] = res[y]
    BY <1>8, <1>14, <2>1, <2>2, LoopKeeps
  <2> QED BY <1>15, <2>3
<1>17. p \in X
  BY <1>6, <1>16
<1>18. p.left \in Nat /\ p.left < N /\ (p.left = 0 \/ Before(p.left, t)) /\ res[p] = p.left
  BY <1>3, <1>5, <1>16, <1>17
<1>19. p.left \in 0..(N - 1)
  BY <1>1, <1>18
<1> QED BY <1>2, <1>16, <1>18, <1>19 DEF N

\* The restart block in which the search goes on is one of the block, and none of the
\* keys before it reaches the target.
LEMMA RestartBlockIs ==
    ASSUME Open, NEW it, IsIter(it), NEW t
    PROVE  /\ RestartBlock(it, t) \in 0..(NumRestarts - 1)
           /\ RestartBlock(it, t) = 0 \/ Before(RestartBlock(it, t), t)
<1> DEFINE N == NumRestarts
           range == IF it.restart_index \notin {0, N}
                    THEN Gallop(it.restart_index, t) ELSE <<0, N - 1>>
<1>1. N \in Nat \ {0}
  BY DEF Open
<1>2. it.restart_index \in 0..(N - 1) \/ it.restart_index = N
  BY DEF IsIter, Off, Stands
<1>3. RestartBlock(it, t) = IF range[1] + 1 < range[2] THEN BinarySearch(range[1], range[2], t)
                            ELSE range[1]
  BY DEF RestartBlock
<1>4. /\ range[1] \in 0..(N - 1) /\ range[2] \in 0..(N - 1)
      /\ range[1] = 0 \/ Before(range[1], t)
  <2>1. CASE it.restart_index \notin {0, N}
    BY <1>2, <2>1, GallopIs
  <2>2. CASE it.restart_index \in {0, N}
    <3>1. range = <<0, N - 1>>
      BY <2>2
    <3> HIDE DEF range, N
    <3>2. range[1] = 0 /\ range[2] = N - 1
      BY <3>1
    <3>3. 0 \in 0..(N - 1) /\ N - 1 \in 0..(N - 1)
      BY <1>1
    <3> QED BY <3>2, <3>3
  <2> QED BY <2>1, <2>2
<1> HIDE DEF range
<1>5. CASE range[1] + 1 < range[2]
  BY <1>3, <1>4, <1>5, BinaryIs
<1>6. CASE ~(range[1] + 1 < range[2])
  BY <1>3, <1>4, <1>6
<1> QED BY <1>5, <1>6

\* The search from where the iterator stands or from the restart point lands on the first
\* entry that is not below the target, or off the end when there is none.
LEMMA SeekIs ==
    ASSUME Open, NEW it, IsIter(it), NEW t \in Key
    PROVE  LET s == BlockIterSeek(it, t) IN
           /\ s \in Iters
           /\ \/ Off(s) /\ \A i \in 1..Len(added) : Less(added[i].key, t)
              \/ \E i \in 1..Len(added) :
                    /\ Stands(s, i) /\ ~Less(added[i].key, t)
                    /\ \A j \in 1..(i - 1) : Less(added[j].key, t)
<1> DEFINE n == Len(added)
           left == RestartBlock(it, t)
           s == BlockIterSeek(it, t)
           Found(x) == /\ x \in Iters
                       /\ \/ Off(x) /\ \A i \in 1..n : Less(added[i].key, t)
                          \/ \E i \in 1..n : /\ Stands(x, i) /\ ~Less(added[i].key, t)
                                             /\ \A j \in 1..(i - 1) : Less(added[j].key, t)
<1>1. /\ n \in Nat \ {0} /\ added[1].off = 0
      /\ \A i \in 1..n : added[i].key \in Key /\ added[i].off \in Nat
      /\ \A i, j \in 1..n : i < j => added[i].off < added[j].off
                                     /\ Less(added[i].key, added[j].key)
  BY OpenEntries
<1>2. left \in 0..(NumRestarts - 1) /\ (left = 0 \/ Before(left, t))
  BY RestartBlockIs
<1>3. NumRestarts \in Nat \ {0}
  BY DEF Open
<1>4. s = IF it.restart_index = left /\ it.key = t THEN it
          ELSE Scan(IF FromCurrent(it, left, t) THEN it ELSE SeekToRestart(it, left), t)
  BY DEF BlockIterSeek
<1> HIDE DEF n, left
<1>5. ASSUME NEW k \in 1..(n + 1), NEW x, Ready(x, k), \A i \in 1..(k - 1) : Less(added[i].key, t)
      PROVE  Found(Scan(x, t))
  <2> DEFINE y == Scan(x, t)
  <2>1. /\ y \in Iters
        /\ \/ Off(y) /\ \A i \in k..n : Less(added[i].key, t)
           \/ \E i \in k..n : /\ Stands(y, i) /\ ~Less(added[i].key, t)
                              /\ \A j \in k..(i - 1) : Less(added[j].key, t)
    BY <1>5, ScanIs DEF n
  <2>2. \A i \in 1..n : i \in 1..(k - 1) \/ i \in k..n
    BY <1>1
  <2> HIDE DEF y
  <2>3. CASE Off(y) /\ \A i \in k..n : Less(added[i].key, t)
    BY <1>5, <2>1, <2>2, <2>3 DEF y
  <2>4. CASE \E i \in k..n : /\ Stands(y, i) /\ ~Less(added[i].key, t)
                             /\ \A j \in k..(i - 1) : Less(added[j].key, t)
    <3>1. PICK i \in k..n : /\ Stands(y, i) /\ ~Less(added[i].key, t)
                            /\ \A j \in k..(i - 1) : Less(added[j].key, t)
      BY <2>4
    <3>2. i \in 1..n /\ \A j \in 1..(i - 1) : j \in 1..(k - 1) \/ j \in k..(i - 1)
      BY <1>1, <3>1
    <3>3. \A j \in 1..(i - 1) : Less(added[j].key, t)
      BY <1>5, <3>1, <3>2
    <3> QED BY <2>1, <3>1, <3>2, <3>3 DEF y
  <2> QED BY <2>1, <2>3, <2>4
<1>6. ASSUME NEW k \in 1..n, Less(added[k].key, t) \/ added[k].key = t
      PROVE  \A i \in 1..(k - 1) : Less(added[i].key, t)
  <2> SUFFICES ASSUME NEW i \in 1..(k - 1) PROVE Less(added[i].key, t)
    OBVIOUS
  <2>1. i \in 1..n /\ i < k
    BY <1>1
  <2>2. Less(added[i].key, added[k].key) /\ added[i].key \in Key /\ added[k].key \in Key
    BY <1>1, <2>1
  <2> QED BY <1>6, <2>2, LessTransitive
<1>7. Found(Scan(SeekToRestart(it, left), t))
  <2>1. it \in Iters
    BY DEF IsIter
  <2>2. PICK k \in 1..n : /\ RestartPoint(left) = added[k].off
                          /\ Ready(SeekToRestart(it, left), k)
                          /\ Laid(block.data, added, Restarts, k, 0)
    BY <1>2, <2>1, RestartReady DEF n
  <2>3. \A i \in 1..(k - 1) : Less(added[i].key, t)
    <3>1. CASE left = 0
      <4>1. added[k].off = 0
        BY <2>2, <3>1, OpenRestarts
      <4>2. ~(1 < k)
        <5>1. 1 \in 1..n
          BY <1>1
        <5> DEFINE p == added[1].off
                   q == added[k].off
        <5>2. 1 < k => p < q
          BY <1>1, <5>1
        <5>3. p = 0 /\ q = 0
          BY <1>1, <4>1
        <5> HIDE DEF p, q
        <5> QED BY <5>2, <5>3
      <4>3. \A i \in 1..(k - 1) : FALSE
        BY <1>1, <4>2
      <4> QED BY <4>3
    <3>2. CASE Before(left, t)
      <4>1. Less(added[k].key, t)
        BY <1>2, <2>2, <3>2, BeforeIs DEF n
      <4> QED BY <1>6, <4>1
    <3> QED BY <1>2, <3>1, <3>2
  <2>4. k \in 1..(n + 1)
    BY <1>1
  <2> HIDE DEF Found
  <2> QED BY <1>5, <2>2, <2>3, <2>4
<1>8. CASE s = Scan(SeekToRestart(it, left), t)
  BY <1>7, <1>8 DEF n
<1>9. CASE it.restart_index = left
  <2>1. ~Off(it)
    BY <1>2, <1>3, <1>9 DEF Off
  <2>2. it \in Iters /\ \E k \in 1..n : Stands(it, k)
    BY <2>1 DEF IsIter, n
  <2>3. PICK k \in 1..n : Stands(it, k)
    BY <2>2
  <2>4. it.key = added[k].key
    BY <2>3 DEF Stands, Get
  <2>5. CASE it.key = t
    <3>1. ~Less(added[k].key, t)
      BY <1>1, <2>4, <2>5, NotBelowItself
    <3>2. \A j \in 1..(k - 1) : Less(added[j].key, t)
      BY <1>6, <2>4, <2>5
    <3>3. s = it
      BY <1>4, <1>9, <2>5
    <3> QED BY <2>2, <2>3, <3>1, <3>2, <3>3 DEF n
  <2>6. CASE it.key # t /\ Less(it.key, t)
    <3>1. s = Scan(it, t)
      BY <1>4, <1>9, <2>6 DEF FromCurrent
    <3>2. k + 1 \in 1..(n + 1) /\ (k + 1) - 1 = k /\ k + 1 # 1 /\ (k < n <=> k + 1 <= n)
      BY <1>1
    <3>3. Ready(it, k + 1)
      <4>1. it.next = IF k + 1 <= n THEN added[k + 1].off ELSE Restarts
        BY <2>3, <3>2 DEF Stands, EndOf, n
      <4>2. it.key = KeyBefore(added, k + 1)
        BY <2>4, <3>2 DEF KeyBefore
      <4> QED BY <2>2, <2>3, <4>1, <4>2 DEF Ready, Stands, n
    <3>4. \A i \in 1..((k + 1) - 1) : Less(added[i].key, t)
      <4>1. \A i \in 1..((k + 1) - 1) : i \in 1..(k - 1) \/ i = k
        BY <1>1
      <4> QED BY <1>6, <2>4, <2>6, <4>1
    <3>5. Found(Scan(it, t))
      BY <1>5, <3>2, <3>3, <3>4
    <3> QED BY <3>1, <3>5 DEF n
  <2>7. CASE it.key # t /\ ~Less(it.key, t)
    <3>1. s = Scan(SeekToRestart(it, left), t)
      BY <1>4, <2>7 DEF FromCurrent
    <3> QED BY <1>8, <3>1
  <2> QED BY <2>5, <2>6, <2>7
<1>10. CASE it.restart_index # left
  <2>1. s = Scan(SeekToRestart(it, left), t)
    BY <1>4, <1>10 DEF FromCurrent
  <2> QED BY <1>8, <2>1
<1> QED BY <1>9, <1>10

\* block_iter_next() steps from the i-th entry onto the next one, or off the end.
LEMMA NextIs ==
    ASSUME Open, NEW it \in Iters, NEW i \in 1..Len(added), Stands(it, i)
    PROVE  LET s == BlockIterNext(it) IN
           /\ s \in Iters
           /\ IF i < Len(added) THEN Stands(s, i + 1) ELSE Off(s)
<1> DEFINE n == Len(added)
           s == ParseNextKey(it)
<1>1. n \in Nat \ {0} /\ added[i].off < Restarts
  BY OpenEntries
<1>2. BlockIterNext(it) = s
  BY <1>1 DEF BlockIterNext, Valid, Stands
<1> HIDE DEF n, s
<1>3. CASE i < n
  <2>1. i + 1 \in 1..n /\ i + 1 <= n /\ i + 1 # 1 /\ (i + 1) - 1 = i
    BY <1>1, <1>3 DEF n
  <2>2. it.next = added[i + 1].off
    BY <1>3 DEF Stands, EndOf, n
  <2>3. it.key = KeyBefore(added, i + 1)
    BY <2>1 DEF Stands, Get, KeyBefore
  <2>4. Ready(it, i + 1)
    BY <2>1, <2>2, <2>3 DEF Ready, Stands, n
  <2>5. s \in Iters /\ Stands(s, i + 1)
    BY <2>1, <2>4, ParseStands DEF n, s
  <2> QED BY <1>2, <1>3, <2>5 DEF n
<1>4. CASE ~(i < n)
  <2>1. it.next = Restarts
    BY <1>4 DEF Stands, EndOf, n
  <2>2. s \in Iters /\ Off(s)
    BY <2>1, ParseOff DEF s
  <2> QED BY <1>2, <1>4, <2>2 DEF n
<1> QED BY <1>3, <1>4

\* block_iter_prev() steps from the i-th entry onto the one before, and off the end
\* from the first.
LEMMA PrevIs ==
    ASSUME Open, NEW it \in Iters, NEW i \in 1..Len(added), Stands(it, i)
    PROVE  LET s == BlockIterPrev(it) IN
           /\ s \in Iters
           /\ IF i = 1 THEN Off(s) ELSE Stands(s, i - 1)
<1> DEFINE n == Len(added)
           N == NumRestarts
           c == added[i].off
           T == Earlier(it)
           s == BlockIterPrev(it)
<1>1. /\ n \in Nat \ {0} /\ added[1].off = 0 /\ i \in 1..n
      /\ \A j \in 1..n : added[j].off \in Nat /\ added[j].off < Restarts
  BY OpenEntries
<1>2. \A h, j \in 1..n : h < j => added[h].off < added[j].off
  BY OpenEntries
<1>3. it.current = c /\ it.restart_index \in 0..(N - 1) /\ N \in Nat \ {0} /\ c \in Nat
  BY <1>1 DEF Stands, Open
<1>4. RestartPoint(0) = 0
  BY OpenRestarts
<1>5. T = {r \in 0..it.restart_index : RestartPoint(r) < c}
  BY <1>3 DEF Earlier
<1> HIDE DEF n, N, c, T
<1>6. CASE i = 1
  <2>1. c = 0
    BY <1>1, <1>6 DEF c
  <2>2. ASSUME NEW r \in 0..it.restart_index, RestartPoint(r) < c PROVE FALSE
    <3>1. r \in 0..(N - 1)
      BY <1>3
    <3>2. PICK k \in 1..n : RestartPoint(r) = added[k].off
      BY <3>1, OpenRestarts DEF n, N
    <3>3. RestartPoint(r) \in Nat
      BY <1>1, <3>2
    <3> QED BY <2>1, <2>2, <3>3
  <2>3. T = {}
    BY <1>5, <2>2
  <2>4. s = [it EXCEPT !.current = Restarts, !.restart_index = NumRestarts]
    BY <2>3 DEF BlockIterPrev, T
  <2>5. Restarts \in Nat /\ NumRestarts \in Nat
    BY DEF Open
  <2>6. s \in Iters /\ Off(s)
    <3> HIDE DEF s
    <3> QED BY <2>4, <2>5 DEF Iters, Off
  <2> QED BY <1>6, <2>6
<1>7. CASE i # 1
  <2>1. 1 \in 1..n /\ i - 1 \in 1..n /\ (i - 1) + 1 = i /\ i - 1 < i /\ 1 < i /\ i - 1 < n
    BY <1>1, <1>7
  <2>2. 0 \in T
    <3>1. added[1].off < c
      <4>1. \A h \in 1..n : h < i => added[h].off < c
        BY <1>1, <1>2 DEF c
      <4> HIDE DEF c
      <4> QED BY <2>1, <4>1
    <3>2. 0 \in 0..it.restart_index
      BY <1>3
    <3> QED BY <1>1, <1>4, <1>5, <3>1, <3>2
  <2>3. it.restart_index \in Nat
    BY <1>3
  <2>4. T \in SUBSET (0..it.restart_index) /\ T # {}
    BY <1>5, <2>2
  <2> DEFINE r == Max(T)
             x == SeekToRestart(it, r)
  <2>5. r \in T
    BY <2>3, <2>4, MaxIsGreatest
  <2>6. s = ScanUpTo(x, it.current)
    BY <2>4 DEF BlockIterPrev, T
  <2> HIDE DEF r, x
  <2>7. r \in 0..(N - 1) /\ RestartPoint(r) < c
    <3>1. r \in 0..it.restart_index /\ RestartPoint(r) < c
      BY <1>5, <2>5
    <3> QED BY <1>3, <3>1
  <2>8. PICK k \in 1..n : RestartPoint(r) = added[k].off /\ Ready(SeekToRestart(it, r), k)
    BY <2>7, RestartReady DEF n, N
  <2>9. k <= i - 1
    <3>1. added[k].off < c
      BY <2>7, <2>8
    <3>2. ~(k = i)
      BY <3>1, <1>1 DEF c
    <3>3. ~(i < k)
      <4> DEFINE q == added[k].off
      <4>1. i < k => c < q
        BY <1>1, <1>2 DEF c
      <4>2. q \in Nat
        BY <1>1
      <4> HIDE DEF q
      <4>3. q < c
        BY <3>1 DEF q
      <4> QED BY <1>3, <4>1, <4>2, <4>3
    <3> QED BY <1>1, <3>2, <3>3
  <2>10. i - 1 \in k..n
    BY <1>1, <2>9
  <2>11. it.current = EndOf(added, Restarts, i - 1)
    BY <1>3, <2>1 DEF EndOf, n, c
  <2>12. s \in Iters /\ Stands(s, i - 1)
    <3> HIDE DEF s
    <3> QED BY <2>6, <2>8, <2>10, <2>11, ScanUpToIs DEF n, x
  <2> QED BY <1>7, <2>12
<1> QED BY <1>6, <1>7

\* block_iter_seek_to_first() and block_iter_seek_to_last() come to the first and to
\* the last entry.
LEMMA EndsAre ==
    ASSUME Open, NEW it \in Iters
    PROVE  /\ ParseNextKey(SeekToRestart(it, 0)) \in Iters
           /\ Stands(ParseNextKey(SeekToRestart(it, 0)), 1)
           /\ ScanUpTo(SeekToRestart(it, NumRestarts - 1), Restarts) \in Iters
           /\ Stands(ScanUpTo(SeekToRestart(it, NumRestarts - 1), Restarts), Len(added))
<1> DEFINE n == Len(added)
           N == NumRestarts
<1>1. /\ n \in Nat \ {0} /\ added[1].off = 0 /\ N \in Nat \ {0}
      /\ \A j \in 1..n : added[j].off \in Nat
      /\ \A i, j \in 1..n : i < j => added[i].off < added[j].off
  BY OpenEntries DEF Open
<1> HIDE DEF n, N
<1>2. 0 \in 0..(N - 1) /\ N - 1 \in 0..(N - 1) /\ 1 \in 1..n /\ n \in 1..n
  BY <1>1
<1>3. /\ ParseNextKey(SeekToRestart(it, 0)) \in Iters
      /\ Stands(ParseNextKey(SeekToRestart(it, 0)), 1)
  <2>1. PICK k \in 1..n : RestartPoint(0) = added[k].off /\ Ready(SeekToRestart(it, 0), k)
    BY <1>2, RestartReady DEF n, N
  <2>2. added[k].off = 0
    BY <2>1, OpenRestarts
  <2>3. k = 1
    <3> DEFINE p == added[1].off
               q == added[k].off
    <3>1. 1 < k => p < q
      BY <1>1, <1>2
    <3>2. p = 0 /\ q = 0
      BY <1>1, <2>2
    <3> HIDE DEF p, q
    <3> QED BY <1>1, <3>1, <3>2
  <2> QED BY <2>1, <2>3, ParseStands DEF n
<1>4. /\ ScanUpTo(SeekToRestart(it, N - 1), Restarts) \in Iters
      /\ Stands(ScanUpTo(SeekToRestart(it, N - 1), Restarts), n)
  <2>1. PICK k \in 1..n : Ready(SeekToRestart(it, N - 1), k)
    BY <1>2, RestartReady DEF n, N
  <2>2. n \in k..n
    BY <1>1, <2>1
  <2>3. Restarts = EndOf(added, Restarts, n)
    <3>1. ~(n < n)
      BY <1>1
    <3> QED BY <3>1 DEF EndOf, n
  <2> QED BY <2>1, <2>2, <2>3, ScanUpToIs DEF n
<1> QED BY <1>3, <1>4 DEF n, N

\* Opening the finished block makes it one that is read.
LEMMA FinishMakes ==
    ASSUME NEW c, NEW as, Building(c, as), ~Empty(c)
    PROVE  LET l == Len(c.buf)
               data == Finished(c)
               blk == BlockInit(data)
               n == CountAt(blk.data, blk.size)
           IN  /\ as \in Seq(Items) /\ Len(as) >= 1
               /\ blk.data = data /\ blk.size = Len(data) /\ blk.restart_offset = l
               /\ l \in Nat /\ l > Len(as) /\ n \in Nat \ {0}
               /\ Len(c.restarts) = n /\ c.restarts \in Seq(Nat)
               /\ \A r \in 0..(n - 1) :
                     c.restarts[r + 1] = IF l > Max32
                                         THEN DecodeFixed(data, l + r * Size64, Size64)
                                         ELSE DecodeFixed(data, l + r * Size32, Size32)
               /\ HoldEntries(data, as, l, c.restarts)
               /\ IterInit(blk) = [current |-> l, next |-> 0, key |-> <<>>, val |-> 0,
                                   val_len |-> 0, restart_index |-> n]
<1> DEFINE x == c.buf
           rs == c.restarts
           l == Len(x)
           m == Len(as)
           n == Len(rs)
           data == Finished(c)
           blk == BlockInit(data)
<1>1. /\ c \in Builders /\ as \in Seq(Items) /\ m <= MaxEntries
      /\ 3 * m <= l /\ l <= m * Longest
      /\ as # <<>> => n <= m /\ HoldEntries(x, as, l, rs)
  BY DEF Building
<1>2. x \in Seq(Nat) /\ rs \in Seq(Nat) /\ l \in Nat /\ m \in Nat /\ n \in Nat
  <2>1. x \in Seq(Nat) /\ rs \in Seq(Nat)
    BY <1>1 DEF Builders
  <2> QED BY <1>1, <2>1, LenProperties
<1>3. l # 0
  BY <1>2, EmptySeq DEF Empty
<1>4. as # <<>> /\ m >= 1
  <2>1. m # 0
    <3> HIDE DEF l, m
    <3>1. m = 0 => m * Longest = 0
      BY BlockAssumption
    <3> QED BY <1>1, <1>2, <1>3, <3>1
  <2>2. as = <<>> => m = 0
    OBVIOUS
  <2> HIDE DEF m
  <2>3. m >= 1
    BY <1>2, <2>1
  <2> QED BY <2>1, <2>2, <2>3
<1>5. n <= m /\ InOrder(as, l) /\ Restarted(x, as, l, rs)
      /\ \A i \in 1..m : \E shared \in Nat : Laid(x, as, l, i, shared)
  BY <1>1, <1>4 DEF HoldEntries
<1>6. \A i \in 1..m : /\ as[i].off \in Nat /\ as[i].off < l
                      /\ as[i].key \in Key /\ as[i].value \in Seq(Nat)
  <2>1. \A i \in 1..m : as[i] \in Items
    BY <1>1, ElementOfSeq
  <2>2. \A i \in 1..m : as[i].off \in Nat /\ as[i].key \in Key /\ as[i].value \in Seq(Nat)
    BY <2>1, BlockAssumption DEF Items
  <2> QED BY <1>5, <2>2 DEF InOrder
<1>7. n >= 1 /\ \A r \in 1..n : rs[r] <= l
  <2>1. n >= 1 /\ \A r \in 1..n : \E i \in 1..m : rs[r] = as[i].off
    BY <1>5 DEF Restarted
  <2>2. ASSUME NEW r \in 1..n PROVE rs[r] <= l
    <3>1. PICK i \in 1..m : rs[r] = as[i].off
      BY <2>1
    <3> DEFINE off == as[i].off
    <3>2. off \in Nat /\ off < l /\ rs[r] = off
      BY <1>6, <3>1
    <3> HIDE DEF off, n, m, rs, l
    <3> QED BY <1>2, <3>2
  <2> HIDE DEF n, m, rs, l
  <2> QED BY <2>1, <2>2
<1>8. n <= Max32 /\ l <= Max64
  <2>1. MaxEntries \in Nat /\ Longest \in Nat /\ Max32 \in Nat /\ Max64 \in Nat
    BY BlockAssumption, MaxAre
  <2>2. MaxEntries <= Max32 /\ MaxEntries * Longest <= Max64
    BY SizeAssumption
  <2> HIDE DEF n, m, l
  <2>3. m * Longest <= MaxEntries * Longest
    BY <1>1, <1>2, <2>1
  <2>4. m * Longest \in Nat /\ MaxEntries * Longest \in Nat
    BY <1>2, <2>1
  <2> QED BY <1>1, <1>2, <1>5, <2>1, <2>2, <2>3, <2>4
<1>9. /\ blk = [data |-> data, size |-> Len(data), restart_offset |-> l]
      /\ CountAt(data, Len(data)) = n
      /\ \A r \in 0..(n - 1) :
            rs[r + 1] = IF l > Max32 THEN DecodeFixed(data, l + r * Size64, Size64)
                        ELSE DecodeFixed(data, l + r * Size32, Size32)
      /\ Len(data) \in Nat \ {0}
  BY <1>1, <1>7, <1>8, FinishedOpens
<1>10. PICK tail \in Seq(Nat) : data = x \o tail
  BY <1>1, FinishedIs
<1> HIDE DEF x, rs, l, m, n, data, blk
<1>11. ASSUME NEW i \in 1..m, NEW shared \in Nat, Laid(x, as, l, i, shared)
       PROVE  Laid(data, as, l, i, shared)
  <2> DEFINE off == as[i].off
             e == Entry(shared, as[i].key, as[i].value)
  <2>1. Placed(x, off, e) /\ EndOf(as, l, i) = off + Len(e) /\ shared \in 0..Len(as[i].key)
    BY <1>11 DEF Laid
  <2>2. off \in Nat
    BY <1>6
  <2>3. Len(e) \in Nat
    <3>1. e \in Seq(Nat)
      BY <1>6, <2>1, EntryTyped
    <3> HIDE DEF e
    <3> QED BY <3>1, LenProperties
  <2>4. EndOf(as, l, i) <= l
    <3>1. i < m => i + 1 \in 1..m
      BY <1>2
    <3>2. EndOf(as, l, i) = IF i < m THEN as[i + 1].off ELSE l
      BY DEF EndOf, m
    <3> DEFINE next == as[i + 1].off
    <3>3. i < m => next \in Nat /\ next < l
      BY <1>6, <3>1
    <3>4. EndOf(as, l, i) = IF i < m THEN next ELSE l
      BY <3>2
    <3> HIDE DEF next
    <3> QED BY <1>2, <3>3, <3>4
  <2> HIDE DEF off, e
  <2>5. off + Len(e) <= Len(x)
    BY <2>1, <2>4 DEF l
  <2>6. Placed(data, off, e)
    BY <1>2, <1>10, <2>1, <2>2, <2>3, <2>5, PlacedStays
  <2> QED BY <1>11, <2>6 DEF Laid, off, e
<1>12. HoldEntries(data, as, l, rs)
  <2>1. \A i \in 1..m : \E shared \in Nat : Laid(data, as, l, i, shared)
    BY <1>5, <1>11
  <2>2. Restarted(data, as, l, rs)
    <3>1. n >= 1 /\ rs[1] = 0
          /\ \A r \in 1..n : \E i \in 1..m : rs[r] = as[i].off /\ Laid(x, as, l, i, 0)
      BY <1>5 DEF Restarted, n, m
    <3>2. \A r \in 1..n : \E i \in 1..m : rs[r] = as[i].off /\ Laid(data, as, l, i, 0)
      BY <1>11, <3>1
    <3> QED BY <3>1, <3>2 DEF Restarted, n, m
  <2> QED BY <1>5, <2>1, <2>2 DEF HoldEntries, m
<1>13. blk.data = data /\ blk.size = Len(data) /\ blk.restart_offset = l
  BY <1>9
<1>14. l > m
  BY <1>1, <1>2, <1>4
<1>15. n \in Nat \ {0}
  BY <1>2, <1>7
<1>16. IterInit(blk) = [current |-> l, next |-> 0, key |-> <<>>, val |-> 0,
                        val_len |-> 0, restart_index |-> n]
  BY <1>9, <1>13 DEF IterInit
<1>17. CountAt(blk.data, blk.size) = n
  BY <1>9, <1>13
<1> QED
  BY <1>1, <1>2, <1>4, <1>9, <1>12, <1>13, <1>14, <1>15, <1>16, <1>17 DEF x, rs, l, m, n, data, blk

-------------------------------------------------------------------------------
(* The invariant *)

Inv ==
    /\ phase \in {"build", "read"} /\ valLen \in ValueLengths
    /\ phase = "build" => Building(b, added)
    /\ phase = "read" => Building(b, <<>>) /\ Open /\ IsIter(bi)

LEMMA InvInit == Init => Inv
<1> SUFFICES ASSUME Init PROVE Inv
  OBVIOUS
<1>1. phase = "build" /\ added = <<>> /\ valLen \in ValueLengths
  BY DEF Init
<1>2. PICK interval \in Intervals : b = NewBuilder(interval)
  BY DEF Init
<1>3. Building(b, added)
  BY <1>1, <1>2, NewBuilding
<1> QED BY <1>1, <1>3 DEF Inv

LEMMA InvAdd ==
    ASSUME Inv, NEW key \in Keys, Add(key)
    PROVE  Inv'
<1> DEFINE value == ValueOf(Len(added) + 1)
           a == [key |-> key, value |-> value, off |-> Len(b.buf)]
<1>1. phase = "build" /\ Building(b, added) /\ valLen \in ValueLengths
  BY DEF Inv, Add
<1>2. /\ Len(added) < MaxEntries /\ (added # <<>> => Less(Last(added).key, key))
      /\ b' = AddEntry(b, key, value) /\ added' = Append(added, a)
      /\ phase' = "build" /\ valLen' = valLen
  BY <1>1 DEF Add
<1>3. value \in Seq(Nat) /\ Len(value) \in ValueLengths
  <2>1. Len(added) + 1 \in Nat /\ valLen \in Nat
    <3>1. Len(added) \in Nat
      BY <1>1, LenProperties DEF Building
    <3> QED BY <1>1, <3>1, BlockAssumption
  <2>2. value = [j \in 1..valLen |-> Len(added) + 1]
    BY DEF ValueOf
  <2> HIDE DEF value
  <2>3. value \in [1..valLen -> Nat]
    BY <2>1, <2>2
  <2>4. value \in Seq(Nat) /\ Len(value) = valLen
    <3>1. value \in Seq(Nat)
      BY <2>1, <2>3
    <3>2. DOMAIN value = 1..valLen
      BY <2>2
    <3> QED BY <2>1, <3>1, <3>2, LenProperties
  <2> QED BY <1>1, <2>4
<1>4. added # <<>> => Less(added[Len(added)].key, key)
  BY <1>2 DEF Last
<1> HIDE DEF value
<1>5. Building(AddEntry(b, key, value), Append(added, a))
  BY <1>1, <1>2, <1>3, <1>4, AddBuilding
<1> QED BY <1>1, <1>2, <1>5 DEF Inv

LEMMA InvFinish ==
    ASSUME Inv, Finish
    PROVE  Inv'
<1> DEFINE data == Finished(b)
           l == Len(b.buf)
           rs == b.restarts
           blk == BlockInit(data)
           n == CountAt(blk.data, blk.size)
<1>1. Building(b, added) /\ ~Empty(b) /\ valLen \in ValueLengths
  BY DEF Inv, Finish
<1>2. /\ phase' = "read" /\ b' = Reset(b) /\ valLen' = valLen /\ added' = added
      /\ block' = blk /\ bi' = IterInit(blk)
  BY DEF Finish
<1>3. /\ added \in Seq(Items) /\ Len(added) >= 1
      /\ blk.data = data /\ blk.size = Len(data) /\ blk.restart_offset = l
      /\ l \in Nat /\ l > Len(added) /\ n \in Nat \ {0}
      /\ Len(rs) = n /\ rs \in Seq(Nat)
      /\ \A r \in 0..(n - 1) :
            rs[r + 1] = IF l > Max32 THEN DecodeFixed(data, l + r * Size64, Size64)
                        ELSE DecodeFixed(data, l + r * Size32, Size32)
      /\ HoldEntries(data, added, l, rs)
      /\ IterInit(blk) = [current |-> l, next |-> 0, key |-> <<>>, val |-> 0,
                          val_len |-> 0, restart_index |-> n]
  BY <1>1, FinishMakes
<1> HIDE DEF data, l, rs, blk, n
<1>4. Restarts' = l /\ NumRestarts' = n
  BY <1>2, <1>3 DEF Restarts, NumRestarts, n
<1>5. ASSUME NEW r \in 0..(n - 1) PROVE RestartPoint(r)' = rs[r + 1]
  <2>1. RestartPoint(r)' = IF l > Max32 THEN DecodeFixed(data, l + r * Size64, Size64)
                           ELSE DecodeFixed(data, l + r * Size32, Size32)
    BY <1>2, <1>3, <1>4 DEF RestartPoint
  <2> QED BY <1>3, <2>1
<1>6. Open'
  <2>1. HoldEntries(block'.data, added', Restarts', rs)
    BY <1>2, <1>3, <1>4
  <2>2. \E q \in Seq(Nat) : /\ Len(q) = NumRestarts'
                            /\ \A r \in 0..(NumRestarts' - 1) : RestartPoint(r)' = q[r + 1]
                            /\ HoldEntries(block'.data, added', Restarts', q)
    BY <1>3, <1>4, <1>5, <2>1
  <2>3. /\ added' \in Seq(Items) /\ Len(added') >= 1
        /\ block'.size = Len(block'.data)
        /\ Restarts' \in Nat /\ Restarts' > Len(added')
        /\ NumRestarts' \in Nat \ {0}
    BY <1>2, <1>3, <1>4
  <2> QED BY <2>2, <2>3 DEF Open
<1>7. IsIter(bi)'
  <2>1. bi' \in Iters
    <3>1. <<>> \in Key /\ 0 \in Nat /\ l \in Nat /\ n \in Nat
      BY <1>3 DEF Key
    <3> QED BY <1>2, <1>3, <3>1 DEF Iters
  <2>2. bi'.current = l /\ bi'.restart_index = n
    BY <1>2, <1>3
  <2> QED BY <1>4, <2>1, <2>2 DEF IsIter, Off
<1>8. Building(b', <<>>)
  <2>1. b \in Builders
    BY <1>1 DEF Building
  <2> QED BY <1>2, <2>1, ResetBuilding
<1> QED BY <1>1, <1>2, <1>6, <1>7, <1>8 DEF Inv

\* Where each operation of the iterator leaves it.
LEMMA StaysIter ==
    ASSUME Open, IsIter(bi), NEW s,
           \/ s = ParseNextKey(SeekToRestart(bi, 0))
           \/ s = ScanUpTo(SeekToRestart(bi, NumRestarts - 1), Restarts)
           \/ \E t \in Targets : s = BlockIterSeek(bi, t)
           \/ s = BlockIterNext(bi)
           \/ Valid(bi) /\ s = BlockIterPrev(bi)
    PROVE  IsIter(s)
<1>1. bi \in Iters /\ (Off(bi) \/ \E i \in 1..Len(added) : Stands(bi, i))
  BY DEF IsIter
<1>2. Len(added) \in Nat \ {0} /\ Restarts \in Nat
  BY OpenEntries DEF Open
<1>3. 1 \in 1..Len(added) /\ Len(added) \in 1..Len(added)
  <2> DEFINE n == Len(added)
  <2>1. n \in Nat \ {0}
    BY <1>2
  <2> HIDE DEF n
  <2>2. 1 \in 1..n /\ n \in 1..n
    BY <2>1
  <2> QED BY <2>2 DEF n
<1>4. Valid(bi) => \E i \in 1..Len(added) : Stands(bi, i)
  BY <1>1, <1>2 DEF Off, Valid
<1>5. CASE s = ParseNextKey(SeekToRestart(bi, 0))
  BY <1>1, <1>3, <1>5, EndsAre DEF IsIter
<1>6. CASE s = ScanUpTo(SeekToRestart(bi, NumRestarts - 1), Restarts)
  BY <1>1, <1>3, <1>6, EndsAre DEF IsIter
<1>7. CASE \E t \in Targets : s = BlockIterSeek(bi, t)
  <2>1. PICK t \in Targets : s = BlockIterSeek(bi, t)
    BY <1>7
  <2>2. t \in Key
    BY BlockAssumption
  <2>3. s \in Iters /\ (Off(s) \/ \E i \in 1..Len(added) : Stands(s, i))
    BY <2>1, <2>2, SeekIs
  <2> QED BY <2>3 DEF IsIter
<1>8. CASE s = BlockIterNext(bi)
  <2>1. CASE Valid(bi)
    <3>1. PICK i \in 1..Len(added) : Stands(bi, i)
      BY <1>4, <2>1
    <3>2. s \in Iters /\ IF i < Len(added) THEN Stands(s, i + 1) ELSE Off(s)
      BY <1>1, <1>8, <3>1, NextIs
    <3>3. i < Len(added) => i + 1 \in 1..Len(added)
      BY <1>2
    <3> QED BY <3>2, <3>3 DEF IsIter
  <2>2. CASE ~Valid(bi)
    BY <1>8, <2>2 DEF BlockIterNext
  <2> QED BY <2>1, <2>2
<1>9. CASE Valid(bi) /\ s = BlockIterPrev(bi)
  <2>1. PICK i \in 1..Len(added) : Stands(bi, i)
    BY <1>4, <1>9
  <2>2. s \in Iters /\ IF i = 1 THEN Off(s) ELSE Stands(s, i - 1)
    BY <1>1, <1>9, <2>1, PrevIs
  <2>3. i # 1 => i - 1 \in 1..Len(added)
    BY <1>2
  <2> QED BY <2>2, <2>3 DEF IsIter
<1> QED BY <1>5, <1>6, <1>7, <1>8, <1>9

LEMMA InvRead ==
    ASSUME Inv, Read
    PROVE  Inv'
<1>1. Building(b, <<>>) /\ Open /\ IsIter(bi) /\ valLen \in ValueLengths
  BY DEF Inv, Read
<1>2. phase' = "read" /\ b' = b /\ valLen' = valLen /\ added' = added /\ block' = block
  BY DEF Read, SeekToFirst, SeekToLast, Advance, Prev, Seek
<1>3. IsIter(bi')
  <2>1. \/ bi' = ParseNextKey(SeekToRestart(bi, 0))
        \/ bi' = ScanUpTo(SeekToRestart(bi, NumRestarts - 1), Restarts)
        \/ \E t \in Targets : bi' = BlockIterSeek(bi, t)
        \/ bi' = BlockIterNext(bi)
        \/ Valid(bi) /\ bi' = BlockIterPrev(bi)
    BY DEF Read, SeekToFirst, SeekToLast, Advance, Prev, Seek
  <2> QED BY <1>1, <2>1, StaysIter
<1>4. IsIter(bi)'
  <2>1. Restarts' = Restarts /\ NumRestarts' = NumRestarts
    BY <1>2 DEF Restarts, NumRestarts
  <2>2. \A p, m : Bytes(p, m)' = Bytes(p, m)
    BY <1>2 DEF Bytes
  <2>3. Get(bi)' = Get(bi')
    BY <1>2 DEF Get, Bytes
  <2> QED BY <1>2, <1>3, <2>1, <2>3 DEF IsIter, Off, Stands
<1>5. Open'
  <2>1. Restarts' = Restarts /\ NumRestarts' = NumRestarts
    BY <1>2 DEF Restarts, NumRestarts
  <2>2. \A r : RestartPoint(r)' = RestartPoint(r)
    BY <1>2 DEF RestartPoint, Restarts
  <2> QED BY <1>1, <1>2, <2>1, <2>2 DEF Open
<1> QED BY <1>1, <1>2, <1>4, <1>5 DEF Inv

LEMMA InvNext == Inv /\ [Next]_vars => Inv'
<1> SUFFICES ASSUME Inv, [Next]_vars PROVE Inv'
  OBVIOUS
<1>1. CASE \E key \in Keys : Add(key)
  BY <1>1, InvAdd
<1>2. CASE Finish
  BY <1>2, InvFinish
<1>3. CASE NextBlock
  <2>1. phase' = "build" /\ valLen' \in ValueLengths /\ added' = <<>> /\ b' = b
    BY <1>3 DEF NextBlock
  <2>2. Building(b, <<>>)
    BY <1>3 DEF Inv, NextBlock
  <2> QED BY <2>1, <2>2 DEF Inv
<1>4. CASE Read
  BY <1>4, InvRead
<1>5. CASE UNCHANGED vars
  <2>1. /\ phase' = phase /\ valLen' = valLen /\ b' = b /\ added' = added
        /\ block' = block /\ bi' = bi
    BY <1>5 DEF vars
  <2>2. Restarts' = Restarts /\ NumRestarts' = NumRestarts
    BY <2>1 DEF Restarts, NumRestarts
  <2>3. \A r : RestartPoint(r)' = RestartPoint(r)
    BY <2>1 DEF RestartPoint, Restarts
  <2>4. Get(bi)' = Get(bi)
    BY <2>1 DEF Get, Bytes
  <2>5. Open => Open'
    BY <2>1, <2>2, <2>3 DEF Open
  <2>6. IsIter(bi) => IsIter(bi)'
    BY <2>1, <2>2, <2>4 DEF IsIter, Off, Stands
  <2> QED BY <2>1, <2>5, <2>6 DEF Inv
<1> QED BY <1>1, <1>2, <1>3, <1>4, <1>5 DEF Next

\* Whatever is added, the builder holds what can be read back, and however it is
\* sought and stepped through, the iterator stands on an entry or off the end.
THEOREM BlockInvariant == Spec => []Inv
BY InvInit, InvNext, PTL DEF Spec

-------------------------------------------------------------------------------
(* Theorems *)

\* block_builder_current_size_estimate(), by which the writer ends a block, is the
\* size of the block that block_builder_finish() would write, whatever was added.
THEOREM EstimateCorrect == Spec => []EstimateExact
<1>1. ASSUME NEW c, NEW as, Building(c, as) PROVE EstimateOf(c) = Len(Finished(c))
  <2>1. c \in Builders /\ Len(c.buf) \in Nat /\ Len(c.restarts) \in Nat
    BY <1>1, LenProperties DEF Building, Builders
  <2>2. Len(Finished(c)) = SizeWritten(Len(c.buf), Len(c.restarts))
    BY <2>1, FinishedIs
  <2> QED BY <2>1, <2>2, EstimateIsExact DEF EstimateOf
<1>2. Inv => EstimateExact
  BY <1>1 DEF Inv, EstimateExact
<1> QED BY <1>2, BlockInvariant, PTL

\* block_builder_add() and block_builder_finish() write into room that they have
\* reserved, and the finished block fits the buffer that it is compressed into.
THEOREM RoomSuffices == Spec => []WritesFit
<1>1. ASSUME Inv, phase = "build"
      PROVE  /\ Len(b.buf) <= b.alloced
             /\ Len(Finished(b)) <= FinishRoom(b)
             /\ ~Empty(b) => LET size == Len(Finished(b))
                             IN  size + Overhead(size) <= CompressRoom(size)
  <2> DEFINE l == Len(b.buf)
             n == Len(b.restarts)
             size == SizeWritten(l, n)
  <2>1. Building(b, added)
    BY <1>1 DEF Inv
  <2>2. /\ b \in Builders /\ l \in Nat /\ n \in Nat /\ b.alloced \in Nat \ {0} /\ l <= b.alloced
        /\ b.buf \in Seq(Nat)
    BY <2>1, LenProperties DEF Building, Builders
  <2>3. Len(Finished(b)) = size /\ EstimateOf(b) = size /\ size \in Nat
    <3>1. Len(Finished(b)) = size /\ Finished(b) \in Seq(Nat)
      BY <2>2, FinishedIs
    <3>2. EstimateOf(b) = size
      BY <2>2, EstimateIsExact DEF EstimateOf
    <3> QED BY <3>1, <3>2, LenProperties
  <2> HIDE DEF size
  <2>4. Len(Finished(b)) <= FinishRoom(b)
    <3>1. FinishRoom(b) = Reserve(b.alloced, l, size)
      BY <2>3 DEF FinishRoom
    <3>2. Reserve(b.alloced, l, size) \in Nat /\ l + size <= Reserve(b.alloced, l, size)
      BY <2>2, <2>3, ReserveFits
    <3> HIDE DEF l
    <3> QED BY <2>2, <2>3, <3>1, <3>2
  <2>5. ASSUME ~Empty(b) PROVE size + Overhead(size) <= CompressRoom(size)
    <3>1. /\ Len(added) >= 1 /\ l > Len(added) /\ Len(b.restarts) \in Nat \ {0}
      BY <2>1, <2>5, FinishMakes
    <3>2. 3 * Len(added) <= l /\ Len(added) \in Nat
      BY <2>1, LenProperties DEF Building
    <3> HIDE DEF l
    <3>3. l >= 3
      BY <2>2, <3>1, <3>2
    <3> QED BY <2>2, <3>1, <3>3, CompressedBlockFits DEF size
  <2> QED BY <2>2, <2>3, <2>4, <2>5
<1>2. Inv => WritesFit
  BY <1>1 DEF WritesFit
<1> QED BY <1>2, BlockInvariant, PTL

\* block_init() and the builder agree where the array of restart points is, and each
\* of the points is the offset of an entry that shares no prefix.
THEOREM RestartsFound == Spec => []ArrayFound
<1>1. ASSUME Inv, Reading
      PROVE  /\ block.size = Len(block.data)
             /\ \A r \in 0..(NumRestarts - 1) :
                   \E e \in ToSet(added) : e.off = RestartPoint(r) /\ DecodeEntry(e.off).shared = 0
  <2>1. Open
    BY <1>1 DEF Inv, Reading
  <2>2. ASSUME NEW r \in 0..(NumRestarts - 1)
        PROVE  \E e \in ToSet(added) : e.off = RestartPoint(r) /\ DecodeEntry(e.off).shared = 0
    <3>1. PICK i \in 1..Len(added) : /\ RestartPoint(r) = added[i].off
                                     /\ Laid(block.data, added, Restarts, i, 0)
      BY <2>1, OpenRestarts
    <3> DEFINE key == added[i].key
               val == added[i].value
               c == added[i].off
    <3>2. /\ key \in Key /\ key \in Keys /\ val \in Seq(Nat) /\ Len(val) \in ValueLengths
          /\ c \in Nat
      BY <2>1, OpenEntries
    <3>3. Len(key) <= VarintMax /\ Len(val) <= VarintMax
      BY <3>2, SizeAssumption
    <3>4. 0 \in 0..Len(key) /\ Placed(block.data, c, Entry(0, key, val))
      BY <3>1 DEF Laid
    <3> HIDE DEF key, val, c
    <3>5. DecodeEntry(c).shared = 0
      BY <3>2, <3>3, <3>4, DecodeIs
    <3>6. added[i] \in ToSet(added)
      <4>1. added \in Seq(Items)
        BY <2>1 DEF Open
      <4> QED BY <4>1, LenProperties DEF ToSet
    <3> QED BY <3>1, <3>5, <3>6 DEF c
  <2> QED BY <2>1, <2>2 DEF Open
<1>2. Inv => ArrayFound
  BY <1>1 DEF ArrayFound
<1> QED BY <1>2, BlockInvariant, PTL

\* A valid iterator stands on an entry that was added, with its whole key and its value,
\* however it came there: decode_entry() never runs on the wrong key or offset.
THEOREM EntriesDecoded == Spec => []EntryDecoded
<1>1. ASSUME Inv, Reading, Valid(bi)
      PROVE  \E e \in ToSet(added) : e.off = bi.current /\ <<e.key, e.value>> = Get(bi)
  <2>1. Open /\ IsIter(bi)
    BY <1>1 DEF Inv, Reading
  <2>2. Restarts \in Nat /\ added \in Seq(Items)
    BY <2>1 DEF Open
  <2>3. PICK i \in 1..Len(added) : Stands(bi, i)
    BY <1>1, <2>1, <2>2 DEF IsIter, Off, Valid
  <2>4. added[i] \in ToSet(added)
    BY <2>2, LenProperties DEF ToSet
  <2> QED BY <2>3, <2>4 DEF Stands
<1>2. Inv => EntryDecoded
  BY <1>1 DEF EntryDecoded
<1> QED BY <1>2, BlockInvariant, PTL

\* block_iter_seek() finds the first entry that is not below the target, or the end,
\* from wherever the iterator stands.
THEOREM SeekCorrect == Spec => []SeekFindsLowerBound
<1>1. ASSUME Inv, Reading, NEW t \in Targets
      PROVE  BlockIterSeek(bi, t).current = LowerBound(t)
  <2> DEFINE s == BlockIterSeek(bi, t)
             n == Len(added)
             T == {e.off : e \in {d \in ToSet(added) : ~Less(d.key, t)}} \cup {Restarts}
  <2>1. Open /\ IsIter(bi) /\ t \in Key
    BY <1>1, BlockAssumption DEF Inv, Reading
  <2>2. \/ Off(s) /\ \A i \in 1..n : Less(added[i].key, t)
        \/ \E i \in 1..n : /\ Stands(s, i) /\ ~Less(added[i].key, t)
                           /\ \A j \in 1..(i - 1) : Less(added[j].key, t)
    BY <2>1, SeekIs
  <2>3. /\ n \in Nat /\ Restarts \in Nat
        /\ \A i \in 1..n : added[i].off \in Nat /\ added[i].off < Restarts
        /\ \A i, j \in 1..n : i < j => added[i].off < added[j].off
    BY <2>1, OpenEntries DEF Open
  <2>4. ToSet(added) = {added[i] : i \in 1..n}
    BY <2>1, LenProperties DEF Open, ToSet
  <2>5. LowerBound(t) = Min(T)
    BY DEF LowerBound
  <2> HIDE DEF s, n
  <2>6. ASSUME NEW y PROVE y \in T <=> \/ y = Restarts
                                       \/ \E i \in 1..n : ~Less(added[i].key, t) /\ y = added[i].off
    BY <2>4
  <2> HIDE DEF T
  <2>7. T \in SUBSET Nat /\ Restarts \in T
    BY <2>3, <2>6
  <2>8. Min(T) \in T /\ \A y \in T : Min(T) <= y
    BY <2>7, MinIsLeast
  <2>9. CASE Off(s) /\ \A i \in 1..n : Less(added[i].key, t)
    <3>1. Min(T) = Restarts
      BY <2>6, <2>8, <2>9
    <3> QED BY <2>5, <2>9, <3>1 DEF Off, s
  <2>10. CASE \E i \in 1..n : /\ Stands(s, i) /\ ~Less(added[i].key, t)
                              /\ \A j \in 1..(i - 1) : Less(added[j].key, t)
    <3>1. PICK i \in 1..n : /\ Stands(s, i) /\ ~Less(added[i].key, t)
                            /\ \A j \in 1..(i - 1) : Less(added[j].key, t)
      BY <2>10
    <3> DEFINE c == added[i].off
    <3>2. c \in T /\ c \in Nat
      BY <2>3, <2>6, <3>1
    <3>3. ASSUME NEW y \in T PROVE c <= y
      <4>1. CASE y = Restarts
        <5>1. c < Restarts
          BY <2>3
        <5> HIDE DEF c
        <5> QED BY <2>3, <3>2, <4>1, <5>1
      <4>2. CASE \E j \in 1..n : ~Less(added[j].key, t) /\ y = added[j].off
        <5>1. PICK j \in 1..n : ~Less(added[j].key, t) /\ y = added[j].off
          BY <4>2
        <5>2. ~(j \in 1..(i - 1))
          BY <3>1, <5>1
        <5>3. j = i \/ i < j
          BY <2>3, <5>2
        <5>4. i < j => c < y
          BY <2>3, <5>1
        <5>5. y \in Nat /\ (j = i => c = y)
          BY <2>3, <5>1
        <5> HIDE DEF c
        <5> QED BY <3>2, <5>3, <5>4, <5>5
      <4> QED BY <2>6, <4>1, <4>2
    <3>4. Min(T) = c
      <4>1. Min(T) <= c /\ c <= Min(T) /\ Min(T) \in Nat
        BY <2>7, <2>8, <3>2, <3>3
      <4> HIDE DEF c
      <4> QED BY <3>2, <4>1
    <3> QED BY <2>5, <3>1, <3>4 DEF Stands, s
  <2> QED BY <2>2, <2>9, <2>10
<1>2. Inv => SeekFindsLowerBound
  BY <1>1 DEF SeekFindsLowerBound
<1> QED BY <1>2, BlockInvariant, PTL

\* block_iter_next() and block_iter_prev() visit the entries one by one, and leave the
\* block behind the last and before the first.
THEOREM StepsCorrect == Spec => []StepsByOne
<1>1. ASSUME Inv, Reading, Valid(bi)
      PROVE  LET i == CHOOSE k \in DOMAIN added : added[k].off = bi.current
                 OffsetOf(k) == IF k \in DOMAIN added THEN added[k].off ELSE Restarts
             IN  /\ BlockIterNext(bi).current = OffsetOf(i + 1)
                 /\ BlockIterPrev(bi).current = OffsetOf(i - 1)
  <2> DEFINE n == Len(added)
             i == CHOOSE k \in DOMAIN added : added[k].off = bi.current
             OffsetOf(k) == IF k \in DOMAIN added THEN added[k].off ELSE Restarts
  <2>1. Open /\ IsIter(bi) /\ bi \in Iters
    BY <1>1 DEF Inv, Reading, IsIter
  <2>2. /\ n \in Nat /\ Restarts \in Nat
        /\ \A k \in 1..n : added[k].off \in Nat
    BY <2>1, OpenEntries DEF Open
  <2>3. \A k, j \in 1..n : k < j => added[k].off < added[j].off
    BY <2>1, OpenEntries
  <2>4. DOMAIN added = 1..n
    BY <2>1, LenProperties DEF Open
  <2>5. PICK h \in 1..n : Stands(bi, h)
    BY <1>1, <2>1, <2>2 DEF IsIter, Off, Valid
  <2> HIDE DEF n
  <2>6. added[h].off = bi.current
    BY <2>5 DEF Stands
  <2>7. i \in 1..n /\ added[i].off = bi.current
    BY <2>4, <2>5, <2>6
  <2> HIDE DEF i
  <2>8. i = h
    <3> DEFINE p == added[i].off
               q == added[h].off
    <3>1. p = q /\ p \in Nat /\ q \in Nat
      BY <2>2, <2>6, <2>7
    <3>2. (i < h => p < q) /\ (h < i => q < p)
      BY <2>3, <2>7
    <3> HIDE DEF p, q
    <3>3. ~(i < h) /\ ~(h < i)
      BY <3>1, <3>2
    <3> QED BY <2>2, <2>7, <3>3
  <2>9. BlockIterNext(bi).current = OffsetOf(i + 1)
    <3>1. IF i < n THEN Stands(BlockIterNext(bi), i + 1) ELSE Off(BlockIterNext(bi))
      BY <2>1, <2>5, <2>8, NextIs DEF n
    <3>2. i < n <=> i + 1 \in 1..n
      BY <2>2, <2>7
    <3> QED BY <2>4, <3>1, <3>2 DEF Stands, Off
  <2>10. BlockIterPrev(bi).current = OffsetOf(i - 1)
    <3>1. IF i = 1 THEN Off(BlockIterPrev(bi)) ELSE Stands(BlockIterPrev(bi), i - 1)
      BY <2>1, <2>5, <2>8, PrevIs DEF n
    <3>2. i # 1 <=> i - 1 \in 1..n
      BY <2>2, <2>7
    <3> QED BY <2>4, <3>1, <3>2 DEF Stands, Off
  <2> QED BY <2>9, <2>10 DEF i
<1>2. Inv => StepsByOne
  BY <1>1 DEF StepsByOne
<1> QED BY <1>2, BlockInvariant, PTL

-------------------------------------------------------------------------------
(* The bytes of a file *)

\* A sequence of bytes is one of numbers.
LEMMA BytesAreNumbers ==
    ASSUME NEW s \in Seq(FileByte)
    PROVE  s \in Seq(Nat) /\ Len(s) \in Nat /\ \A i \in 1..Len(s) : s[i] \in FileByte
<1>1. FileByte \subseteq Nat
  BY EncodingAssumption DEF FileByte
<1>2. Len(s) \in Nat /\ \A i \in 1..Len(s) : s[i] \in FileByte
  BY LenProperties, ElementOfSeq
<1>3. s \in [1..Len(s) -> FileByte]
  BY LenProperties
<1>4. s \in [1..Len(s) -> Nat]
  BY <1>1, <1>3
<1>5. s \in Seq(Nat)
  BY <1>2, <1>4
<1> QED BY <1>2, <1>5

\* How long two sequences are behind each other.
LEMMA ConcatIs ==
    ASSUME NEW A, NEW x \in Seq(A), NEW y \in Seq(A), NEW k \in Nat, NEW n \in Nat,
           Len(x) = k, Len(y) = n
    PROVE  x \o y \in Seq(A) /\ Len(x \o y) = k + n
BY ConcatProperties

\* Every byte of a varint, with its continuation bit or without, is a byte.
LEMMA Varint64Bytes ==
    ASSUME NEW v \in Nat, v <= Max64
    PROVE  /\ EncodeVarint64(v) \in Seq(FileByte) /\ Len(EncodeVarint64(v)) \in Nat
           /\ 1 <= Len(EncodeVarint64(v)) /\ Len(EncodeVarint64(v)) <= 10
<1> DEFINE x == EncodeVarint64(v)
<1>1. x \in Seq(Nat) /\ Len(x) \in 1..10 /\ \A i \in 1..Len(x) : x[i] < 2 * VarintBase
  BY Varint64Typed
<1> HIDE DEF x
<1>2. \A i \in 1..Len(x) : x[i] \in FileByte
  <2>1. \A i \in 1..Len(x) : x[i] \in Nat
    BY <1>1, ElementOfSeq
  <2>2. 2 * VarintBase <= ByteBase /\ VarintBase \in Nat /\ ByteBase \in Nat
    BY EncodingAssumption, FileAssumption
  <2>3. ASSUME NEW y \in Nat, y < 2 * VarintBase PROVE y \in FileByte
    BY <2>2, <2>3 DEF FileByte
  <2>4. ASSUME NEW i \in 1..Len(x) PROVE x[i] \in FileByte
    <3>1. x[i] \in Nat /\ x[i] < 2 * VarintBase
      BY <1>1, <2>1
    <3> QED BY <2>3, <3>1
  <2> QED BY <2>4
<1>3. x \in [1..Len(x) -> FileByte]
  BY <1>1, <1>2, LenProperties
<1>4. x \in Seq(FileByte)
  <2>1. Len(x) \in Nat
    BY <1>1
  <2> QED BY <1>3, <2>1
<1>5. Len(x) \in Nat /\ 1 <= Len(x) /\ Len(x) <= 10
  <2>1. Len(x) \in 1..10
    BY <1>1
  <2>2. ASSUME NEW n \in 1..10 PROVE n \in Nat /\ 1 <= n /\ n <= 10
    OBVIOUS
  <2> QED BY <2>1, <2>2
<1> QED BY <1>4, <1>5 DEF x

\* A fixed integer is as many bytes as it is wide.
LEMMA FixedBytes ==
    ASSUME NEW v \in Nat, NEW size \in Nat
    PROVE  EncodeFixed(v, size) \in Seq(FileByte) /\ Len(EncodeFixed(v, size)) = size
<1>1. PICK g : IsLeft(g, v, size) /\ EncodeFixed(v, size) = [i \in 1..size |-> g[i - 1] % ByteBase]
  BY FixedIs
<1>2. ASSUME NEW i \in 1..size PROVE g[i - 1] % ByteBase \in FileByte
  <2>1. i - 1 \in 0..size
    OBVIOUS
  <2>2. g[i - 1] \in Nat
    BY <1>1, <2>1 DEF IsLeft
  <2> QED BY <2>2, EncodingAssumption DEF FileByte
<1>3. EncodeFixed(v, size) \in [1..size -> FileByte]
  BY <1>1, <1>2
<1> QED BY <1>3

\* A checksum is one of its values, a number of 32 bits.
LEMMA CrcTyped ==
    ASSUME NEW data \in Seq(Nat)
    PROVE  Crc(data) \in Nat /\ Crc(data) < CrcValues /\ Crc(data) <= Max32
<1> DEFINE n == Len(data)
           A == 0..(CrcValues - 1)
           step == [q \in (1..n) \X A |-> (31 * q[2] + data[q[1]] + 1) % CrcValues]
           Is(f) == f = [i \in 0..n |-> IF i = 0 THEN 0 ELSE (31 * f[i - 1] + data[i] + 1) % CrcValues]
           Sum == CHOOSE f : Is(f)
<1>1. n \in Nat /\ (\A i \in 1..n : data[i] \in Nat) /\ CrcValues \in Nat \ {0} /\ CrcValues <= Max32 + 1
  BY LenProperties, ElementOfSeq, MaxAre, FileAssumption
<1> HIDE DEF n
<1>2. \A i \in 1..n : \A h \in A : (31 * h + data[i] + 1) % CrcValues \in A
  BY <1>1
<1>3. step \in [(1..n) \X A -> A] /\ 0 \in A
  BY <1>1, <1>2
<1>4. PICK g : IsSteps(g, 0, n, step) /\ g \in [0..n -> A]
  <2> HIDE DEF step, A
  <2> QED BY <1>1, <1>3, StepsOn
<1>5. Is(g)
  <2>1. ASSUME NEW i \in 0..n PROVE g[i] = IF i = 0 THEN 0 ELSE (31 * g[i - 1] + data[i] + 1) % CrcValues
    <3>1. CASE i = 0
      BY <1>4, <3>1 DEF IsSteps
    <3>2. CASE i # 0
      <4>1. i \in 1..n /\ i - 1 \in 0..n
        BY <1>1, <3>2
      <4>2. g[i - 1] \in A /\ g[i] = step[<<i, g[i - 1]>>]
        BY <1>4, <3>2, <4>1 DEF IsSteps
      <4>3. <<i, g[i - 1]>> \in (1..n) \X A
        BY <4>1, <4>2
      <4> QED BY <3>2, <4>2, <4>3
    <3> QED BY <3>1, <3>2
  <2> QED BY <1>4, <2>1
<1>6. Is(Sum)
  <2> HIDE DEF Is
  <2> QED BY <1>5
<1>7. Crc(data) = Sum[n]
  BY DEF Crc, n
<1> HIDE DEF Sum
<1>8. Sum[0] = 0 /\ \A i \in 1..n : Sum[i] = (31 * Sum[i - 1] + data[i] + 1) % CrcValues
  <2>1. \A i \in 1..n : i \in 0..n /\ i # 0
    BY <1>1
  <2>2. 0 \in 0..n
    BY <1>1
  <2> QED BY <1>6, <2>1, <2>2
<1>9. \A k \in Nat : k <= n => Sum[k] \in A
  <2> DEFINE S == {k \in Nat : k <= n => Sum[k] \in A}
  <2>1. 0 \in S
    BY <1>3, <1>8
  <2>2. ASSUME NEW k \in Nat, k \in S PROVE k + 1 \in S
    <3> SUFFICES ASSUME k + 1 <= n PROVE Sum[k + 1] \in A
      OBVIOUS
    <3>1. k + 1 \in 1..n /\ (k + 1) - 1 = k /\ k <= n
      BY <1>1
    <3>2. Sum[k] \in A /\ Sum[k + 1] = (31 * Sum[k] + data[k + 1] + 1) % CrcValues
      BY <1>8, <2>2, <3>1
    <3> HIDE DEF A
    <3> QED BY <1>2, <3>1, <3>2
  <2>3. \A k \in Nat : k \in S
    <3> HIDE DEF S
    <3> QED BY <2>1, <2>2, Induction
  <2> QED BY <2>3
<1>10. Sum[n] \in A
  BY <1>1, <1>9
<1> QED BY <1>1, <1>7, <1>10, MaxAre

\* What a block may hold: its length fits 64 bits, or 32 in an old file.
Storable(v, content) == content \in Seq(FileByte) /\ Len(content) <= LengthMax(v)

Formats == {"V1", "V2"}

\* The length that is written in front of a block is read back.
LEMMA LengthFieldIs ==
    ASSUME NEW v \in Formats, NEW n \in Nat, n <= LengthMax(v)
    PROVE  LET field == LengthField(v, n) IN
           /\ field \in Seq(FileByte) /\ Len(field) \in Nat
           /\ 1 <= Len(field) /\ Len(field) <= 10 + Size32 /\ (v = "V1" => Len(field) = Size32)
           /\ \A data : \A p \in Nat :
                 Placed(data, p, field) => LengthAt(data, v, p) = [len |-> Len(field), value |-> n]
<1>1. Size32 \in Nat /\ 1 <= Size32 /\ Size32 \in 0..Size64
  BY EncodingAssumption
<1>2. CASE v = "V1"
  <2>1. LengthField(v, n) = EncodeFixed(n, Size32)
    BY <1>2 DEF LengthField
  <2>2. EncodeFixed(n, Size32) \in Seq(FileByte) /\ Len(EncodeFixed(n, Size32)) = Size32
    BY <1>1, FixedBytes
  <2>3. n < Power[Size32]
    <3>1. Power[Size32] \in Nat
      BY <1>1, PowerIs
    <3> QED BY <1>2, <3>1 DEF Max32, LengthMax
  <2>4. ASSUME NEW data, NEW p \in Nat, Placed(data, p, EncodeFixed(n, Size32))
        PROVE  DecodeFixed(data, p, Size32) = n
    <3>1. \A i \in 1..Size32 : data[p + i] = EncodeFixed(n, Size32)[i]
      BY <2>2, <2>4 DEF Placed
    <3> QED BY <1>1, <2>3, <3>1, FixedRoundTrip
  <2>5. \A data : \A p \in Nat :
           Placed(data, p, EncodeFixed(n, Size32)) => LengthAt(data, v, p) = [len |-> Size32, value |-> n]
    BY <1>2, <2>4 DEF LengthAt, Fixed
  <2> QED BY <1>1, <2>1, <2>2, <2>5
<1>3. CASE v = "V2"
  <2>0. n <= Max64
    BY <1>3 DEF LengthMax
  <2>1. LengthField(v, n) = EncodeVarint64(n)
    BY <1>3 DEF LengthField
  <2>2. EncodeVarint64(n) \in Seq(FileByte)
    BY <2>0, Varint64Bytes
  <2>3. Len(EncodeVarint64(n)) \in Nat /\ 1 <= Len(EncodeVarint64(n)) /\ Len(EncodeVarint64(n)) <= 10
    BY <2>0, Varint64Bytes
  <2>4. ASSUME NEW data, NEW p \in Nat, Placed(data, p, EncodeVarint64(n))
        PROVE  DecodeVarint64(data, p) = [len |-> Len(EncodeVarint64(n)), value |-> n]
    <3>1. \A i \in 1..Len(EncodeVarint64(n)) : data[p + i] = EncodeVarint64(n)[i]
      BY <2>4 DEF Placed
    <3> QED BY <2>0, <3>1, Varint64RoundTrip
  <2>5. \A data : \A p \in Nat :
           Placed(data, p, EncodeVarint64(n))
              => LengthAt(data, v, p) = [len |-> Len(EncodeVarint64(n)), value |-> n]
    BY <1>3, <2>4 DEF LengthAt
  <2> QED BY <1>1, <1>3, <2>1, <2>2, <2>3, <2>5
<1> QED BY <1>2, <1>3 DEF Formats

\* How long the parts of a block are.
LEMMA BlockIs ==
    ASSUME NEW v \in Formats, NEW content, Storable(v, content)
    PROVE  LET field == LengthField(v, Len(content))
               sum == EncodeFixed(Crc(content), Size32)
               bytes == BlockBytes(v, content)
           IN  /\ bytes = (field \o sum) \o content
               /\ sum \in Seq(FileByte) /\ Len(sum) = Size32
               /\ field \o sum \in Seq(FileByte) /\ Len(field \o sum) = Len(field) + Size32
               /\ bytes \in Seq(FileByte) /\ Len(bytes) \in Nat
               /\ Len(bytes) = Len(field) + Size32 + Len(content)
               /\ Len(bytes) <= LongestHead + Len(content)
<1> DEFINE field == LengthField(v, Len(content))
           sum == EncodeFixed(Crc(content), Size32)
           bytes == BlockBytes(v, content)
<1>1. content \in Seq(FileByte) /\ content \in Seq(Nat) /\ Len(content) \in Nat /\ Size32 \in Nat
  BY EncodingAssumption, LenProperties DEF Storable, FileByte
<1>2. field \in Seq(FileByte) /\ Len(field) \in Nat /\ Len(field) <= 10 + Size32
  BY <1>1, LengthFieldIs DEF Storable
<1>3. Crc(content) \in Nat
  BY <1>1, CrcTyped
<1>4. sum \in Seq(FileByte) /\ Len(sum) = Size32
  BY <1>1, <1>3, FixedBytes
<1>5. bytes = (field \o sum) \o content
  BY DEF BlockBytes
<1> HIDE DEF field, sum, bytes
<1>6. field \o sum \in Seq(FileByte) /\ Len(field \o sum) = Len(field) + Size32
  BY <1>2, <1>4, ConcatProperties
<1>7. bytes \in Seq(FileByte) /\ Len(bytes) = Len(field \o sum) + Len(content)
  BY <1>1, <1>5, <1>6, ConcatProperties
<1>8. Len(bytes) = Len(field) + Size32 + Len(content) /\ Len(bytes) \in Nat
  BY <1>1, <1>2, <1>6, <1>7
<1>9. Len(bytes) <= LongestHead + Len(content)
  BY <1>1, <1>2, <1>8 DEF LongestHead
<1> QED BY <1>4, <1>5, <1>6, <1>7, <1>8, <1>9 DEF field, sum, bytes

\* get_block() and get_block_at_index() return the contents that _mtbl_writer_write_block()
\* wrote there, and the checks of mtbl_verify accept them.
THEOREM BlockRead ==
    ASSUME NEW v \in Formats, NEW content, Storable(v, content),
           NEW f \in Seq(Nat), NEW p \in Nat, Placed(f, p, BlockBytes(v, content)),
           p + Len(BlockBytes(v, content)) <= Len(f), p + 10 <= Len(f)
    PROVE  LET l == Len(LengthField(v, Len(content))) IN
           /\ LengthAt(f, v, p) = [len |-> l, value |-> Len(content)]
           /\ Mapped(f, p)
           /\ CrcMatches(f, p + l, content)
           /\ At(f, p + l + Size32, Len(content)) = content
           /\ \A checksums \in BOOLEAN :
                 BlockAt(f, v, p, checksums) = [res |-> "block", content |-> content]
<1> DEFINE field == LengthField(v, Len(content))
           sum == EncodeFixed(Crc(content), Size32)
           l == Len(field)
           n == Len(content)
           q == p + l + Size32
<1>1. content \in Seq(Nat) /\ n \in Nat /\ Len(f) \in Nat
  BY EncodingAssumption, LenProperties DEF Storable, FileByte
<1>2. /\ field \in Seq(FileByte) /\ l \in Nat /\ sum \in Seq(FileByte) /\ Len(sum) = Size32
      /\ field \o sum \in Seq(FileByte) /\ Len(field \o sum) = l + Size32
      /\ Len(BlockBytes(v, content)) = l + Size32 + n
      /\ BlockBytes(v, content) = (field \o sum) \o content
      /\ content \in Seq(FileByte)
  BY <1>1, BlockIs, LengthFieldIs DEF Storable
<1>3. Size32 \in Nat /\ Size32 \in 0..Size64 /\ q \in Nat /\ p + l \in Nat
  BY <1>2, EncodingAssumption
<1>4. Placed(f, p, field \o sum) /\ Placed(f, p + Len(field \o sum), content)
  <2> HIDE DEF field, sum
  <2> QED BY <1>2, PlacedConcat
<1>5. Placed(f, p, field) /\ Placed(f, p + l, sum)
  <2> HIDE DEF field, sum
  <2> QED BY <1>2, <1>4, PlacedConcat DEF l
<1>6. LengthAt(f, v, p) = [len |-> l, value |-> n]
  BY <1>1, <1>5, LengthFieldIs DEF Storable
<1>7. Placed(f, q, content)
  <2>1. p + Len(field \o sum) = q
    <3> HIDE DEF field, sum, l
    <3> QED BY <1>2, <1>3 DEF q
  <2> QED BY <1>4, <2>1
<1>8. DecodeFixed(f, p + l, Size32) = Crc(content)
  <2>1. Crc(content) \in Nat /\ Crc(content) <= Max32
    BY <1>1, CrcTyped
  <2>2. Crc(content) < Power[Size32]
    <3>1. Power[Size32] \in Nat
      BY <1>3, PowerIs
    <3> HIDE DEF sum
    <3> QED BY <2>1, <3>1 DEF Max32
  <2>3. \A i \in 1..Size32 : f[(p + l) + i] = EncodeFixed(Crc(content), Size32)[i]
    BY <1>2, <1>5 DEF Placed
  <2> DEFINE value == Crc(content)
             at == p + l
  <2>4. /\ value \in Nat /\ at \in Nat /\ Size32 \in 0..Size64 /\ value < Power[Size32]
        /\ \A i \in 1..Size32 : f[at + i] = EncodeFixed(value, Size32)[i]
    <3> HIDE DEF l, field, sum
    <3> QED BY <1>3, <2>1, <2>2, <2>3
  <2> HIDE DEF value, at
  <2>5. DecodeFixed(f, at, Size32) = value
    BY <2>4, FixedRoundTrip
  <2> QED BY <2>5 DEF value, at
<1> HIDE DEF field, sum, l, n
<1>9. q + n <= Len(f)
  BY <1>1, <1>2, <1>3
<1>10. At(f, q, n) = content
  <2>1. \A i \in (q + 1)..(q + n) : f[i] \in Nat
    BY <1>1, <1>3, <1>9, ElementOfSeq
  <2>2. /\ SubSeq(f, q + 1, q + n) \in Seq(Nat)
        /\ Len(SubSeq(f, q + 1, q + n)) = n
        /\ \A i \in 1..n : SubSeq(f, q + 1, q + n)[i] = f[q + i]
    <3>1. q \in Nat /\ n \in Nat
      BY <1>1, <1>3
    <3> HIDE DEF q
    <3>2. (IF q + 1 <= q + n THEN (q + n) - (q + 1) + 1 ELSE 0) = n
      BY <3>1
    <3>3. \A i \in 1..n : (q + 1) + i - 1 = q + i
      BY <3>1
    <3> QED BY <1>1, <1>3, <1>9, <2>1, <3>2, <3>3, SubSeqProperties
  <2>3. \A i \in 1..n : SubSeq(f, q + 1, q + n)[i] = content[i]
    BY <1>7, <2>2 DEF Placed, n
  <2> HIDE DEF q
  <2> QED BY <1>1, <2>2, <2>3, SeqEqual DEF At, n
<1>11. CrcMatches(f, p + l, content)
  BY <1>8 DEF CrcMatches, Fixed
<1>12. Mapped(f, p)
  BY DEF Mapped
<1>13. ASSUME NEW checksums \in BOOLEAN
       PROVE  BlockAt(f, v, p, checksums) = [res |-> "block", content |-> content]
  <2> DEFINE size == LengthAt(f, v, p)
  <2>1. size.len = l /\ size.value = n
    BY <1>6
  <2> HIDE DEF size
  <2>2. p + size.len + Size32 = q
    BY <2>1 DEF q
  <2>3. ~(q + size.value > Len(f))
    BY <1>1, <1>3, <1>9, <2>1
  <2> HIDE DEF q
  <2> QED BY <1>10, <1>11, <1>12, <2>1, <2>2, <2>3 DEF BlockAt, size
<1> QED BY <1>6, <1>10, <1>11, <1>12, <1>13 DEF field, l, n, q

-------------------------------------------------------------------------------
(* The index block of a file *)

\* The varints of the offsets offs
Varints(offs) == [i \in DOMAIN offs |-> EncodeVarint64(offs[i])]

\* Offsets whose varints have at most ten bytes
Encodable(offs) == offs \in Seq(Nat) /\ \A i \in 1..Len(offs) : offs[i] <= Max64

\* The varints of an index block have one to ten bytes each.
LEMMA VarintsTyped ==
    ASSUME NEW offs, Encodable(offs)
    PROVE  /\ Varints(offs) \in Seq(Seq(FileByte)) /\ Len(Varints(offs)) = Len(offs)
           /\ \A i \in 1..Len(offs) : /\ Varints(offs)[i] = EncodeVarint64(offs[i])
                                      /\ offs[i] \in Nat
                                      /\ Len(EncodeVarint64(offs[i])) \in Nat
                                      /\ 1 <= Len(EncodeVarint64(offs[i]))
                                      /\ Len(EncodeVarint64(offs[i])) <= 10
<1>1. offs \in Seq(Nat) /\ Len(offs) \in Nat /\ DOMAIN offs = 1..Len(offs)
  BY LenProperties DEF Encodable
<1>2. \A i \in 1..Len(offs) : offs[i] \in Nat /\ offs[i] <= Max64
  BY <1>1, ElementOfSeq DEF Encodable
<1>3. \A i \in 1..Len(offs) : EncodeVarint64(offs[i]) \in Seq(FileByte)
  BY <1>2, Varint64Bytes
<1>4. Varints(offs) \in [1..Len(offs) -> Seq(FileByte)]
  BY <1>1, <1>3 DEF Varints
<1>5. Varints(offs) \in Seq(Seq(FileByte)) /\ Len(Varints(offs)) = Len(offs)
  BY <1>1, <1>4
<1>6. \A i \in 1..Len(offs) : Varints(offs)[i] = EncodeVarint64(offs[i])
  BY <1>1 DEF Varints
<1>7. \A i \in 1..Len(offs) : /\ Len(EncodeVarint64(offs[i])) \in Nat
                              /\ 1 <= Len(EncodeVarint64(offs[i]))
                              /\ Len(EncodeVarint64(offs[i])) <= 10
  BY <1>2, Varint64Bytes
<1> QED BY <1>2, <1>5, <1>6, <1>7

\* g has the varints up to each of them: where each one is, and how long they are.
LEMMA PartialsAre ==
    ASSUME NEW offs, Encodable(offs), NEW g \in [0..Len(offs) -> Seq(FileByte)],
           Partials(g, Varints(offs), Len(offs))
    PROVE  /\ \A i \in 0..Len(offs) : Len(g[i]) \in Nat /\ i <= Len(g[i]) /\ Len(g[i]) <= 10 * i
           /\ \A i \in 1..Len(offs) : Len(g[i]) = Len(g[i - 1]) + Len(EncodeVarint64(offs[i]))
           /\ Len(g[0]) = 0
           /\ \A i \in 1..Len(offs) : /\ Placed(g[Len(offs)], Len(g[i - 1]), EncodeVarint64(offs[i]))
                                      /\ Len(g[i]) <= Len(g[Len(offs)])
<1> DEFINE n == Len(offs)
           x(i) == EncodeVarint64(offs[i])
<1>1. n \in Nat
  BY LenProperties DEF Encodable
<1>2. \A i \in 1..n : x(i) \in Seq(FileByte) /\ Len(x(i)) \in Nat /\ 1 <= Len(x(i)) /\ Len(x(i)) <= 10
  <2>1. \A i \in 1..n : x(i) = Varints(offs)[i] /\ Varints(offs)[i] \in Seq(FileByte)
    BY VarintsTyped, ElementOfSeq
  <2> QED BY <2>1, VarintsTyped
<1>3. g[0] = <<>> /\ \A i \in 1..n : g[i] = g[i - 1] \o x(i)
  BY VarintsTyped DEF Partials
<1>4. \A i \in 0..n : g[i] \in Seq(FileByte) /\ Len(g[i]) \in Nat
  BY LenProperties
<1> HIDE DEF n, x
<1>5. \A i \in 1..n : i - 1 \in 0..n /\ i \in 0..n
  BY <1>1
<1>6. \A i \in 1..n : Len(g[i]) = Len(g[i - 1]) + Len(x(i))
  BY <1>2, <1>3, <1>4, <1>5, ConcatProperties
<1>7. Len(g[0]) = 0
  BY <1>3
<1>8. \A k \in Nat : k <= n => k <= Len(g[k]) /\ Len(g[k]) <= 10 * k
  <2> DEFINE S == {k \in Nat : k <= n => k <= Len(g[k]) /\ Len(g[k]) <= 10 * k}
  <2>1. 0 \in S
    BY <1>7
  <2>2. ASSUME NEW k \in Nat, k \in S PROVE k + 1 \in S
    <3> SUFFICES ASSUME k + 1 <= n PROVE k + 1 <= Len(g[k + 1]) /\ Len(g[k + 1]) <= 10 * (k + 1)
      OBVIOUS
    <3>1. k + 1 \in 1..n /\ (k + 1) - 1 = k /\ k <= n /\ k \in 0..n /\ k + 1 \in 0..n
      BY <1>1
    <3>2. k <= Len(g[k]) /\ Len(g[k]) <= 10 * k
      BY <2>2, <3>1
    <3> DEFINE a == Len(g[k])
               h == Len(g[k + 1])
               c == Len(x(k + 1))
    <3>3. a \in Nat /\ h \in Nat /\ c \in Nat /\ 1 <= c /\ c <= 10 /\ h = a + c
      BY <1>2, <1>4, <1>6, <3>1
    <3>4. k <= a /\ a <= 10 * k
      BY <3>2
    <3> HIDE DEF a, h, c
    <3>5. k + 1 <= h /\ h <= 10 * (k + 1)
      BY <3>3, <3>4
    <3> QED BY <3>5 DEF h
  <2>3. \A k \in Nat : k \in S
    <3> HIDE DEF S
    <3> QED BY <2>1, <2>2, Induction
  <2> QED BY <2>3
<1>9. ASSUME NEW i \in 1..n
      PROVE  \A k \in Nat : i <= k /\ k <= n => Len(g[i]) <= Len(g[k]) /\ Placed(g[k], Len(g[i - 1]), x(i))
  <2> DEFINE S == {k \in Nat : i <= k /\ k <= n => Len(g[i]) <= Len(g[k]) /\ Placed(g[k], Len(g[i - 1]), x(i))}
  <2>1. Placed(g[i], Len(g[i - 1]), x(i))
    <3>1. g[i] = g[i - 1] \o x(i) /\ g[i - 1] \in Seq(FileByte) /\ x(i) \in Seq(FileByte)
      BY <1>2, <1>3, <1>4, <1>5
    <3> QED BY <3>1, PlacedBehind
  <2>2. 0 \in S
    BY <1>1
  <2>3. ASSUME NEW k \in Nat, k \in S PROVE k + 1 \in S
    <3> SUFFICES ASSUME i <= k + 1, k + 1 <= n
                 PROVE  Len(g[i]) <= Len(g[k + 1]) /\ Placed(g[k + 1], Len(g[i - 1]), x(i))
      OBVIOUS
    <3>1. CASE i = k + 1
      <4>1. Len(g[i]) \in Nat
        BY <1>4, <1>5
      <4> QED BY <2>1, <3>1, <4>1
    <3>2. CASE i # k + 1
      <4>1. i <= k /\ k <= n /\ k + 1 \in 1..n /\ (k + 1) - 1 = k /\ k \in 0..n
        BY <1>1, <3>2
      <4>2. Placed(g[k], Len(g[i - 1]), x(i)) /\ Len(g[i]) <= Len(g[k])
        BY <2>3, <4>1
      <4>3. g[k + 1] = g[k] \o x(k + 1) /\ g[k] \in Seq(FileByte) /\ x(k + 1) \in Seq(FileByte)
        BY <1>2, <1>3, <1>4, <4>1
      <4>4. Len(g[i - 1]) \in Nat /\ Len(x(i)) \in Nat /\ Len(g[i]) = Len(g[i - 1]) + Len(x(i))
        BY <1>2, <1>4, <1>5, <1>6
      <4>5. Placed(g[k + 1], Len(g[i - 1]), x(i))
        BY <4>2, <4>3, <4>4, PlacedStays
      <4>6. Len(g[k]) \in Nat /\ Len(g[k + 1]) = Len(g[k]) + Len(x(k + 1)) /\ Len(x(k + 1)) \in Nat
            /\ Len(g[i]) \in Nat
        BY <1>2, <1>4, <1>5, <1>6, <4>1
      <4> DEFINE a == Len(g[i])
                 h == Len(g[k])
                 c == Len(g[k + 1])
                 d == Len(x(k + 1))
      <4>7. a <= h /\ a \in Nat /\ h \in Nat /\ c = h + d /\ d \in Nat
        BY <4>2, <4>6
      <4> HIDE DEF a, h, c, d
      <4>8. a <= c
        BY <4>7
      <4> QED BY <4>5, <4>8 DEF a, c
    <3> QED BY <3>1, <3>2
  <2>4. \A k \in Nat : k \in S
    <3> HIDE DEF S
    <3> QED BY <2>2, <2>3, Induction
  <2> QED BY <2>4
<1>10. \A i \in 1..n : Placed(g[n], Len(g[i - 1]), x(i)) /\ Len(g[i]) <= Len(g[n])
  BY <1>1, <1>9
<1>11. \A i \in 0..n : i \in Nat /\ i <= n
  BY <1>1
<1> QED BY <1>4, <1>6, <1>7, <1>8, <1>10, <1>11 DEF n, x

\* The index block: its varints and its restart points.
LEMMA IndexIs ==
    ASSUME NEW offs, Encodable(offs)
    PROVE  \E g \in [0..Len(offs) -> Seq(FileByte)] :
              LET n == Len(offs)
                  index == IndexContent(offs)
              IN  /\ Partials(g, Varints(offs), n)
                  /\ index \in Seq(FileByte) /\ Len(index) = Len(g[n]) + 2 * Size32
                  /\ 2 * Size32 + n <= Len(index) /\ Len(index) <= 10 * n + 2 * Size32
                  /\ \A i \in 1..n : Placed(index, Len(g[i - 1]), EncodeVarint64(offs[i]))
<1> DEFINE n == Len(offs)
           zero == EncodeFixed(0, Size32)
           one == EncodeFixed(1, Size32)
           index == IndexContent(offs)
<1>1. PICK g \in [0..n -> Seq(FileByte)] : Partials(g, Varints(offs), n)
  <2>1. \E g \in [0..Len(Varints(offs)) -> Seq(FileByte)] : Partials(g, Varints(offs), Len(Varints(offs)))
    BY VarintsTyped, PrefixesExist
  <2> QED BY <2>1, VarintsTyped
<1>2. n \in Nat /\ Size32 \in Nat
  BY EncodingAssumption, LenProperties DEF Encodable
<1>3. FlattenSeq(Varints(offs)) = g[n]
  <2>1. Partials(g, Varints(offs), Len(Varints(offs))) /\ Varints(offs) \in Seq(Seq(FileByte))
    BY <1>1, VarintsTyped
  <2>2. FlattenSeq(Varints(offs)) = g[Len(Varints(offs))]
    BY <2>1, FlattenIsLast
  <2> QED BY <2>2, VarintsTyped
<1>4. zero \in Seq(FileByte) /\ one \in Seq(FileByte) /\ Len(zero) = Size32 /\ Len(one) = Size32
  BY <1>2, FixedBytes
<1>5. index = (g[n] \o zero) \o one
  BY <1>3 DEF IndexContent, Varints
<1>6. /\ \A i \in 0..n : Len(g[i]) \in Nat /\ i <= Len(g[i]) /\ Len(g[i]) <= 10 * i
      /\ \A i \in 1..n : Len(g[i]) = Len(g[i - 1]) + Len(EncodeVarint64(offs[i]))
      /\ \A i \in 1..n : /\ Placed(g[n], Len(g[i - 1]), EncodeVarint64(offs[i]))
                         /\ Len(g[i]) <= Len(g[n])
  BY <1>1, PartialsAre
<1>7. n \in 0..n /\ g[n] \in Seq(FileByte) /\ \A i \in 1..n : i \in 0..n /\ i - 1 \in 0..n
  BY <1>1, <1>2
<1> HIDE DEF n, zero, one, index
<1>8. /\ g[n] \o zero \in Seq(FileByte) /\ Len(g[n] \o zero) = Len(g[n]) + Size32
  BY <1>4, <1>7, ConcatProperties
<1>9. index \in Seq(FileByte) /\ Len(index) = Len(g[n] \o zero) + Size32
  <2> DEFINE z == g[n] \o zero
  <2>1. z \in Seq(FileByte) /\ index = z \o one
    BY <1>5, <1>8
  <2> HIDE DEF z
  <2>2. index \in Seq(FileByte) /\ Len(index) = Len(z) + Len(one)
    BY <1>4, <2>1, ConcatProperties
  <2> QED BY <1>4, <2>2 DEF z
<1>10. Len(index) = Len(g[n]) + 2 * Size32
  BY <1>2, <1>6, <1>7, <1>8, <1>9
<1>11. 2 * Size32 + n <= Len(index) /\ Len(index) <= 10 * n + 2 * Size32
  <2> DEFINE a == Len(g[n])
  <2>1. a \in Nat /\ n <= a /\ a <= 10 * n /\ Len(index) = a + 2 * Size32
    BY <1>6, <1>7, <1>10
  <2> HIDE DEF a
  <2> QED BY <1>2, <2>1
<1>12. ASSUME NEW i \in 1..n PROVE Placed(index, Len(g[i - 1]), EncodeVarint64(offs[i]))
  <2> DEFINE x == EncodeVarint64(offs[i])
             p == Len(g[i - 1])
  <2>1. p \in Nat /\ Placed(g[n], p, x) /\ Len(g[i]) = p + Len(x) /\ Len(x) \in Nat
    BY <1>6, <1>7, VarintsTyped DEF n
  <2>2. Len(g[i]) \in Nat /\ p + Len(x) <= Len(g[n])
    <3> HIDE DEF x, p
    <3> QED BY <1>6, <1>7, <2>1
  <2> HIDE DEF x, p
  <2>3. Placed(g[n] \o zero, p, x)
    BY <1>4, <1>7, <2>1, <2>2, PlacedStays
  <2>4. p + Len(x) <= Len(g[n] \o zero)
    BY <1>2, <1>6, <1>7, <1>8, <2>1, <2>2
  <2>5. Placed(index, p, x)
    BY <1>4, <1>5, <1>8, <2>1, <2>3, <2>4, PlacedStays
  <2> QED BY <2>5 DEF p, x
<1> QED BY <1>1, <1>9, <1>10, <1>11, <1>12 DEF n, index

\* Of an index block that block_builder_finish() made, block_iter_next() finds every
\* offset again, and no other.
THEOREM OffsetsDecoded ==
    ASSUME NEW offs, Encodable(offs)
    PROVE  OffsetsIn(IndexContent(offs)) = offs
<1> DEFINE n == Len(offs)
           index == IndexContent(offs)
           l == Len(index)
           upto(k) == [j \in 1..k |-> offs[j]]
<1>1. PICK g \in [0..n -> Seq(FileByte)] :
         /\ Partials(g, Varints(offs), n)
         /\ index \in Seq(FileByte) /\ l = Len(g[n]) + 2 * Size32
         /\ 2 * Size32 + n <= l /\ l <= 10 * n + 2 * Size32
         /\ \A i \in 1..n : Placed(index, Len(g[i - 1]), EncodeVarint64(offs[i]))
  BY IndexIs
<1>2. n \in Nat /\ l \in Nat /\ Size32 \in Nat /\ offs \in Seq(Nat) /\ n <= l
  <2>1. n \in Nat /\ l \in Nat /\ Size32 \in Nat /\ offs \in Seq(Nat)
    BY <1>1, EncodingAssumption, LenProperties DEF Encodable
  <2> HIDE DEF n, l
  <2> QED BY <1>1, <2>1
<1>3. /\ \A i \in 0..n : Len(g[i]) \in Nat
      /\ \A i \in 1..n : /\ Len(g[i]) = Len(g[i - 1]) + Len(EncodeVarint64(offs[i]))
                         /\ Len(g[i]) <= Len(g[n])
      /\ Len(g[0]) = 0
  BY <1>1, PartialsAre
<1>4. \A i \in 1..n : /\ offs[i] \in Nat /\ offs[i] <= Max64
                      /\ Len(EncodeVarint64(offs[i])) \in Nat /\ 1 <= Len(EncodeVarint64(offs[i]))
  BY VarintsTyped DEF Encodable
<1> DEFINE state(i) == [next |-> Len(g[i]), found |-> upto(i)]
           walk == [i \in 0..l |-> state(IF i <= n THEN i ELSE n)]
           Is(f) == f = [i \in 0..l |-> IF i = 0 THEN [next |-> 0, found |-> <<>>]
                                        ELSE ParseOffset(index, f[i - 1])]
           Found == CHOOSE f : Is(f)
<1> HIDE DEF n, l, index
\* The i-th round parses the i-th offset,
<1>5. ASSUME NEW i \in 1..n PROVE ParseOffset(index, state(i - 1)) = state(i)
  <2> DEFINE p == Len(g[i - 1])
             x == EncodeVarint64(offs[i])
             v == DecodeVarint64(index, p)
  <2>1. i - 1 \in 0..n /\ i \in 0..n /\ n \in 0..n /\ i \in Nat /\ i - 1 \in Nat
    BY <1>2
  <2>2. p \in Nat /\ Len(x) \in Nat /\ 1 <= Len(x) /\ Len(g[i]) = p + Len(x) /\ Len(g[i]) <= Len(g[n])
    BY <1>3, <1>4, <2>1
  <2>3. v = [len |-> Len(x), value |-> offs[i]]
    <3>1. \A j \in 1..Len(x) : index[p + j] = x[j]
      BY <1>1 DEF Placed
    <3>2. offs[i] \in Nat /\ offs[i] <= Max64
      BY <1>4
    <3> HIDE DEF p
    <3> QED BY <2>2, <3>1, <3>2, Varint64RoundTrip
  <2>4. v.len = Len(x) /\ v.value = offs[i]
    <3> HIDE DEF v, x
    <3> QED BY <2>3
  <2>5. ~(p >= Len(index) - 2 * Size32 \/ v.len = 0)
    <3>1. Len(index) = Len(g[n]) + 2 * Size32 /\ Len(g[n]) \in Nat
      BY <1>1, <1>3, <2>1 DEF l
    <3>2. v.len >= 1
      <4> HIDE DEF v, x
      <4> QED BY <2>2, <2>4
    <3> HIDE DEF v, x, p
    <3> QED BY <1>2, <2>2, <3>1, <3>2
  <2>6. state(i - 1).next = p /\ state(i - 1).found = upto(i - 1)
    OBVIOUS
  <2>7. Append(upto(i - 1), offs[i]) = upto(i)
    <3>1. upto(i - 1) \in Seq(Nat) /\ Len(upto(i - 1)) = i - 1
      <4>1. \A j \in 1..(i - 1) : offs[j] \in Nat
        BY <1>4, <2>1
      <4> QED BY <2>1, <4>1
    <3>2. offs[i] \in Nat
      BY <1>4
    <3>3. upto(i) \in Seq(Nat) /\ Len(upto(i)) = i
      <4>1. \A j \in 1..i : offs[j] \in Nat
        BY <1>2, <1>4
      <4> QED BY <2>1, <4>1
    <3>4. \A j \in 1..(i - 1) : upto(i - 1)[j] = upto(i)[j]
      OBVIOUS
    <3>5. upto(i)[i] = offs[i]
      BY <2>1
    <3>6. \A j \in 1..i : j \in 1..(i - 1) \/ j = i
      BY <2>1
    <3> HIDE DEF upto
    <3>7. /\ Append(upto(i - 1), offs[i]) \in Seq(Nat) /\ Len(Append(upto(i - 1), offs[i])) = i
          /\ \A j \in 1..(i - 1) : Append(upto(i - 1), offs[i])[j] = upto(i - 1)[j]
          /\ Append(upto(i - 1), offs[i])[i] = offs[i]
      <4> DEFINE s == upto(i - 1)
      <4>1. s \in Seq(Nat) /\ Len(s) + 1 = i /\ Len(s) = i - 1
        BY <2>1, <3>1
      <4> HIDE DEF s
      <4> QED BY <3>2, <4>1, AppendProperties DEF s
    <3> QED BY <3>3, <3>4, <3>5, <3>6, <3>7, SeqEqual
  <2> HIDE DEF upto, v, x
  <2>8. ParseOffset(index, state(i - 1)) = [next |-> p + v.len, found |-> Append(upto(i - 1), v.value)]
    BY <2>5, <2>6 DEF ParseOffset, v
  <2> QED BY <2>2, <2>4, <2>7, <2>8
\* and when there are no more of them nothing is left to parse.
<1>6. ParseOffset(index, state(n)) = state(n)
  <2>1. state(n).next = Len(g[n]) /\ n \in 0..n
    BY <1>2
  <2>2. Len(g[n]) >= Len(index) - 2 * Size32
    BY <1>1, <1>2, <1>3, <2>1 DEF l
  <2> HIDE DEF state
  <2> QED BY <2>1, <2>2 DEF ParseOffset
<1>7. state(0) = [next |-> 0, found |-> <<>>]
  <2>1. upto(0) = <<>>
    OBVIOUS
  <2> QED BY <1>3, <2>1
<1> HIDE DEF state
<1>8. Is(walk)
  <2>1. ASSUME NEW i \in 0..l
        PROVE  walk[i] = IF i = 0 THEN [next |-> 0, found |-> <<>>] ELSE ParseOffset(index, walk[i - 1])
    <3>1. CASE i = 0
      BY <1>2, <1>7, <3>1
    <3>2. CASE i # 0
      <4>1. i - 1 \in 0..l
        BY <1>2, <3>2
      <4>2. CASE i <= n
        <5>1. i \in 1..n /\ i - 1 <= n
          BY <1>2, <3>2, <4>2
        <5> QED BY <1>5, <3>2, <4>1, <4>2, <5>1
      <4>3. CASE ~(i <= n)
        <5>1. i - 1 <= n => i - 1 = n
          BY <1>2, <4>3
        <5>2. walk[i] = state(n) /\ walk[i - 1] = state(n)
          BY <4>1, <4>3, <5>1
        <5> HIDE DEF walk
        <5> QED BY <1>6, <3>2, <5>2
      <4> QED BY <4>2, <4>3
    <3> QED BY <3>1, <3>2
  <2> QED BY <2>1
<1>9. Is(Found)
  <2> HIDE DEF Is
  <2> QED BY <1>8
<1>10. OffsetsIn(index) = Found[l].found
  BY DEF OffsetsIn, l
<1> HIDE DEF Found
<1>11. \A i \in Nat : i <= l => Found[i] = walk[i]
  <2> DEFINE S == {i \in Nat : i <= l => Found[i] = walk[i]}
  <2>1. 0 \in S
    <3>1. 0 \in 0..l
      BY <1>2
    <3>2. Found[0] = [next |-> 0, found |-> <<>>] /\ walk[0] = [next |-> 0, found |-> <<>>]
      <4> HIDE DEF walk
      <4> QED BY <1>8, <1>9, <3>1
    <3> HIDE DEF walk
    <3> QED BY <3>2
  <2>2. ASSUME NEW i \in Nat, i \in S PROVE i + 1 \in S
    <3> SUFFICES ASSUME i + 1 <= l PROVE Found[i + 1] = walk[i + 1]
      OBVIOUS
    <3>1. i + 1 \in 0..l /\ i + 1 # 0 /\ (i + 1) - 1 = i /\ i <= l
      BY <1>2
    <3> HIDE DEF walk
    <3>2. Found[i + 1] = ParseOffset(index, Found[i]) /\ walk[i + 1] = ParseOffset(index, walk[i])
      BY <1>8, <1>9, <3>1
    <3> QED BY <2>2, <3>1, <3>2
  <2>3. \A i \in Nat : i \in S
    <3> HIDE DEF S
    <3> QED BY <2>1, <2>2, Induction
  <2> QED BY <2>3
<1>12. walk[l] = state(n)
  <2>1. l \in 0..l /\ (l <= n => l = n)
    BY <1>2
  <2> QED BY <2>1
<1>13. OffsetsIn(index) = state(n).found
  <2> HIDE DEF walk
  <2> QED BY <1>2, <1>10, <1>11, <1>12
<1>14. upto(n) = offs
  BY <1>2 DEF n
<1> HIDE DEF upto
<1> QED BY <1>13, <1>14 DEF state, index

-------------------------------------------------------------------------------
(* The trailer *)

Sizes == [index_block_offset : Nat, count_data_blocks : Nat, bytes_data_blocks : Nat,
          bytes_index_block : Nat, pending_offset : Nat]

\* The trailer in front of its padding, and in front of the magic number
TrailerFields(meta) ==
    EncodeFixed(meta.index_block_offset, Size64) \o EncodeFixed(meta.count_data_blocks, Size64)
        \o EncodeFixed(meta.bytes_data_blocks, Size64) \o EncodeFixed(meta.bytes_index_block, Size64)

Zeros == [i \in 1..Padding |-> 0]

TrailerFront(meta) == TrailerFields(meta) \o Zeros

\* A magic number is one of 32 bits whose first and last byte are not zero.
LEMMA MagicIs ==
    ASSUME NEW v
    PROVE  /\ Magic(v) \in Nat /\ Power[Size32 - 1] <= Magic(v) /\ Magic(v) < Power[Size32]
           /\ Magic(v) % ByteBase # 0
<1>1. Size32 \in 0..Size64 /\ Size32 - 1 \in 0..Size64
  BY EncodingAssumption
<1>2. Power[Size32] \in Nat /\ Power[Size32 - 1] \in Nat
  BY <1>1, PowerIs
<1>3. Magic(v) \in Power[Size32 - 1]..Max32 /\ Magic(v) % ByteBase # 0
  BY MagicAssumption DEF Magic
<1> QED BY <1>2, <1>3 DEF Max32

\* The trailer is its fields, as wide as metadata_write() makes them, zeros and the magic
\* number.
LEMMA TrailerIs ==
    ASSUME NEW v \in Formats, NEW meta \in Sizes
    PROVE  /\ Trailer(v, meta) = TrailerFront(meta) \o EncodeFixed(Magic(v), Size32)
           /\ TrailerFields(meta) \in Seq(FileByte) /\ Len(TrailerFields(meta)) = 4 * Size64
           /\ Zeros \in Seq(FileByte) /\ Len(Zeros) = Padding
           /\ TrailerFront(meta) \in Seq(FileByte) /\ Len(TrailerFront(meta)) = 4 * Size64 + Padding
           /\ EncodeFixed(Magic(v), Size32) \in Seq(FileByte)
           /\ Len(EncodeFixed(Magic(v), Size32)) = Size32
           /\ Trailer(v, meta) \in Seq(FileByte) /\ Len(Trailer(v, meta)) = MetadataSize
           /\ Size64 \in Nat /\ Size32 \in Nat /\ Padding \in Nat /\ FileByte \subseteq Nat
           /\ MetadataSize \in Nat /\ MetadataSize >= 6
<1> DEFINE offset == EncodeFixed(meta.index_block_offset, Size64)
           blocks == EncodeFixed(meta.count_data_blocks, Size64)
           data == EncodeFixed(meta.bytes_data_blocks, Size64)
           index == EncodeFixed(meta.bytes_index_block, Size64)
           magic == EncodeFixed(Magic(v), Size32)
<1>1. /\ Size64 \in Nat /\ Size64 >= 1 /\ Size32 \in Nat /\ Size32 >= 1 /\ FileByte \subseteq Nat
      /\ Padding \in Nat /\ Padding >= Size32 /\ 0 \in FileByte
  BY EncodingAssumption, MagicAssumption DEF FileByte
<1>2. /\ offset \in Seq(FileByte) /\ Len(offset) = Size64 /\ blocks \in Seq(FileByte) /\ Len(blocks) = Size64
      /\ data \in Seq(FileByte) /\ Len(data) = Size64 /\ index \in Seq(FileByte) /\ Len(index) = Size64
      /\ magic \in Seq(FileByte) /\ Len(magic) = Size32
  <2>1. /\ meta.index_block_offset \in Nat /\ meta.count_data_blocks \in Nat
        /\ meta.bytes_data_blocks \in Nat /\ meta.bytes_index_block \in Nat
    BY DEF Sizes
  <2>2. Magic(v) \in Nat
    BY MagicIs
  <2> QED BY <1>1, <2>1, <2>2, FixedBytes
<1>3. Zeros \in Seq(FileByte) /\ Len(Zeros) = Padding
  BY <1>1 DEF Zeros
<1>4. TrailerFields(meta) = ((offset \o blocks) \o data) \o index
  BY DEF TrailerFields
<1>5. Trailer(v, meta) = TrailerFront(meta) \o magic
  BY DEF Trailer, TrailerFront, TrailerFields, Zeros
<1> HIDE DEF offset, blocks, data, index, magic
<1>6. offset \o blocks \in Seq(FileByte) /\ Len(offset \o blocks) = Size64 + Size64
  BY <1>1, <1>2, ConcatIs
<1>7. (offset \o blocks) \o data \in Seq(FileByte) /\ Len((offset \o blocks) \o data) = Size64 + Size64 + Size64
  <2> DEFINE x == offset \o blocks
  <2>1. x \in Seq(FileByte) /\ Len(x) = Size64 + Size64
    BY <1>6
  <2> HIDE DEF x
  <2>2. x \o data \in Seq(FileByte) /\ Len(x \o data) = Len(x) + Len(data)
    BY <1>2, <2>1, ConcatProperties
  <2> QED BY <1>2, <2>1, <2>2 DEF x
<1>8. TrailerFields(meta) \in Seq(FileByte) /\ Len(TrailerFields(meta)) = 4 * Size64
  <2> DEFINE x == (offset \o blocks) \o data
  <2>1. x \in Seq(FileByte) /\ Len(x) = Size64 + Size64 + Size64
    BY <1>7
  <2> HIDE DEF x
  <2>2. x \o index \in Seq(FileByte) /\ Len(x \o index) = Len(x) + Len(index)
    BY <1>2, <2>1, ConcatProperties
  <2>3. TrailerFields(meta) = x \o index
    BY <1>4 DEF x
  <2> QED BY <1>1, <1>2, <2>1, <2>2, <2>3
<1>9. TrailerFront(meta) \in Seq(FileByte) /\ Len(TrailerFront(meta)) = 4 * Size64 + Padding
  <2>1. 4 * Size64 \in Nat
    BY <1>1
  <2> QED BY <1>1, <1>3, <1>8, <2>1, ConcatIs DEF TrailerFront
<1>10. Trailer(v, meta) \in Seq(FileByte) /\ Len(Trailer(v, meta)) = MetadataSize
  <2>1. 4 * Size64 + Padding \in Nat
    BY <1>1
  <2> QED BY <1>1, <1>2, <1>5, <1>9, <2>1, ConcatIs DEF MetadataSize
<1>11. MetadataSize \in Nat /\ MetadataSize >= 6
  BY <1>1 DEF MetadataSize
<1> QED BY <1>1, <1>2, <1>3, <1>5, <1>8, <1>9, <1>10, <1>11 DEF magic

\* metadata_read() reads what metadata_write() wrote.
THEOREM TrailerRead ==
    ASSUME NEW v \in Formats, NEW meta \in Sizes,
           meta.index_block_offset <= Max64, meta.count_data_blocks <= Max64,
           meta.bytes_data_blocks <= Max64, meta.bytes_index_block <= Max64,
           NEW f, NEW p \in Nat, Len(f) = p + MetadataSize, Placed(f, p, Trailer(v, meta))
    PROVE  /\ MetadataRead(f, p) =
                [version |-> v, index_block_offset |-> meta.index_block_offset,
                 count_data_blocks |-> meta.count_data_blocks,
                 bytes_data_blocks |-> meta.bytes_data_blocks,
                 bytes_index_block |-> meta.bytes_index_block]
           /\ KnownMagic(MagicAt(f))
<1> DEFINE offset == EncodeFixed(meta.index_block_offset, Size64)
           blocks == EncodeFixed(meta.count_data_blocks, Size64)
           data == EncodeFixed(meta.bytes_data_blocks, Size64)
           index == EncodeFixed(meta.bytes_index_block, Size64)
           magic == EncodeFixed(Magic(v), Size32)
           x == TrailerFields(meta)
           front == TrailerFront(meta)
<1>1. /\ meta.index_block_offset \in Nat /\ meta.count_data_blocks \in Nat
      /\ meta.bytes_data_blocks \in Nat /\ meta.bytes_index_block \in Nat
  BY DEF Sizes
<1>2. /\ Size64 \in Nat /\ Size32 \in Nat /\ Padding \in Nat
      /\ x \in Seq(Nat) /\ Len(x) = 4 * Size64 /\ Zeros \in Seq(Nat) /\ Len(Zeros) = Padding
      /\ front \in Seq(Nat) /\ Len(front) = 4 * Size64 + Padding
      /\ magic \in Seq(Nat) /\ Len(magic) = Size32
      /\ Trailer(v, meta) = front \o magic /\ front = x \o Zeros
  <2>1. /\ Size64 \in Nat /\ Size32 \in Nat /\ Padding \in Nat
        /\ x \in Seq(FileByte) /\ Len(x) = 4 * Size64 /\ Zeros \in Seq(FileByte) /\ Len(Zeros) = Padding
        /\ front \in Seq(FileByte) /\ Len(front) = 4 * Size64 + Padding
        /\ magic \in Seq(FileByte) /\ Len(magic) = Size32 /\ Trailer(v, meta) = front \o magic
    BY TrailerIs
  <2>2. front = x \o Zeros
    BY DEF TrailerFront
  <2> HIDE DEF x, front, magic
  <2> QED BY <2>1, <2>2, BytesAreNumbers
<1>3. /\ offset \in Seq(Nat) /\ Len(offset) = Size64 /\ blocks \in Seq(Nat) /\ Len(blocks) = Size64
      /\ data \in Seq(Nat) /\ Len(data) = Size64 /\ index \in Seq(Nat) /\ Len(index) = Size64
  BY <1>1, <1>2, FixedTyped
<1>4. Placed(f, p, front) /\ Placed(f, p + (4 * Size64 + Padding), magic)
  <2> HIDE DEF x, front, magic
  <2>1. front \in Seq(Nat) /\ magic \in Seq(Nat) /\ Placed(f, p, front \o magic)
    BY <1>2
  <2>2. Placed(f, p, front) /\ Placed(f, p + Len(front), magic)
    BY <2>1, PlacedConcat
  <2>3. Len(front) = 4 * Size64 + Padding
    BY <1>2
  <2> QED BY <2>2, <2>3
<1>5. Placed(f, p, x)
  <2> HIDE DEF x, front, magic
  <2> QED BY <1>2, <1>4, PlacedConcat
<1>6. x = ((offset \o blocks) \o data) \o index
  BY DEF TrailerFields
<1> HIDE DEF x, front, offset, blocks, data, index, magic
<1>7. /\ offset \o blocks \in Seq(Nat) /\ Len(offset \o blocks) = 2 * Size64
      /\ (offset \o blocks) \o data \in Seq(Nat) /\ Len((offset \o blocks) \o data) = 3 * Size64
  <2>1. offset \o blocks \in Seq(Nat) /\ Len(offset \o blocks) = Size64 + Size64
    BY <1>2, <1>3, ConcatIs
  <2> DEFINE y == offset \o blocks
  <2>2. y \in Seq(Nat) /\ Len(y) = Size64 + Size64
    BY <2>1
  <2> HIDE DEF y
  <2>3. y \o data \in Seq(Nat) /\ Len(y \o data) = Len(y) + Len(data)
    BY <1>3, <2>2, ConcatProperties
  <2>4. Len(y) = 2 * Size64 /\ Len(y \o data) = 3 * Size64
    BY <1>2, <1>3, <2>2, <2>3
  <2> QED BY <2>2, <2>3, <2>4 DEF y
<1>8. Placed(f, p, (offset \o blocks) \o data) /\ Placed(f, p + 3 * Size64, index)
  <2> DEFINE y == (offset \o blocks) \o data
  <2>1. y \in Seq(Nat) /\ Len(y) = 3 * Size64 /\ Placed(f, p, y \o index)
    BY <1>5, <1>6, <1>7
  <2> HIDE DEF y
  <2>2. Placed(f, p, y) /\ Placed(f, p + Len(y), index)
    BY <1>3, <2>1, PlacedConcat
  <2> QED BY <2>1, <2>2 DEF y
<1>9. Placed(f, p, offset \o blocks) /\ Placed(f, p + 2 * Size64, data)
  <2> DEFINE y == offset \o blocks
  <2>1. y \in Seq(Nat) /\ Len(y) = 2 * Size64 /\ Placed(f, p, y \o data)
    BY <1>7, <1>8
  <2> HIDE DEF y
  <2>2. Placed(f, p, y) /\ Placed(f, p + Len(y), data)
    BY <1>3, <2>1, PlacedConcat
  <2> QED BY <2>1, <2>2 DEF y
<1>10. Placed(f, p, offset) /\ Placed(f, p + Size64, blocks)
  BY <1>3, <1>9, PlacedConcat
<1>11. ASSUME NEW n \in Nat, n <= Max64, NEW q \in Nat, Placed(f, q, EncodeFixed(n, Size64))
       PROVE  Fixed(f, q, Size64) = n
  <2>1. Size64 \in 0..Size64 /\ Power[Size64] \in Nat
    BY <1>2, PowerIs
  <2>2. n < Power[Size64]
    BY <1>11, <2>1 DEF Max64
  <2>3. \A i \in 1..Size64 : f[q + i] = EncodeFixed(n, Size64)[i]
    BY <1>2, <1>11, FixedTyped DEF Placed
  <2> QED BY <2>1, <2>2, <2>3, FixedRoundTrip DEF Fixed
<1>12. p + Size64 \in Nat /\ p + 2 * Size64 \in Nat /\ p + 3 * Size64 \in Nat
  BY <1>2
<1>13. /\ Fixed(f, p, Size64) = meta.index_block_offset
       /\ Fixed(f, p + Size64, Size64) = meta.count_data_blocks
       /\ Fixed(f, p + 2 * Size64, Size64) = meta.bytes_data_blocks
       /\ Fixed(f, p + 3 * Size64, Size64) = meta.bytes_index_block
  BY <1>1, <1>8, <1>9, <1>10, <1>11, <1>12 DEF offset, blocks, data, index
<1>14. MagicAt(f) = Magic(v)
  <2> DEFINE q == p + (4 * Size64 + Padding)
             value == Magic(v)
  <2>1. Len(f) - Size32 = q /\ q \in Nat /\ Size32 \in 0..Size64
    BY <1>2, EncodingAssumption DEF MetadataSize
  <2>2. value \in Nat /\ value < Power[Size32]
    BY MagicIs
  <2>3. \A i \in 1..Size32 : f[q + i] = EncodeFixed(value, Size32)[i]
    BY <1>2, <1>4 DEF Placed, magic
  <2> HIDE DEF q, value
  <2>4. DecodeFixed(f, q, Size32) = value
    BY <2>1, <2>2, <2>3, FixedRoundTrip
  <2> QED BY <2>1, <2>4 DEF MagicAt, Fixed, value
<1>15. VersionOf(Magic(v)) = v /\ KnownMagic(Magic(v))
  BY MagicAssumption DEF VersionOf, KnownMagic, Magic, Formats
<1> QED BY <1>13, <1>14, <1>15 DEF MetadataRead

\* A fixed integer whose last byte is zero fits one byte less; one whose first byte is
\* zero is a multiple of ByteBase.
LEMMA ZeroByte ==
    ASSUME NEW data, NEW p \in Nat, NEW size \in 1..Size64,
           \A i \in 1..size : data[p + i] \in FileByte
    PROVE  /\ DecodeFixed(data, p, size) \in Nat
           /\ data[p + size] = 0 => DecodeFixed(data, p, size) < Power[size - 1]
           /\ data[p + 1] = 0 => DecodeFixed(data, p, size) % ByteBase = 0
<1> DEFINE A == Nat
           step == [q \in (1..size) \X A |-> ByteBase * q[2] + data[p + size + 1 - q[1]]]
           Is(f) == f = [i \in 0..size |-> IF i = 0 THEN 0
                                           ELSE ByteBase * f[i - 1] + data[p + size + 1 - i]]
           Value == CHOOSE f : Is(f)
<1>1. size \in Nat /\ size >= 1 /\ size <= Size64 /\ Size64 \in Nat /\ ByteBase \in Nat \ {0, 1}
  BY EncodingAssumption
<1>2. ASSUME NEW i \in 1..size PROVE data[p + size + 1 - i] \in FileByte
  <2> DEFINE k == size + 1 - i
  <2>1. k \in 1..size /\ p + k = p + size + 1 - i
    BY <1>1
  <2> HIDE DEF k
  <2>2. data[p + k] \in FileByte
    BY <2>1
  <2> QED BY <2>1, <2>2
<1>3. step \in [(1..size) \X A -> A] /\ 0 \in A
  <2>1. \A i \in 1..size : \A h \in Nat : ByteBase * h + data[p + size + 1 - i] \in Nat
    BY <1>1, <1>2 DEF FileByte
  <2> QED BY <2>1
<1>4. PICK g : IsSteps(g, 0, size, step) /\ g \in [0..size -> A]
  <2> HIDE DEF step, A
  <2> QED BY <1>1, <1>3, StepsOn
<1>5. Is(g)
  <2>1. ASSUME NEW i \in 0..size
        PROVE  g[i] = IF i = 0 THEN 0 ELSE ByteBase * g[i - 1] + data[p + size + 1 - i]
    <3>1. CASE i = 0
      BY <1>4, <3>1 DEF IsSteps
    <3>2. CASE i # 0
      <4>1. i \in 1..size /\ i - 1 \in 0..size
        BY <1>1, <3>2
      <4>2. g[i - 1] \in A /\ g[i] = step[<<i, g[i - 1]>>]
        BY <1>4, <3>2, <4>1 DEF IsSteps
      <4>3. <<i, g[i - 1]>> \in (1..size) \X A
        BY <4>1, <4>2
      <4> QED BY <3>2, <4>2, <4>3
    <3> QED BY <3>1, <3>2
  <2> QED BY <1>4, <2>1
<1>6. Is(Value)
  <2> HIDE DEF Is
  <2> QED BY <1>5
<1>7. DecodeFixed(data, p, size) = Value[size]
  BY DEF DecodeFixed
<1> HIDE DEF Value
<1>8. /\ Value[0] = 0
      /\ \A i \in 1..size : Value[i] = ByteBase * Value[i - 1] + data[p + size + 1 - i]
  <2>1. 0 \in 0..size /\ \A i \in 1..size : i \in 0..size /\ i # 0
    BY <1>1
  <2> QED BY <1>6, <2>1
\* As many bytes hold it, and one less if the first to be looked at is zero.
<1>9. \A k \in Nat : k <= size => Value[k] \in Nat
  <2> DEFINE S == {k \in Nat : k <= size => Value[k] \in Nat}
  <2>1. 0 \in S
    BY <1>8
  <2>2. ASSUME NEW k \in Nat, k \in S PROVE k + 1 \in S
    <3> SUFFICES ASSUME k + 1 <= size PROVE Value[k + 1] \in Nat
      OBVIOUS
    <3>1. k + 1 \in 1..size /\ (k + 1) - 1 = k /\ k <= size
      BY <1>1
    <3>2. Value[k] \in Nat /\ Value[k + 1] = ByteBase * Value[k] + data[p + size + 1 - (k + 1)]
      BY <1>8, <2>2, <3>1
    <3>3. data[p + size + 1 - (k + 1)] \in Nat
      BY <1>2, <3>1 DEF FileByte
    <3> QED BY <1>1, <3>2, <3>3
  <2>3. \A k \in Nat : k \in S
    <3> HIDE DEF S
    <3> QED BY <2>1, <2>2, Induction
  <2> QED BY <2>3
<1>10. ASSUME data[p + size] = 0 PROVE \A k \in Nat : k + 1 <= size => Value[k + 1] < Power[k]
  <2> DEFINE S == {k \in Nat : k + 1 <= size => Value[k + 1] < Power[k]}
  <2>1. 0 \in S
    <3>1. 1 \in 1..size /\ p + size + 1 - 1 = p + size
      BY <1>1
    <3>2. Value[1] = 0 /\ Power[0] = 1
      <4>1. Value[1] = ByteBase * Value[1 - 1] + data[p + size + 1 - 1] /\ 1 - 1 = 0
        BY <1>8, <3>1
      <4> QED BY <1>1, <1>8, <1>10, <3>1, <4>1, PowerIs
    <3> QED BY <3>2
  <2>2. ASSUME NEW k \in Nat, k \in S PROVE k + 1 \in S
    <3> SUFFICES ASSUME (k + 1) + 1 <= size PROVE Value[(k + 1) + 1] < Power[k + 1]
      OBVIOUS
    <3> DEFINE j == k + 1
               i == j + 1
               x == data[p + size + 1 - i]
    <3>1. j \in Nat /\ j <= size /\ i \in 1..size /\ i - 1 = j /\ j - 1 = k /\ j \in 1..Size64
          /\ k \in 0..Size64
      BY <1>1
    <3>2. Value[j] \in Nat /\ Value[j] < Power[k]
      BY <1>9, <2>2, <3>1
    <3>3. Value[i] = ByteBase * Value[j] + x
      <4> HIDE DEF i, j
      <4> QED BY <1>8, <3>1
    <3>4. x \in Nat /\ x < ByteBase
      <4>1. x \in FileByte
        BY <1>2, <3>1
      <4> QED BY <1>1, <4>1 DEF FileByte
    <3> HIDE DEF i, x, j
    <3>5. Power[j] = ByteBase * Power[k] /\ Power[k] \in Nat
      BY <3>1, PowerIs
    <3> DEFINE u == Value[j]
               w == Power[k]
    <3>6. u \in Nat /\ w \in Nat /\ u + 1 <= w
      BY <3>2, <3>5
    <3> HIDE DEF u, w
    <3>7. ByteBase * (u + 1) <= ByteBase * w /\ ByteBase * (u + 1) = ByteBase * u + ByteBase
      BY <1>1, <3>6
    <3>8. ByteBase * u + x < ByteBase * w
      <4> DEFINE bu == ByteBase * u
                 bw == ByteBase * w
      <4>1. bu \in Nat /\ bw \in Nat /\ bu + ByteBase <= bw
        BY <1>1, <3>6, <3>7
      <4> HIDE DEF bu, bw
      <4>2. bu + x < bw
        BY <1>1, <3>4, <4>1
      <4> QED BY <4>2 DEF bu, bw
    <3> QED BY <3>3, <3>5, <3>8 DEF i, j, u, w
  <2>3. \A k \in Nat : k \in S
    <3> HIDE DEF S
    <3> QED BY <2>1, <2>2, Induction
  <2> QED BY <2>3
<1>11. ASSUME data[p + size] = 0 PROVE Value[size] < Power[size - 1]
  <2>1. size - 1 \in Nat /\ (size - 1) + 1 = size /\ (size - 1) + 1 <= size
    BY <1>1
  <2>2. Value[(size - 1) + 1] < Power[size - 1]
    BY <1>10, <1>11, <2>1
  <2> QED BY <2>1, <2>2
<1>12. ASSUME data[p + 1] = 0 PROVE Value[size] % ByteBase = 0
  <2>1. size \in 1..size /\ p + size + 1 - size = p + 1 /\ size - 1 \in Nat /\ size - 1 <= size
    BY <1>1
  <2>2. Value[size] = ByteBase * Value[size - 1] + data[p + size + 1 - size]
    BY <1>8, <2>1
  <2> DEFINE u == Value[size - 1]
  <2>3. u \in Nat
    BY <1>9, <2>1
  <2>4. Value[size] = ByteBase * u + 0
    BY <1>12, <2>1, <2>2
  <2> HIDE DEF u
  <2>5. (ByteBase * u + 0) % ByteBase = 0
    BY <1>1, <2>3, ByteDivides
  <2> QED BY <2>4, <2>5
<1>13. Value[size] \in Nat
  BY <1>1, <1>9
<1> QED BY <1>7, <1>11, <1>12, <1>13

-------------------------------------------------------------------------------
(* The inductive invariant of File *)

FileTyped ==
    /\ start \in Starts /\ version \in Versions /\ pc \in {"data", "trailer", "closed"}
    /\ metadata \in Sizes /\ offsets \in Seq(Nat) /\ written \in Seq(Contents)

\* The data blocks follow each other from where the writer began, and the offsets
\* are theirs.
BlocksLaid ==
    /\ Len(offsets) = Len(written) /\ Len(written) <= MaxBlocks
    /\ metadata.count_data_blocks = Len(written)
    /\ metadata.bytes_data_blocks <= Len(written) * (LongestHead + LongestContents)
    /\ IF written = <<>> THEN metadata.bytes_data_blocks = 0 ELSE offsets[1] = start
    /\ \A i \in 1..Len(written) :
          /\ start <= offsets[i] /\ BlockEnd(i) <= DataEnd
          /\ BlockEnd(i) = offsets[i] + Len(BlockBytes(version, written[i]))
          /\ Placed(file, offsets[i], BlockBytes(version, written[i]))

\* The index block follows the data blocks.
IndexLaid ==
    LET bytes == BlockBytes(version, IndexContent(offsets)) IN
    /\ metadata.index_block_offset = DataEnd /\ metadata.bytes_index_block = Len(bytes)
    /\ metadata.pending_offset = DataEnd + Len(bytes)
    /\ Placed(file, DataEnd, bytes)

\* As far as it has been written, the file has its parts.
FileLaid ==
    /\ BlocksLaid
    /\ pc = "data" => metadata.pending_offset = DataEnd
    /\ pc # "data" => IndexLaid
    /\ pc # "closed" => Len(file) = metadata.pending_offset
    /\ pc = "closed" => /\ Len(file) = metadata.pending_offset + MetadataSize
                        /\ Placed(file, metadata.pending_offset, Trailer(version, metadata))

\* What is left of a file that had its trailer has a part of it at most.
CutLaid ==
    pc = "closed" =>
        /\ Len(file) < metadata.pending_offset + MetadataSize
        /\ \A k \in 1..Len(file) :
              k > metadata.pending_offset =>
                  file[k] = Trailer(version, metadata)[k - metadata.pending_offset]

FileInv ==
    /\ FileTyped
    /\ fault \in {"none", "cut"} => file \in Seq(FileByte)
    /\ fault = "none" => FileLaid
    /\ fault = "cut" => CutLaid

-------------------------------------------------------------------------------
(* Sizes *)

\* Products of natural numbers
LEMMA TimesGrows ==
    ASSUME NEW k \in Nat, NEW n \in Nat, k <= n, NEW w \in Nat
    PROVE  k * w \in Nat /\ n * w \in Nat /\ k * w <= n * w /\ (k + 1) * w = k * w + w
OBVIOUS

\* The numbers that bound a file
LEMMA FileNumbers ==
    /\ Size32 \in Nat /\ 1 <= Size32 /\ Size64 \in Nat /\ Size32 <= Size64
    /\ LongestHead \in Nat /\ LongestContents \in Nat /\ LongestIndex \in Nat /\ MaxBlocks \in Nat
    /\ Max32 \in Nat /\ Max64 \in Nat /\ Padding \in Nat /\ Size32 <= Padding
    /\ MetadataSize \in Nat /\ MetadataSize >= 6
<1>1. Size32 \in Nat /\ 1 <= Size32 /\ Size64 \in Nat /\ Size32 <= Size64
  BY EncodingAssumption
<1>2. LongestContents \in Nat /\ MaxBlocks \in Nat
  BY FileAssumption, FileSizeAssumption
<1>3. LongestHead \in Nat /\ LongestIndex \in Nat
  BY <1>1, <1>2 DEF LongestHead, LongestIndex
<1>4. Padding \in Nat /\ Size32 <= Padding
  BY <1>1, MagicAssumption
<1>5. MetadataSize \in Nat /\ MetadataSize >= 6
  BY <1>1, <1>4 DEF MetadataSize
<1> QED BY <1>1, <1>2, <1>3, <1>4, <1>5, MaxAre

\* What MaxBlocks data blocks and the index block take up fits an offset.
LEMMA OffsetFits ==
    ASSUME NEW s \in Starts, NEW n \in Nat, n <= MaxBlocks,
           NEW d \in Nat, d <= n * (LongestHead + LongestContents)
    PROVE  s \in Nat /\ s + d + LongestHead + LongestIndex <= Max64
<1> DEFINE w == LongestHead + LongestContents
           most == MaxBlocks * w
           some == n * w
           size == s + (MaxBlocks * w + LongestHead + LongestIndex)
<1>1. s \in Nat /\ w \in Nat /\ MaxBlocks \in Nat /\ LongestHead \in Nat /\ LongestIndex \in Nat
  BY FileNumbers, FileAssumption
<1>2. size <= Max64
  BY FileSizeAssumption
<1>3. d <= some
  OBVIOUS
<1> HIDE DEF w
<1>4. some \in Nat /\ most \in Nat /\ some <= most
  BY <1>1, TimesGrows
<1>5. size = s + (most + LongestHead + LongestIndex)
  OBVIOUS
<1> HIDE DEF some, most, size
<1> QED BY <1>1, <1>2, <1>3, <1>4, <1>5, FileNumbers

\* The contents of every data block fit a block.
LEMMA ContentsStorable ==
    ASSUME NEW v \in Versions, NEW c \in Contents
    PROVE  /\ Storable(v, c) /\ Len(c) \in Nat /\ 2 * Size32 <= Len(c)
           /\ Len(c) <= LongestContents
<1>1. c \in Seq(FileByte) /\ 2 * Size32 <= Len(c) /\ Len(c) <= LongestContents
  <2>1. Len(c) >= 2 * Size32 /\ c \in Seq(FileByte)
    BY FileAssumption
  <2>2. Len(c) <= LongestContents
    BY FileSizeAssumption
  <2>3. Len(c) \in Nat
    BY <2>1, LenProperties
  <2> QED BY <2>1, <2>2, <2>3, FileNumbers
<1>2. Len(c) \in Nat
  BY <1>1, LenProperties
<1>3. LongestContents <= LengthMax(v) /\ LengthMax(v) \in Nat
  BY FileSizeAssumption, MaxAre DEF LengthMax
<1>4. Len(c) <= LengthMax(v)
  BY <1>1, <1>2, <1>3, FileNumbers
<1> QED BY <1>1, <1>2, <1>4 DEF Storable

\* What the invariant says of the numbers in a state.
LEMMA StateSizes ==
    ASSUME FileTyped, BlocksLaid
    PROVE  LET n == Len(written) IN
           /\ n \in Nat /\ n <= MaxBlocks /\ Len(offsets) = n /\ version \in Formats
           /\ start \in Nat /\ metadata.bytes_data_blocks \in Nat /\ DataEnd \in Nat
           /\ DataEnd + LongestHead + LongestIndex <= Max64
           /\ \A i \in 1..n : /\ written[i] \in Contents /\ offsets[i] \in Nat /\ BlockEnd(i) \in Nat
                              /\ Len(BlockBytes(version, written[i])) \in Nat
                              /\ offsets[i] <= DataEnd
<1> DEFINE n == Len(written)
           d == metadata.bytes_data_blocks
<1>1. n \in Nat /\ Len(offsets) = n /\ n <= MaxBlocks
  BY LenProperties DEF FileTyped, BlocksLaid
<1>2. start \in Starts /\ start \in Nat /\ d \in Nat /\ version \in Formats /\ version \in Versions
  BY FileAssumption DEF FileTyped, Sizes, Formats
<1>3. DataEnd = start + d /\ DataEnd \in Nat
  BY <1>2 DEF DataEnd
<1>4. d <= n * (LongestHead + LongestContents)
  BY DEF BlocksLaid
<1> HIDE DEF n, d
<1>5. start + d + LongestHead + LongestIndex <= Max64
  BY <1>1, <1>2, <1>4, OffsetFits
<1>6. ASSUME NEW i \in 1..n
      PROVE  /\ written[i] \in Contents /\ offsets[i] \in Nat /\ BlockEnd(i) \in Nat
             /\ Len(BlockBytes(version, written[i])) \in Nat /\ offsets[i] <= DataEnd
  <2>1. written[i] \in Contents /\ offsets[i] \in Nat
    BY <1>1, ElementOfSeq DEF FileTyped, n
  <2>2. Len(BlockBytes(version, written[i])) \in Nat
    BY <1>2, <2>1, ContentsStorable, BlockIs
  <2>3. BlockEnd(i) = offsets[i] + Len(BlockBytes(version, written[i])) /\ BlockEnd(i) <= DataEnd
    BY DEF BlocksLaid, n
  <2> DEFINE len == Len(BlockBytes(version, written[i]))
             e == BlockEnd(i)
             o == offsets[i]
  <2>4. e = o + len /\ e <= DataEnd /\ len \in Nat /\ o \in Nat
    BY <2>1, <2>2, <2>3
  <2> HIDE DEF len, e, o
  <2>5. e \in Nat /\ o <= DataEnd
    BY <1>3, <2>4
  <2> QED BY <2>1, <2>2, <2>5 DEF e, o
<1> QED BY <1>1, <1>2, <1>3, <1>5, <1>6 DEF n, d

\* The offsets of the data blocks fit the index block, which fits a block.
LEMMA IndexStorable ==
    ASSUME FileTyped, BlocksLaid
    PROVE  LET index == IndexContent(offsets)
               bytes == BlockBytes(version, index)
           IN  /\ Encodable(offsets) /\ Storable(version, index) /\ Len(index) \in Nat
               /\ 2 * Size32 <= Len(index)
               /\ bytes \in Seq(FileByte) /\ Len(bytes) \in Nat
               /\ Len(bytes) <= LongestHead + LongestIndex
<1> DEFINE n == Len(written)
           index == IndexContent(offsets)
           bytes == BlockBytes(version, index)
<1>1. /\ n \in Nat /\ n <= MaxBlocks /\ Len(offsets) = n /\ version \in Formats /\ DataEnd \in Nat
      /\ DataEnd + LongestHead + LongestIndex <= Max64
      /\ \A i \in 1..n : offsets[i] \in Nat /\ offsets[i] <= DataEnd
  BY StateSizes
<1>2. DataEnd <= Max64
  BY <1>1, FileNumbers
<1>3. Encodable(offsets)
  <2>1. \A i \in 1..n : offsets[i] <= Max64
    <3> HIDE DEF n
    <3> QED BY <1>1, <1>2, FileNumbers
  <2> QED BY <1>1, <2>1 DEF Encodable, FileTyped
<1>4. /\ index \in Seq(FileByte) /\ Len(index) \in Nat
      /\ 2 * Size32 + n <= Len(index) /\ Len(index) <= 10 * n + 2 * Size32
  <2>1. /\ index \in Seq(FileByte)
        /\ 2 * Size32 + Len(offsets) <= Len(index) /\ Len(index) <= 10 * Len(offsets) + 2 * Size32
    BY <1>3, IndexIs
  <2> QED BY <1>1, <2>1, LenProperties
<1> HIDE DEF n, index
<1>5. Len(index) <= LongestIndex
  BY <1>1, <1>4, FileNumbers DEF LongestIndex
<1>6. LongestIndex <= LengthMax(version) /\ LengthMax(version) \in Nat
  BY FileSizeAssumption, MaxAre DEF LengthMax, FileTyped
<1>7. Len(index) <= LengthMax(version) /\ 2 * Size32 <= Len(index)
  BY <1>1, <1>4, <1>5, <1>6, FileNumbers
<1>8. Storable(version, index)
  BY <1>4, <1>7 DEF Storable
<1>9. bytes \in Seq(FileByte) /\ Len(bytes) \in Nat /\ Len(bytes) <= LongestHead + Len(index)
  BY <1>1, <1>8, BlockIs
<1>10. Len(bytes) <= LongestHead + LongestIndex
  <2> HIDE DEF bytes
  <2> QED BY <1>4, <1>5, <1>9, FileNumbers
<1> QED BY <1>3, <1>4, <1>7, <1>8, <1>9, <1>10 DEF index

-------------------------------------------------------------------------------
(* Every step keeps the invariant. *)

\* A new writer's file has no part yet, and only the bytes that its caller reserved.
LEMMA FileInvInit == FileInit => FileInv
<1> SUFFICES ASSUME FileInit PROVE FileInv
  OBVIOUS
<1>1. start \in Starts /\ start \in Nat /\ version \in Versions
  BY FileAssumption DEF FileInit
<1>2. /\ metadata.index_block_offset = 0 /\ metadata.count_data_blocks = 0
      /\ metadata.bytes_data_blocks = 0 /\ metadata.pending_offset = start
      /\ metadata \in Sizes
  BY <1>1 DEF FileInit, Sizes
<1>3. offsets = <<>> /\ written = <<>> /\ pc = "data" /\ fault = "none"
  BY DEF FileInit
<1>4. FileTyped
  BY <1>1, <1>2, <1>3 DEF FileTyped
<1>5. file = [i \in 1..start |-> 1] /\ 1 \in FileByte
  BY EncodingAssumption DEF FileInit, FileByte
<1>6. file \in Seq(FileByte) /\ Len(file) = start
  BY <1>1, <1>5
<1>8. DataEnd = start
  BY <1>1, <1>2 DEF DataEnd
<1>9. BlocksLaid
  <2>1. Len(offsets) = 0 /\ Len(written) = 0
    BY <1>3
  <2>2. 0 <= 0 * (LongestHead + LongestContents) /\ 0 <= MaxBlocks
    BY FileNumbers
  <2> QED BY <1>2, <1>3, <2>1, <2>2 DEF BlocksLaid
<1>10. FileLaid
  BY <1>2, <1>3, <1>6, <1>8, <1>9 DEF FileLaid
<1> QED BY <1>3, <1>4, <1>6, <1>10 DEF FileInv

\* What is appended leaves the data blocks where they are.
LEMMA BlocksStay ==
    ASSUME FileTyped, BlocksLaid, file \in Seq(Nat), DataEnd <= Len(file),
           NEW x \in Seq(Nat), file' = file \o x,
           UNCHANGED <<start, version, offsets, written>>,
           metadata'.count_data_blocks = metadata.count_data_blocks,
           metadata'.bytes_data_blocks = metadata.bytes_data_blocks
    PROVE  BlocksLaid' /\ DataEnd' = DataEnd
<1>1. DataEnd' = DataEnd /\ \A i : BlockEnd(i)' = BlockEnd(i)
  BY DEF DataEnd, BlockEnd
<1>2. ASSUME NEW i \in 1..Len(written) PROVE Placed(file', offsets[i], BlockBytes(version, written[i]))
  <2> DEFINE y == BlockBytes(version, written[i])
  <2>1. offsets[i] \in Nat /\ Len(y) \in Nat /\ BlockEnd(i) \in Nat /\ DataEnd \in Nat
    BY StateSizes
  <2>2. BlockEnd(i) = offsets[i] + Len(y) /\ BlockEnd(i) <= DataEnd /\ Placed(file, offsets[i], y)
    BY DEF BlocksLaid
  <2> HIDE DEF y
  <2>3. Len(file) \in Nat
    BY LenProperties
  <2>4. offsets[i] + Len(y) <= Len(file)
    BY <2>1, <2>2, <2>3
  <2>5. Placed(file \o x, offsets[i], y)
    BY <2>1, <2>2, <2>4, PlacedStays
  <2> QED BY <2>5 DEF y
<1>3. BlocksLaid'
  BY <1>1, <1>2 DEF BlocksLaid
<1> QED BY <1>1, <1>3

\* _mtbl_writer_finish() puts the index block behind the data blocks.
LEMMA FileInvIndex ==
    ASSUME FileInv, WriteIndex
    PROVE  FileInv'
<1> DEFINE index == IndexContent(offsets)
           bytes == BlockBytes(version, index)
<1>1. /\ pc = "data" /\ fault = "none" /\ pc' = "trailer" /\ file' = file \o bytes
      /\ UNCHANGED <<start, version, offsets, written, fault>>
      /\ metadata' = [metadata EXCEPT !.index_block_offset = metadata.pending_offset,
                                      !.bytes_index_block = Len(bytes),
                                      !.pending_offset = @ + Len(bytes)]
  BY DEF WriteIndex
<1>2. FileTyped /\ FileLaid /\ file \in Seq(FileByte) /\ BlocksLaid
  BY <1>1 DEF FileInv, FileLaid
<1>3. metadata.pending_offset = DataEnd /\ Len(file) = DataEnd /\ DataEnd \in Nat /\ file \in Seq(Nat)
  BY <1>1, <1>2, StateSizes, BytesAreNumbers DEF FileLaid
<1>4. bytes \in Seq(FileByte) /\ bytes \in Seq(Nat) /\ Len(bytes) \in Nat
  BY <1>2, IndexStorable, BytesAreNumbers
<1> HIDE DEF bytes
<1>5. /\ metadata' \in Sizes /\ metadata'.count_data_blocks = metadata.count_data_blocks
      /\ metadata'.bytes_data_blocks = metadata.bytes_data_blocks
      /\ metadata'.index_block_offset = DataEnd /\ metadata'.bytes_index_block = Len(bytes)
      /\ metadata'.pending_offset = DataEnd + Len(bytes)
  <2>1. metadata \in Sizes
    BY <1>2 DEF FileTyped
  <2> DEFINE len == Len(bytes)
             blocks == metadata.count_data_blocks
             size == metadata.bytes_data_blocks
  <2>2. /\ blocks \in Nat /\ size \in Nat
        /\ metadata' = [index_block_offset |-> DataEnd, count_data_blocks |-> blocks,
                        bytes_data_blocks |-> size, bytes_index_block |-> len,
                        pending_offset |-> DataEnd + len]
    <3>1. metadata' = [metadata EXCEPT !.index_block_offset = DataEnd, !.bytes_index_block = len,
                                       !.pending_offset = DataEnd + len]
      BY <1>1, <1>3, <2>1 DEF Sizes
    <3> HIDE DEF len
    <3> QED BY <2>1, <3>1 DEF Sizes
  <2>3. len \in Nat /\ DataEnd + len \in Nat
    BY <1>3, <1>4
  <2> HIDE DEF len, blocks, size
  <2>4. metadata' \in Sizes
    BY <1>3, <2>2, <2>3 DEF Sizes
  <2> QED BY <2>2, <2>4 DEF len, blocks, size
<1>6. FileTyped'
  BY <1>1, <1>2, <1>5 DEF FileTyped
<1>7. BlocksLaid' /\ DataEnd' = DataEnd
  <2>1. DataEnd <= Len(file)
    BY <1>3
  <2> QED BY <1>1, <1>2, <1>3, <1>4, <1>5, <2>1, BlocksStay
<1>8. file' \in Seq(FileByte)
  BY <1>1, <1>2, <1>4, ConcatProperties
<1>9. Placed(file', DataEnd, bytes) /\ Len(file') = DataEnd + Len(bytes)
  <2>1. Placed(file \o bytes, Len(file), bytes)
    BY <1>3, <1>4, PlacedBehind
  <2>2. Len(file \o bytes) = Len(file) + Len(bytes)
    BY <1>3, <1>4, ConcatProperties
  <2> QED BY <1>1, <1>3, <2>1, <2>2
<1>10. BlockBytes(version, IndexContent(offsets))' = bytes
  BY <1>1 DEF bytes
<1>11. IndexLaid'
  BY <1>5, <1>7, <1>9, <1>10 DEF IndexLaid
<1>12. FileLaid'
  BY <1>1, <1>5, <1>7, <1>9, <1>11 DEF FileLaid
<1> QED BY <1>1, <1>6, <1>8, <1>12 DEF FileInv

\* _mtbl_writer_finish() puts the trailer behind the index block.
LEMMA FileInvTrailer ==
    ASSUME FileInv, WriteTrailer
    PROVE  FileInv'
<1> DEFINE bytes == BlockBytes(version, IndexContent(offsets))
           trailer == Trailer(version, metadata)
<1>1. /\ pc = "trailer" /\ fault = "none" /\ pc' = "closed" /\ file' = file \o trailer
      /\ UNCHANGED <<start, version, metadata, offsets, written, fault>>
  BY DEF WriteTrailer
<1>2. FileTyped /\ FileLaid /\ file \in Seq(FileByte) /\ BlocksLaid /\ IndexLaid
  BY <1>1 DEF FileInv, FileLaid
<1>3. /\ metadata \in Sizes /\ version \in Formats /\ DataEnd \in Nat /\ file \in Seq(Nat)
      /\ metadata.pending_offset \in Nat /\ Len(file) = metadata.pending_offset /\ Len(file) \in Nat
  BY <1>1, <1>2, StateSizes, BytesAreNumbers DEF FileTyped, FileLaid, Sizes
<1>4. /\ trailer \in Seq(FileByte) /\ trailer \in Seq(Nat)
      /\ Len(trailer) = MetadataSize /\ MetadataSize \in Nat
  BY <1>3, TrailerIs, BytesAreNumbers
<1>5. /\ metadata.index_block_offset = DataEnd /\ metadata.bytes_index_block = Len(bytes)
      /\ metadata.pending_offset = DataEnd + Len(bytes)
      /\ Placed(file, DataEnd, bytes) /\ Len(bytes) \in Nat
  BY <1>2, IndexStorable DEF IndexLaid
<1> HIDE DEF bytes, trailer
<1>6. FileTyped'
  BY <1>1, <1>2 DEF FileTyped
<1>7. BlocksLaid' /\ DataEnd' = DataEnd
  <2>1. DataEnd <= Len(file)
    BY <1>3, <1>5
  <2> QED BY <1>1, <1>2, <1>3, <1>4, <2>1, BlocksStay
<1>8. IndexLaid'
  <2>1. DataEnd + Len(bytes) <= Len(file)
    BY <1>3, <1>5
  <2>2. Placed(file \o trailer, DataEnd, bytes)
    BY <1>3, <1>4, <1>5, <2>1, PlacedStays
  <2>3. BlockBytes(version, IndexContent(offsets))' = bytes
    BY <1>1 DEF bytes
  <2> QED BY <1>1, <1>5, <1>7, <2>2, <2>3 DEF IndexLaid
<1>9. /\ Len(file') = metadata.pending_offset + MetadataSize
      /\ Placed(file', metadata.pending_offset, trailer) /\ file' \in Seq(FileByte)
  <2>1. Placed(file \o trailer, Len(file), trailer)
    BY <1>3, <1>4, PlacedBehind
  <2>2. Len(file \o trailer) = Len(file) + Len(trailer) /\ file \o trailer \in Seq(FileByte)
    BY <1>2, <1>4, ConcatProperties
  <2> QED BY <1>1, <1>3, <1>4, <2>1, <2>2
<1>10. Trailer(version, metadata)' = trailer
  BY <1>1 DEF trailer
<1>11. FileLaid'
  BY <1>1, <1>7, <1>8, <1>9, <1>10 DEF FileLaid
<1> QED BY <1>1, <1>6, <1>9, <1>11 DEF FileInv

\* What there is after one more element is appended.
LEMMA AppendIs ==
    ASSUME NEW A, NEW s \in Seq(A), NEW e \in A, NEW n \in Nat, Len(s) = n
    PROVE  /\ Append(s, e) \in Seq(A) /\ Len(Append(s, e)) = n + 1
           /\ \A i \in 1..n : Append(s, e)[i] = s[i]
           /\ Append(s, e)[n + 1] = e
BY AppendProperties

\* _mtbl_writer_write_data_block() puts a block where the last one ended and notes the offset.
LEMMA FileInvData ==
    ASSUME FileInv, NEW content \in Contents, WriteDataBlock(content)
    PROVE  FileInv'
<1> DEFINE bytes == BlockBytes(version, content)
           n == Len(written)
           len == Len(bytes)
           d == metadata.bytes_data_blocks
           w == LongestHead + LongestContents
<1>1. /\ pc = "data" /\ fault = "none" /\ metadata.count_data_blocks < MaxBlocks
      /\ file' = file \o bytes
      /\ metadata' = [metadata EXCEPT !.count_data_blocks = @ + 1,
                                      !.bytes_data_blocks = @ + len,
                                      !.pending_offset = @ + len]
      /\ offsets' = Append(offsets, metadata.pending_offset) /\ written' = Append(written, content)
      /\ start' = start /\ version' = version /\ pc' = pc /\ fault' = fault
  BY DEF WriteDataBlock
<1>2. FileTyped /\ FileLaid /\ file \in Seq(FileByte) /\ BlocksLaid
  BY <1>1 DEF FileInv, FileLaid
<1>3. /\ metadata.pending_offset = DataEnd /\ Len(file) = DataEnd /\ file \in Seq(Nat)
      /\ DataEnd \in Nat /\ DataEnd = start + d /\ start \in Nat /\ d \in Nat /\ version \in Formats
      /\ n \in Nat /\ n < MaxBlocks /\ Len(offsets) = n /\ metadata.count_data_blocks = n
      /\ d <= n * w
  BY <1>1, <1>2, StateSizes, BytesAreNumbers DEF FileLaid, BlocksLaid, DataEnd
<1>4. /\ bytes \in Seq(FileByte) /\ bytes \in Seq(Nat) /\ len \in Nat /\ len <= w /\ w \in Nat
      /\ MaxBlocks \in Nat
  <2>1. /\ Storable(version, content) /\ Len(content) \in Nat /\ Len(content) <= LongestContents
    BY <1>2, ContentsStorable DEF FileTyped
  <2>2. bytes \in Seq(FileByte) /\ len \in Nat /\ len <= LongestHead + Len(content)
    BY <1>3, <2>1, BlockIs
  <2>3. bytes \in Seq(Nat)
    BY <2>2, BytesAreNumbers
  <2> HIDE DEF bytes, len
  <2> QED BY <2>1, <2>2, <2>3, FileNumbers
<1>5. BlockBytes(version, content)' = bytes
  BY <1>1
<1> HIDE DEF bytes, n, d
<1>6. /\ metadata' \in Sizes
      /\ metadata'.count_data_blocks = n + 1 /\ metadata'.bytes_data_blocks = d + len
      /\ metadata'.pending_offset = DataEnd + len
  <2>1. metadata \in Sizes
    BY <1>2 DEF FileTyped
  <2> DEFINE offset == metadata.index_block_offset
             index == metadata.bytes_index_block
  <2>2. /\ offset \in Nat /\ index \in Nat
        /\ metadata' = [index_block_offset |-> offset, count_data_blocks |-> n + 1,
                        bytes_data_blocks |-> d + len, bytes_index_block |-> index,
                        pending_offset |-> DataEnd + len]
    <3>1. metadata' = [metadata EXCEPT !.count_data_blocks = n + 1, !.bytes_data_blocks = d + len,
                                       !.pending_offset = DataEnd + len]
      BY <1>1, <1>3, <2>1 DEF Sizes, d
    <3> HIDE DEF len
    <3> QED BY <2>1, <3>1 DEF Sizes
  <2>3. d + len \in Nat /\ DataEnd + len \in Nat /\ n + 1 \in Nat
    BY <1>3, <1>4
  <2> HIDE DEF len, offset, index
  <2>4. metadata' \in Sizes
    BY <2>2, <2>3 DEF Sizes
  <2> QED BY <2>2, <2>4
<1> HIDE DEF len
<1>7. /\ offsets' \in Seq(Nat) /\ Len(offsets') = n + 1
      /\ \A i \in 1..n : offsets'[i] = offsets[i]
      /\ offsets'[n + 1] = DataEnd
  <2>1. offsets \in Seq(Nat)
    BY <1>2 DEF FileTyped
  <2> QED BY <1>1, <1>3, <2>1, AppendIs
<1>8. /\ written' \in Seq(Contents) /\ Len(written') = n + 1
      /\ \A i \in 1..n : written'[i] = written[i]
      /\ written'[n + 1] = content
  <2>1. written \in Seq(Contents)
    BY <1>2 DEF FileTyped
  <2> QED BY <1>1, <1>3, <2>1, AppendIs DEF n
<1>9. FileTyped'
  BY <1>1, <1>2, <1>6, <1>7, <1>8 DEF FileTyped
<1>10. file' \in Seq(FileByte)
  BY <1>1, <1>2, <1>4, ConcatProperties
<1>11. DataEnd' = DataEnd + len
  BY <1>1, <1>3, <1>4, <1>6 DEF DataEnd
<1>12. Len(file') = DataEnd + len /\ Placed(file', DataEnd, bytes)
  <2>1. Placed(file \o bytes, Len(file), bytes)
    BY <1>3, <1>4, PlacedBehind
  <2>2. Len(file \o bytes) = Len(file) + Len(bytes)
    BY <1>3, <1>4, ConcatProperties
  <2> QED BY <1>1, <1>3, <2>1, <2>2 DEF len
<1>13. ASSUME NEW i \in 1..n
       PROVE  /\ offsets[i] \in Nat /\ Len(BlockBytes(version, written[i])) \in Nat /\ BlockEnd(i) \in Nat
              /\ start <= offsets[i] /\ BlockEnd(i) <= DataEnd
              /\ BlockEnd(i) = offsets[i] + Len(BlockBytes(version, written[i]))
              /\ Placed(file, offsets[i], BlockBytes(version, written[i]))
  BY <1>2, StateSizes DEF BlocksLaid, n
\* The blocks that were there end where they did; the new one ends the file.
<1>14. ASSUME NEW i \in 1..n PROVE BlockEnd(i)' = BlockEnd(i)
  <2>1. BlockEnd(i)' = offsets'[i + 1]
    <3>1. i < n + 1
      BY <1>3
    <3> QED BY <1>7, <3>1 DEF BlockEnd
  <2>2. CASE i < n
    <3>1. i + 1 \in 1..n
      BY <1>3, <2>2
    <3> QED BY <1>3, <1>7, <2>1, <2>2, <3>1 DEF BlockEnd
  <2>3. CASE ~(i < n)
    <3>1. i + 1 = n + 1
      BY <1>3, <2>3
    <3> QED BY <1>3, <1>7, <2>1, <2>3, <3>1 DEF BlockEnd
  <2> QED BY <2>2, <2>3
<1>15. ASSUME NEW i, i = n + 1 PROVE BlockEnd(i)' = DataEnd + len
  <2>1. ~(i < n + 1)
    BY <1>3, <1>15
  <2> QED BY <1>7, <1>11, <2>1 DEF BlockEnd
<1>16. ASSUME NEW i \in 1..(n + 1)
       PROVE  /\ start <= offsets'[i] /\ BlockEnd(i)' <= DataEnd'
              /\ BlockEnd(i)' = offsets'[i] + Len(BlockBytes(version, written'[i]))
              /\ Placed(file', offsets'[i], BlockBytes(version, written'[i]))
  <2>1. CASE i \in 1..n
    <3> DEFINE y == BlockBytes(version, written[i])
               e == BlockEnd(i)
    <3>1. /\ offsets[i] \in Nat /\ Len(y) \in Nat /\ e \in Nat /\ start <= offsets[i] /\ e <= DataEnd
          /\ e = offsets[i] + Len(y) /\ Placed(file, offsets[i], y)
      BY <1>13, <2>1
    <3> HIDE DEF y, e
    <3>2. Placed(file \o bytes, offsets[i], y)
      <4>1. offsets[i] + Len(y) <= Len(file)
        BY <1>3, <3>1
      <4> QED BY <1>3, <1>4, <3>1, <4>1, PlacedStays
    <3>3. e <= DataEnd + len
      BY <1>3, <1>4, <3>1
    <3>4. offsets'[i] = offsets[i] /\ written'[i] = written[i] /\ BlockEnd(i)' = e
      BY <1>7, <1>8, <1>14, <2>1 DEF e
    <3>5. BlockBytes(version, written'[i]) = y
      BY <3>4 DEF y
    <3> QED BY <1>1, <1>11, <3>1, <3>2, <3>3, <3>4, <3>5
  <2>2. CASE i \notin 1..n
    <3>1. i = n + 1
      BY <1>3, <2>2
    <3>2. BlockBytes(version, written'[i]) = bytes
      BY <1>8, <3>1 DEF bytes
    <3>3. offsets'[i] = DataEnd /\ BlockEnd(i)' = DataEnd + len
      BY <1>7, <1>15, <3>1
    <3>4. start <= DataEnd /\ DataEnd + len <= DataEnd + len
      BY <1>3, <1>4
    <3> QED BY <1>11, <1>12, <3>2, <3>3, <3>4 DEF len
  <2> QED BY <2>1, <2>2
<1>17. d + len <= (n + 1) * w
  <2> DEFINE nw == n * w
  <2>1. nw \in Nat /\ (n + 1) * w = nw + w /\ d <= nw
    BY <1>3, <1>4, TimesGrows
  <2> HIDE DEF nw, w
  <2> QED BY <1>3, <1>4, <2>1
<1>18. written' # <<>> /\ offsets'[1] = start
  <2>1. written' # <<>>
    BY <1>3, <1>8
  <2>2. CASE n = 0
    <3>1. d = 0
      <4>1. written = <<>>
        BY <1>2, <2>2 DEF FileTyped, n
      <4> QED BY <1>2, <4>1 DEF BlocksLaid, d
    <3> QED BY <1>3, <1>7, <2>1, <2>2, <3>1
  <2>3. CASE n # 0
    <3>1. 1 \in 1..n
      BY <1>3, <2>3
    <3>2. written # <<>>
      BY <2>3 DEF n
    <3>3. offsets[1] = start
      BY <1>2, <3>2 DEF BlocksLaid
    <3> QED BY <1>7, <2>1, <3>1, <3>3
  <2> QED BY <2>1, <2>2, <2>3
<1>19. BlocksLaid'
  <2>1. /\ Len(offsets') = Len(written') /\ Len(written') <= MaxBlocks
        /\ metadata'.count_data_blocks = Len(written')
        /\ metadata'.bytes_data_blocks <= Len(written') * (LongestHead + LongestContents)
        /\ metadata'.bytes_data_blocks = d + len /\ Len(written') = n + 1
    BY <1>3, <1>4, <1>6, <1>7, <1>8, <1>17
  <2>2. \A i \in 1..Len(written') :
           /\ start' <= offsets'[i] /\ BlockEnd(i)' <= DataEnd'
           /\ BlockEnd(i)' = offsets'[i] + Len(BlockBytes(version, written[i])')
           /\ Placed(file', offsets'[i], BlockBytes(version, written[i])')
    BY <1>1, <1>8, <1>16
  <2> QED BY <1>1, <1>18, <2>1, <2>2 DEF BlocksLaid
<1>20. FileLaid'
  BY <1>1, <1>6, <1>11, <1>12, <1>19 DEF FileLaid
<1> QED BY <1>1, <1>9, <1>10, <1>20 DEF FileInv

\* A part of a file lacks the end of its trailer.
LEMMA FileInvCrash ==
    ASSUME FileInv, Crash
    PROVE  FileInv'
<1>1. PICK n \in 0..(Len(file) - 1) : file' = SubSeq(file, 1, n)
  BY DEF Crash
<1>2. fault = "none" /\ fault' = "cut" /\ UNCHANGED <<start, version, pc, metadata, offsets, written>>
  BY DEF Crash
<1>3. FileTyped' /\ FileTyped /\ FileLaid /\ file \in Seq(FileByte)
  BY <1>2 DEF FileInv, FileTyped
<1>4. Len(file) \in Nat /\ n \in Nat /\ n < Len(file) /\ \A k \in 1..Len(file) : file[k] \in FileByte
  <2>1. Len(file) \in Nat /\ \A k \in 1..Len(file) : file[k] \in FileByte
    BY <1>3, BytesAreNumbers
  <2> QED BY <2>1
<1>5. \A k \in 1..n : file[k] \in FileByte
  BY <1>4
<1>6. /\ file' \in Seq(FileByte) /\ Len(file') = n
      /\ \A k \in 1..n : file'[k] = file[k]
  <2>1. /\ SubSeq(file, 1, n) \in Seq(FileByte)
        /\ Len(SubSeq(file, 1, n)) = IF 1 <= n THEN n - 1 + 1 ELSE 0
        /\ \A k \in 1..(n - 1 + 1) : SubSeq(file, 1, n)[k] = file[1 + k - 1]
    BY <1>3, <1>4, <1>5, SubSeqProperties
  <2>2. (IF 1 <= n THEN n - 1 + 1 ELSE 0) = n /\ n - 1 + 1 = n
    BY <1>4
  <2>3. \A k \in 1..n : 1 + k - 1 = k
    BY <1>4
  <2> QED BY <1>1, <2>1, <2>2, <2>3
<1>7. CutLaid'
  <2> SUFFICES ASSUME pc = "closed"
               PROVE  /\ Len(file') < metadata.pending_offset + MetadataSize
                      /\ \A k \in 1..Len(file') :
                            k > metadata.pending_offset =>
                                file'[k] = Trailer(version, metadata)[k - metadata.pending_offset]
    BY <1>2 DEF CutLaid
  <2> DEFINE q == metadata.pending_offset
             trailer == Trailer(version, metadata)
  <2>1. q \in Nat /\ Len(file) = q + MetadataSize /\ Placed(file, q, trailer) /\ MetadataSize \in Nat
    BY <1>3, FileNumbers DEF FileLaid, FileTyped, Sizes
  <2>2. Len(trailer) = MetadataSize
    <3>1. version \in Formats /\ metadata \in Sizes
      BY <1>3, FileAssumption DEF FileTyped, Formats
    <3> QED BY <3>1, TrailerIs
  <2> HIDE DEF q, trailer
  <2>3. Len(file') < q + MetadataSize
    BY <1>4, <1>6, <2>1
  <2>4. ASSUME NEW k \in 1..Len(file'), k > q PROVE file'[k] = trailer[k - q]
    <3>1. k \in 1..n /\ k - q \in 1..MetadataSize /\ q + (k - q) = k
      BY <1>4, <1>6, <2>1, <2>4
    <3>2. file[q + (k - q)] = trailer[k - q]
      BY <2>1, <2>2, <3>1 DEF Placed
    <3> QED BY <1>6, <3>1, <3>2
  <2> QED BY <2>3, <2>4 DEF q, trailer
<1> QED BY <1>2, <1>3, <1>6, <1>7 DEF FileInv

\* No step of the writer, and nothing that happens to the file, breaks the invariant.
LEMMA FileInvNext == FileInv /\ [FileNext]_fileVars => FileInv'
<1> SUFFICES ASSUME FileInv, [FileNext]_fileVars PROVE FileInv'
  OBVIOUS
<1>1. ASSUME NEW content \in Contents, WriteDataBlock(content) PROVE FileInv'
  BY <1>1, FileInvData
<1>2. CASE WriteIndex
  BY <1>2, FileInvIndex
<1>3. CASE WriteTrailer
  BY <1>3, FileInvTrailer
<1>4. CASE Crash
  BY <1>4, FileInvCrash
<1>5. CASE LosePages
  BY <1>5 DEF LosePages, FileInv, FileTyped
<1>6. CASE Flip
  BY <1>6 DEF Flip, FileInv, FileTyped
<1>7. CASE UNCHANGED fileVars
  <2>1. UNCHANGED <<file, start, version, pc, metadata, offsets, written, fault>>
    BY <1>7 DEF fileVars
  <2>2. FileTyped' = FileTyped /\ CutLaid' = CutLaid
    BY <2>1 DEF FileTyped, CutLaid
  <2>3. FileLaid' = FileLaid
    BY <2>1 DEF FileLaid, BlocksLaid, IndexLaid, BlockEnd, DataEnd
  <2> QED BY <2>1, <2>2, <2>3 DEF FileInv
<1> QED BY <1>1, <1>2, <1>3, <1>4, <1>5, <1>6, <1>7 DEF FileNext

\* What _mtbl_writer_write_data_block() and _mtbl_writer_finish() have laid out at any
\* time: data blocks that follow each other, their offsets, an index block behind them
\* and a trailer that says so; and what a crash has left of the trailer.
THEOREM FileInvariant == FileSpec => []FileInv
<1> QED BY FileInvInit, FileInvNext, PTL DEF FileSpec

\* A complete file of which a crash has left part of the zeros in its trailer, or part of
\* the magic number, is refused, whatever its blocks consist of: what mtbl_reader_init_fd()
\* takes for a magic number there is less than one, or begins with a zero.
CutTrailerRefused ==
    pc = "closed" /\ fault = "cut" /\ Len(file) > metadata.pending_offset + 4 * Size64 =>
        \A checksums \in BOOLEAN : OpenReader(file, checksums) = Refused

\* mtbl_reader_init_fd() never opens a file that was cut behind the integers of its
\* trailer (metadata.c:47-53).
THEOREM CutTrailerNeverOpens == FileSpec => []CutTrailerRefused
<1>1. FileInv => CutTrailerRefused
  <2> SUFFICES ASSUME FileInv, pc = "closed", fault = "cut",
                      Len(file) > metadata.pending_offset + 4 * Size64,
                      NEW checksums \in BOOLEAN
               PROVE  OpenReader(file, checksums) = Refused
    BY DEF CutTrailerRefused
  <2> DEFINE n == Len(file)
             q == metadata.pending_offset
             front == 4 * Size64
             trailer == Trailer(version, metadata)
             at == n - Size32
  <2>1. /\ FileTyped /\ file \in Seq(FileByte) /\ CutLaid /\ n \in Nat
        /\ \A k \in 1..n : file[k] \in FileByte
    BY BytesAreNumbers DEF FileInv
  <2>2. q \in Nat /\ version \in Formats /\ metadata \in Sizes
    BY <2>1, FileAssumption DEF FileTyped, Sizes, Formats
  <2>3. /\ Size32 \in Nat /\ 1 <= Size32 /\ Size32 <= Size64 /\ front \in Nat /\ Padding \in Nat
        /\ Size32 <= Padding /\ MetadataSize = front + Padding + Size32 /\ Size64 \in Nat
    BY FileNumbers DEF MetadataSize
  <2>4. /\ n > q + front /\ n < q + MetadataSize
        /\ \A k \in 1..n : k > q => file[k] = trailer[k - q]
    BY <2>1 DEF CutLaid
\* What follows the integers is zero.
  <2>5. ASSUME NEW i \in (front + 1)..(front + Padding) PROVE trailer[i] = 0
    <3> DEFINE x == TrailerFields(metadata)
               y == x \o Zeros
               magic == EncodeFixed(Magic(version), Size32)
    <3>1. /\ trailer = y \o magic /\ x \in Seq(FileByte) /\ Len(x) = front
          /\ Zeros \in Seq(FileByte) /\ Len(Zeros) = Padding
          /\ y \in Seq(FileByte) /\ Len(y) = front + Padding
          /\ magic \in Seq(FileByte) /\ Len(magic) = Size32
      <4>1. y = TrailerFront(metadata)
        BY DEF TrailerFront
      <4> HIDE DEF y, x, magic
      <4> QED BY <2>2, <4>1, TrailerIs DEF x, magic, trailer, front
    <3>2. i \in 1..(front + Padding + Size32) /\ i <= front + Padding /\ ~(i <= front)
          /\ i - front \in 1..Padding /\ i \in 1..(front + Padding)
      <4> HIDE DEF front
      <4> QED BY <2>3
    <3> HIDE DEF x, y, magic, trailer, front
    <3>3. trailer[i] = y[i]
      BY <3>1, <3>2, ConcatProperties
    <3>4. y[i] = Zeros[i - front]
      BY <3>1, <3>2, ConcatProperties DEF y
    <3> QED BY <3>2, <3>3, <3>4 DEF Zeros
  <2> HIDE DEF n, q, front, trailer
  <2>6. ASSUME NEW k \in 1..n, k > q + front, k <= q + (front + Padding) PROVE file[k] = 0
    <3>1. k > q /\ k - q \in (front + 1)..(front + Padding)
      BY <2>1, <2>2, <2>3, <2>6
    <3> QED BY <2>4, <2>5, <3>1
  <2>7. CASE n < MetadataSize
    BY <2>7 DEF OpenReader, n
  <2>8. CASE ~(n < MetadataSize)
    <3>1. at \in Nat /\ at + Size32 = n /\ Size32 \in 1..Size64
      BY <2>1, <2>3, <2>8
    <3>2. \A i \in 1..Size32 : file[at + i] \in FileByte
      <4>1. \A i \in 1..Size32 : at + i \in 1..n
        BY <2>1, <2>3, <3>1
      <4> QED BY <2>1, <4>1 DEF n
    <3>3. MagicAt(file) = DecodeFixed(file, at, Size32)
      BY DEF MagicAt, Fixed, n
    <3> HIDE DEF at
    <3>4. /\ MagicAt(file) \in Nat
          /\ file[at + Size32] = 0 => MagicAt(file) < Power[Size32 - 1]
          /\ file[at + 1] = 0 => MagicAt(file) % ByteBase = 0
      BY <3>1, <3>2, <3>3, ZeroByte
    <3>5. file[at + Size32] = 0 \/ file[at + 1] = 0
      <4>1. CASE n <= q + (front + Padding)
        <5>1. n \in 1..n /\ n > q + front
          BY <2>1, <2>2, <2>3, <2>4
        <5>2. file[n] = 0
          BY <2>6, <4>1, <5>1
        <5> QED BY <3>1, <5>2
      <4>2. CASE ~(n <= q + (front + Padding))
        <5>1. at + 1 \in 1..n /\ at + 1 > q + front /\ at + 1 <= q + (front + Padding)
          BY <2>1, <2>2, <2>3, <2>4, <3>1, <4>2
        <5> QED BY <2>6, <5>1
      <4> QED BY <4>1, <4>2
    <3>6. ~KnownMagic(MagicAt(file))
      <4>1. ASSUME NEW v, MagicAt(file) = Magic(v) PROVE FALSE
        <5> DEFINE m == Magic(v)
                   w == Power[Size32 - 1]
        <5>1. m \in Nat /\ w <= m /\ m % ByteBase # 0
          BY MagicIs
        <5>2. w \in Nat
          <6>1. Size32 - 1 \in 0..Size64
            BY <2>3
          <6> QED BY <6>1, PowerIs
        <5>3. m < w \/ m % ByteBase = 0
          BY <3>4, <3>5, <4>1
        <5> HIDE DEF m, w
        <5> QED BY <5>1, <5>2, <5>3
      <4> QED BY <4>1 DEF KnownMagic
    <3> QED BY <3>6 DEF OpenReader
  <2> QED BY <2>7, <2>8
<1> QED BY <1>1, FileInvariant, PTL

-------------------------------------------------------------------------------
(* A complete file reads as what was written. *)

\* What metadata_read() makes of the trailer
TrailerSays ==
    [version |-> version, index_block_offset |-> metadata.index_block_offset,
     count_data_blocks |-> metadata.count_data_blocks,
     bytes_data_blocks |-> metadata.bytes_data_blocks,
     bytes_index_block |-> metadata.bytes_index_block]

Complete == FileInv /\ pc = "closed" /\ fault = "none"

\* Where the parts of a complete file are, and that every number in it fits its field.
LEMMA CompleteIs ==
    ASSUME Complete
    PROVE  LET index == IndexContent(offsets)
               bytes == BlockBytes(version, index)
           IN  /\ FileTyped /\ BlocksLaid /\ version \in Formats /\ metadata \in Sizes
               /\ file \in Seq(Nat) /\ Len(file) \in Nat /\ DataEnd \in Nat /\ Len(bytes) \in Nat
               /\ Len(file) = (DataEnd + Len(bytes)) + MetadataSize
               /\ metadata.index_block_offset = DataEnd
               /\ Placed(file, DataEnd, bytes)
               /\ Placed(file, DataEnd + Len(bytes), Trailer(version, metadata))
               /\ metadata.index_block_offset <= Max64 /\ metadata.count_data_blocks <= Max64
               /\ metadata.bytes_data_blocks <= Max64 /\ metadata.bytes_index_block <= Max64
<1> DEFINE index == IndexContent(offsets)
           bytes == BlockBytes(version, index)
           n == Len(written)
           len == Len(bytes)
           d == metadata.bytes_data_blocks
<1>1. FileTyped /\ BlocksLaid /\ IndexLaid /\ FileLaid /\ file \in Seq(FileByte)
  BY DEF Complete, FileInv, FileLaid
<1>2. /\ version \in Formats /\ DataEnd \in Nat /\ start \in Nat /\ d \in Nat /\ DataEnd = start + d
      /\ DataEnd + LongestHead + LongestIndex <= Max64 /\ n \in Nat /\ n <= MaxBlocks
  BY <1>1, StateSizes DEF DataEnd
<1>3. len \in Nat /\ len <= LongestHead + LongestIndex
  BY <1>1, IndexStorable
<1>4. /\ metadata.index_block_offset = DataEnd /\ metadata.bytes_index_block = len
      /\ metadata.pending_offset = DataEnd + len /\ metadata.count_data_blocks = n
      /\ Placed(file, DataEnd, bytes)
  BY <1>1 DEF IndexLaid, BlocksLaid
<1>5. file \in Seq(Nat) /\ Len(file) \in Nat
  BY <1>1, BytesAreNumbers
<1>6. /\ Len(file) = metadata.pending_offset + MetadataSize
      /\ Placed(file, metadata.pending_offset, Trailer(version, metadata))
  BY <1>1 DEF Complete, FileLaid
<1>7. MaxBlocks <= Max64
  BY FileSizeAssumption
<1>8. metadata \in Sizes
  BY <1>1 DEF FileTyped
<1> HIDE DEF len, n, d
<1>9. DataEnd <= Max64 /\ len <= Max64 /\ d <= Max64 /\ n <= Max64
  BY <1>2, <1>3, <1>7, FileNumbers
<1> QED BY <1>1, <1>2, <1>3, <1>4, <1>5, <1>6, <1>8, <1>9 DEF len, n, d

\* mtbl_reader_init_fd() accepts it and has the index as it was written.
LEMMA CompleteOpens ==
    ASSUME Complete, NEW checksums \in BOOLEAN
    PROVE  OpenReader(file, checksums) =
              [res |-> "open", m |-> TrailerSays, index |-> IndexContent(offsets)]
<1> DEFINE index == IndexContent(offsets)
           bytes == BlockBytes(version, index)
           len == Len(bytes)
           p == DataEnd + len
           meta == MetadataRead(file, Len(file) - MetadataSize)
           blk == BlockAt(file, version, DataEnd, checksums)
<1>1. /\ FileTyped /\ BlocksLaid /\ version \in Formats /\ metadata \in Sizes
      /\ file \in Seq(Nat) /\ Len(file) \in Nat /\ DataEnd \in Nat /\ len \in Nat
      /\ Len(file) = p + MetadataSize /\ metadata.index_block_offset = DataEnd
      /\ Placed(file, DataEnd, bytes) /\ Placed(file, p, Trailer(version, metadata))
      /\ metadata.index_block_offset <= Max64 /\ metadata.count_data_blocks <= Max64
      /\ metadata.bytes_data_blocks <= Max64 /\ metadata.bytes_index_block <= Max64
  BY CompleteIs
<1>2. Storable(version, index) /\ Len(index) \in Nat /\ 2 * Size32 <= Len(index)
  BY <1>1, IndexStorable
<1>3. len >= MinBlockLength(version)
  <2> DEFINE l == Len(LengthField(version, Len(index)))
             k == Len(index)
  <2>1. len = l + Size32 + k
    BY <1>1, <1>2, BlockIs
  <2>2. l \in Nat /\ 1 <= l /\ (version = "V1" => l = Size32)
    BY <1>1, <1>2, LengthFieldIs DEF Storable
  <2>3. k \in Nat /\ 2 * Size32 <= k
    BY <1>2
  <2> HIDE DEF l, k, len
  <2> QED BY <2>1, <2>2, <2>3, FileNumbers DEF MinBlockLength
<1> HIDE DEF len
<1>4. p \in Nat /\ Len(file) - MetadataSize = p /\ ~(Len(file) < MetadataSize)
  BY <1>1, FileNumbers
<1>5. meta = TrailerSays /\ KnownMagic(MagicAt(file))
  <2> HIDE DEF p
  <2> QED BY <1>1, <1>4, TrailerRead DEF TrailerSays
<1>6. blk = [res |-> "block", content |-> index]
  <2>1. MinBlockLength(version) >= 4
    BY FileNumbers DEF MinBlockLength
  <2>2. MinBlockLength(version) \in Nat
    BY FileNumbers DEF MinBlockLength
  <2>3. DataEnd + Len(bytes) <= Len(file) /\ DataEnd + 10 <= Len(file)
    BY <1>1, <1>3, <2>1, <2>2, FileNumbers DEF len
  <2> QED BY <1>1, <1>2, <2>3, BlockRead
<1>7. meta.version = version /\ meta.index_block_offset = DataEnd
  BY <1>1, <1>5 DEF TrailerSays
<1>8. EndFits(file, meta.index_block_offset + MetadataSize + MinBlockLength(meta.version))
  <2> DEFINE least == MinBlockLength(version)
  <2>1. least \in Nat /\ least <= len
    <3>1. least \in Nat
      BY FileNumbers DEF MinBlockLength
    <3> QED BY <1>3, <1>1, <3>1
  <2> HIDE DEF least
  <2>2. DataEnd + MetadataSize + least <= Len(file)
    BY <1>1, <2>1, FileNumbers
  <2> QED BY <1>7, <2>2 DEF EndFits, least
<1>9. BlockAt(file, meta.version, meta.index_block_offset, checksums) = blk
  BY <1>7
<1> HIDE DEF meta, blk, p
<1>10. blk # Died /\ blk.content = index
  BY <1>6 DEF Died
<1> HIDE DEF index
<1> QED BY <1>4, <1>5, <1>8, <1>9, <1>10 DEF OpenReader, meta, index

\* Every data block is where its offset says.
LEMMA CompleteBlocks ==
    ASSUME Complete, NEW i \in 1..Len(written)
    PROVE  LET p == offsets[i]
               content == written[i]
               l == Len(LengthField(version, Len(content)))
           IN  /\ p \in Nat /\ l \in Nat /\ Len(content) \in Nat /\ 2 * Size32 <= Len(content)
               /\ BlockEnd(i) = p + (l + Size32 + Len(content)) /\ BlockEnd(i) <= DataEnd
               /\ LengthAt(file, version, p) = [len |-> l, value |-> Len(content)]
               /\ Mapped(file, p)
               /\ CrcMatches(file, p + l, content)
               /\ At(file, p + l + Size32, Len(content)) = content
               /\ \A checksums \in BOOLEAN :
                     BlockAt(file, version, p, checksums) = [res |-> "block", content |-> content]
<1> DEFINE p == offsets[i]
           content == written[i]
           l == Len(LengthField(version, Len(content)))
           bytes == BlockBytes(version, content)
           rest == Len(BlockBytes(version, IndexContent(offsets)))
<1>1. /\ FileTyped /\ BlocksLaid /\ version \in Formats /\ file \in Seq(Nat) /\ Len(file) \in Nat
      /\ DataEnd \in Nat /\ rest \in Nat /\ Len(file) = (DataEnd + rest) + MetadataSize
  BY CompleteIs
<1>2. content \in Contents /\ p \in Nat /\ Len(bytes) \in Nat /\ p <= DataEnd
  BY <1>1, StateSizes
<1>3. /\ BlockEnd(i) = p + Len(bytes) /\ BlockEnd(i) <= DataEnd /\ Placed(file, p, bytes)
  BY <1>1 DEF BlocksLaid
<1> HIDE DEF rest, content, p
<1>4. Storable(version, content) /\ Len(content) \in Nat /\ 2 * Size32 <= Len(content)
  BY <1>1, <1>2, ContentsStorable DEF FileTyped
<1>5. Len(bytes) = l + Size32 + Len(content)
  BY <1>1, <1>4, BlockIs
<1>6. l \in Nat /\ 1 <= l
  BY <1>1, <1>4, LengthFieldIs DEF Storable
<1> HIDE DEF bytes, l
<1>7. p + Len(bytes) <= Len(file) /\ p + 10 <= Len(file)
  BY <1>1, <1>2, <1>3, <1>4, <1>5, <1>6, FileNumbers
<1>8. /\ LengthAt(file, version, p) = [len |-> l, value |-> Len(content)]
      /\ Mapped(file, p)
      /\ CrcMatches(file, p + l, content)
      /\ At(file, p + l + Size32, Len(content)) = content
      /\ \A checksums \in BOOLEAN :
            BlockAt(file, version, p, checksums) = [res |-> "block", content |-> content]
  BY <1>1, <1>2, <1>3, <1>4, <1>7, BlockRead DEF bytes, l
<1>9. BlockEnd(i) = p + (l + Size32 + Len(content))
  BY <1>3, <1>5
<1> QED BY <1>2, <1>3, <1>4, <1>6, <1>8, <1>9 DEF p, content, l

\* Its index leads to every data block, and get_block_at_index() returns what was written.
LEMMA CompleteReads ==
    ASSUME Complete, NEW checksums \in BOOLEAN
    PROVE  ReadsAsWritten(file, checksums)
<1> DEFINE r == OpenReader(file, checksums)
<1>1. r = [res |-> "open", m |-> TrailerSays, index |-> IndexContent(offsets)]
  BY CompleteOpens
<1>2. r.res = "open" /\ r.m.version = version /\ r.index = IndexContent(offsets)
  BY <1>1 DEF TrailerSays
<1> HIDE DEF r
<1>3. FileTyped /\ BlocksLaid
  BY CompleteIs
<1>4. Encodable(offsets) /\ 2 * Size32 <= Len(r.index) /\ Len(r.index) \in Nat
  BY <1>2, <1>3, IndexStorable
<1>5. OffsetsIn(r.index) = offsets
  BY <1>2, <1>4, OffsetsDecoded
<1>6. Len(offsets) = Len(written) /\ DOMAIN written = 1..Len(written)
  BY <1>3, LenProperties DEF BlocksLaid, FileTyped
<1>7. ASSUME NEW i \in 1..Len(written)
      PROVE  ReadBlock(file, r, i, checksums) = [res |-> "block", content |-> written[i]]
  <2> DEFINE blk == BlockAt(file, r.m.version, OffsetsIn(r.index)[i], checksums)
  <2>1. blk = [res |-> "block", content |-> written[i]]
    BY <1>2, <1>5, CompleteBlocks
  <2>2. Len(written[i]) \in Nat /\ 2 * Size32 <= Len(written[i])
    BY CompleteBlocks
  <2>3. blk # Died /\ ~(Len(blk.content) < 2 * Size32)
    <3>1. blk # Died /\ blk.content = written[i]
      BY <2>1 DEF Died
    <3> HIDE DEF blk
    <3> QED BY <2>2, <3>1, FileNumbers
  <2> QED BY <2>1, <2>3 DEF ReadBlock
<1>8. Len(r.index) >= 2 * Size32
  BY <1>4, FileNumbers
<1> QED BY <1>2, <1>5, <1>6, <1>7, <1>8 DEF ReadsAsWritten, r

\* The loop of verify_data_blocks() is at the end of the k-th block after k rounds.
LEMMA CompleteVerifies ==
    ASSUME Complete
    PROVE  VerifyBlocks(file, TrailerSays, start) = "ok"
<1> DEFINE n == Len(written)
           d == metadata.bytes_data_blocks
           done(k) == IF k = 0 THEN 0 ELSE BlockEnd(k) - start
           at(k) == [res |-> "ok", offset |-> done(k)]
           walk == [k \in 0..n |-> at(k)]
           Is(f) == f = [k \in 0..n |-> IF k = 0 THEN [res |-> "ok", offset |-> 0]
                                        ELSE VerifyBlock(file, TrailerSays, start, f[k - 1])]
           Round == CHOOSE f : Is(f)
<1>1. FileTyped /\ BlocksLaid
  BY CompleteIs
<1>2. /\ n \in Nat /\ Len(offsets) = n /\ start \in Nat /\ d \in Nat /\ DataEnd = start + d
      /\ \A i \in 1..n : offsets[i] \in Nat /\ BlockEnd(i) \in Nat
  BY <1>1, StateSizes DEF DataEnd
<1>3. /\ TrailerSays.version = version /\ TrailerSays.count_data_blocks = n
      /\ TrailerSays.bytes_data_blocks = d
  BY <1>1 DEF TrailerSays, BlocksLaid
<1>4. Rounds(TrailerSays) = n
  BY <1>3 DEF Rounds
<1>5. VerifyBlocks(file, TrailerSays, start) = Round[n].res
  BY <1>4 DEF VerifyBlocks
<1> HIDE DEF n, d
\* Where a block ends the next one begins.
<1>6. ASSUME NEW k \in 1..n PROVE start + done(k - 1) = offsets[k]
  <2>1. CASE k = 1
    <3>1. written # <<>>
      <4>1. n # 0
        BY <1>2
      <4> QED BY <4>1 DEF n
    <3>2. offsets[1] = start
      BY <1>1, <3>1 DEF BlocksLaid
    <3> QED BY <1>2, <2>1, <3>2
  <2>2. CASE k # 1
    <3>1. k - 1 \in 1..n /\ k - 1 # 0 /\ k - 1 < n /\ (k - 1) + 1 = k
      BY <1>2, <2>2
    <3>2. BlockEnd(k - 1) = offsets[k]
      BY <1>2, <3>1 DEF BlockEnd
    <3>3. offsets[k] \in Nat
      BY <1>2
    <3>4. done(k - 1) = offsets[k] - start
      BY <3>1, <3>2
    <3> HIDE DEF done
    <3> QED BY <1>2, <3>3, <3>4
  <2> QED BY <2>1, <2>2
<1>7. ASSUME NEW k \in 1..n PROVE VerifyBlock(file, TrailerSays, start, at(k - 1)) = at(k)
  <2> DEFINE content == written[k]
             c == Len(content)
             l == Len(LengthField(version, c))
             p == offsets[k]
             size == LengthAt(file, version, p)
             prev == done(k - 1)
             next == prev + size.len + Size32 + size.value
  <2>1. /\ p \in Nat /\ l \in Nat /\ c \in Nat
        /\ BlockEnd(k) = p + (l + Size32 + c) /\ BlockEnd(k) <= DataEnd
        /\ size = [len |-> l, value |-> c] /\ Mapped(file, p)
        /\ CrcMatches(file, p + l, content) /\ At(file, p + l + Size32, c) = content
    BY CompleteBlocks DEF n
  <2>2. size.len = l /\ size.value = c
    BY <2>1
  <2>3. start + prev = p /\ prev \in Int
    <3>1. start + prev = p
      BY <1>6
    <3>2. prev \in Int
      <4>1. k - 1 = 0 \/ k - 1 \in 1..n
        BY <1>2
      <4>2. k - 1 \in 1..n => BlockEnd(k - 1) \in Nat
        BY <1>2
      <4> QED BY <1>2, <4>1, <4>2
    <3> QED BY <3>1, <3>2
  <2>4. BlockEnd(k) \in Nat /\ k # 0
    BY <1>2
  <2> HIDE DEF content, c, l, size, prev, p
  <2>5. next = BlockEnd(k) - start
    BY <1>2, <2>1, <2>2, <2>3, <2>4, FileNumbers
  <2>6. ~(next > d)
    <3> HIDE DEF next
    <3> QED BY <1>2, <2>1, <2>4, <2>5
  <2>7. at(k - 1).res = "ok" /\ at(k - 1).offset = prev
    BY DEF prev
  <2>8. next = done(k)
    <3> HIDE DEF next
    <3> QED BY <2>4, <2>5
  <2> HIDE DEF next
  <2>9. [at(k - 1) EXCEPT !.offset = next] = at(k)
    <3> HIDE DEF done
    <3> QED BY <2>8
  <2>10. /\ start + at(k - 1).offset = p
         /\ LengthAt(file, TrailerSays.version, p) = size
         /\ at(k - 1).offset + size.len + Size32 + size.value = next
    <3> HIDE DEF at
    <3> QED BY <1>3, <2>3, <2>7 DEF size, next
  <2>11. CrcMatches(file, p + size.len, At(file, p + size.len + Size32, size.value))
    BY <2>1, <2>2
  <2> HIDE DEF at
  <2> QED BY <1>3, <2>1, <2>6, <2>7, <2>9, <2>10, <2>11 DEF VerifyBlock
<1>8. at(0) = [res |-> "ok", offset |-> 0]
  OBVIOUS
<1> HIDE DEF at
<1>9. Is(walk)
  <2>1. ASSUME NEW k \in 0..n
        PROVE  walk[k] = IF k = 0 THEN [res |-> "ok", offset |-> 0]
                         ELSE VerifyBlock(file, TrailerSays, start, walk[k - 1])
    <3>1. CASE k = 0
      BY <1>8, <3>1
    <3>2. CASE k # 0
      <4>1. k \in 1..n /\ k - 1 \in 0..n
        BY <1>2, <3>2
      <4> QED BY <1>7, <3>2, <4>1
    <3> QED BY <3>1, <3>2
  <2> QED BY <2>1
<1>10. Is(Round)
  <2> HIDE DEF Is
  <2> QED BY <1>9
<1> HIDE DEF Round
<1>11. \A k \in Nat : k <= n => Round[k] = walk[k]
  <2> DEFINE S == {k \in Nat : k <= n => Round[k] = walk[k]}
  <2>1. 0 \in S
    <3>1. 0 \in 0..n
      BY <1>2
    <3>2. Round[0] = [res |-> "ok", offset |-> 0] /\ walk[0] = [res |-> "ok", offset |-> 0]
      <4> HIDE DEF walk
      <4> QED BY <1>9, <1>10, <3>1
    <3> HIDE DEF walk
    <3> QED BY <3>2
  <2>2. ASSUME NEW k \in Nat, k \in S PROVE k + 1 \in S
    <3> SUFFICES ASSUME k + 1 <= n PROVE Round[k + 1] = walk[k + 1]
      OBVIOUS
    <3>1. k + 1 \in 0..n /\ k + 1 # 0 /\ (k + 1) - 1 = k /\ k <= n
      BY <1>2
    <3> HIDE DEF walk
    <3>2. /\ Round[k + 1] = VerifyBlock(file, TrailerSays, start, Round[k])
          /\ walk[k + 1] = VerifyBlock(file, TrailerSays, start, walk[k])
      BY <1>9, <1>10, <3>1
    <3> QED BY <2>2, <3>1, <3>2
  <2>3. \A k \in Nat : k \in S
    <3> HIDE DEF S
    <3> QED BY <2>1, <2>2, Induction
  <2> QED BY <2>3
<1>12. walk[n].res = "ok"
  <2>1. n \in 0..n
    BY <1>2
  <2> QED BY <2>1 DEF at
<1> HIDE DEF walk
<1> QED BY <1>2, <1>5, <1>11, <1>12

\* mtbl_verify says OK of a complete file: it finds the first data block by the sizes
\* in the trailer, and each of the others behind the one before it.
LEMMA CompleteVerified ==
    ASSUME Complete
    PROVE  Verify(file) = "ok"
<1> DEFINE r == OpenReader(file, TRUE)
<1>1. r = [res |-> "open", m |-> TrailerSays, index |-> IndexContent(offsets)]
  BY CompleteOpens
<1> HIDE DEF r
<1>2. r.m = TrailerSays /\ r # Refused /\ r # Died
  <2>1. r.res = "open" /\ r.m = TrailerSays
    BY <1>1
  <2>2. Refused.res = "refused" /\ Died.res = "died"
    BY DEF Refused, Died
  <2> QED BY <2>1, <2>2
<1>3. /\ metadata.index_block_offset = DataEnd /\ start \in Nat
      /\ metadata.bytes_data_blocks \in Nat
  BY CompleteIs, StateSizes
<1>4. TrailerSays.index_block_offset - TrailerSays.bytes_data_blocks = start
  <2>1. /\ TrailerSays.index_block_offset = metadata.index_block_offset
        /\ TrailerSays.bytes_data_blocks = metadata.bytes_data_blocks
    BY DEF TrailerSays
  <2> QED BY <1>3, <2>1 DEF DataEnd
<1>5. VerifyBlocks(file, r.m, r.m.index_block_offset - r.m.bytes_data_blocks) = "ok"
  <2> QED BY <1>2, <1>4, CompleteVerifies
<1> QED BY <1>2, <1>5 DEF Verify, r

\* A file that mtbl_writer_destroy() has finished opens, get_block_at_index() finds every
\* data block in it as it was written, with checksums and without, and mtbl_verify
\* accepts it: for every choice of contents, of the reserved bytes in front and of the
\* format, and for a file without entries.
THEOREM CompleteReadsBack == FileSpec => []ReadsBack
<1>1. FileInv => ReadsBack
  <2> SUFFICES ASSUME FileInv, pc = "closed", fault = "none"
               PROVE  /\ \A checksums \in BOOLEAN : ReadsAsWritten(file, checksums)
                      /\ Verify(file) = "ok"
    BY DEF ReadsBack
  <2>1. Complete
    BY DEF Complete
  <2> QED BY <2>1, CompleteReads, CompleteVerified
<1> QED BY <1>1, FileInvariant, PTL

===============================================================================
