------------------------------ MODULE Writer_proofs ------------------------------
(***************************************************************************)
(* Proofs about Writer, for any keys, any sizes of entries and blocks,     *)
(* with and without a pool: the separators, the keys of the index and      *)
(* where its entries point, the type of the state, what a closed file      *)
(* holds and how it is searched, and that the writer is a Table.           *)
(***************************************************************************)
EXTENDS Writer, Induction_proofs, FiniteSetTheorems

-------------------------------------------------------------------------------
(* What bytes_shortest_separator() guarantees for all keys *)

\* What a byte appended to a key yields.
LEMMA AppendByte ==
    ASSUME NEW s \in Key, NEW x \in Byte, NEW n \in Nat, Len(s) + 1 = n
    PROVE  /\ Append(s, x) \in Key
           /\ Len(Append(s, x)) = n
           /\ \A j \in 1..(n - 1) : Append(s, x)[j] = s[j]
           /\ Append(s, x)[n] = x
<1>1. Len(s) \in Nat
  BY KeyElements
<1>2. /\ Append(s, x) \in Key
      /\ Len(Append(s, x)) = Len(s) + 1
      /\ \A j \in 1..Len(s) : Append(s, x)[j] = s[j]
      /\ Append(s, x)[Len(s) + 1] = x
  BY AppendProperties DEF Key
<1>3. n - 1 = Len(s)
  BY <1>1
<1> QED BY <1>2, <1>3

\* Two keys that are in order have a first difference, where the first key ends
\* or has the smaller byte.
LEMMA DiffIndexLess ==
    ASSUME NEW s \in Key, NEW t \in Key, Less(s, t)
    PROVE  LET i == DiffIndex(s, t) IN
           /\ i \in 1..(MinLength(s, t) + 1)
           /\ \A j \in 1..(i - 1) : s[j] = t[j]
           /\ i <= MinLength(s, t) => s[i] < t[i]
           /\ i > MinLength(s, t) => i = Len(s) + 1 /\ Len(s) < Len(t)
<1> DEFINE ls == Len(s)
           lt == Len(t)
           m == MinLength(s, t)
           P(i) == /\ \A j \in 1..(i - 1) : s[j] = t[j]
                   /\ i <= m => s[i] # t[i]
           d == DiffIndex(s, t)
<1>1. PICK i \in 1..lt : /\ i <= ls + 1
                         /\ \A j \in 1..(i - 1) : s[j] = t[j]
                         /\ i <= ls => s[i] < t[i]
  BY DEF Less
<1>2. /\ ls \in Nat /\ lt \in Nat
      /\ \A j \in 1..ls : s[j] \in Byte
      /\ \A j \in 1..lt : t[j] \in Byte
  BY KeyElements, Zenon
<1>3. m \in Nat /\ m <= ls /\ m <= lt /\ m \in {ls, lt}
  BY <1>2 DEF MinLength
<1>4. d = CHOOSE k \in 1..(m + 1) : P(k)
  BY Zenon DEF DiffIndex
<1> SUFFICES /\ d \in 1..(m + 1)
             /\ \A j \in 1..(d - 1) : s[j] = t[j]
             /\ d <= m => s[d] < t[d]
             /\ d > m => d = ls + 1 /\ ls < lt
  BY Zenon
<1> HIDE DEF ls, lt, m, d
<1>5. i \in 1..(m + 1)
  BY <1>1, <1>2, <1>3
<1>6. i <= m => s[i] < t[i] /\ s[i] # t[i]
  BY <1>1, <1>2, <1>3 DEF Byte
<1>7. P(i)
  BY <1>1, <1>6
<1>8. d \in 1..(m + 1) /\ P(d)
  BY <1>4, <1>5, <1>7, Zenon
<1>9. d = i
  <2>1. ~(d < i)
    BY <1>1, <1>3, <1>5, <1>8
  <2>2. ~(i < d)
    BY <1>1, <1>3, <1>5, <1>6, <1>8
  <2> QED BY <2>1, <2>2, <1>3, <1>5, <1>8
<1> QED BY <1>1, <1>2, <1>3, <1>5, <1>6, <1>8, <1>9

\* The order of bytes, opaque where only positions and lengths matter
Lt(x, y) == x < y

\* Two keys that agree before i are ordered by what they have at i.
LEMMA LessAt ==
    ASSUME NEW s \in Key, NEW t \in Key, NEW m \in Nat, NEW n \in Nat, m = Len(s), n = Len(t),
           NEW i \in Nat, i \in 1..n, i <= m + 1,
           \A j \in 1..(i - 1) : s[j] = t[j],
           i <= m => Lt(s[i], t[i])
    PROVE  Less(s, t)
BY Zenon DEF Less, Lt

\* The word that two bytes make, and the bytes of a word
LEMMA BytesOfWord == ASSUME NEW x \in Byte, NEW y \in Byte PROVE WordOf(x, y) \in Uint16
BY DEF Byte, Uint16, WordOf

LEMMA WordOfBytes == ASSUME NEW w \in Uint16
                     PROVE  High(w) \in Byte /\ Low(w) \in Byte /\ w = WordOf(High(w), Low(w))
BY DEF Byte, Uint16, High, Low, WordOf

\* A word whose successor is not smaller has a successor.
LEMMA Reduce == ASSUME NEW n \in Int, 0 <= n, n < 65536 PROVE n % 65536 = n
OBVIOUS

LEMMA NoOverflow == ASSUME NEW w \in Uint16
                    PROVE  /\ Successor(w) \in Uint16
                           /\ w <= Successor(w) => Successor(w) = w + 1
<1>1. w \in Int /\ 0 <= w /\ w <= 65535
  BY DEF Uint16
<1>2. CASE w = 65535
  <2>1. 65536 % 65536 = 0
    OBVIOUS
  <2>2. Successor(w) = 0
    BY <2>1, <1>2 DEF Successor
  <2> QED BY <2>2, <1>2 DEF Uint16
<1>3. CASE w # 65535
  <2>1. w + 1 \in Int /\ 0 <= w + 1 /\ w + 1 < 65536
    BY <1>1, <1>3
  <2>2. w + 1 \in Uint16
    BY <2>1 DEF Uint16
  <2>3. PICK n \in Int : n = w + 1
    BY <2>1
  <2>4. Successor(w) = w + 1
    BY <2>1, <2>3, Reduce DEF Successor
  <2> QED BY <2>2, <2>4
<1> QED BY <1>2, <1>3

\* How the bytes of a word compare with the bytes of the word before it
LEMMA WordAbove ==
    ASSUME NEW x \in Byte, NEW y \in Byte, NEW hi \in Byte, NEW lo \in Byte,
           WordOf(hi, lo) = WordOf(x, y) + 1
    PROVE  Lt(x, hi) \/ (x = hi /\ Lt(y, lo))
<1>1. x \in 0..255 /\ y \in 0..255 /\ hi \in 0..255 /\ lo \in 0..255
  BY Zenon DEF Byte
<1>2. 256 * x + y + 1 = 256 * hi + lo
  BY <1>1 DEF WordOf
<1>3. x < hi \/ (x = hi /\ y < lo)
  BY <1>1, <1>2
<1> QED BY <1>3, Zenon DEF Lt

\* and with the bytes of a word that is not smaller.
LEMMA WordBelow ==
    ASSUME NEW u \in Byte, NEW v \in Byte, NEW hi \in Byte, NEW lo \in Byte,
           NEW w \in Uint16, w = WordOf(hi, lo), w <= WordOf(u, v)
    PROVE  Lt(hi, u) \/ (hi = u /\ (Lt(lo, v) \/ lo = v))
<1>1. u \in 0..255 /\ v \in 0..255 /\ hi \in 0..255 /\ lo \in 0..255
  BY Zenon DEF Byte
<1>2. 256 * hi + lo <= 256 * u + v
  BY Zenon DEF WordOf
<1>3. hi < u \/ (hi = u /\ (lo < v \/ lo = v))
  BY <1>1, <1>2
<1> QED BY <1>3, Zenon DEF Lt

\* The bytes hi, lo are above x, y, and are not above u, v.
BytesBetween(x, y, u, v, hi, lo) ==
    /\ Lt(x, hi) \/ (x = hi /\ Lt(y, lo))
    /\ Lt(hi, u) \/ (hi = u /\ (Lt(lo, v) \/ lo = v))

\* The bytes of the successor of x, y, where it is a separator
LEMMA BetweenBytes ==
    ASSUME NEW x \in Byte, NEW y \in Byte, NEW u \in Byte, NEW v \in Byte,
           NEW b, b = Successor(WordOf(x, y)), WordOf(x, y) <= b, b <= WordOf(u, v)
    PROVE  /\ High(b) \in Byte
           /\ Low(b) \in Byte
           /\ BytesBetween(x, y, u, v, High(b), Low(b))
<1>1. WordOf(x, y) \in Uint16
  BY BytesOfWord, Zenon
<1>2. b \in Uint16 /\ b = WordOf(x, y) + 1
  <2>1. Successor(WordOf(x, y)) \in Uint16
    BY <1>1, NoOverflow, Zenon
  <2>2. Successor(WordOf(x, y)) = WordOf(x, y) + 1
    BY <1>1, NoOverflow, Zenon
  <2> QED BY <2>1, <2>2, Zenon
<1>3. High(b) \in Byte /\ Low(b) \in Byte /\ b = WordOf(High(b), Low(b))
  BY <1>2, WordOfBytes, Zenon
<1>4. Lt(x, High(b)) \/ (x = High(b) /\ Lt(y, Low(b)))
  <2>1. WordOf(High(b), Low(b)) = WordOf(x, y) + 1
    BY <1>2, <1>3, Zenon
  <2> QED BY <2>1, <1>3, WordAbove, Zenon
<1>5. Lt(High(b), u) \/ (High(b) = u /\ (Lt(Low(b), v) \/ Low(b) = v))
  BY <1>2, <1>3, WordBelow, Zenon
<1> QED BY <1>3, <1>4, <1>5, Zenon DEF BytesBetween

\* A key of n bytes that agrees with s and t before its last two bytes, and is
\* between them there, is between s and t when these are longer.
LEMMA TwoBytesLess ==
    ASSUME NEW s \in Key, NEW t \in Key, NEW r \in Key, NEW d \in Nat, NEW n \in Nat,
           d >= 1, n = d + 1, Len(r) = n, n < Len(s), n < Len(t),
           \A j \in 1..(d - 1) : s[j] = r[j] /\ r[j] = t[j],
           Lt(s[d], r[d]) \/ (s[d] = r[d] /\ Lt(s[n], r[n])),
           \/ Lt(r[d], t[d])
           \/ r[d] = t[d] /\ Lt(r[n], t[n])
           \/ r[d] = t[d] /\ r[n] = t[n]
    PROVE  Less(s, r) /\ Less(r, t)
<1> DEFINE ls == Len(s)
           lt == Len(t)
<1>1. ls \in Nat /\ lt \in Nat /\ n < ls /\ n < lt /\ ls = Len(s) /\ lt = Len(t) /\ n = Len(r)
  BY KeyElements, Zenon
<1> HIDE DEF ls, lt
<1>2. /\ d \in 1..n /\ d \in 1..lt /\ d <= ls + 1 /\ d <= n + 1
      /\ n \in 1..n /\ n \in 1..lt /\ n <= ls + 1 /\ n <= n + 1
      /\ n + 1 \in Nat /\ n + 1 \in 1..lt /\ n + 1 <= n + 1 /\ ~(n + 1 <= n)
  BY <1>1
<1>3. /\ \A j \in 1..(n - 1) : j = d \/ j \in 1..(d - 1)
      /\ \A j \in 1..((n + 1) - 1) : j = n \/ j \in 1..(n - 1)
  OBVIOUS
<1>4. \A j \in 1..(d - 1) : s[j] = r[j] /\ r[j] = t[j]
  OBVIOUS
<1>5. Less(s, r)
  <2>1. CASE Lt(s[d], r[d])
    BY <2>1, <1>1, <1>2, <1>4, LessAt, Zenon
  <2>2. CASE s[d] = r[d] /\ Lt(s[n], r[n])
    <3>1. \A j \in 1..(n - 1) : s[j] = r[j]
      BY <2>2, <1>3, <1>4, Zenon
    <3> QED BY <3>1, <2>2, <1>1, <1>2, LessAt, Zenon
  <2> QED BY <2>1, <2>2, Zenon
<1>6. Less(r, t)
  <2>1. CASE Lt(r[d], t[d])
    BY <2>1, <1>1, <1>2, <1>4, LessAt, Zenon
  <2>2. ASSUME r[d] = t[d] PROVE \A j \in 1..(n - 1) : r[j] = t[j]
    BY <2>2, <1>3, <1>4, Zenon
  <2>3. CASE r[d] = t[d] /\ Lt(r[n], t[n])
    BY <2>2, <2>3, <1>1, <1>2, LessAt, Zenon
  <2>4. CASE r[d] = t[d] /\ r[n] = t[n]
    <3>1. \A j \in 1..((n + 1) - 1) : r[j] = t[j]
      BY <2>2, <2>4, <1>3, Zenon
    <3> QED BY <3>1, <1>1, <1>2, LessAt, Zenon
  <2> QED BY <2>1, <2>3, <2>4, Zenon
<1> QED BY <1>5, <1>6, Zenon

\* bytes_shortest_separator() called on the last key of a block and the first
\* key of the next returns a key that is not below the former and is below the
\* latter: its assertion holds, and a lookup in the index finds the right block.
THEOREM SeparatorInBetween ==
    ASSUME NEW s \in Key, NEW t \in Key, Less(s, t)
    PROVE  LET r == ShortestSeparator(s, t) IN
           /\ r \in Key
           /\ r = s \/ Less(s, r)
           /\ Less(r, t)
<1> DEFINE ls == Len(s)
           lt == Len(t)
           m == MinLength(s, t)
           d == DiffIndex(s, t)
           common == SubSeq(s, 1, d - 1)
           sep == ShortestSeparator(s, t)
<1> SUFFICES sep \in Key /\ (sep = s \/ Less(s, sep)) /\ Less(sep, t)
  BY Zenon
<1>1. /\ d \in 1..(m + 1)
      /\ \A j \in 1..(d - 1) : s[j] = t[j]
      /\ d <= m => s[d] < t[d]
      /\ d > m => d = ls + 1 /\ ls < lt
  BY DiffIndexLess, Zenon
<1>2. sep = IF d > m THEN s
            ELSE IF ByteFits(s, t, d) THEN Append(common, s[d] + 1)
            ELSE IF WordFits(s, t, d)
                 THEN Append(Append(common, High(Between(s, d))), Low(Between(s, d)))
            ELSE s
  BY Zenon DEF ShortestSeparator
<1>3. /\ ls \in Nat /\ lt \in Nat
      /\ \A j \in 1..ls : s[j] \in Byte
      /\ \A j \in 1..lt : t[j] \in Byte
  BY KeyElements, Zenon
<1>4. m \in Nat /\ m <= ls /\ m <= lt
  BY <1>3 DEF MinLength
<1>5. WordFits(s, t, d) <=> /\ d + 1 < m
                            /\ Word(s, d) <= Between(s, d)
                            /\ Between(s, d) <= Word(t, d)
  BY Zenon DEF WordFits
<1>6. d - 1 \in 0..Len(s)
  BY <1>1, <1>3, <1>4
<1>7. common \in Key /\ Len(common) = d - 1 /\ \A j \in 1..(d - 1) : common[j] = s[j]
  BY <1>6, Clip, Zenon
<1>8. ls = Len(s) /\ lt = Len(t)
  OBVIOUS
<1> HIDE DEF ls, lt, m, d, common, sep
<1>9. d \in Nat /\ (d <= m => d \in 1..ls /\ d \in 1..lt /\ d <= ls + 1 /\ ~(d > m))
  BY <1>1, <1>3, <1>4
<1>10. CASE d > m
  BY <1>2, <1>10
<1>11. CASE d <= m /\ ByteFits(s, t, d)
  <2> DEFINE x == s[d]
             u == t[d]
             pre == Append(common, x + 1)
  <2>1. x \in Byte /\ u \in Byte
    BY <1>3, <1>9, <1>11, Zenon
  <2>2. x < 255 /\ x + 1 < u
    BY <1>11, Zenon DEF ByteFits
  <2>3. sep = pre
    BY <1>2, <1>9, <1>11, Zenon
  <2> HIDE DEF x, u
  <2>4. x + 1 \in Byte /\ Lt(x, x + 1) /\ Lt(x + 1, u)
    BY <2>1, <2>2 DEF Byte, Lt
  <2>5. Len(common) + 1 = d
    BY <1>7, <1>9
  <2>6. /\ pre \in Key /\ Len(pre) = d
        /\ \A j \in 1..(d - 1) : pre[j] = common[j]
        /\ pre[d] = x + 1
    BY <2>4, <2>5, <1>7, <1>9, AppendByte
  <2> HIDE DEF pre
  <2>7. \A j \in 1..(d - 1) : s[j] = pre[j] /\ pre[j] = t[j]
    BY <2>6, <1>1, <1>7, Zenon
  <2>8. Lt(s[d], pre[d]) /\ Lt(pre[d], t[d])
    BY <2>4, <2>6, Zenon DEF x, u
  <2>9. d \in 1..d /\ d <= d + 1
    BY <1>1, <1>9
  <2>10. Less(s, pre)
    BY <2>6, <2>7, <2>8, <2>9, <1>8, <1>9, <1>11, LessAt
  <2>11. Less(pre, t)
    BY <2>6, <2>7, <2>8, <2>9, <1>8, <1>9, <1>11, LessAt
  <2> QED BY <2>3, <2>6, <2>10, <2>11, Zenon
<1>12. CASE d <= m /\ ~ByteFits(s, t, d) /\ WordFits(s, t, d)
  <2> DEFINE n == d + 1
             b == Between(s, d)
             pre == Append(common, High(b))
             whole == Append(pre, Low(b))
  <2>1. /\ n < m /\ n \in Nat /\ n = d + 1 /\ d >= 1 /\ n - 1 = d
        /\ n \in 1..ls /\ n \in 1..lt /\ n < ls /\ n < lt /\ d \in 1..(n - 1)
        /\ \A j \in 1..(d - 1) : j \in 1..(n - 1)
    BY <1>1, <1>3, <1>4, <1>5, <1>12
  <2>2. s[d] \in Byte /\ s[n] \in Byte /\ t[d] \in Byte /\ t[n] \in Byte
    BY <2>1, <1>3, <1>9, <1>12, Zenon
  <2>3. /\ b = Successor(WordOf(s[d], s[n]))
        /\ WordOf(s[d], s[n]) <= b
        /\ b <= WordOf(t[d], t[n])
    BY <1>5, <1>12, Zenon DEF Between, Word
  <2>4. sep = whole
    BY <1>2, <1>9, <1>12, Zenon
  <2> HIDE DEF n, b
  <2>5. /\ High(b) \in Byte
        /\ Low(b) \in Byte
        /\ Lt(s[d], High(b)) \/ (s[d] = High(b) /\ Lt(s[n], Low(b)))
        /\ \/ Lt(High(b), t[d])
           \/ High(b) = t[d] /\ Lt(Low(b), t[n])
           \/ High(b) = t[d] /\ Low(b) = t[n]
    <3>1. PICK x \in Byte, y \in Byte, u \in Byte, v \in Byte :
              x = s[d] /\ y = s[n] /\ u = t[d] /\ v = t[n]
      BY <2>2, Zenon
    <3>2. b = Successor(WordOf(x, y)) /\ WordOf(x, y) <= b /\ b <= WordOf(u, v)
      BY <2>3, <3>1, Zenon
    <3>3. High(b) \in Byte /\ Low(b) \in Byte
      BY <3>2, BetweenBytes, Zenon
    <3>4. BytesBetween(x, y, u, v, High(b), Low(b))
      BY <3>2, BetweenBytes, Zenon
    <3> QED BY <3>1, <3>3, <3>4, Zenon DEF BytesBetween
  <2>6. Len(common) + 1 = d
    BY <1>7, <1>9
  <2>7. /\ pre \in Key /\ Len(pre) = d
        /\ \A j \in 1..(d - 1) : pre[j] = common[j]
        /\ pre[d] = High(b)
    BY <2>5, <2>6, <1>7, <1>9, AppendByte
  <2> HIDE DEF pre
  <2>8. Len(pre) + 1 = n
    BY <2>1, <2>7, Zenon
  <2>9. /\ whole \in Key /\ Len(whole) = n
        /\ \A j \in 1..(n - 1) : whole[j] = pre[j]
        /\ whole[n] = Low(b)
    BY <2>1, <2>5, <2>7, <2>8, AppendByte
  <2> HIDE DEF whole
  <2>10. /\ whole[d] = High(b)
         /\ \A j \in 1..(d - 1) : s[j] = whole[j] /\ whole[j] = t[j]
    BY <2>1, <2>7, <2>9, <1>1, <1>7, Zenon
  <2>11. /\ Lt(s[d], whole[d]) \/ (s[d] = whole[d] /\ Lt(s[n], whole[n]))
         /\ \/ Lt(whole[d], t[d])
            \/ whole[d] = t[d] /\ Lt(whole[n], t[n])
            \/ whole[d] = t[d] /\ whole[n] = t[n]
    BY <2>5, <2>9, <2>10, Zenon
  <2>12. n < Len(s) /\ n < Len(t)
    BY <2>1, <1>8, Zenon
  <2>13. Less(s, whole) /\ Less(whole, t)
    BY <2>1, <2>9, <2>10, <2>11, <2>12, <1>9, TwoBytesLess, Zenon
  <2> QED BY <2>4, <2>9, <2>13, Zenon
<1>13. CASE d <= m /\ ~ByteFits(s, t, d) /\ ~WordFits(s, t, d)
  BY <1>2, <1>9, <1>13, Zenon
<1> QED BY <1>1, <1>4, <1>10, <1>11, <1>12, <1>13

-------------------------------------------------------------------------------
(* The order of keys *)

\* What is below a key is below everything that is not below that key.
LEMMA BelowStays ==
    ASSUME NEW s \in Key, NEW t \in Key, NEW x \in Key, s = t \/ Less(s, t), ~Less(s, x)
    PROVE  ~Less(t, x)
BY LessTransitive

-------------------------------------------------------------------------------
(* Finished blocks and the open one *)

BlockRecord == [keys : Seq(Keys), last_key : Key]

\* No key of ks is above k; all of them are above k.
Covers(k, ks) == \A x \in Range(ks) : ~Less(k, x)
Below(k, ks) == \A x \in Range(ks) : Less(k, x)

\* SeparatorsSeparate, for the finished blocks bs and the keys ks of the open one
Separates(bs, ks) ==
    \A i \in 1..Len(bs) :
        /\ Covers(bs[i].last_key, bs[i].keys)
        /\ Below(bs[i].last_key, IF i < Len(bs) THEN bs[i + 1].keys ELSE ks)

LEMMA SameAsProperty == Separates(blocks, data) <=> SeparatorsSeparate
BY DEF Separates, SeparatorsSeparate, Covers, Below

LEMMA RangeOfAppend ==
    ASSUME NEW S, NEW s \in Seq(S), NEW x \in S
    PROVE  Range(Append(s, x)) = Range(s) \cup {x}
<1> DEFINE n == Len(s)
<1>1. n \in Nat /\ DOMAIN s = 1..n
    BY LenProperties
<1>2. /\ DOMAIN Append(s, x) = 1..(n + 1)
      /\ \A i \in 1..n : Append(s, x)[i] = s[i]
      /\ Append(s, x)[n + 1] = x
    BY AppendProperties
<1> HIDE DEF n
<1> QED BY <1>1, <1>2 DEF Range

LEMMA RangeOfOne == ASSUME NEW x PROVE Range(<<x>>) = {x} /\ Range(<<>>) = {}
BY DEF Range

\* The open block ends under the separator k, and the next one begins with ks.
LEMMA BlockEnds ==
    ASSUME NEW bs \in Seq(BlockRecord), NEW d \in Seq(Keys), Separates(bs, d),
           NEW k \in Key, Covers(k, d), NEW ks, Below(k, ks)
    PROVE  /\ Append(bs, [keys |-> d, last_key |-> k]) \in Seq(BlockRecord)
           /\ Separates(Append(bs, [keys |-> d, last_key |-> k]), ks)
<1> DEFINE b == [keys |-> d, last_key |-> k]
           n == Len(bs)
           more == Append(bs, b)
<1>1. b \in BlockRecord /\ b.keys = d /\ b.last_key = k
    BY DEF BlockRecord
<1>2. n \in Nat
    BY LenProperties
<1>3. /\ more \in Seq(BlockRecord) /\ Len(more) = n + 1
      /\ \A i \in 1..n : more[i] = bs[i]
      /\ more[n + 1] = b
    BY <1>1, AppendProperties
<1>4. \A i \in 1..n : /\ Covers(bs[i].last_key, bs[i].keys)
                      /\ Below(bs[i].last_key, IF i < n THEN bs[i + 1].keys ELSE d)
    BY DEF Separates
<1>5. SUFFICES ASSUME NEW i \in 1..(n + 1)
               PROVE  /\ Covers(more[i].last_key, more[i].keys)
                      /\ Below(more[i].last_key, IF i < n + 1 THEN more[i + 1].keys ELSE ks)
    BY <1>3 DEF Separates
<1> HIDE DEF b, n, more
<1>6. CASE i = n + 1
    BY <1>1, <1>2, <1>3, <1>6
<1>7. CASE i = n
    BY <1>1, <1>2, <1>3, <1>4, <1>7
<1>8. CASE i < n
  <2>1. i \in 1..n /\ i + 1 \in 1..n /\ i < n + 1
      BY <1>2, <1>8
  <2> QED BY <2>1, <1>3, <1>4, <1>8
<1> QED BY <1>2, <1>5, <1>6, <1>7, <1>8

\* A key is added to the open block.
LEMMA BlockGrows ==
    ASSUME NEW bs \in Seq(BlockRecord), NEW d \in Seq(Keys), Separates(bs, d),
           NEW k \in Keys, bs # <<>> => Less(bs[Len(bs)].last_key, k)
    PROVE  Separates(bs, Append(d, k))
<1> DEFINE n == Len(bs)
<1>1. n \in Nat /\ (bs = <<>> <=> n = 0)
    BY LenProperties, EmptySeq
<1>2. Range(Append(d, k)) = Range(d) \cup {k}
    BY RangeOfAppend
<1>3. SUFFICES ASSUME NEW i \in 1..n
               PROVE  /\ Covers(bs[i].last_key, bs[i].keys)
                      /\ Below(bs[i].last_key, IF i < n THEN bs[i + 1].keys ELSE Append(d, k))
    BY DEF Separates
<1>4. /\ Covers(bs[i].last_key, bs[i].keys)
      /\ Below(bs[i].last_key, IF i < n THEN bs[i + 1].keys ELSE d)
    BY DEF Separates
<1>5. bs # <<>> => Less(bs[n].last_key, k)
    OBVIOUS
<1> HIDE DEF n
<1>6. CASE i < n
    BY <1>4, <1>6
<1>7. CASE i = n
    BY <1>1, <1>2, <1>4, <1>5, <1>7 DEF Below
<1> QED BY <1>1, <1>6, <1>7

-------------------------------------------------------------------------------
(* The keys of the index *)

\* The last key is one of the open block, and none of them is above it; there are
\* finished blocks only after the first key.
KeysInv ==
    /\ last_key \in Key /\ count \in Nat
    /\ data \in Seq(Keys) /\ blocks \in Seq(BlockRecord)
    /\ phase = "open" /\ data = <<>> => blocks = <<>>
    /\ count = 0 => data = <<>>
    /\ data # <<>> => last_key \in Range(data)
    /\ Covers(last_key, data)
    /\ Separates(blocks, data)

LEMMA KeysInit == Init => KeysInv
<1> SUFFICES ASSUME Init PROVE KeysInv
    OBVIOUS
<1>1. <<>> \in Key /\ <<>> \in Seq(Keys) /\ <<>> \in Seq(BlockRecord) /\ Len(<<>>) = 0
    BY DEF Key
<1>2. Covers(<<>>, <<>>)
    BY RangeOfOne DEF Covers
<1>3. Separates(<<>>, <<>>)
    BY <1>1 DEF Separates
<1> QED BY <1>1, <1>2, <1>3 DEF Init, KeysInv

\* A key that is accepted is above the last key and above all separators.
LEMMA Accepted ==
    ASSUME KeysInv, phase = "open", NEW k \in Keys, ~(count > 0 /\ ~Less(last_key, k))
    PROVE  /\ k \in Key
           /\ data # <<>> => Less(last_key, k)
           /\ blocks # <<>> => Less(blocks[Len(blocks)].last_key, k)
<1> DEFINE n == Len(blocks)
           last == blocks[n]
<1>1. k \in Key
    BY WriterAssumption
<1>2. data # <<>> => Less(last_key, k)
    BY DEF KeysInv
<1>3. ASSUME blocks # <<>> PROVE Less(last.last_key, k)
  <2>1. data # <<>> /\ last_key \in Range(data)
      BY <1>3 DEF KeysInv
  <2>2. n \in 1..n /\ last \in BlockRecord
      BY <1>3, EmptySeq, LenProperties, ElementOfSeq DEF KeysInv
  <2>3. Below(last.last_key, data)
      BY <2>2 DEF KeysInv, Separates
  <2>4. Less(last.last_key, last_key) /\ last.last_key \in Key
      BY <2>1, <2>2, <2>3 DEF Below, BlockRecord
  <2> QED BY <1>1, <1>2, <2>1, <2>4, LessTransitive DEF KeysInv
<1> QED BY <1>1, <1>2, <1>3

\* Keys are byte strings, in blocks too.
LEMMA RangeOfKeys == ASSUME NEW d \in Seq(Keys), NEW x \in Range(d) PROVE x \in Key
<1>1. PICK i \in DOMAIN d : x = d[i]
    BY DEF Range
<1> QED BY <1>1, ElementOfSeq, LenProperties, WriterAssumption

\* A flush under a key that covers the open block, before blocks that begin with ks
LEMMA FlushSeparates ==
    ASSUME KeysInv, phase = "open",
           NEW k \in Key, data # <<>> => Covers(k, data), Flush(k),
           NEW ks, data # <<>> => Below(k, ks)
    PROVE  blocks' \in Seq(BlockRecord) /\ Separates(blocks', ks)
<1>1. CASE data = <<>>
  <2>1. blocks' = blocks /\ blocks = <<>>
      BY <1>1 DEF Flush, KeysInv
  <2>2. Separates(<<>>, ks)
      BY DEF Separates
  <2> QED BY <2>1, <2>2 DEF KeysInv
<1>2. CASE data # <<>>
  <2>1. blocks' = Append(blocks, [keys |-> data, last_key |-> k])
      BY <1>2 DEF Flush
  <2> QED BY <1>2, <2>1, BlockEnds DEF KeysInv
<1> QED BY <1>1, <1>2

LEMMA AddKeeps ==
    ASSUME KeysInv, NEW k \in Keys, NEW n \in EntryBytes, Add(k, n)
    PROVE  KeysInv'
<1>1. CASE count > 0 /\ ~Less(last_key, k)
    BY <1>1 DEF Add, KeysInv
<1>2. CASE ~(count > 0 /\ ~Less(last_key, k))
  <2>1. /\ phase = "open" /\ phase' = "open"
        /\ last_key' = k /\ count' = count + 1
      BY <1>2 DEF Add
  <2>2. /\ k \in Key
        /\ data # <<>> => Less(last_key, k)
        /\ blocks # <<>> => Less(blocks[Len(blocks)].last_key, k)
      BY <1>2, <2>1, Accepted
  <2>3. count' \in Nat /\ count' # 0
      BY <2>1 DEF KeysInv
  <2>4. ~Less(k, k)
      BY <2>2, NotBelowItself
  <2>5. SUFFICES /\ data' \in Seq(Keys) /\ k \in Range(data')
                 /\ blocks' \in Seq(BlockRecord)
                 /\ Covers(k, data')
                 /\ Separates(blocks', data')
      BY <2>1, <2>2, <2>3, RangeOfOne DEF KeysInv
  <2>6. CASE Full(n)
    <3> DEFINE sep == ShortestSeparator(last_key, k)
    <3>1. Flush(sep) /\ data' = <<k>>
        BY <1>2, <2>6 DEF Add
    <3>2. data' \in Seq(Keys) /\ Range(data') = {k}
        BY <3>1, RangeOfOne
    <3>3. CASE data # <<>>
      <4>1. sep \in Key /\ (sep = last_key \/ Less(last_key, sep)) /\ Less(sep, k)
          BY <2>2, <3>3, SeparatorInBetween DEF KeysInv
      <4>2. Covers(sep, data)
          BY <4>1, BelowStays, RangeOfKeys DEF Covers, KeysInv
      <4>3. Below(sep, data')
          BY <3>2, <4>1 DEF Below
      <4> HIDE DEF sep
      <4>4. blocks' \in Seq(BlockRecord) /\ Separates(blocks', data')
          BY <2>1, <3>1, <4>1, <4>2, <4>3, FlushSeparates
      <4> QED BY <2>4, <3>2, <4>4 DEF Covers
    <3>4. CASE data = <<>>
      <4>1. blocks' = blocks /\ blocks = <<>>
          BY <2>1, <3>1, <3>4 DEF Flush, KeysInv
      <4>2. Separates(<<>>, data')
          BY DEF Separates
      <4> QED BY <2>4, <3>2, <4>1, <4>2 DEF Covers, KeysInv
    <3> QED BY <3>3, <3>4
  <2>7. CASE ~Full(n)
    <3>1. data' = Append(data, k) /\ blocks' = blocks
        BY <1>2, <2>7 DEF Add
    <3>2. data' \in Seq(Keys) /\ Range(data') = Range(data) \cup {k}
        BY <3>1, RangeOfAppend, AppendProperties DEF KeysInv
    <3>3. Separates(blocks', data')
        BY <2>2, <3>1, BlockGrows DEF KeysInv
    <3>4. ASSUME NEW x \in Range(data) PROVE ~Less(k, x)
      <4>1. data # <<>>
          BY <3>4, RangeOfOne
      <4> QED BY <2>2, <4>1, BelowStays, RangeOfKeys DEF Covers, KeysInv
    <3> QED BY <2>4, <3>1, <3>2, <3>3, <3>4 DEF Covers, KeysInv
  <2> QED BY <2>6, <2>7
<1> QED BY <1>1, <1>2

LEMMA DestroyKeeps == ASSUME KeysInv, Destroy PROVE KeysInv'
<1>1. /\ phase = "open" /\ phase' # "open" /\ Flush(last_key)
      /\ data' = <<>> /\ last_key' = last_key /\ count' = count
    BY DEF Destroy
<1>2. Below(last_key, <<>>) /\ Covers(last_key, <<>>) /\ <<>> \in Seq(Keys)
  <2>1. Range(<<>>) = {}
      BY RangeOfOne
  <2> QED BY <2>1 DEF Below, Covers
<1>3. blocks' \in Seq(BlockRecord) /\ Separates(blocks', <<>>)
    BY <1>1, <1>2, FlushSeparates DEF KeysInv
<1> QED BY <1>1, <1>2, <1>3 DEF KeysInv

LEMMA KeysStep == ASSUME KeysInv, [Next]_vars PROVE KeysInv'
<1>1. ASSUME NEW k \in Keys, NEW n \in EntryBytes, Add(k, n) PROVE KeysInv'
    BY <1>1, AddKeeps
<1>2. CASE Destroy
    BY <1>2, DestroyKeeps
<1> USE DEF KeysInv, caller
<1>3. CASE DestroyHandler
    BY <1>3 DEF DestroyHandler
<1>4. CASE Finish
    BY <1>4 DEF Finish
<1>5. CASE HandlerWrite
    BY <1>5 DEF HandlerWrite
<1>6. CASE HandlerRecord
    BY <1>6 DEF HandlerRecord
<1>7. CASE UNCHANGED vars
    BY <1>7 DEF vars
<1> QED BY <1>1, <1>2, <1>3, <1>4, <1>5, <1>6, <1>7 DEF Next

\* Property SeparatorsSeparate of run writer: whatever keys are accepted and
\* wherever mtbl_writer_add() ends a block, the key that _mtbl_writer_flush() gives
\* to the index covers its block and is below all keys that come later.
THEOREM IndexKeysSeparate == Spec => []SeparatorsSeparate
<1>1. KeysInv /\ [Next]_vars => KeysInv'
    BY KeysStep
<1>2. KeysInv => SeparatorsSeparate
    BY SameAsProperty DEF KeysInv
<1> QED BY <1>1, <1>2, KeysInit, PTL DEF Spec

-------------------------------------------------------------------------------
(* The blocks on disk and the index *)

LeafRecord == [kind : {"leaf"}, at : Nat, keys : Seq(Keys)]
IndexRecord == [key : Key, offset : Nat]

\* How many blocks the handler has written: those that were delivered, or all of
\* them when there is no pool.
Written == IF pooled THEN Len(delivered[Handler]) ELSE Len(blocks)

ServiceInv ==
    /\ sent \in [{Handler} -> Nat]
    /\ delivered \in [{Handler} -> Seq({Handler} \X Nat)]
    /\ sent[Handler] = (IF pooled THEN Len(blocks) ELSE 0)
    /\ ~pooled => writing = None

\* The file holds the blocks in their order; while the handler is between writing
\* a block and recording it, the block starts at pending_offset and ends at pos.
DiskInv ==
    /\ file \in Seq(LeafRecord) /\ index \in Seq(IndexRecord)
    /\ pos \in Nat /\ pending_offset \in Nat
    /\ writing \in [block : Nat, bytes : Nat]
    /\ Len(file) = Written /\ Written <= Len(blocks)
    /\ Len(index) = Len(file) - (IF writing = None THEN 0 ELSE 1)
    /\ \A i \in 1..Len(file) : file[i].keys = blocks[i].keys
    /\ \A i \in 1..Len(index) : index[i] = [key |-> blocks[i].last_key, offset |-> file[i].at]
    /\ writing = None => pending_offset = pos
    /\ writing # None => /\ writing.block = Len(file) /\ Len(file) > 0
                         /\ file[Len(file)].at = pending_offset
                         /\ pending_offset + writing.bytes = pos

IndexInv == KeysInv /\ (phase # "closed" => ServiceInv /\ DiskInv)

LEMMA IndexInit == Init => IndexInv
<1> SUFFICES ASSUME Init PROVE ServiceInv /\ DiskInv
    BY KeysInit DEF IndexInv
<1>1. /\ <<>> \in Seq(LeafRecord) /\ <<>> \in Seq(IndexRecord) /\ Len(<<>>) = 0
      /\ <<>> \in Seq({Handler} \X Nat)
    OBVIOUS
<1>2. None \in [block : Nat, bytes : Nat]
    BY DEF None
<1>3. ServiceInv
    BY <1>1 DEF Init, ServiceInv, J!Init
<1>4. pos \in Nat /\ pending_offset = pos
    BY WriterAssumption DEF Init
<1>5. Written = 0
    BY <1>1 DEF Init, Written, J!Init
<1> QED BY <1>1, <1>2, <1>3, <1>4, <1>5 DEF Init, DiskInv

\* DiskInv of a state whose blocks are more than those on disk
BlocksKept ==
    /\ Len(blocks) <= Len(blocks')
    /\ \A i \in 1..Len(blocks) : blocks'[i] = blocks[i]

\* More blocks do not matter to what is on disk.
LEMMA DiskStays ==
    ASSUME KeysInv, KeysInv', DiskInv, BlocksKept,
           UNCHANGED <<disk, writing>>, Written' = Written
    PROVE  DiskInv'
<1> DEFINE n == Len(file)
           k == Len(index)
           b == Len(blocks)
           c == Len(blocks')
<1>1. n \in Nat /\ k \in Nat /\ b \in Nat /\ c \in Nat /\ k <= n /\ n <= b /\ b <= c
    BY LenProperties DEF KeysInv, DiskInv, BlocksKept
<1>2. \A i \in 1..b : blocks'[i] = blocks[i]
    BY DEF BlocksKept
<1>3. /\ file' = file /\ index' = index /\ writing' = writing
      /\ pos' = pos /\ pending_offset' = pending_offset
    BY DEF disk
<1>4. Len(file') = Written' /\ Written' <= Len(blocks')
    BY <1>1, <1>3 DEF DiskInv
<1>5. \A i \in 1..n : file'[i].keys = blocks'[i].keys
    BY <1>1, <1>2, <1>3 DEF DiskInv
<1>6. \A i \in 1..k : index'[i] = [key |-> blocks'[i].last_key, offset |-> file'[i].at]
    BY <1>1, <1>2, <1>3 DEF DiskInv
<1> QED BY <1>3, <1>4, <1>5, <1>6 DEF DiskInv

\* Without a pool a block is written and recorded where the flush is made.
LEMMA FlushWrites ==
    ASSUME KeysInv, KeysInv', DiskInv, ServiceInv, ~pooled, pooled' = pooled, writing' = writing,
           NEW b \in BlockRecord, blocks' = Append(blocks, b), NEW n \in DiskBytes,
           WriteBlock(Leaf(Len(blocks')), n), RecordBlock(Len(blocks'), n)
    PROVE  DiskInv'
<1> DEFINE m == Len(blocks)
           leaf == [kind |-> "leaf", at |-> pos, keys |-> b.keys]
           entry == [key |-> b.last_key, offset |-> pending_offset]
<1>1. m \in Nat /\ Len(blocks') = m + 1 /\ blocks'[m + 1] = b
      /\ \A i \in 1..m : blocks'[i] = blocks[i]
    BY LenProperties, AppendProperties DEF KeysInv
<1>2. n \in Nat /\ pos \in Nat /\ pending_offset = pos /\ writing = None
    BY WriterAssumption DEF DiskInv, ServiceInv
<1>3. leaf \in LeafRecord /\ entry \in IndexRecord
    BY <1>2 DEF BlockRecord, LeafRecord, IndexRecord
<1>4. /\ file' = Append(file, leaf) /\ pos' = pos + n
      /\ index' = Append(index, entry) /\ pending_offset' = pending_offset + n
    BY <1>1 DEF WriteBlock, Leaf, RecordBlock, OffsetOf
<1>5. Len(file) = m /\ Len(index) = m
    BY <1>1, <1>2 DEF DiskInv, Written
<1>6. /\ file' \in Seq(LeafRecord) /\ Len(file') = m + 1 /\ file'[m + 1] = leaf
      /\ \A i \in 1..m : file'[i] = file[i]
    BY <1>3, <1>4, <1>5, AppendProperties DEF DiskInv
<1>7. /\ index' \in Seq(IndexRecord) /\ Len(index') = m + 1 /\ index'[m + 1] = entry
      /\ \A i \in 1..m : index'[i] = index[i]
    BY <1>3, <1>4, <1>5, AppendProperties DEF DiskInv
<1>8. leaf.keys = b.keys /\ leaf.at = pos
    OBVIOUS
<1> HIDE DEF m, leaf
<1>9. \A i \in 1..(m + 1) : file'[i].keys = blocks'[i].keys
  <2>1. \A i \in 1..m : file[i].keys = blocks[i].keys
      BY <1>5 DEF DiskInv
  <2> QED BY <1>1, <1>6, <1>8, <2>1
<1>10. \A i \in 1..(m + 1) : index'[i] = [key |-> blocks'[i].last_key, offset |-> file'[i].at]
  <2>1. \A i \in 1..m : index[i] = [key |-> blocks[i].last_key, offset |-> file[i].at]
      BY <1>5 DEF DiskInv
  <2>2. index'[m + 1] = [key |-> blocks'[m + 1].last_key, offset |-> file'[m + 1].at]
      BY <1>1, <1>2, <1>6, <1>7, <1>8
  <2>3. ASSUME NEW i \in 1..m
        PROVE  index'[i] = [key |-> blocks'[i].last_key, offset |-> file'[i].at]
    <3>1. blocks'[i] = blocks[i] /\ file'[i] = file[i] /\ index'[i] = index[i]
        BY <1>1, <1>6, <1>7
    <3> QED BY <2>1, <3>1
  <2>4. \A i \in 1..(m + 1) : i = m + 1 \/ i \in 1..m
      BY <1>1
  <2> QED BY <2>2, <2>3, <2>4
<1>11. Written' = m + 1
    BY <1>1 DEF Written
<1> QED BY <1>1, <1>2, <1>4, <1>6, <1>7, <1>9, <1>10, <1>11 DEF DiskInv

\* Nothing is flushed.
LEMMA NothingFlushed ==
    ASSUME KeysInv, KeysInv', ServiceInv, DiskInv, UNCHANGED <<blocks, disk, sent, delivered>>,
           pooled' = pooled, writing' = writing
    PROVE  ServiceInv' /\ DiskInv'
<1>1. Len(blocks) \in Nat
    BY LenProperties DEF KeysInv
<1>2. BlocksKept /\ Written' = Written
    BY <1>1 DEF BlocksKept, Written
<1> QED BY <1>2, DiskStays DEF ServiceInv

LEMMA FlushLocates ==
    ASSUME KeysInv, KeysInv', ServiceInv, DiskInv, NEW k \in Key, Flush(k),
           pooled' = pooled, writing' = writing
    PROVE  ServiceInv' /\ DiskInv'
<1> DEFINE b == [keys |-> data, last_key |-> k]
<1>1. CASE data = <<>>
  <2>1. UNCHANGED <<blocks, disk, sent, delivered>>
      BY <1>1 DEF Flush, jobs
  <2> QED BY <2>1, NothingFlushed
<1>2. CASE data # <<>>
  <2>1. b \in BlockRecord /\ blocks' = Append(blocks, b)
      BY <1>2 DEF Flush, BlockRecord, KeysInv
  <2>2. /\ Len(blocks) \in Nat /\ Len(blocks') = Len(blocks) + 1
        /\ \A i \in 1..Len(blocks) : blocks'[i] = blocks[i]
      BY <2>1, LenProperties, AppendProperties DEF KeysInv
  <2>3. CASE pooled
    <3>1. J!Dispatch(Handler) /\ UNCHANGED disk
        BY <1>2, <2>3 DEF Flush
    <3>2. sent' = [sent EXCEPT ![Handler] = @ + 1] /\ delivered' = delivered
        BY <3>1 DEF J!Dispatch
    <3>3. ServiceInv'
        BY <2>2, <2>3, <3>2 DEF ServiceInv
    <3>4. BlocksKept /\ Written' = Written
        BY <2>2, <2>3, <3>2 DEF BlocksKept, Written
    <3> QED BY <3>1, <3>3, <3>4, DiskStays
  <2>4. CASE ~pooled
    <3>1. PICK n \in DiskBytes : WriteBlock(Leaf(Len(blocks')), n) /\ RecordBlock(Len(blocks'), n)
        BY <1>2, <2>4 DEF Flush
    <3>2. UNCHANGED jobs
        BY <1>2, <2>4 DEF Flush
    <3>3. ServiceInv'
        BY <2>4, <3>2 DEF ServiceInv, jobs
    <3>4. DiskInv'
        BY <2>1, <2>4, <3>1, FlushWrites
    <3> QED BY <3>3, <3>4
  <2> QED BY <2>3, <2>4
<1> QED BY <1>1, <1>2

\* The handler's thread takes the next block in the order of dispatch.
LEMMA HandlerTakesNext ==
    ASSUME ServiceInv, J!Deliver(Handler)
    PROVE  LET n == Len(delivered[Handler]) IN
           /\ pooled /\ sent' = sent /\ n \in Nat /\ n + 1 <= Len(blocks)
           /\ delivered' \in [{Handler} -> Seq({Handler} \X Nat)]
           /\ Len(delivered'[Handler]) = n + 1
           /\ Last(delivered'[Handler])[2] = n + 1
<1> DEFINE d == delivered[Handler]
           n == Len(d)
<1>1. n \in Nat /\ d \in Seq({Handler} \X Nat)
    BY LenProperties DEF ServiceInv
<1>2. PICK j \in J!Outstanding(Handler) :
          /\ j = <<Handler, n + 1>>
          /\ delivered' = [delivered EXCEPT ![Handler] = Append(@, j)]
          /\ sent' = sent
    BY DEF J!Deliver, DispatchOrdered
<1>3. PICK i \in 1..sent[Handler] : j = <<Handler, i>>
    BY DEF J!Outstanding
<1>4. i = n + 1
    BY <1>2, <1>3
<1>5. pooled /\ n + 1 <= Len(blocks)
    BY <1>1, <1>3, <1>4 DEF ServiceInv
<1>6. j \in {Handler} \X Nat /\ j[2] = n + 1
    BY <1>1, <1>2
<1>7. delivered'[Handler] = Append(d, j)
    BY <1>2 DEF ServiceInv
<1>8. Append(d, j) \in Seq({Handler} \X Nat) /\ Len(Append(d, j)) = n + 1 /\ Append(d, j)[n + 1] = j
    BY <1>1, <1>6, AppendProperties
<1>9. delivered' \in [{Handler} -> Seq({Handler} \X Nat)]
    BY <1>2, <1>7, <1>8 DEF ServiceInv
<1> QED BY <1>1, <1>2, <1>5, <1>6, <1>7, <1>8, <1>9 DEF Last

LEMMA HandlerWriteLocates ==
    ASSUME KeysInv, KeysInv', ServiceInv, DiskInv, HandlerWrite
    PROVE  ServiceInv' /\ DiskInv'
<1> DEFINE m == Len(file)
<1>1. /\ writing = None /\ J!Deliver(Handler)
      /\ pooled' = pooled /\ blocks' = blocks
      /\ pending_offset' = pending_offset /\ index' = index
    BY DEF HandlerWrite, caller
<1>2. /\ pooled /\ sent' = sent /\ m \in Nat /\ m + 1 <= Len(blocks)
      /\ delivered' \in [{Handler} -> Seq({Handler} \X Nat)]
      /\ Len(delivered'[Handler]) = m + 1
      /\ Last(delivered'[Handler])[2] = m + 1
    BY <1>1, HandlerTakesNext DEF DiskInv, Written
<1>3. PICK n \in DiskBytes : /\ WriteBlock(Leaf(m + 1), n)
                             /\ writing' = [block |-> m + 1, bytes |-> n]
    BY <1>2 DEF HandlerWrite
<1>4. n \in Nat /\ n # 0 /\ pos \in Nat /\ pending_offset = pos
    BY <1>1, WriterAssumption DEF DiskInv
<1> DEFINE leaf == [kind |-> "leaf", at |-> pos, keys |-> blocks[m + 1].keys]
<1>5. blocks[m + 1] \in BlockRecord /\ Len(blocks) \in Nat
    BY <1>2, LenProperties, ElementOfSeq DEF KeysInv
<1>6. leaf \in LeafRecord /\ leaf.at = pos /\ leaf.keys = blocks[m + 1].keys
    BY <1>4, <1>5 DEF BlockRecord, LeafRecord
<1>7. file' = Append(file, leaf) /\ pos' = pos + n
    BY <1>1, <1>3 DEF WriteBlock, Leaf
<1>8. /\ file' \in Seq(LeafRecord) /\ Len(file') = m + 1 /\ file'[m + 1] = leaf
      /\ \A i \in 1..m : file'[i] = file[i]
    BY <1>6, <1>7, AppendProperties DEF DiskInv
<1>9. Len(index) = m
    BY <1>1, <1>2 DEF DiskInv
<1>10. writing' \in [block : Nat, bytes : Nat] /\ writing' # None
       /\ writing'.block = m + 1 /\ writing'.bytes = n
    BY <1>2, <1>3, <1>4 DEF None
<1> HIDE DEF m, leaf
<1>11. ServiceInv'
    BY <1>1, <1>2 DEF ServiceInv
<1>12. Written' = m + 1
    BY <1>1, <1>2 DEF Written
<1>13. \A i \in 1..(m + 1) : file'[i].keys = blocks'[i].keys
  <2>1. \A i \in 1..m : file[i].keys = blocks[i].keys
      BY DEF DiskInv, m
  <2>2. file'[m + 1].keys = blocks'[m + 1].keys
      BY <1>1, <1>6, <1>8
  <2>3. ASSUME NEW i \in 1..m PROVE file'[i].keys = blocks'[i].keys
      BY <1>1, <1>8, <2>1
  <2>4. \A i \in 1..(m + 1) : i = m + 1 \/ i \in 1..m
      BY <1>2
  <2> QED BY <2>2, <2>3, <2>4
<1>14. \A i \in 1..m : index'[i] = [key |-> blocks'[i].last_key, offset |-> file'[i].at]
  <2>1. \A i \in 1..m : index[i] = [key |-> blocks[i].last_key, offset |-> file[i].at]
      BY <1>9 DEF DiskInv
  <2> QED BY <1>1, <1>8, <2>1
<1>15. file'[m + 1].at = pending_offset' /\ pending_offset' + n = pos' /\ pos' \in Nat
    BY <1>1, <1>4, <1>6, <1>7, <1>8
<1>16. Len(index') = Len(file') - 1 /\ Len(index') = m
    BY <1>1, <1>2, <1>8, <1>9
<1>17. index' \in Seq(IndexRecord) /\ pending_offset' \in Nat
    BY <1>1 DEF DiskInv
<1>18. DiskInv'
    BY <1>1, <1>2, <1>8, <1>10, <1>12, <1>13, <1>14, <1>15, <1>16, <1>17 DEF DiskInv
<1> QED BY <1>11, <1>18

LEMMA HandlerRecordLocates ==
    ASSUME KeysInv, KeysInv', ServiceInv, DiskInv, HandlerRecord
    PROVE  ServiceInv' /\ DiskInv'
<1> DEFINE m == Len(file)
<1>1. /\ writing # None /\ writing' = None /\ RecordBlock(writing.block, writing.bytes)
      /\ pooled' = pooled /\ blocks' = blocks /\ file' = file /\ pos' = pos
      /\ UNCHANGED jobs
    BY DEF HandlerRecord, caller
<1>2. /\ writing.block = m /\ m > 0 /\ file[m].at = pending_offset
      /\ pending_offset + writing.bytes = pos
      /\ m \in Nat /\ pos \in Nat
    BY <1>1, LenProperties DEF DiskInv
<1>3. m <= Len(blocks) /\ Len(blocks) \in Nat
    BY LenProperties DEF KeysInv, DiskInv
<1>4. blocks[m] \in BlockRecord
    BY <1>2, <1>3, ElementOfSeq DEF KeysInv
<1> DEFINE entry == [key |-> blocks[m].last_key, offset |-> pending_offset]
<1>5. entry \in IndexRecord
    BY <1>4 DEF BlockRecord, IndexRecord, DiskInv
<1>6. index' = Append(index, entry) /\ pending_offset' = pos
    BY <1>1, <1>2 DEF RecordBlock, OffsetOf
<1>7. Len(index) = m - 1
    BY <1>1 DEF DiskInv
<1>8. /\ index' \in Seq(IndexRecord) /\ Len(index') = m /\ index'[m] = entry
      /\ \A i \in 1..(m - 1) : index'[i] = index[i]
    BY <1>2, <1>5, <1>6, <1>7, AppendProperties DEF DiskInv
<1> HIDE DEF m
<1>9. \A i \in 1..m : index'[i] = [key |-> blocks'[i].last_key, offset |-> file'[i].at]
  <2>1. \A i \in 1..(m - 1) : index[i] = [key |-> blocks[i].last_key, offset |-> file[i].at]
      BY <1>7 DEF DiskInv
  <2>2. index'[m] = [key |-> blocks'[m].last_key, offset |-> file'[m].at]
      BY <1>1, <1>2, <1>8
  <2>3. ASSUME NEW i \in 1..(m - 1)
        PROVE  index'[i] = [key |-> blocks'[i].last_key, offset |-> file'[i].at]
      BY <1>1, <1>8, <2>1
  <2>4. \A i \in 1..m : i = m \/ i \in 1..(m - 1)
      BY <1>2
  <2> QED BY <2>2, <2>3, <2>4
<1>10. Written' = Written /\ delivered' = delivered /\ sent' = sent
    BY <1>1 DEF Written, jobs
<1>11. ServiceInv'
    BY <1>1, <1>10 DEF ServiceInv
<1>12. /\ file' \in Seq(LeafRecord) /\ Len(file') = Written' /\ Written' <= Len(blocks')
       /\ \A i \in 1..Len(file') : file'[i].keys = blocks'[i].keys
    BY <1>1, <1>10 DEF DiskInv
<1>13. None \in [block : Nat, bytes : Nat]
    BY DEF None
<1>14. Len(file') = m
    BY <1>1 DEF m
<1>15. DiskInv'
    BY <1>1, <1>2, <1>6, <1>8, <1>9, <1>12, <1>13, <1>14 DEF DiskInv
<1> QED BY <1>11, <1>15

\* The caller's part of a step: an accepted key, and the end
LEMMA AddLocates ==
    ASSUME KeysInv, KeysInv', ServiceInv, DiskInv, NEW k \in Keys, NEW n \in EntryBytes, Add(k, n)
    PROVE  ServiceInv' /\ DiskInv'
<1>1. pooled' = pooled /\ writing' = writing
    BY DEF Add
<1>2. CASE ~(count > 0 /\ ~Less(last_key, k)) /\ Full(n)
  <2> DEFINE sep == ShortestSeparator(last_key, k)
  <2>1. Flush(sep) /\ phase = "open"
      BY <1>2 DEF Add
  <2>2. CASE data = <<>>
    <3>1. UNCHANGED <<blocks, disk, sent, delivered>>
        BY <2>1, <2>2 DEF Flush, jobs
    <3> QED BY <1>1, <3>1, NothingFlushed
  <2>3. CASE data # <<>>
    <3>1. k \in Key /\ Less(last_key, k)
        BY <1>2, <2>1, <2>3, Accepted
    <3>2. sep \in Key
        BY <3>1, SeparatorInBetween DEF KeysInv
    <3> HIDE DEF sep
    <3> QED BY <1>1, <2>1, <3>2, FlushLocates
  <2> QED BY <2>2, <2>3
<1>3. CASE ~(~(count > 0 /\ ~Less(last_key, k)) /\ Full(n))
  <2>1. UNCHANGED <<blocks, disk, sent, delivered>>
      BY <1>3 DEF Add, jobs
  <2> QED BY <1>1, <2>1, NothingFlushed
<1> QED BY <1>2, <1>3

LEMMA IndexStep == ASSUME IndexInv, [Next]_vars PROVE IndexInv'
<1>1. KeysInv /\ KeysInv'
    BY KeysStep DEF IndexInv
<1>2. SUFFICES ASSUME phase' # "closed" PROVE ServiceInv' /\ DiskInv'
    BY <1>1 DEF IndexInv
<1>3. ASSUME phase # "closed" PROVE ServiceInv /\ DiskInv
    BY <1>3 DEF IndexInv
<1>4. ASSUME NEW k \in Keys, NEW n \in EntryBytes, Add(k, n) PROVE ServiceInv' /\ DiskInv'
  <2>1. phase # "closed"
      BY <1>4 DEF Add
  <2> QED BY <1>1, <1>3, <1>4, <2>1, AddLocates
<1>5. CASE Destroy
  <2>1. /\ phase = "open" /\ Flush(last_key) /\ last_key \in Key
        /\ pooled' = pooled /\ writing' = writing
      BY <1>1, <1>5 DEF Destroy, KeysInv
  <2> QED BY <1>1, <1>3, <2>1, FlushLocates
<1>6. CASE DestroyHandler
  <2>1. /\ phase # "closed" /\ UNCHANGED <<blocks, disk, sent, delivered>>
        /\ pooled' = pooled /\ writing' = writing
      BY <1>6 DEF DestroyHandler, J!Close, caller
  <2> QED BY <1>1, <1>3, <2>1, NothingFlushed
<1>7. CASE Finish
    BY <1>2, <1>7 DEF Finish
<1>8. CASE HandlerWrite
  <2>1. phase # "closed"
      BY <1>2, <1>8 DEF HandlerWrite, caller
  <2> QED BY <1>1, <1>3, <1>8, <2>1, HandlerWriteLocates
<1>9. CASE HandlerRecord
  <2>1. phase # "closed"
      BY <1>2, <1>9 DEF HandlerRecord, caller
  <2> QED BY <1>1, <1>3, <1>9, <2>1, HandlerRecordLocates
<1>10. CASE UNCHANGED vars
  <2>1. /\ phase # "closed" /\ UNCHANGED <<blocks, disk, sent, delivered>>
        /\ pooled' = pooled /\ writing' = writing
      BY <1>2, <1>10 DEF vars, caller, jobs
  <2> QED BY <1>1, <1>3, <2>1, NothingFlushed
<1> QED BY <1>4, <1>5, <1>6, <1>7, <1>8, <1>9, <1>10 DEF Next

\* Property IndexLocates of run writer: until the file is closed, its blocks are
\* those that were finished, in their order, and every one that was recorded has an
\* index entry with its key and with the offset at which it starts, whichever
\* thread writes them and whatever they take on disk.
THEOREM IndexEntriesLocate == Spec => []IndexLocates
<1>1. IndexInv /\ [Next]_vars => IndexInv'
    BY IndexStep
<1>2. IndexInv => IndexLocates
    BY DEF IndexInv, DiskInv, IndexLocates
<1> QED BY <1>1, <1>2, IndexInit, PTL DEF Spec

-------------------------------------------------------------------------------
(* What was accepted *)

\* The keys of finished blocks, and those of the open block too
Stored(bs) == UNION {Range(bs[i].keys) : i \in 1..Len(bs)}
AcceptedKeys == Stored(blocks) \cup Range(data)

\* Every accepted key counts once, none is above the last one, and the last one is
\* the end of the open block.
AcceptedInv ==
    /\ AcceptedKeys \subseteq Keys
    /\ IsFiniteSet(AcceptedKeys) /\ count = Cardinality(AcceptedKeys)
    /\ \A x \in AcceptedKeys : ~Less(last_key, x)
    /\ \A i \in 1..Len(blocks) : blocks[i].keys # <<>>
    /\ data # <<>> => data[Len(data)] = last_key
    /\ phase = "open" /\ data = <<>> => count = 0
    /\ phase # "open" => data = <<>>
    /\ last_key \in Keys \cup {<<>>}
    /\ size \in Nat /\ (Len(data) > 1 => size < BlockSize)

LEMMA StoredOfAppend ==
    ASSUME NEW S, NEW bs \in Seq(S), NEW b \in S
    PROVE  Stored(Append(bs, b)) = Stored(bs) \cup Range(b.keys)
<1> DEFINE n == Len(bs)
           more == Append(bs, b)
<1>1. n \in Nat /\ Len(more) = n + 1 /\ more[n + 1] = b /\ \A i \in 1..n : more[i] = bs[i]
  BY LenProperties, AppendProperties
<1> HIDE DEF n, more
<1>2. ASSUME NEW x \in Stored(more) PROVE x \in Stored(bs) \cup Range(b.keys)
  <2>1. PICK i \in 1..(n + 1) : x \in Range(more[i].keys)
    BY <1>1 DEF Stored
  <2>2. CASE i = n + 1
    BY <1>1, <2>1, <2>2
  <2>3. CASE i # n + 1
    <3>1. i \in 1..n
      BY <1>1, <2>3
    <3>2. x \in Range(bs[i].keys)
      BY <1>1, <2>1, <3>1
    <3> QED BY <3>1, <3>2 DEF Stored, n
  <2> QED BY <2>2, <2>3
<1>3. ASSUME NEW x \in Stored(bs) PROVE x \in Stored(more)
  <2>1. PICK i \in 1..n : x \in Range(bs[i].keys)
    BY DEF Stored, n
  <2>2. i \in 1..(n + 1) /\ more[i] = bs[i]
    BY <1>1, <2>1
  <2> QED BY <1>1, <2>1, <2>2 DEF Stored
<1>4. ASSUME NEW x \in Range(b.keys) PROVE x \in Stored(more)
  <2>1. n + 1 \in 1..(n + 1)
    BY <1>1
  <2> QED BY <1>1, <2>1 DEF Stored
<1>5. Stored(more) = Stored(bs) \cup Range(b.keys)
  BY <1>2, <1>3, <1>4
<1> QED BY <1>5 DEF more

LEMMA StoredOfNone == Stored(<<>>) = {} /\ Range(<<>>) = {}
<1>1. Len(<<>>) = 0
  OBVIOUS
<1>2. 1..0 = {}
  OBVIOUS
<1>3. Stored(<<>>) = {}
  BY <1>1, <1>2 DEF Stored
<1>4. Range(<<>>) = {}
  BY RangeOfOne
<1> QED BY <1>3, <1>4

LEMMA AcceptedInit == Init => AcceptedInv
<1> SUFFICES ASSUME Init PROVE AcceptedInv
  OBVIOUS
<1>1. AcceptedKeys = {}
  BY StoredOfNone DEF Init, AcceptedKeys
<1>2. /\ last_key = <<>> /\ data = <<>> /\ blocks = <<>> /\ count = 0 /\ size = 0 /\ phase = "open"
      /\ Len(<<>>) = 0
  BY DEF Init
<1> QED BY <1>1, <1>2, FS_EmptySet DEF AcceptedInv

\* A flush moves the open block to the finished ones.
LEMMA FlushMoves ==
    ASSUME KeysInv, AcceptedInv, NEW k \in Key, Flush(k)
    PROVE  /\ Stored(blocks') = AcceptedKeys \/ (data = <<>> /\ blocks' = blocks)
           /\ \A i \in 1..Len(blocks') : blocks'[i].keys # <<>>
<1> DEFINE b == [keys |-> data, last_key |-> k]
<1>1. CASE data = <<>>
  BY <1>1 DEF Flush, AcceptedInv
<1>2. CASE data # <<>>
  <2>1. blocks' = Append(blocks, b) /\ b \in BlockRecord /\ b.keys = data
    BY <1>2 DEF Flush, KeysInv, BlockRecord
  <2> HIDE DEF b
  <2>2. Stored(blocks') = AcceptedKeys
    BY <2>1, StoredOfAppend DEF KeysInv, AcceptedKeys
  <2>3. /\ Len(blocks) \in Nat /\ Len(blocks') = Len(blocks) + 1 /\ blocks'[Len(blocks) + 1] = b
        /\ \A i \in 1..Len(blocks) : blocks'[i] = blocks[i]
    BY <2>1, LenProperties, AppendProperties DEF KeysInv
  <2>4. ASSUME NEW i \in 1..Len(blocks') PROVE blocks'[i].keys # <<>>
    <3>1. i = Len(blocks) + 1 \/ i \in 1..Len(blocks)
      BY <2>3
    <3>2. b.keys # <<>>
      BY <1>2, <2>1
    <3>3. \A j \in 1..Len(blocks) : blocks[j].keys # <<>>
      BY DEF AcceptedInv
    <3>4. i \in 1..Len(blocks) => blocks'[i].keys # <<>>
      BY <2>3, <3>3
    <3> QED BY <2>3, <3>1, <3>2, <3>4
  <2>5. \A i \in 1..Len(blocks') : blocks'[i].keys # <<>>
    BY <2>4, Zenon
  <2> QED BY <2>2, <2>5
<1> QED BY <1>1, <1>2

LEMMA AddAccepts ==
    ASSUME KeysInv, AcceptedInv, NEW k \in Keys, NEW n \in EntryBytes, Add(k, n)
    PROVE  AcceptedInv'
<1>1. CASE count > 0 /\ ~Less(last_key, k)
  BY <1>1 DEF Add, AcceptedInv, AcceptedKeys
<1>2. CASE ~(count > 0 /\ ~Less(last_key, k))
  <2>1. /\ phase = "open" /\ phase' = "open" /\ last_key' = k /\ count' = count + 1
    BY <1>2 DEF Add
  <2>2. k \in Key /\ last_key \in Key /\ \A x \in AcceptedKeys : x \in Key
    BY WriterAssumption DEF KeysInv, AcceptedInv
  <2>3. \A x \in AcceptedKeys : Less(last_key, k)
    <3>1. count = 0 => AcceptedKeys = {}
      BY FS_EmptySet DEF AcceptedInv
    <3>2. count = 0 \/ count > 0
      BY DEF KeysInv
    <3> QED BY <1>2, <3>1, <3>2
  <2>4. k \notin AcceptedKeys
    BY <2>3 DEF AcceptedInv
  <2>5. \A x \in AcceptedKeys \cup {k} : ~Less(k, x)
    BY <2>2, <2>3, NotBelowItself, BelowStays DEF AcceptedInv
  <2>6. /\ AcceptedKeys' = AcceptedKeys \cup {k}
        /\ \A i \in 1..Len(blocks') : blocks'[i].keys # <<>>
        /\ data' # <<>> /\ data'[Len(data')] = k
        /\ size' \in Nat /\ (Len(data') > 1 => size' < BlockSize)
    <3>1. CASE Full(n)
      <4>1. Flush(ShortestSeparator(last_key, k)) /\ data' = <<k>> /\ size' = n
        BY <1>2, <3>1 DEF Add
      <4>2. Range(data') = {k} /\ Len(data') = 1 /\ data'[1] = k /\ size' \in Nat
        BY <4>1, RangeOfOne, WriterAssumption
      <4>3. CASE data = <<>>
        <5>1. blocks' = blocks
          BY <4>1, <4>3 DEF Flush
        <5> QED BY <4>2, <4>3, <5>1, StoredOfNone DEF AcceptedKeys, AcceptedInv
      <4>4. CASE data # <<>>
        <5>1. Less(last_key, k)
          BY <1>2, <2>1, <4>4, Accepted
        <5>2. ShortestSeparator(last_key, k) \in Key
          BY <2>2, <5>1, SeparatorInBetween
        <5>3. Stored(blocks') = AcceptedKeys /\ \A i \in 1..Len(blocks') : blocks'[i].keys # <<>>
          BY <4>1, <4>4, <5>2, FlushMoves
        <5>4. AcceptedKeys' = Stored(blocks') \cup Range(data')
          BY DEF AcceptedKeys, Stored
        <5> QED BY <4>2, <5>3, <5>4
      <4> QED BY <4>3, <4>4
    <3>2. CASE ~Full(n)
      <4>1. data' = Append(data, k) /\ size' = size + n /\ blocks' = blocks
        BY <1>2, <3>2 DEF Add
      <4>2. Range(data') = Range(data) \cup {k}
        BY <4>1, RangeOfAppend DEF KeysInv
      <4>3. AcceptedKeys' = Stored(blocks) \cup Range(data')
        BY <4>1 DEF AcceptedKeys, Stored
      <4>4. data' # <<>> /\ data'[Len(data')] = k
        BY <4>1, AppendProperties DEF KeysInv
      <4>5. size' \in Nat /\ size' < BlockSize
        BY <3>2, <4>1, WriterAssumption DEF Full, AcceptedInv
      <4> QED BY <4>1, <4>2, <4>3, <4>4, <4>5 DEF AcceptedInv, AcceptedKeys
    <3> QED BY <3>1, <3>2
  <2>7. IsFiniteSet(AcceptedKeys') /\ count' = Cardinality(AcceptedKeys')
    BY <2>1, <2>4, <2>6, FS_AddElement DEF AcceptedInv
  <2>8. AcceptedKeys' \subseteq Keys
    BY <2>6 DEF AcceptedInv
  <2> QED BY <2>1, <2>5, <2>6, <2>7, <2>8 DEF AcceptedInv
<1> QED BY <1>1, <1>2

LEMMA DestroyAccepts == ASSUME KeysInv, AcceptedInv, Destroy PROVE AcceptedInv'
<1>1. /\ phase = "open" /\ phase' = "finishing" /\ Flush(last_key) /\ data' = <<>> /\ size' = 0
      /\ last_key' = last_key /\ count' = count /\ last_key \in Key
  BY DEF Destroy, KeysInv
<1>2. /\ Stored(blocks') = AcceptedKeys \/ (data = <<>> /\ blocks' = blocks)
      /\ \A i \in 1..Len(blocks') : blocks'[i].keys # <<>>
  BY <1>1, FlushMoves
<1>3. AcceptedKeys' = Stored(blocks')
  BY <1>1, StoredOfNone DEF AcceptedKeys, Stored
<1>4. AcceptedKeys' = AcceptedKeys
  BY <1>2, <1>3, StoredOfNone DEF AcceptedKeys
<1>5. Len(<<>>) = 0
  OBVIOUS
<1> QED BY <1>1, <1>2, <1>4, <1>5 DEF AcceptedInv

\* What happens to the file leaves it alone.
LEMMA AcceptedStays ==
    ASSUME AcceptedInv, UNCHANGED <<last_key, count, data, size, blocks>>,
           phase = "open" <=> phase' = "open"
    PROVE  AcceptedInv'
<1>1. AcceptedKeys' = AcceptedKeys
  BY DEF AcceptedKeys, Stored
<1> QED BY <1>1 DEF AcceptedInv

LEMMA AcceptedStep == ASSUME KeysInv, AcceptedInv, [Next]_vars PROVE AcceptedInv'
<1>1. ASSUME NEW k \in Keys, NEW n \in EntryBytes, Add(k, n) PROVE AcceptedInv'
  BY <1>1, AddAccepts
<1>2. CASE Destroy
  BY <1>2, DestroyAccepts
<1>3. CASE DestroyHandler
  <2>1. UNCHANGED <<last_key, count, data, size, blocks>>
    BY <1>3 DEF DestroyHandler, caller
  <2>2. phase' = phase
    BY <1>3 DEF DestroyHandler, caller
  <2> QED BY <2>1, <2>2, AcceptedStays
<1>4. CASE Finish
  <2>1. UNCHANGED <<last_key, count, data, size, blocks>>
    BY <1>4 DEF Finish
  <2>2. phase = "finishing" /\ phase' = "closed"
    BY <1>4 DEF Finish
  <2> QED BY <2>1, <2>2, AcceptedStays
<1>5. CASE HandlerWrite
  <2>1. UNCHANGED <<last_key, count, data, size, blocks>>
    BY <1>5 DEF HandlerWrite, caller
  <2>2. phase' = phase
    BY <1>5 DEF HandlerWrite, caller
  <2> QED BY <2>1, <2>2, AcceptedStays
<1>6. CASE HandlerRecord
  <2>1. UNCHANGED <<last_key, count, data, size, blocks>>
    BY <1>6 DEF HandlerRecord, caller
  <2>2. phase' = phase
    BY <1>6 DEF HandlerRecord, caller
  <2> QED BY <2>1, <2>2, AcceptedStays
<1>7. CASE UNCHANGED vars
  <2>1. UNCHANGED <<last_key, count, data, size, blocks>>
    BY <1>7 DEF vars, caller
  <2>2. phase' = phase
    BY <1>7 DEF vars, caller
  <2> QED BY <2>1, <2>2, AcceptedStays
<1> QED BY <1>1, <1>2, <1>3, <1>4, <1>5, <1>6, <1>7 DEF Next

-------------------------------------------------------------------------------
(* How far the writing has come *)

\* Parts follow each other on disk, and the descriptor is behind the last one.
Placed(parts, end) ==
    /\ \A i \in 1..Len(parts) : parts[i].at < end
    /\ \A i \in 1..Len(parts), j \in 1..Len(parts) : i < j => parts[i].at < parts[j].at

InOrder == \A i \in 1..Len(delivered[Handler]) : delivered[Handler][i] = <<Handler, i>>

\* Until the file is closed: its blocks follow each other, jobs are delivered in the
\* order of their numbers, and the handler is destroyed when it has none left.
ProgressInv ==
    /\ last_offset \in Nat /\ Placed(file, pos)
    /\ writing.block <= Len(blocks) /\ writing.bytes \in DiskBytes \cup {0}
    /\ InOrder
    /\ closed \in [{Handler} -> BOOLEAN]
    /\ closed[Handler] => /\ phase # "open" /\ writing = None
                          /\ pooled => Written = Len(blocks)

\* Then: every block is on disk, behind them the index with an entry for each, and
\* behind that the trailer that says where the index is.
ClosedInv ==
    LET m == Len(blocks) IN
    /\ ServiceInv /\ writing = None /\ Written = m
    /\ InOrder
    /\ {pos, last_offset, pending_offset} \subseteq Nat
    /\ \E leaves \in Seq(LeafRecord), entries \in Seq(IndexRecord), at \in Nat, end \in Nat :
        /\ file = leaves \o << [kind |-> "index", at |-> at, entries |-> entries],
                               [kind |-> "trailer", at |-> end, count |-> count,
                                index_block_offset |-> at] >>
        /\ Len(leaves) = m /\ Len(entries) = m
        /\ \A i \in 1..m : leaves[i].keys = blocks[i].keys
        /\ \A i \in 1..m : entries[i] = [key |-> blocks[i].last_key, offset |-> leaves[i].at]
        /\ Placed(leaves, at)

FileInv ==
    /\ IndexInv /\ AcceptedInv
    /\ phase \in {"open", "finishing", "closed"}
    /\ phase # "closed" => ProgressInv
    /\ phase = "closed" => ClosedInv

LEMMA PlacedBehind ==
    ASSUME NEW S, NEW parts \in Seq(S), \A x \in S : x.at \in Nat, NEW end \in Nat, Placed(parts, end),
           NEW part \in S, part.at = end, NEW n \in Nat \ {0}
    PROVE  Placed(Append(parts, part), end + n)
<1> DEFINE m == Len(parts)
           more == Append(parts, part)
<1>1. /\ m \in Nat /\ Len(more) = m + 1 /\ more[m + 1] = part
      /\ \A i \in 1..m : more[i] = parts[i]
  BY LenProperties, AppendProperties
<1>2. \A i \in 1..m : parts[i].at \in Nat
  BY ElementOfSeq
<1>3. \A i \in 1..m : parts[i].at < end
  BY DEF Placed
<1>4. \A i \in 1..m, j \in 1..m : i < j => parts[i].at < parts[j].at
  BY DEF Placed
<1> HIDE DEF m, more
<1>5. ASSUME NEW i \in 1..(m + 1) PROVE i = m + 1 \/ i \in 1..m
  BY <1>1
<1>6. ASSUME NEW i \in 1..(m + 1) PROVE more[i].at < end + n
  <2>1. CASE i = m + 1
    BY <1>1, <2>1
  <2>2. CASE i \in 1..m
    BY <1>1, <1>2, <1>3, <2>2
  <2> QED BY <1>5, <2>1, <2>2
<1>7. ASSUME NEW i \in 1..(m + 1), NEW j \in 1..(m + 1), i < j PROVE more[i].at < more[j].at
  <2>1. i \in 1..m /\ more[i] = parts[i]
    BY <1>1, <1>7
  <2>2. CASE j = m + 1
    BY <1>1, <1>3, <2>1, <2>2
  <2>3. CASE j \in 1..m
    BY <1>1, <1>4, <1>7, <2>1, <2>3
  <2> QED BY <1>5, <2>2, <2>3
<1> QED BY <1>1, <1>6, <1>7 DEF Placed, more

\* The jobs that are outstanding are those behind the last one that was delivered.
LEMMA OutstandingAre ==
    ASSUME ServiceInv, InOrder
    PROVE  \A i \in Nat : <<Handler, i>> \in J!Outstanding(Handler) <=>
                              i > Len(delivered[Handler]) /\ i \in 1..sent[Handler]
<1> DEFINE d == delivered[Handler]
           n == Len(d)
<1>1. n \in Nat
  BY LenProperties DEF ServiceInv
<1>2. SUFFICES ASSUME NEW i \in Nat
               PROVE  <<Handler, i>> \in J!Outstanding(Handler) <=> i > n /\ i \in 1..sent[Handler]
  OBVIOUS
<1>3. J!DeliveredSet(Handler) = {d[k] : k \in 1..n}
  BY DEF J!DeliveredSet
<1>4. \A k \in 1..n : d[k] = <<Handler, k>>
  BY DEF InOrder
<1> HIDE DEF d, n
<1>5. <<Handler, i>> \in J!DeliveredSet(Handler) <=> i \in 1..n
  BY <1>3, <1>4
<1>6. <<Handler, i>> \in {<<Handler, k>> : k \in 1..sent[Handler]} <=> i \in 1..sent[Handler]
  OBVIOUS
<1>7. i \in 1..sent[Handler] => (i \notin 1..n <=> i > n)
  BY <1>1
<1> QED BY <1>5, <1>6, <1>7 DEF J!Outstanding

LEMMA FileInit == Init => FileInv
<1> SUFFICES ASSUME Init PROVE FileInv
  OBVIOUS
<1>1. Len(<<>>) = 0 /\ 1..0 = {}
  OBVIOUS
<1>2. /\ phase = "open" /\ file = <<>> /\ blocks = <<>> /\ writing = None
      /\ delivered = [h \in {Handler} |-> <<>>] /\ closed = [h \in {Handler} |-> FALSE]
      /\ last_offset \in Nat
  BY WriterAssumption DEF Init, J!Init
<1>3. Placed(file, pos)
  BY <1>1, <1>2 DEF Placed
<1>4. InOrder
  BY <1>1, <1>2 DEF InOrder
<1>5. writing.block = 0 /\ writing.bytes = 0
  BY <1>2 DEF None
<1> QED BY <1>1, <1>2, <1>3, <1>4, <1>5, IndexInit, AcceptedInit DEF FileInv, ProgressInv

\* A step that neither flushes nor writes
LEMMA ProgressStays ==
    ASSUME ProgressInv, UNCHANGED <<disk, jobs, writing, blocks, pooled>>,
           phase = "open" <=> phase' = "open"
    PROVE  ProgressInv'
<1>1. /\ file' = file /\ pos' = pos /\ last_offset' = last_offset
      /\ delivered' = delivered /\ closed' = closed
  BY DEF disk, jobs
<1>2. Placed(file, pos)' /\ InOrder' /\ Written' = Written
  BY <1>1 DEF ProgressInv, Placed, InOrder, Written
<1> QED BY <1>1, <1>2 DEF ProgressInv

LEMMA FlushProgress ==
    ASSUME KeysInv, KeysInv', ServiceInv, DiskInv, ProgressInv, phase = "open",
           NEW k \in Key, Flush(k), UNCHANGED <<writing, pooled>>
    PROVE  ProgressInv'
<1>1. ~closed[Handler] /\ last_offset \in Nat /\ pos \in Nat /\ pending_offset \in Nat
  BY DEF ProgressInv, DiskInv
<1>2. Len(blocks) \in Nat
  BY LenProperties DEF KeysInv
<1>3. CASE data = <<>>
  <2>1. UNCHANGED <<blocks, disk, jobs>>
    BY <1>3 DEF Flush
  <2>2. /\ file' = file /\ pos' = pos /\ last_offset' = last_offset
        /\ delivered' = delivered /\ closed' = closed /\ blocks' = blocks
    BY <2>1 DEF disk, jobs
  <2>3. Placed(file, pos)' /\ InOrder'
    BY <2>2 DEF ProgressInv, Placed, InOrder
  <2> QED BY <1>1, <2>2, <2>3 DEF ProgressInv
<1>4. CASE data # <<>>
  <2> DEFINE b == [keys |-> data, last_key |-> k]
  <2>1. blocks' = Append(blocks, b) /\ b \in BlockRecord
    BY <1>4 DEF Flush, BlockRecord, KeysInv
  <2>2. Len(blocks') = Len(blocks) + 1 /\ blocks'[Len(blocks) + 1] = b
    BY <2>1, AppendProperties DEF KeysInv
  <2>3. writing'.block <= Len(blocks')
    <3>1. writing.block \in Nat
      BY DEF DiskInv
    <3> QED BY <1>2, <2>2, <3>1 DEF ProgressInv
  <2>4. CASE pooled
    <3>1. J!Dispatch(Handler) /\ UNCHANGED disk
      BY <1>4, <2>4 DEF Flush
    <3>2. /\ file' = file /\ pos' = pos /\ last_offset' = last_offset
          /\ delivered' = delivered /\ closed' = closed
      BY <3>1 DEF disk, J!Dispatch
    <3>3. Placed(file, pos)' /\ InOrder'
      BY <3>2 DEF ProgressInv, Placed, InOrder
    <3> QED BY <1>1, <2>3, <3>2, <3>3 DEF ProgressInv
  <2>5. CASE ~pooled
    <3>1. PICK n \in DiskBytes : WriteBlock(Leaf(Len(blocks')), n) /\ RecordBlock(Len(blocks'), n)
      BY <1>4, <2>5 DEF Flush
    <3>2. UNCHANGED jobs
      BY <1>4, <2>5 DEF Flush
    <3> DEFINE leaf == [kind |-> "leaf", at |-> pos, keys |-> b.keys]
    <3>3. file' = Append(file, leaf) /\ pos' = pos + n /\ last_offset' = pending_offset
      BY <2>2, <3>1 DEF WriteBlock, Leaf, RecordBlock, OffsetOf
    <3>4. leaf \in LeafRecord /\ leaf.at = pos /\ n \in Nat \ {0}
      BY <1>1, <2>1, WriterAssumption DEF BlockRecord, LeafRecord
    <3>5. \A x \in LeafRecord : x.at \in Nat
      BY DEF LeafRecord
    <3> HIDE DEF leaf
    <3>6. Placed(file', pos')
      BY <1>1, <3>3, <3>4, <3>5, PlacedBehind DEF DiskInv, ProgressInv
    <3>7. InOrder' /\ closed' = closed
      BY <3>2 DEF ProgressInv, InOrder, jobs
    <3> QED BY <1>1, <2>3, <3>3, <3>6, <3>7 DEF ProgressInv
  <2> QED BY <2>4, <2>5
<1> QED BY <1>3, <1>4

LEMMA WriteProgress ==
    ASSUME KeysInv, KeysInv', ServiceInv, DiskInv, ProgressInv, phase # "closed", HandlerWrite
    PROVE  ProgressInv'
<1> DEFINE d == delivered[Handler]
           m == Len(d)
<1>1. /\ writing = None /\ J!Deliver(Handler) /\ ~closed[Handler] /\ closed' = closed
      /\ pooled' = pooled /\ blocks' = blocks /\ last_offset' = last_offset /\ phase' = phase
  BY DEF HandlerWrite, caller, J!Deliver
<1>2. /\ pooled /\ m \in Nat /\ m + 1 <= Len(blocks)
      /\ Last(delivered'[Handler])[2] = m + 1
  BY <1>1, HandlerTakesNext
<1>3. PICK n \in DiskBytes : /\ WriteBlock(Leaf(m + 1), n)
                             /\ writing' = [block |-> m + 1, bytes |-> n]
  BY <1>2 DEF HandlerWrite
<1>4. delivered' = [delivered EXCEPT ![Handler] = Append(@, <<Handler, m + 1>>)]
  BY <1>1 DEF J!Deliver, DispatchOrdered
<1>5. d \in Seq({Handler} \X Nat) /\ delivered'[Handler] = Append(d, <<Handler, m + 1>>)
  BY <1>4 DEF ServiceInv
<1>6. InOrder'
  <2> DEFINE e == Append(d, <<Handler, m + 1>>)
  <2>1. Len(e) = m + 1 /\ e[m + 1] = <<Handler, m + 1>> /\ \A i \in 1..m : e[i] = d[i]
    BY <1>2, <1>5, AppendProperties
  <2>2. \A i \in 1..m : d[i] = <<Handler, i>>
    BY DEF ProgressInv, InOrder
  <2> HIDE DEF d, m, e
  <2>3. \A i \in 1..(m + 1) : i = m + 1 \/ i \in 1..m
    BY <1>2
  <2>4. \A i \in 1..(m + 1) : e[i] = <<Handler, i>>
    BY <2>1, <2>2, <2>3
  <2> QED BY <1>5, <2>1, <2>4 DEF InOrder, e
<1>7. Placed(file', pos')
  <2> DEFINE leaf == [kind |-> "leaf", at |-> pos, keys |-> blocks[m + 1].keys]
  <2>1. file' = Append(file, leaf) /\ pos' = pos + n
    BY <1>1, <1>3 DEF WriteBlock, Leaf
  <2>2. blocks[m + 1] \in BlockRecord /\ pos \in Nat
    BY <1>2, LenProperties, ElementOfSeq DEF KeysInv, DiskInv
  <2>3. leaf \in LeafRecord /\ leaf.at = pos /\ n \in Nat \ {0}
    BY <2>2, WriterAssumption DEF BlockRecord, LeafRecord
  <2>4. \A x \in LeafRecord : x.at \in Nat
    BY DEF LeafRecord
  <2> HIDE DEF leaf
  <2> QED BY <2>1, <2>2, <2>3, <2>4, PlacedBehind DEF DiskInv, ProgressInv
<1> HIDE DEF m
<1>8. writing'.block = m + 1 /\ writing'.bytes \in DiskBytes
  BY <1>3
<1> QED BY <1>1, <1>2, <1>6, <1>7, <1>8 DEF ProgressInv

LEMMA RecordProgress ==
    ASSUME ServiceInv, DiskInv, ProgressInv, HandlerRecord
    PROVE  ProgressInv'
<1>1. /\ writing # None /\ writing' = None /\ last_offset' = pending_offset
      /\ pooled' = pooled /\ blocks' = blocks /\ file' = file /\ pos' = pos
      /\ delivered' = delivered /\ closed' = closed
  BY DEF HandlerRecord, caller, jobs, RecordBlock, OffsetOf
<1>2. Placed(file, pos)' /\ InOrder' /\ ~closed[Handler]
  BY <1>1 DEF ProgressInv, Placed, InOrder
<1>3. None.block = 0 /\ None.bytes = 0 /\ writing.block \in Nat /\ 0 <= Len(blocks)
  <2>1. writing.block \in Nat /\ writing.block <= Len(blocks)
    BY DEF DiskInv, ProgressInv
  <2>2. Len(blocks) \in Int
    BY <1>1, LenProperties DEF DiskInv
  <2> QED BY <2>1, <2>2 DEF None
<1> QED BY <1>1, <1>2, <1>3 DEF ProgressInv, DiskInv

LEMMA CloseProgress ==
    ASSUME KeysInv, ServiceInv, DiskInv, ProgressInv, DestroyHandler
    PROVE  ProgressInv'
<1> DEFINE n == Len(delivered[Handler])
<1>1. /\ phase = "finishing" /\ phase' = phase /\ pooled /\ pooled' = pooled /\ writing = None
      /\ writing' = writing /\ blocks' = blocks /\ J!Close(Handler) /\ UNCHANGED disk
  BY DEF DestroyHandler, caller
<1>2. /\ J!Outstanding(Handler) = {} /\ delivered' = delivered
      /\ closed' = [closed EXCEPT ![Handler] = TRUE]
  BY <1>1 DEF J!Close
<1>3. n \in Nat /\ sent[Handler] = Len(blocks) /\ Len(blocks) \in Nat /\ n <= Len(blocks)
  BY <1>1, LenProperties DEF ServiceInv, KeysInv, DiskInv, Written
<1>4. n = Len(blocks)
  <2>1. \A i \in Nat : ~(i > n /\ i \in 1..sent[Handler])
    BY <1>2, OutstandingAre DEF ProgressInv
  <2> HIDE DEF n
  <2> QED BY <1>3, <2>1
<1>5. Written' = Len(blocks')
  BY <1>1, <1>2, <1>4 DEF Written
<1>6. file' = file /\ pos' = pos /\ last_offset' = last_offset
  BY <1>1 DEF disk
<1>7. Placed(file, pos)' /\ InOrder'
  BY <1>2, <1>6 DEF ProgressInv, Placed, InOrder
<1>8. closed' \in [{Handler} -> BOOLEAN]
  BY <1>2 DEF ProgressInv
<1> QED BY <1>1, <1>5, <1>6, <1>7, <1>8 DEF ProgressInv

LEMMA FinishCloses ==
    ASSUME KeysInv, ServiceInv, DiskInv, ProgressInv, Finish
    PROVE  ClosedInv'
<1> DEFINE m == Len(blocks)
<1>1. /\ Waited /\ UNCHANGED jobs /\ pooled' = pooled /\ blocks' = blocks /\ count' = count
      /\ writing' = writing /\ last_offset' = pending_offset
  BY DEF Finish
<1>2. sent' = sent /\ delivered' = delivered /\ closed' = closed
  BY <1>1 DEF jobs
<1>3. writing = None /\ Written = m
  BY <1>1 DEF Waited, ServiceInv, ProgressInv, Written
<1>4. PICK n \in DiskBytes :
        /\ file' = file \o << [kind |-> "index", at |-> pos, entries |-> index],
                              [kind |-> "trailer", at |-> pos + n, count |-> count,
                               index_block_offset |-> pending_offset] >>
        /\ pos' = pos + n + 1
        /\ pending_offset' = pending_offset + n
  BY DEF Finish
<1>5. pending_offset = pos /\ pos \in Nat /\ n \in Nat
  BY <1>3, WriterAssumption DEF DiskInv
<1> DEFINE end == pos + n
<1>6. end \in Nat /\ {pos', last_offset', pending_offset'} \subseteq Nat
  BY <1>1, <1>4, <1>5
<1>7. ServiceInv' /\ InOrder' /\ Written' = Written
  BY <1>1, <1>2 DEF ServiceInv, ProgressInv, InOrder, Written
<1>8. /\ file \in Seq(LeafRecord) /\ index \in Seq(IndexRecord) /\ Len(file) = m /\ Len(index) = m
      /\ \A i \in 1..m : file[i].keys = blocks[i].keys
      /\ \A i \in 1..m : index[i] = [key |-> blocks[i].last_key, offset |-> file[i].at]
      /\ Placed(file, pos)
  BY <1>3 DEF DiskInv, ProgressInv
<1>9. file' = file \o << [kind |-> "index", at |-> pos, entries |-> index],
                         [kind |-> "trailer", at |-> end, count |-> count',
                          index_block_offset |-> pos] >>
  BY <1>1, <1>4, <1>5
<1> HIDE DEF end, m
<1>10. m = Len(blocks')
  BY <1>1 DEF m
<1> QED BY <1>1, <1>3, <1>5, <1>6, <1>7, <1>8, <1>9, <1>10 DEF ClosedInv

\* Nothing is left to do once the file is closed.
LEMMA NothingAfterwards ==
    ASSUME KeysInv, phase = "closed", ClosedInv, [Next]_vars
    PROVE  UNCHANGED vars
<1>1. Len(blocks) \in Nat
  BY LenProperties DEF KeysInv
<1>2. CASE HandlerWrite
  <2>1. pooled /\ Len(delivered[Handler]) + 1 <= Len(blocks)
    BY <1>2, HandlerTakesNext DEF HandlerWrite, ClosedInv
  <2>2. Len(delivered[Handler]) = Len(blocks)
    BY <2>1 DEF ClosedInv, Written
  <2> QED BY <1>1, <2>1, <2>2
<1>3. CASE HandlerRecord
  BY <1>3 DEF HandlerRecord, ClosedInv
<1>4. ~Destroy /\ ~DestroyHandler /\ ~Finish
  BY DEF Destroy, DestroyHandler, Finish
<1>5. ASSUME NEW k \in Keys, NEW n \in EntryBytes PROVE ~Add(k, n)
  BY DEF Add
<1> QED BY <1>2, <1>3, <1>4, <1>5 DEF Next

LEMMA ClosedStays == ASSUME ClosedInv, UNCHANGED vars PROVE ClosedInv'
<1>1. /\ pooled' = pooled /\ blocks' = blocks /\ count' = count /\ writing' = writing /\ file' = file
      /\ pos' = pos /\ last_offset' = last_offset /\ pending_offset' = pending_offset
      /\ sent' = sent /\ delivered' = delivered
  BY DEF vars, caller, disk, jobs
<1>2. ServiceInv' /\ InOrder' /\ Written' = Written
  BY <1>1 DEF ClosedInv, ServiceInv, InOrder, Written
<1> QED BY <1>1, <1>2 DEF ClosedInv

LEMMA FileStep == ASSUME FileInv, [Next]_vars PROVE FileInv'
<1>1. IndexInv' /\ AcceptedInv' /\ KeysInv /\ KeysInv'
  BY IndexStep, AcceptedStep DEF FileInv, IndexInv
<1>2. CASE phase = "closed"
  <2>1. UNCHANGED vars /\ ClosedInv
    BY <1>1, <1>2, NothingAfterwards DEF FileInv
  <2>2. phase' = phase
    BY <2>1 DEF vars, caller
  <2> QED BY <1>1, <1>2, <2>1, <2>2, ClosedStays DEF FileInv
<1>3. CASE phase # "closed"
  <2>1. ServiceInv /\ DiskInv /\ ProgressInv
    BY <1>3 DEF FileInv, IndexInv
  <2>2. CASE Finish
    <3>1. phase' = "closed"
      BY <2>2 DEF Finish
    <3> QED BY <1>1, <2>1, <2>2, <3>1, FinishCloses DEF FileInv
  <2>3. CASE ~Finish
    <3>1. ProgressInv' /\ phase' \in {"open", "finishing"}
      <4>1. ASSUME NEW k \in Keys, NEW n \in EntryBytes, Add(k, n)
            PROVE  ProgressInv' /\ phase' \in {"open", "finishing"}
        <5>1. phase = "open" /\ phase' = phase /\ writing' = writing /\ pooled' = pooled
          BY <4>1 DEF Add
        <5>2. CASE UNCHANGED <<blocks, disk, jobs>>
          BY <2>1, <5>1, <5>2, ProgressStays
        <5>3. CASE ~UNCHANGED <<blocks, disk, jobs>>
          <6>1. Flush(ShortestSeparator(last_key, k)) /\ ~(count > 0 /\ ~Less(last_key, k)) /\ data # <<>>
            BY <4>1, <5>3 DEF Add, Flush
          <6>2. k \in Key /\ Less(last_key, k)
            BY <1>1, <5>1, <6>1, Accepted
          <6>3. ShortestSeparator(last_key, k) \in Key
            BY <1>1, <6>2, SeparatorInBetween DEF KeysInv
          <6> QED BY <1>1, <2>1, <5>1, <6>1, <6>3, FlushProgress
        <5> QED BY <5>2, <5>3
      <4>2. CASE Destroy
        <5>1. /\ phase = "open" /\ phase' = "finishing" /\ Flush(last_key) /\ last_key \in Key
              /\ writing' = writing /\ pooled' = pooled
          BY <1>1, <4>2 DEF Destroy, KeysInv
        <5> QED BY <1>1, <2>1, <5>1, FlushProgress
      <4>3. CASE DestroyHandler
        BY <1>1, <2>1, <4>3, CloseProgress DEF DestroyHandler, caller
      <4>4. CASE HandlerWrite
        BY <1>1, <1>3, <2>1, <4>4, WriteProgress DEF HandlerWrite, caller, FileInv
      <4>5. CASE HandlerRecord
        BY <1>3, <2>1, <4>5, RecordProgress DEF HandlerRecord, caller, FileInv
      <4>6. CASE UNCHANGED vars
        <5>1. UNCHANGED <<disk, jobs, writing, blocks, pooled>> /\ phase' = phase
          BY <4>6 DEF vars, caller
        <5> QED BY <1>3, <2>1, <5>1, ProgressStays DEF FileInv
      <4> QED BY <2>3, <4>1, <4>2, <4>3, <4>4, <4>5, <4>6 DEF Next
    <3> QED BY <1>1, <3>1 DEF FileInv
  <2> QED BY <2>2, <2>3
<1> QED BY <1>2, <1>3

ResultInv == pooled \in BOOLEAN /\ res \in {"success", "failure"}

LEMMA ResultStep == ASSUME ResultInv, [Next]_vars PROVE ResultInv'
<1>1. ASSUME NEW k \in Keys, NEW n \in EntryBytes, Add(k, n) PROVE ResultInv'
  BY <1>1 DEF Add, ResultInv
<1>2. CASE ~\E k \in Keys, n \in EntryBytes : Add(k, n)
  <2>1. pooled' = pooled /\ res' = res
    BY <1>2 DEF Next, Destroy, DestroyHandler, Finish, HandlerWrite, HandlerRecord, vars, caller
  <2> QED BY <2>1 DEF ResultInv
<1> QED BY <1>1, <1>2

LEMMA WriterTyped == ASSUME FileInv, ResultInv PROVE TypeOK
<1>1. /\ last_key \in Keys \cup {<<>>} /\ size \in Nat /\ (Len(data) > 1 => size < BlockSize)
      /\ data \in Seq(Keys) /\ phase \in {"open", "finishing", "closed"}
  BY DEF FileInv, AcceptedInv, IndexInv, KeysInv
<1>2. count \in 0..Cardinality(Keys)
  <2>1. AcceptedKeys \subseteq Keys /\ count = Cardinality(AcceptedKeys)
    BY DEF FileInv, AcceptedInv
  <2>2. Cardinality(AcceptedKeys) <= Cardinality(Keys) /\ Cardinality(Keys) \in Nat
    BY <2>1, FS_Subset, FS_CardinalityType, WriterAssumption
  <2>3. count \in Nat
    BY DEF FileInv, IndexInv, KeysInv
  <2> QED BY <2>1, <2>2, <2>3
<1>3. ASSUME NEW b \in Range(blocks) PROVE b.keys \in Seq(Keys) \ {<<>>} /\ b.last_key \in Key
  <2>1. blocks \in Seq(BlockRecord) /\ DOMAIN blocks = 1..Len(blocks)
    BY LenProperties DEF FileInv, IndexInv, KeysInv
  <2>2. PICK i \in 1..Len(blocks) : b = blocks[i]
    BY <2>1 DEF Range
  <2>3. b \in BlockRecord /\ b.keys # <<>>
    BY <2>1, <2>2, ElementOfSeq DEF FileInv, AcceptedInv
  <2> QED BY <2>3 DEF BlockRecord
<1>4. writing \in [block : 0..Len(blocks), bytes : DiskBytes \cup {0}]
      /\ {pos, last_offset, pending_offset} \subseteq Nat
  <2>1. Len(blocks) \in Nat
    BY LenProperties DEF FileInv, IndexInv, KeysInv
  <2>2. CASE phase = "closed"
    BY <2>1, <2>2 DEF FileInv, ClosedInv, None
  <2>3. CASE phase # "closed"
    <3>1. /\ writing \in [block : Nat, bytes : Nat] /\ writing.block <= Len(blocks)
          /\ writing.bytes \in DiskBytes \cup {0}
          /\ {pos, last_offset, pending_offset} \subseteq Nat
      BY <2>3 DEF FileInv, IndexInv, DiskInv, ProgressInv
    <3>2. writing.block \in 0..Len(blocks)
      BY <2>1, <3>1
    <3> QED BY <3>1, <3>2
  <2> QED BY <2>2, <2>3
<1> QED BY <1>1, <1>2, <1>3, <1>4 DEF TypeOK, ResultInv

\* Property TypeOK of run writer: mtbl_writer_add(), mtbl_writer_destroy() and the
\* thread of the result handler keep the type of the writer's state; a block holds
\* at least a key and goes over opt.block_size only by its first entry.
THEOREM WriterTypeCorrect == Spec => []TypeOK
<1>1. Init => FileInv /\ ResultInv
  <2>1. Init => ResultInv
    BY DEF Init, ResultInv
  <2> QED BY <2>1, FileInit
<1>2. (FileInv /\ ResultInv) /\ [Next]_vars => (FileInv /\ ResultInv)'
  BY FileStep, ResultStep
<1>3. FileInv /\ ResultInv => TypeOK
  BY WriterTyped
<1> QED BY <1>1, <1>2, <1>3, PTL DEF Spec

-------------------------------------------------------------------------------
(* Looking a key up *)

\* Of two keys one is below the other, if they are not the same.
LEMMA LessTotal ==
    ASSUME NEW s \in Key, NEW t \in Key
    PROVE  s = t \/ Less(s, t) \/ Less(t, s)
<1> DEFINE ls == Len(s)
           lt == Len(t)
           m == MinLength(s, t)
           D == {i \in 1..(m + 1) : i <= m => s[i] # t[i]}
<1>1. /\ ls \in Nat /\ \A j \in 1..ls : s[j] \in Int
      /\ lt \in Nat /\ \A j \in 1..lt : t[j] \in Int
  BY IntegerBytes, Zenon
<1>2. /\ m \in Nat /\ m <= ls /\ m <= lt
      /\ m = ls \/ m = lt
  BY <1>1 DEF MinLength
<1>a. Less(s, t) <=> \E n \in 1..lt : /\ n <= ls + 1
                                      /\ \A j \in 1..(n - 1) : s[j] = t[j]
                                      /\ n <= ls => s[n] < t[n]
  BY Zenon DEF Less
<1>b. Less(t, s) <=> \E n \in 1..ls : /\ n <= lt + 1
                                      /\ \A j \in 1..(n - 1) : t[j] = s[j]
                                      /\ n <= lt => t[n] < s[n]
  BY Zenon DEF Less
<1>3. \E i \in D : \A j \in D : i <= j
  <2>1. D \in SUBSET Nat
    OBVIOUS
  <2>2. m + 1 \in D
    BY <1>2
  <2> HIDE DEF D
  <2> QED BY <2>1, <2>2, LeastNatural
<1>c. ls = Len(s) /\ lt = Len(t)
  OBVIOUS
<1> HIDE DEF ls, lt, m
<1>4. PICK i \in D : \A j \in D : i <= j
  BY <1>3
<1>5. i \in 1..(m + 1) /\ (i <= m => s[i] # t[i])
  OBVIOUS
<1>6. ASSUME NEW j \in 1..(i - 1) PROVE s[j] = t[j]
  <2>1. j \in 1..(m + 1) /\ j <= m /\ ~(i <= j)
    BY <1>2, <1>5
  <2>2. j \notin D
    <3> HIDE DEF D
    <3> QED BY <1>4, <2>1
  <2> QED BY <2>1, <2>2
<1> HIDE DEF D
<1>7. CASE i <= m
  <2>1. i \in 1..ls /\ i \in 1..lt /\ i <= ls + 1 /\ i <= lt + 1
    BY <1>1, <1>2, <1>5, <1>7
  <2>2. s[i] < t[i] \/ t[i] < s[i]
    BY <1>1, <1>5, <1>7, <2>1
  <2> QED BY <1>a, <1>b, <1>6, <2>1, <2>2
<1>8. CASE ~(i <= m)
  <2>1. i = m + 1
    BY <1>2, <1>5, <1>8
  <2>2. CASE ls < lt
    <3>1. i \in 1..lt /\ i <= ls + 1 /\ ~(i <= ls)
      BY <1>1, <1>2, <2>1, <2>2
    <3> QED BY <1>a, <1>6, <3>1
  <2>3. CASE lt < ls
    <3>1. i \in 1..ls /\ i <= lt + 1 /\ ~(i <= lt)
      BY <1>1, <1>2, <2>1, <2>3
    <3> QED BY <1>b, <1>6, <3>1
  <2>4. CASE ls = lt
    <3>1. \A j \in 1..ls : s[j] = t[j]
      BY <1>1, <1>2, <1>6, <2>1, <2>4
    <3> QED BY <1>c, <2>4, <3>1, SeqEqual DEF Key
  <2> QED BY <1>1, <2>2, <2>3, <2>4
<1> QED BY <1>7, <1>8

\* What is not above a key is below all that is above it.
LEMMA BelowBoth ==
    ASSUME NEW k \in Key, NEW x \in Key, NEW y \in Key, ~Less(k, x), Less(k, y)
    PROVE  Less(x, y)
BY LessTotal, LessTransitive

\* The key of a block in the index is below the keys of every later block.
LEMMA BelowLater ==
    ASSUME NEW bs \in Seq(BlockRecord), NEW ks, Separates(bs, ks),
           \A i \in 1..Len(bs) : bs[i].keys # <<>>, NEW i \in 1..Len(bs)
    PROVE  \A q \in 1..Len(bs) : i < q => Below(bs[i].last_key, bs[q].keys)
<1> DEFINE m == Len(bs)
           S == {q \in Nat : q \in 1..m /\ i < q => Below(bs[i].last_key, bs[q].keys)}
<1>1. m \in Nat /\ \A j \in 1..m : bs[j] \in BlockRecord
  BY LenProperties, ElementOfSeq
<1>2. 0 \in S
  OBVIOUS
<1>3. ASSUME NEW q \in Nat, q \in S PROVE q + 1 \in S
  <2> SUFFICES ASSUME q + 1 \in 1..m, i < q + 1 PROVE Below(bs[i].last_key, bs[q + 1].keys)
    OBVIOUS
  <2>1. q \in 1..m /\ q < m
    BY <1>1
  <2>2. /\ Covers(bs[q].last_key, bs[q].keys)
        /\ Below(bs[q].last_key, bs[q + 1].keys)
    BY <2>1 DEF Separates
  <2>3. CASE i = q
    BY <2>2, <2>3
  <2>4. CASE i # q
    <3>1. Below(bs[i].last_key, bs[q].keys)
      BY <1>3, <2>1, <2>4
    <3>2. bs[q].keys \in Seq(Keys) /\ bs[q].keys # <<>> /\ bs[q].last_key \in Key /\ bs[i].last_key \in Key
          /\ bs[q + 1].keys \in Seq(Keys)
      BY <1>1, <2>1 DEF BlockRecord
    <3> HIDE DEF S, m
    <3>3. PICK x \in Range(bs[q].keys) : TRUE
      <4>1. 1 \in DOMAIN bs[q].keys
        BY <3>2, EmptySeq, LenProperties
      <4> QED BY <4>1 DEF Range
    <3>4. x \in Key /\ Less(bs[i].last_key, x) /\ ~Less(bs[q].last_key, x)
      BY <2>2, <3>1, <3>2, <3>3, RangeOfKeys DEF Below, Covers
    <3>5. Less(bs[i].last_key, bs[q].last_key)
      BY <3>2, <3>4, LessTotal, LessTransitive
    <3>6. ASSUME NEW y \in Range(bs[q + 1].keys) PROVE Less(bs[i].last_key, y)
      <4>1. y \in Key /\ Less(bs[q].last_key, y)
        BY <2>2, <3>2, <3>6, RangeOfKeys DEF Below
      <4> QED BY <3>2, <3>5, <4>1, LessTransitive
    <3> QED BY <3>6 DEF Below
  <2> QED BY <2>3, <2>4
<1>4. \A q \in Nat : q \in S
  <2> HIDE DEF S
  <2> QED BY <1>2, <1>3, Induction
<1> QED BY <1>1, <1>4

\* What is found in a closed file: the leaves with their offsets, the entries of
\* the index and the trailer
LEMMA ClosedFile ==
    ASSUME FileInv, phase = "closed"
    PROVE  \E leaves \in Seq(LeafRecord) :
             /\ Len(leaves) = Len(blocks) /\ Len(blocks) \in Nat
             /\ Leaves = Range(leaves)
             /\ \A i \in 1..Len(blocks) : leaves[i].keys = blocks[i].keys
             /\ Len(Index) = Len(blocks)
             /\ \A i \in 1..Len(blocks) : /\ Index[i].key = blocks[i].last_key
                                          /\ Index[i].offset = leaves[i].at
                                          /\ LeafAt(leaves[i].at) = leaves[i]
             /\ Trailer.kind = "trailer" /\ Trailer.count = count
<1> DEFINE m == Len(blocks)
<1>1. PICK leaves \in Seq(LeafRecord), entries \in Seq(IndexRecord), at \in Nat, end \in Nat :
        /\ file = leaves \o << [kind |-> "index", at |-> at, entries |-> entries],
                               [kind |-> "trailer", at |-> end, count |-> count,
                                index_block_offset |-> at] >>
        /\ Len(leaves) = m /\ Len(entries) = m
        /\ \A i \in 1..m : leaves[i].keys = blocks[i].keys
        /\ \A i \in 1..m : entries[i] = [key |-> blocks[i].last_key, offset |-> leaves[i].at]
        /\ Placed(leaves, at)
  BY DEF FileInv, ClosedInv
<1> DEFINE idx == [kind |-> "index", at |-> at, entries |-> entries]
           trl == [kind |-> "trailer", at |-> end, count |-> count, index_block_offset |-> at]
           S == LeafRecord \cup {idx, trl}
<1>2. m \in Nat /\ DOMAIN leaves = 1..m
  BY <1>1, LenProperties DEF FileInv, IndexInv, KeysInv
<1>3. /\ idx.kind = "index" /\ idx.at = at /\ idx.entries = entries
      /\ trl.kind = "trailer" /\ trl.count = count /\ trl.index_block_offset = at
      /\ \A x \in LeafRecord : x.kind = "leaf" /\ x.at \in Nat
  BY DEF LeafRecord
<1>4. leaves \in Seq(S) /\ <<idx, trl>> \in Seq(S) /\ Len(<<idx, trl>>) = 2
      /\ <<idx, trl>>[1] = idx /\ <<idx, trl>>[2] = trl /\ file = leaves \o <<idx, trl>>
  BY <1>1
<1> HIDE DEF m, idx, trl
<1>5. /\ file \in Seq(S) /\ Len(file) = m + 2
      /\ \A i \in 1..m : file[i] = leaves[i]
      /\ file[m + 1] = idx /\ file[m + 2] = trl
  <2> DEFINE two == <<idx, trl>>
  <2>1. /\ two \in Seq(S) /\ Len(two) = 2 /\ two[1] = idx /\ two[2] = trl /\ file = leaves \o two
    BY <1>4
  <2> HIDE DEF two, S
  <2>2. /\ file \in Seq(S) /\ Len(file) = m + 2
        /\ \A i \in 1..(m + 2) : file[i] = IF i <= m THEN leaves[i] ELSE two[i - m]
    BY <1>1, <1>4, <2>1, ConcatProperties
  <2>3. /\ m + 1 \in 1..(m + 2) /\ ~(m + 1 <= m) /\ (m + 1) - m = 1
        /\ m + 2 \in 1..(m + 2) /\ ~(m + 2 <= m) /\ (m + 2) - m = 2
        /\ \A i \in 1..m : i \in 1..(m + 2) /\ i <= m
    BY <1>2
  <2>4. file[m + 1] = idx /\ file[m + 2] = trl
    BY <2>1, <2>2, <2>3
  <2> QED BY <2>2, <2>3, <2>4
<1>6. Range(file) = Range(leaves) \cup {idx, trl}
  <2>1. DOMAIN file = 1..(m + 2)
    BY <1>5, LenProperties
  <2>2. \A i \in 1..(m + 2) : i \in 1..m \/ i = m + 1 \/ i = m + 2
    BY <1>2
  <2>3. /\ \A i \in 1..m : i \in 1..(m + 2)
        /\ m + 1 \in 1..(m + 2) /\ m + 2 \in 1..(m + 2)
    BY <1>2
  <2> HIDE DEF S
  <2>4. ASSUME NEW p \in Range(file) PROVE p \in Range(leaves) \cup {idx, trl}
    <3>1. PICK i \in 1..(m + 2) : p = file[i]
      BY <2>1 DEF Range
    <3> QED BY <1>2, <1>5, <2>2, <3>1 DEF Range
  <2>5. ASSUME NEW p \in Range(leaves) PROVE p \in Range(file)
    <3>1. PICK i \in 1..m : p = leaves[i]
      BY <1>2 DEF Range
    <3> QED BY <1>5, <2>1, <2>3, <3>1 DEF Range
  <2>6. idx \in Range(file) /\ trl \in Range(file)
    BY <1>5, <2>1, <2>3 DEF Range
  <2> QED BY <2>4, <2>5, <2>6
<1>7. \A p \in Range(leaves) : p \in LeafRecord
  <2>1. \A i \in 1..m : leaves[i] \in LeafRecord
    BY <1>1, ElementOfSeq
  <2> QED BY <1>2, <2>1 DEF Range
<1>8. Leaves = Range(leaves)
  BY <1>3, <1>6, <1>7 DEF Leaves
<1>9. Trailer = trl
  BY <1>5 DEF Trailer, Last
<1>10. Index = entries
  <2> DEFINE Q(p) == p.kind = "index" /\ p.at = Trailer.index_block_offset
  <2>1. idx \in Range(file) /\ Q(idx)
    BY <1>3, <1>6, <1>9
  <2>2. ASSUME NEW p \in Range(file), Q(p) PROVE p = idx
    BY <1>3, <1>6, <1>7, <2>2
  <2>3. (CHOOSE p \in Range(file) : Q(p)) = idx
    <3> HIDE DEF Q
    <3> QED BY <2>1, <2>2
  <2> QED BY <1>3, <2>3 DEF Index
<1>11. ASSUME NEW i \in 1..m PROVE LeafAt(leaves[i].at) = leaves[i]
  <2>1. leaves[i] \in Leaves
    BY <1>2, <1>8 DEF Range
  <2>2. ASSUME NEW p \in Leaves, p.at = leaves[i].at PROVE p = leaves[i]
    <3>1. PICK j \in 1..m : p = leaves[j]
      BY <1>2, <1>8 DEF Range
    <3>2. leaves[i].at \in Nat /\ leaves[j].at \in Nat
      BY <1>1, <1>3, ElementOfSeq
    <3>3. i < j => leaves[i].at < leaves[j].at
      BY <1>1 DEF Placed
    <3>4. j < i => leaves[j].at < leaves[i].at
      BY <1>1 DEF Placed
    <3>5. i = j
      BY <1>2, <2>2, <3>1, <3>2, <3>3, <3>4
    <3> QED BY <3>1, <3>5
  <2> QED BY <2>1, <2>2 DEF LeafAt
<1>12. \A i \in 1..m : Index[i].key = blocks[i].last_key /\ Index[i].offset = leaves[i].at
  BY <1>1, <1>10
<1> QED BY <1>1, <1>2, <1>3, <1>8, <1>9, <1>10, <1>11, <1>12 DEF m

LEMMA Readable == ASSUME FileInv PROVE FileIsReadable
<1> SUFFICES ASSUME phase = "closed" PROVE FileIsReadable
  BY DEF FileIsReadable
<1> DEFINE m == Len(blocks)
           stored == UNION {Range(l.keys) : l \in Leaves}
<1>1. PICK leaves \in Seq(LeafRecord) :
        /\ Len(leaves) = m /\ m \in Nat
        /\ Leaves = Range(leaves)
        /\ \A i \in 1..m : leaves[i].keys = blocks[i].keys
        /\ Len(Index) = m
        /\ \A i \in 1..m : /\ Index[i].key = blocks[i].last_key
                           /\ Index[i].offset = leaves[i].at
                           /\ LeafAt(leaves[i].at) = leaves[i]
        /\ Trailer.kind = "trailer" /\ Trailer.count = count
  BY ClosedFile
<1>2. /\ blocks \in Seq(BlockRecord) /\ Separates(blocks, data) /\ data = <<>>
      /\ \A i \in 1..m : blocks[i] \in BlockRecord /\ blocks[i].keys # <<>>
      /\ count = Cardinality(AcceptedKeys) /\ AcceptedKeys \subseteq Key
  <2>1. \A i \in 1..m : blocks[i] \in BlockRecord
    BY ElementOfSeq DEF FileInv, IndexInv, KeysInv
  <2> QED BY <2>1, WriterAssumption DEF FileInv, IndexInv, KeysInv, AcceptedInv
<1>3. \A i \in 1..m : Range(LeafAt(Index[i].offset).keys) = Range(blocks[i].keys)
  BY <1>1
<1>4. DOMAIN leaves = 1..m
  BY <1>1, LenProperties
<1> HIDE DEF m, stored
<1>5. stored = AcceptedKeys
  <2>1. AcceptedKeys = UNION {Range(blocks[i].keys) : i \in 1..m}
    BY <1>2, StoredOfNone DEF AcceptedKeys, Stored, m
  <2>2. ASSUME NEW x \in stored PROVE x \in AcceptedKeys
    <3>1. PICK i \in 1..m : x \in Range(leaves[i].keys)
      BY <1>1, <1>4 DEF stored, Range
    <3> QED BY <1>1, <2>1, <3>1
  <2>3. ASSUME NEW x \in AcceptedKeys PROVE x \in stored
    <3>1. PICK i \in 1..m : x \in Range(blocks[i].keys)
      BY <2>1
    <3>2. leaves[i] \in Leaves /\ x \in Range(leaves[i].keys)
      BY <1>1, <1>4, <3>1 DEF Range
    <3> QED BY <3>2 DEF stored
  <2> QED BY <2>2, <2>3
<1>6. ASSUME NEW i \in 1..m, NEW k \in Range(blocks[i].keys)
      PROVE  k \in Key /\ blocks[i].last_key \in Key /\ ~Less(blocks[i].last_key, k)
  <2>1. blocks[i] \in BlockRecord /\ Covers(blocks[i].last_key, blocks[i].keys)
    BY <1>2 DEF Separates, m
  <2> QED BY <2>1, RangeOfKeys DEF BlockRecord, Covers
<1>7. ASSUME NEW i \in 1..m, NEW j \in 1..m, i < j, NEW k \in Range(blocks[j].keys)
      PROVE  Less(blocks[i].last_key, k)
  BY <1>2, <1>7, BelowLater DEF Below, m
<1>8. ASSUME NEW t \in Keys
      PROVE  LET i == LowerBound(t)
                 from == IF i > Len(Index) THEN {} ELSE Range(LeafAt(Index[i].offset).keys)
                 before == UNION {Range(LeafAt(Index[j].offset).keys) : j \in 1..(i - 1)}
             IN  /\ t \in stored => t \in from
                 /\ \A k \in before : Less(k, t)
  <2> DEFINE i == LowerBound(t)
             from == IF i > Len(Index) THEN {} ELSE Range(LeafAt(Index[i].offset).keys)
             before == UNION {Range(LeafAt(Index[j].offset).keys) : j \in 1..(i - 1)}
             R(n) == /\ n <= m => ~Less(blocks[n].last_key, t)
                     /\ \A j \in 1..(n - 1) : Less(blocks[j].last_key, t)
  <2>0. t \in Key
    BY WriterAssumption
  <2>1. i \in 1..(m + 1) /\ R(i)
    <3> DEFINE Q(n) == /\ n <= Len(Index) => ~Less(Index[n].key, t)
                       /\ \A j \in 1..(n - 1) : Less(Index[j].key, t)
               D == {n \in 1..m : ~Less(Index[n].key, t)}
    <3>1. i = CHOOSE n \in 1..(m + 1) : Q(n)
      BY <1>1 DEF LowerBound
    <3>2. \E n \in 1..(m + 1) : Q(n)
      <4> DEFINE first == Min(D \cup {m + 1})
      <4>1. D \in SUBSET 1..m
        OBVIOUS
      <4> HIDE DEF D
      <4>2. /\ first \in 1..(m + 1)
            /\ first <= m => first \in D
            /\ \A j \in 1..(first - 1) : j \notin D
        BY <1>1, <4>1, FirstOf
      <4> HIDE DEF first
      <4>3. \A j \in 1..(first - 1) : j \in 1..m
        BY <1>1, <4>2
      <4> QED BY <1>1, <4>2, <4>3 DEF D
    <3> HIDE DEF i
    <3>3. i \in 1..(m + 1) /\ Q(i)
      <4> HIDE DEF Q
      <4> QED BY <3>1, <3>2
    <3>4. i \in Int /\ (i <= m => i \in 1..m) /\ \A j \in 1..(i - 1) : j \in 1..m
      BY <1>1, <3>3
    <3> QED BY <1>1, <3>3, <3>4
  <2>2. i \in Int /\ (i <= m => i \in 1..m) /\ (~(i > m) <=> i <= m)
        /\ \A j \in 1..(i - 1) : j \in 1..m
    BY <1>1, <2>1
  <2>3. from = IF i <= m THEN Range(blocks[i].keys) ELSE {}
    BY <1>1, <1>3, <2>2
  <2> HIDE DEF i, from
  <2>4. ASSUME t \in stored PROVE t \in from
    <3>1. PICK q \in 1..m : t \in Range(blocks[q].keys)
      BY <1>2, <1>5, <2>4, StoredOfNone DEF AcceptedKeys, Stored, m
    <3>2. ~(q < i)
      <4>1. ~Less(blocks[q].last_key, t)
        BY <1>6, <3>1
      <4>2. q < i => q \in 1..(i - 1)
        BY <2>2
      <4> QED BY <2>1, <4>1, <4>2
    <3>3. i <= m /\ i \in 1..m
      BY <1>1, <2>2, <3>2
    <3>4. ~(i < q)
      BY <1>7, <2>1, <3>1, <3>3
    <3>5. q = i
      BY <2>2, <3>2, <3>4
    <3> QED BY <2>3, <3>1, <3>3, <3>5
  <2>5. ASSUME NEW k \in before PROVE Less(k, t)
    <3>1. PICK j \in 1..(i - 1) : k \in Range(LeafAt(Index[j].offset).keys)
      BY <2>5
    <3>2. j \in 1..m /\ Less(blocks[j].last_key, t)
      BY <2>1, <2>2
    <3>3. k \in Range(blocks[j].keys)
      BY <1>3, <3>1, <3>2
    <3>4. k \in Key /\ blocks[j].last_key \in Key /\ ~Less(blocks[j].last_key, k)
      BY <1>6, <3>2, <3>3
    <3> QED BY <2>0, <3>2, <3>4, BelowBoth
  <2> QED BY <2>4, <2>5 DEF i, from
<1> QED BY <1>1, <1>2, <1>5, <1>8 DEF FileIsReadable, stored

\* Property FileIsReadable of run writer: however the keys were cut into blocks and
\* whichever thread wrote them, a file with a trailer has the index where the trailer
\* says, as many entries as it says, and the first entry of the index that is not
\* below a key leads to the block with it.
THEOREM ClosedFileIsReadable == Spec => []FileIsReadable
<1>1. FileInv /\ [Next]_vars => FileInv'
  BY FileStep
<1>2. FileInv => FileIsReadable
  BY Readable
<1> QED BY <1>1, <1>2, FileInit, PTL DEF Spec

-------------------------------------------------------------------------------
(* The writer is a Table *)

KeysOf == [i \in 1..Len(blocks) |-> blocks[i].keys]

LEMMA AppendToEnd ==
    ASSUME NEW S, NEW x \in Seq(S), NEW y \in Seq(S), NEW k \in S
    PROVE  x \o Append(y, k) = Append(x \o y, k)
<1>1. /\ Append(y, k) = Cat(y, <<k>>) /\ Cat(x, y) \in Seq(S)
  BY AppendIsConcat, ConcatProperties DEF Cat
<1>2. Append(Cat(x, y), k) = Cat(Cat(x, y), <<k>>)
  BY <1>1, AppendIsConcat DEF Cat
<1>3. <<k>> \in Seq(S)
  OBVIOUS
<1>4. PICK z \in Seq(S) : z = <<k>>
  BY <1>3, Zenon
<1>5. Cat(x, Cat(y, z)) = Cat(Cat(x, y), z)
  BY CatAssociative
<1> QED BY <1>1, <1>2, <1>4, <1>5 DEF Cat

\* What is on disk and what the pool still has are all the finished blocks.
ContentsInBlocks ==
    /\ KeysOf \in Seq(Seq(Keys)) /\ data \in Seq(Keys)
    /\ FlattenSeq(KeysOf) \in Seq(Keys)
    /\ Contents = FlattenSeq(KeysOf) \o data

LEMMA ContentsAre == FileInv => ContentsInBlocks
<1> SUFFICES ASSUME FileInv PROVE ContentsInBlocks
  OBVIOUS
<1> DEFINE m == Len(blocks)
           w == Written
           n == Len(file)
           onDisk == [i \in 1..n |-> IF file[i].kind = "leaf" THEN file[i].keys ELSE <<>>]
           inPool == [i \in 1..m |-> IF Pending(i) THEN blocks[i].keys ELSE <<>>]
           none == <<>>
<1>1. /\ blocks \in Seq(BlockRecord) /\ data \in Seq(Keys) /\ m \in Nat
  BY LenProperties DEF FileInv, IndexInv, KeysInv
<1>2. \A i \in 1..m : blocks[i].keys \in Seq(Keys)
  <2>1. \A i \in 1..m : blocks[i] \in BlockRecord
    BY <1>1, ElementOfSeq
  <2> QED BY <2>1 DEF BlockRecord
<1>3. none \in Seq(Keys)
  OBVIOUS
<1> HIDE DEF none
<1>4. KeysOf \in Seq(Seq(Keys)) /\ Len(KeysOf) = m /\ \A i \in 1..m : KeysOf[i] = blocks[i].keys
  BY <1>1, <1>2 DEF KeysOf
<1>5. ServiceInv /\ InOrder
  BY DEF FileInv, IndexInv, ProgressInv, ClosedInv
<1>6. /\ w \in 0..m /\ w <= n /\ n \in Nat
      /\ \A i \in 1..n : IF i <= w THEN file[i].kind = "leaf" /\ file[i].keys = blocks[i].keys
                                   ELSE file[i].kind # "leaf"
  <2>1. CASE phase # "closed"
    <3>1. /\ file \in Seq(LeafRecord) /\ n = w /\ w <= m
          /\ \A i \in 1..n : file[i].keys = blocks[i].keys
      BY <2>1 DEF FileInv, IndexInv, DiskInv
    <3>2. n \in Nat
      BY <3>1, LenProperties
    <3>3. \A i \in 1..n : file[i].kind = "leaf"
      <4>1. \A i \in 1..n : file[i] \in LeafRecord
        BY <3>1, ElementOfSeq
      <4> QED BY <4>1 DEF LeafRecord
    <3> HIDE DEF m, w, n
    <3>4. \A i \in 1..n : i <= w
      BY <3>1, <3>2
    <3> QED BY <1>1, <3>1, <3>2, <3>3, <3>4
  <2>2. CASE phase = "closed"
    <3>1. w = m
      BY <2>2 DEF FileInv, ClosedInv
    <3>2. PICK leaves \in Seq(LeafRecord), entries \in Seq(IndexRecord), at \in Nat, end \in Nat :
            /\ file = leaves \o << [kind |-> "index", at |-> at, entries |-> entries],
                                   [kind |-> "trailer", at |-> end, count |-> count,
                                    index_block_offset |-> at] >>
            /\ Len(leaves) = m
            /\ \A i \in 1..m : leaves[i].keys = blocks[i].keys
      BY <2>2 DEF FileInv, ClosedInv
    <3> DEFINE idx == [kind |-> "index", at |-> at, entries |-> entries]
               trl == [kind |-> "trailer", at |-> end, count |-> count, index_block_offset |-> at]
               two == <<idx, trl>>
               S == LeafRecord \cup {idx, trl}
    <3>3. idx.kind # "leaf" /\ trl.kind # "leaf" /\ \A x \in LeafRecord : x.kind = "leaf"
      BY DEF LeafRecord
    <3>4. two[1] = idx /\ two[2] = trl /\ Len(two) = 2 /\ two \in Seq(S) /\ leaves \in Seq(S)
          /\ file = leaves \o two
      BY <3>2
    <3>5. \A i \in 1..m : leaves[i] \in LeafRecord
      BY <3>2, ElementOfSeq
    <3> HIDE DEF two, S, idx, trl, m, w
    <3>6. n = m + 2 /\ \A i \in 1..(m + 2) : file[i] = IF i <= m THEN leaves[i] ELSE two[i - m]
      BY <3>2, <3>4, ConcatProperties
    <3> HIDE DEF n
    <3>7. ASSUME NEW i \in 1..n
          PROVE  IF i <= w THEN file[i].kind = "leaf" /\ file[i].keys = blocks[i].keys
                           ELSE file[i].kind # "leaf"
      <4>1. CASE i <= m
        <5>1. i \in 1..m /\ file[i] = leaves[i]
          BY <1>1, <3>6, <4>1
        <5> QED BY <3>1, <3>2, <3>3, <3>5, <4>1, <5>1
      <4>2. CASE ~(i <= m)
        <5>1. file[i] = two[i - m] /\ (i - m = 1 \/ i - m = 2)
          BY <1>1, <3>6, <4>2
        <5> QED BY <3>1, <3>3, <3>4, <4>2, <5>1
      <4> QED BY <4>1, <4>2
    <3> QED BY <1>1, <3>1, <3>6, <3>7
  <2> QED BY <2>1, <2>2
<1>7. \A i \in 1..m : Pending(i) <=> ~(i <= w)
  <2>1. CASE pooled
    <3>1. sent[Handler] = m /\ w = Len(delivered[Handler])
      BY <1>5, <2>1 DEF ServiceInv, Written
    <3>2. \A i \in 1..m : Pending(i) <=> i > Len(delivered[Handler]) /\ i \in 1..sent[Handler]
      BY <1>5, <2>1, OutstandingAre DEF Pending
    <3> HIDE DEF m, w
    <3>3. \A i \in 1..m : ~(i <= w) <=> i > w
      BY <1>6
    <3> QED BY <3>1, <3>2, <3>3
  <2>2. CASE ~pooled
    <3>1. w = m
      BY <2>2 DEF Written
    <3> HIDE DEF m, w
    <3> QED BY <1>1, <2>2, <3>1 DEF Pending
  <2> QED BY <2>1, <2>2
<1>8. /\ onDisk \in Seq(Seq(Keys)) /\ Len(onDisk) = n
      /\ \A i \in 1..n : onDisk[i] = IF i <= w THEN KeysOf[i] ELSE none
  <2>1. ASSUME NEW i \in 1..n
        PROVE  /\ (IF file[i].kind = "leaf" THEN file[i].keys ELSE none) = (IF i <= w THEN KeysOf[i] ELSE none)
               /\ (IF i <= w THEN KeysOf[i] ELSE none) \in Seq(Keys)
    <3>1. i <= w => i \in 1..m
      <4>1. w \in 0..m /\ n \in Nat
        BY <1>6
      <4> HIDE DEF n, m, w
      <4> QED BY <1>1, <4>1
    <3> HIDE DEF n, m, w
    <3> QED BY <1>2, <1>3, <1>4, <1>6, <3>1
  <2>2. onDisk = [i \in 1..n |-> IF file[i].kind = "leaf" THEN file[i].keys ELSE none]
    BY DEF none
  <2> HIDE DEF onDisk, n, w
  <2> QED BY <1>6, <2>1, <2>2
<1>9. /\ inPool \in Seq(Seq(Keys)) /\ Len(inPool) = m
      /\ \A i \in 1..m : inPool[i] = IF i <= w THEN none ELSE KeysOf[i]
  <2>1. inPool = [i \in 1..m |-> IF Pending(i) THEN blocks[i].keys ELSE none]
    BY DEF none
  <2> HIDE DEF inPool, m, w
  <2>2. \A i \in 1..m : (IF Pending(i) THEN blocks[i].keys ELSE none) \in Seq(Keys)
    BY <1>2, <1>3
  <2>3. inPool \in Seq(Seq(Keys)) /\ Len(inPool) = m
    BY <1>1, <2>1, <2>2
  <2> QED BY <1>4, <1>7, <2>1, <2>3
<1>10. FlattenSeq(onDisk) \o FlattenSeq(inPool) = FlattenSeq(KeysOf)
  <2> HIDE DEF onDisk, inPool, m, w, n
  <2>1. w \in 0..Len(KeysOf) /\ Len(onDisk) >= w /\ Len(inPool) = Len(KeysOf)
    BY <1>4, <1>6, <1>8, <1>9
  <2>2. /\ \A i \in 1..Len(onDisk) : onDisk[i] = IF i <= w THEN KeysOf[i] ELSE <<>>
        /\ \A i \in 1..Len(inPool) : inPool[i] = IF i <= w THEN <<>> ELSE KeysOf[i]
    BY <1>8, <1>9 DEF none
  <2> QED BY <1>4, <1>8, <1>9, <2>1, <2>2, FlattenSplit
<1>11. FlattenSeq(KeysOf) \in Seq(Keys)
  BY <1>4, FlattenTyped
<1>12. Contents = (FlattenSeq(onDisk) \o FlattenSeq(inPool)) \o data
  BY DEF Contents
<1> QED BY <1>1, <1>4, <1>10, <1>11, <1>12 DEF ContentsInBlocks

LEMMA ContentsAreNext == FileInv' => ContentsInBlocks'
BY ContentsAre, PTL

LEMMA DataKept == ASSUME FileInv, blocks' = blocks, data' = data, FileInv' PROVE Contents' = Contents
<1>1. KeysOf' = KeysOf
  BY DEF KeysOf
<1>2. Contents = FlattenSeq(KeysOf) \o data /\ Contents' = FlattenSeq(KeysOf') \o data'
  BY ContentsAre, ContentsAreNext DEF ContentsInBlocks
<1> QED BY <1>1, <1>2

\* A flush keeps the keys in their order.
LEMMA FlushKeepsOrder ==
    ASSUME FileInv, NEW k \in Key, Flush(k), data # <<>>
    PROVE  FlattenSeq(KeysOf') = FlattenSeq(KeysOf) \o data
<1> DEFINE m == Len(blocks)
           b == [keys |-> data, last_key |-> k]
<1>1. blocks' = Append(blocks, b) /\ b \in BlockRecord /\ b.keys = data /\ blocks \in Seq(BlockRecord)
  BY DEF Flush, BlockRecord, FileInv, IndexInv, KeysInv
<1> HIDE DEF b
<1>2. /\ m \in Nat /\ Len(blocks') = m + 1 /\ blocks'[m + 1] = b
      /\ \A i \in 1..m : blocks'[i] = blocks[i]
  BY <1>1, LenProperties, AppendProperties
<1>3. KeysOf \in Seq(Seq(Keys)) /\ data \in Seq(Keys)
  BY ContentsAre DEF ContentsInBlocks
<1>4. Len(KeysOf) = m /\ \A i \in 1..m : KeysOf[i] = blocks[i].keys
  BY <1>2 DEF KeysOf
<1> DEFINE more == Append(KeysOf, data)
<1>5. /\ more \in Seq(Seq(Keys)) /\ Len(more) = m + 1 /\ more[m + 1] = data
      /\ \A i \in 1..m : more[i] = KeysOf[i]
  BY <1>3, <1>4, AppendProperties
<1>6. FlattenSeq(more) = FlattenSeq(KeysOf) \o data
  BY <1>3, FlattenAppend
<1> HIDE DEF more, m
<1>7. KeysOf' = [i \in 1..(m + 1) |-> blocks'[i].keys]
  BY <1>2 DEF KeysOf
<1>8. \A i \in 1..(m + 1) : blocks'[i].keys = more[i]
  <2>1. \A i \in 1..(m + 1) : i = m + 1 \/ i \in 1..m
    BY <1>2
  <2>2. \A i \in 1..m : blocks'[i].keys = more[i]
    BY <1>2, <1>4, <1>5
  <2> QED BY <1>1, <1>2, <1>5, <2>1, <2>2
<1>9. more = [i \in 1..(m + 1) |-> more[i]]
  BY <1>5, LenProperties
<1>10. KeysOf' = more
  BY <1>7, <1>8, <1>9
<1> QED BY <1>6, <1>10

\* A key that is accepted goes to the end, and is above the one that was there.
LEMMA AddAppends ==
    ASSUME FileInv, FileInv', NEW k \in Keys, NEW n \in EntryBytes, Add(k, n),
           ~(count > 0 /\ ~Less(last_key, k))
    PROVE  T!Add(k)
<1> DEFINE old == FlattenSeq(KeysOf)
<1>1. /\ old \in Seq(Keys) /\ data \in Seq(Keys) /\ Contents = old \o data
      /\ Contents' = FlattenSeq(KeysOf') \o data'
  BY ContentsAre, ContentsAreNext DEF ContentsInBlocks
<1>2. phase = "open" /\ phase' = "open" /\ k \in Key /\ last_key \in Key
      /\ (data # <<>> => Less(last_key, k)) /\ KeysInv
  BY Accepted DEF Add, FileInv, IndexInv, KeysInv
<1> HIDE DEF old
<1>3. Contents' = Append(Contents, k)
  <2>1. CASE Full(n) /\ data # <<>>
    <3>1. Flush(ShortestSeparator(last_key, k)) /\ data' = <<k>>
      BY <2>1 DEF Add
    <3>2. ShortestSeparator(last_key, k) \in Key
      BY <1>2, <2>1, SeparatorInBetween
    <3>3. FlattenSeq(KeysOf') = Contents
      BY <1>1, <2>1, <3>1, <3>2, FlushKeepsOrder DEF old
    <3>4. Contents \in Seq(Keys)
      BY <1>1, ConcatProperties
    <3>5. Append(Contents, k) = Contents \o <<k>>
      BY <3>4, AppendIsConcat
    <3> QED BY <1>1, <3>1, <3>3, <3>5
  <2>2. CASE ~(Full(n) /\ data # <<>>)
    <3>1. blocks' = blocks /\ data' = Append(data, k)
      <4>1. CASE Full(n)
        <5>1. data = <<>> /\ blocks' = blocks /\ data' = <<k>>
          BY <2>2, <4>1 DEF Add, Flush
        <5> QED BY <5>1
      <4>2. CASE ~Full(n)
        BY <4>2 DEF Add
      <4> QED BY <4>1, <4>2
    <3>2. KeysOf' = KeysOf
      BY <3>1 DEF KeysOf
    <3>3. old \o Append(data, k) = Append(old \o data, k)
      BY <1>1, AppendToEnd
    <3> QED BY <1>1, <3>1, <3>2, <3>3 DEF old
  <2> QED BY <2>1, <2>2
<1>4. ASSUME Contents # <<>> PROVE Less(Contents[Len(Contents)], k)
  <2>1. data # <<>>
    <3> SUFFICES ASSUME data = <<>> PROVE FALSE
      OBVIOUS
    <3>1. blocks = <<>>
      BY <1>2 DEF KeysInv
    <3>2. KeysOf = <<>>
      BY <3>1 DEF KeysOf
    <3>3. old = <<>>
      BY <3>2, FlattenEmpty DEF old
    <3>4. <<>> \o <<>> = <<>>
      OBVIOUS
    <3> QED BY <1>1, <1>4, <3>3, <3>4
  <2>2. Len(data) \in Nat /\ Len(data) # 0 /\ Len(old) \in Nat
    BY <1>1, <2>1, LenProperties, EmptySeq
  <2>3. /\ Len(Contents) = Len(old) + Len(data)
        /\ \A i \in 1..(Len(old) + Len(data)) :
              Contents[i] = IF i <= Len(old) THEN old[i] ELSE data[i - Len(old)]
    BY <1>1, ConcatProperties
  <2>4. Contents[Len(Contents)] = data[Len(data)]
    BY <2>2, <2>3
  <2>5. data[Len(data)] = last_key
    BY <2>1 DEF FileInv, AcceptedInv
  <2> QED BY <1>2, <2>1, <2>4, <2>5
<1>5. ~(phase = "closed") /\ (phase' = "closed") = (phase = "closed")
  BY <1>2
<1> QED BY <1>3, <1>4, <1>5 DEF T!Add

LEMMA TableStep == ASSUME FileInv, FileInv', [Next]_vars PROVE [T!Next]_(T!tvars)
<1>1. ASSUME NEW k \in Keys, NEW n \in EntryBytes, Add(k, n) PROVE [T!Next]_(T!tvars)
  <2>1. CASE count > 0 /\ ~Less(last_key, k)
    <3>1. blocks' = blocks /\ data' = data /\ phase' = phase
      BY <1>1, <2>1 DEF Add
    <3>2. Contents' = Contents
      BY <3>1, DataKept
    <3> QED BY <3>1, <3>2 DEF T!tvars
  <2>2. CASE ~(count > 0 /\ ~Less(last_key, k))
    BY <1>1, <2>2, AddAppends DEF T!Next
  <2> QED BY <2>1, <2>2
<1>2. CASE Destroy
  <2>1. /\ phase = "open" /\ phase' = "finishing" /\ Flush(last_key) /\ data' = <<>>
        /\ last_key \in Key
    BY <1>2 DEF Destroy, FileInv, IndexInv, KeysInv
  <2>2. Contents' = Contents
    <3>1. CASE data = <<>>
      BY <2>1, <3>1, DataKept DEF Flush
    <3>2. CASE data # <<>>
      <4>1. FlattenSeq(KeysOf') = FlattenSeq(KeysOf) \o data
        BY <2>1, <3>2, FlushKeepsOrder
      <4>2. /\ Contents = FlattenSeq(KeysOf) \o data
            /\ Contents' = FlattenSeq(KeysOf') \o data' /\ FlattenSeq(KeysOf') \in Seq(Keys)
        BY ContentsAre, ContentsAreNext DEF ContentsInBlocks
      <4>3. FlattenSeq(KeysOf') \o <<>> = FlattenSeq(KeysOf')
        BY <4>2, ConcatEmptySeq
      <4> QED BY <2>1, <4>1, <4>2, <4>3
    <3> QED BY <3>1, <3>2
  <2> QED BY <2>1, <2>2 DEF T!tvars
<1>3. CASE Finish
  <2>1. blocks' = blocks /\ data' = data /\ phase = "finishing" /\ phase' = "closed"
    BY <1>3 DEF Finish
  <2>2. Contents' = Contents
    BY <2>1, DataKept
  <2>3. T!Seal
    BY <2>1, <2>2 DEF T!Seal
  <2> QED BY <2>3 DEF T!Next
<1>4. CASE DestroyHandler \/ HandlerWrite \/ HandlerRecord \/ UNCHANGED vars
  <2>1. blocks' = blocks /\ data' = data /\ phase' = phase
    BY <1>4 DEF DestroyHandler, HandlerWrite, HandlerRecord, vars, caller
  <2>2. Contents' = Contents
    BY <2>1, DataKept
  <2> QED BY <2>1, <2>2 DEF T!tvars
<1> QED BY <1>1, <1>2, <1>3, <1>4 DEF Next

LEMMA TableInit == Init => T!Init
<1> SUFFICES ASSUME Init PROVE Contents = <<>> /\ (phase = "closed") = FALSE
  BY DEF T!Init
<1>1. FileInv /\ blocks = <<>> /\ data = <<>> /\ phase = "open"
  BY FileInit DEF Init
<1>2. KeysOf = <<>>
  BY <1>1 DEF KeysOf
<1>3. Contents = FlattenSeq(KeysOf) \o data
  BY <1>1, ContentsAre DEF ContentsInBlocks
<1>4. FlattenSeq(KeysOf) = <<>>
  BY <1>2, FlattenEmpty
<1> QED BY <1>1, <1>3, <1>4

\* Property ImplementsTable of run writer: the keys on disk, those of the blocks that
\* the pool still has and those of the open block are together what was accepted, in
\* the order in which it was; no step of either thread loses, repeats or moves a key.
THEOREM WriterIsTable == Spec => ImplementsTable
<1>1. FileInv /\ [Next]_vars => FileInv'
  BY FileStep
<1>2. FileInv /\ FileInv' /\ [Next]_vars => [T!Next]_(T!tvars)
  BY TableStep
<1> QED BY <1>1, <1>2, FileInit, TableInit, PTL DEF Spec, ImplementsTable, T!Spec

===============================================================================
