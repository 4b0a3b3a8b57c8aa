---------------------------------- MODULE Heap ----------------------------------
(***************************************************************************)
(* The binary heap of libmy/heap.c: a sequence whose element i has its     *)
(* children at 2i and 2i+1 (positions 2i+1 and 2i+2 of the C vector, which *)
(* starts at 0).  Leq is the comparison function's "<= 0"; it may tie.     *)
(***************************************************************************)
EXTENDS Integers, Sequences, Functions

CONSTANT Leq(_, _)

Ordered(h) == \A i \in 2..Len(h) : Leq(h[i \div 2], h[i])

-------------------------------------------------------------------------------
(* A plausible bug, the body of a definition below. *)

\* The left child is always the one to compare with.
LeftChild(h, i) == 2 * i

-------------------------------------------------------------------------------

\* The child that siftdown() compares with: the right one when the two tie.
Child(h, i) ==
    IF 2 * i + 1 <= Len(h) /\ Leq(h[2 * i + 1], h[2 * i]) THEN 2 * i + 1 ELSE 2 * i

\* The element that is sifted changes places with another one.
Swap(h, i, j) == [h EXCEPT ![i] = h[j], ![j] = h[i]]

\* The arrangements of the elements of h, and the place of the one that is sifted.
Places(h) == [1..Len(h) -> Range(h)] \X (1..Len(h))

\* siftdown(): the element at i moves down, and smaller children move up, until it
\* is no larger than the child it is compared with.
SinksNot(g, i) == 2 * i > Len(g) \/ Leq(g[i], g[Child(g, i)])

SiftDown(h, i) ==
    LET Sink[p \in Places(h)] ==
            IF SinksNot(p[1], p[2]) THEN p[1]
            ELSE Sink[<<Swap(p[1], p[2], Child(p[1], p[2])), Child(p[1], p[2])>>]
    IN  Sink[<<h, i>>]

\* siftup(): the last element moves up past every larger ancestor.
RisesNot(g, i) == i = 1 \/ Leq(g[i \div 2], g[i])

SiftUp(h) ==
    LET Rise[p \in Places(h)] ==
            IF RisesNot(p[1], p[2]) THEN p[1]
            ELSE Rise[<<Swap(p[1], p[2], p[2] \div 2), p[2] \div 2>>]
    IN  Rise[<<h, Len(h)>>]

\* Elements that were added without an order are sifted down, from the last parent on.
Heapify(h) ==
    LET last == Len(h) \div 2
        Sifted[k \in 0..last] == IF k = 0 THEN h ELSE SiftDown(Sifted[k - 1], last - k + 1)
    IN  Sifted[last]

Push(h, x) == SiftUp(Append(h, x))

\* The root is replaced by the last element, or by x.
Pop(h) ==
    IF Len(h) = 1 THEN <<>>
    ELSE SiftDown([i \in 1..(Len(h) - 1) |-> IF i = 1 THEN h[Len(h)] ELSE h[i]], 1)
Replace(h, x) == SiftDown([h EXCEPT ![1] = x], 1)

===============================================================================
