------------------------------- MODULE BlockLayout -------------------------------
(***************************************************************************)
(* The arithmetic of a block's size, on which the two ends of the file     *)
(* must agree without telling each other: the builder's width of restart   *)
(* points and size estimate (mtbl/block_builder.c), the place where the    *)
(* reader looks for them (mtbl/block.c), and the room that                 *)
(* _mtbl_compress_zlib() has for a block (mtbl/compression.c).             *)
(*                                                                         *)
(* A block has n restart points, and its entries take that many bytes.     *)
(***************************************************************************)
EXTENDS Encoding

\* What cannot be compressed deflate() stores in pieces of so many bytes, with some
\* in front of each of them and some around the whole.
CONSTANTS Frame, PerPiece, Piece

\* A uint64_t has twice the bytes of a uint32_t.  zlib frames its output with 6
\* bytes and has 5 for each piece, of 16383 bytes at least: 11 for a single one, as
\* many as the least entry and the array of restart points have with Size32 = 4.
ASSUME LayoutAssumption ==
    /\ Size64 = 2 * Size32
    /\ Frame \in Nat /\ PerPiece \in Nat /\ Frame + PerPiece <= 3 + 2 * Size32
    /\ Piece \in Nat \ {0} /\ Frame + 2 * PerPiece <= Piece

-------------------------------------------------------------------------------
(* Plausible bugs, each one the body of a definition below. *)

\* The width is chosen by the size of the whole block.
WideByTotal(bytes, n) == bytes + Size32 * n + Size32 > Max32

\* The estimate always takes eight bytes for a restart point.
WideEstimate(bytes, n) == bytes + Size64 * n + Size32

-------------------------------------------------------------------------------
(* The builder *)

\* The offsets no longer fit 32 bits: restart64 of block_builder_finish().
Wide(bytes, n) == bytes > Max32

\* block_builder_current_size_estimate()
SizeEstimate(bytes, n) ==
    IF bytes > Max32 THEN bytes + Size64 * n + Size32
    ELSE bytes + (Size64 * n) \div 2 + Size32

\* What block_builder_finish() writes.
SizeWritten(bytes, n) == bytes + n * (IF Wide(bytes, n) THEN Size64 ELSE Size32) + Size32

-------------------------------------------------------------------------------
(* The reader *)

\* Where a block of that size with n restart points of 32 or of 64 bits ends its
\* entries.
Offset32(size, n) == size - (1 + n) * Size32
Offset64(size, n) == size - (Size32 + n * Size64)

RestartOffset(size, n) ==
    IF Offset32(size, n) > Max32 THEN Offset64(size, n) ELSE Offset32(size, n)

\* Widths that contradict each other, or no room for the array.
Malformed(size, n) ==
    \/ Offset32(size, n) > Max32 /\ Offset64(size, n) <= Max32
    \/ RestartOffset(size, n) \notin 0..(size - Size32)

-------------------------------------------------------------------------------
(* Compression *)

\* The output buffer of _mtbl_compress_zlib() for a block of that size.
CompressRoom(size) == 2 * size

\* What deflate() adds at most to so many bytes: the pieces that are full, and the
\* last one.
Overhead(size) == Frame + PerPiece * (size \div Piece + 1)

===============================================================================
