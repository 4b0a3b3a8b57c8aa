---------------------------------- MODULE File ----------------------------------
(***************************************************************************)
(* A file of mtbl from the writer to the reader and to mtbl_verify: data   *)
(* blocks, an index block with their offsets, a trailer (mtbl/writer.c,    *)
(* mtbl/metadata.c), and what is left of it after a crash, after pages     *)
(* that never reached the disk, and after a byte has changed.              *)
(*                                                                         *)
(* A file is a sequence of bytes; offsets count from 0.  The contents of a *)
(* data block are a sequence that stands for the block as it is written,   *)
(* after compression; the index block has an entry for each data block,    *)
(* reduced to its value, the offset.  The trailer has the integers that    *)
(* readers use.                                                            *)
(***************************************************************************)
EXTENDS Encoding, SequencesExt

CONSTANTS
    Contents,      \* what data blocks may consist of
    MaxBlocks,     \* data blocks of a file at most
    Starts,        \* bytes that the caller has reserved at the start of the file
    Versions,      \* file formats; the writer makes "V2", "V1" is that of old files
    FlipTo,        \* what a changed byte may become
    CrcValues,     \* how many values a checksum has
    MagicV1, MagicV2,      \* MTBL_MAGIC_V1, MTBL_MAGIC
    Padding,       \* zeros between the integers of the trailer and the magic number
    LongestContents        \* bytes that a data block's contents take at most

FileByte == 0..(ByteBase - 1)

\* A byte of a varint is a byte, with and without its continuation bit; a checksum
\* has 32 bits; a block has its restart points.
ASSUME FileAssumption ==
    /\ 2 * VarintBase <= ByteBase
    /\ CrcValues \in 1..(Max32 + 1)
    /\ Contents \subseteq Seq(FileByte) /\ FlipTo \subseteq FileByte
    /\ MaxBlocks \in Nat /\ Starts \subseteq Nat /\ Versions \subseteq {"V1", "V2"}
    /\ \A c \in Contents : Len(c) >= 2 * Size32

\* A magic number has 32 bits, and neither its first byte nor its last one is zero;
\* the padding is longer.
ASSUME MagicAssumption ==
    /\ MagicV1 # MagicV2
    /\ \A magic \in {MagicV1, MagicV2} :
          /\ magic \in Power[Size32 - 1]..Max32
          /\ magic % ByteBase # 0
    /\ Padding \in Nat /\ Padding >= Size32

\* The index block has an offset of up to ten bytes for each data block; a block
\* has up to so many bytes in front of its contents.
LongestIndex == 10 * MaxBlocks + 2 * Size32
LongestHead == 10 + 2 * Size32

\* Lengths and offsets are numbers of 64 bits; the lengths in old files have 32.
LengthMax(v) == IF v = "V1" THEN Max32 ELSE Max64

ASSUME FileSizeAssumption ==
    /\ LongestContents \in Nat /\ \A c \in Contents : Len(c) <= LongestContents
    /\ \A v \in Versions : LongestContents <= LengthMax(v) /\ LongestIndex <= LengthMax(v)
    /\ \A s \in Starts :
          s + (MaxBlocks * (LongestHead + LongestContents) + LongestHead + LongestIndex) <= Max64
    /\ MaxBlocks <= Max64

VARIABLES
    file,        \* the bytes on disk
    start,       \* the offset at which the writer began
    version,     \* the format
    pc,          \* the writer: "data", "index", "trailer", "closed"
    metadata,    \* what its trailer will say
    offsets,     \* the values of its index block
    written,     \* history: the contents of the data blocks written
    fault        \* what happened to the file: "none", "cut", "hole", "flip"

fileVars == <<file, start, version, pc, metadata, offsets, written, fault>>

\* A checksum that tells apart the contents of the instance.  Like CRC32C it is
\* zero for no bytes at all.
Crc(data) ==
    LET Sum[i \in 0..Len(data)] ==
            IF i = 0 THEN 0 ELSE (31 * Sum[i - 1] + data[i] + 1) % CrcValues
    IN  Sum[Len(data)]

Magic(v) == IF v = "V1" THEN MagicV1 ELSE MagicV2
MetadataSize == 4 * Size64 + Padding + Size32

\* Bytes p .. p + n - 1
At(f, p, n) == SubSeq(f, p + 1, p + n)
Fixed(f, p, size) == DecodeFixed(f, p, size)

-------------------------------------------------------------------------------
(* Plausible bugs, each one the body of a definition below. *)


\* The index block must end before the trailer begins.
EndBefore(f, end) == end < Len(f)

\* A checksum is compared only where it is set.
CrcIfSet(f, p, content) == Fixed(f, p, Size32) = 0 \/ Fixed(f, p, Size32) = Crc(content)

\* The last block is not looked at.
RoundsBeforeLast(meta) == meta.count_data_blocks - 1

-------------------------------------------------------------------------------
(* Writing *)

LengthField(v, n) == IF v = "V1" THEN EncodeFixed(n, Size32) ELSE EncodeVarint64(n)

\* _mtbl_writer_write_block(): length, checksum, contents.
BlockBytes(v, content) ==
    LengthField(v, Len(content)) \o EncodeFixed(Crc(content), Size32) \o content

\* The index block that block_builder_finish() makes: entries, one restart point,
\* the number of restart points.
IndexContent(offs) ==
    FlattenSeq([i \in DOMAIN offs |-> EncodeVarint64(offs[i])])
        \o EncodeFixed(0, Size32) \o EncodeFixed(1, Size32)

\* metadata_write()
Trailer(v, meta) ==
    EncodeFixed(meta.index_block_offset, Size64) \o EncodeFixed(meta.count_data_blocks, Size64)
        \o EncodeFixed(meta.bytes_data_blocks, Size64)
        \o EncodeFixed(meta.bytes_index_block, Size64)
        \o [i \in 1..Padding |-> 0] \o EncodeFixed(Magic(v), Size32)

FileInit ==
    /\ start \in Starts
    /\ version \in Versions
    /\ file = [i \in 1..start |-> 1]
    /\ pc = "data"
    /\ metadata = [index_block_offset |-> 0, count_data_blocks |-> 0,
                   bytes_data_blocks |-> 0, bytes_index_block |-> 0, pending_offset |-> start]
    /\ offsets = <<>> /\ written = <<>>
    /\ fault = "none"

\* _mtbl_writer_write_data_block()
WriteDataBlock(content) ==
    LET bytes == BlockBytes(version, content) IN
    /\ pc = "data" /\ fault = "none"
    /\ metadata.count_data_blocks < MaxBlocks
    /\ file' = file \o bytes
    /\ metadata' = [metadata EXCEPT !.count_data_blocks = @ + 1,
                                    !.bytes_data_blocks = @ + Len(bytes),
                                    !.pending_offset = @ + Len(bytes)]
    /\ offsets' = Append(offsets, metadata.pending_offset)
    /\ written' = Append(written, content)
    /\ UNCHANGED <<start, version, pc, fault>>

\* _mtbl_writer_finish(), up to and including the index block
WriteIndex ==
    LET bytes == BlockBytes(version, IndexContent(offsets)) IN
    /\ pc = "data" /\ fault = "none"
    /\ pc' = "trailer"
    /\ file' = file \o bytes
    /\ metadata' = [metadata EXCEPT !.index_block_offset = metadata.pending_offset,
                                    !.bytes_index_block = Len(bytes),
                                    !.pending_offset = @ + Len(bytes)]
    /\ UNCHANGED <<start, version, offsets, written, fault>>

\* _mtbl_writer_finish(), the trailer
WriteTrailer ==
    /\ pc = "trailer" /\ fault = "none"
    /\ pc' = "closed"
    /\ file' = file \o Trailer(version, metadata)
    /\ UNCHANGED <<start, version, metadata, offsets, written, fault>>

-------------------------------------------------------------------------------
(* What happens to files.  The writer never calls fsync(): after a crash of   *)
(* the machine the file may be shorter, or have pages of zeros.               *)

\* Where the blocks are, in a file that has been written in full
BlockArea == (start + 1)..(metadata.index_block_offset + metadata.bytes_index_block)

\* The writer or the machine stops: a prefix is left.
Crash ==
    /\ fault = "none"
    /\ \E n \in 0..(Len(file) - 1) : file' = SubSeq(file, 1, n)
    /\ fault' = "cut"
    /\ UNCHANGED <<start, version, pc, metadata, offsets, written>>

\* The machine stops; the end of the file reached the disk, other pages did not.
LosePages ==
    /\ pc = "closed" /\ fault = "none"
    /\ \E i, j \in BlockArea :
          /\ i <= j
          /\ file' = [k \in DOMAIN file |-> IF k \in i..j THEN 0 ELSE file[k]]
    /\ fault' = "hole"
    /\ UNCHANGED <<start, version, pc, metadata, offsets, written>>

\* A byte of a block changes.
Flip ==
    /\ pc = "closed" /\ fault = "none"
    /\ \E i \in BlockArea, x \in FlipTo : x # file[i] /\ file' = [file EXCEPT ![i] = x]
    /\ fault' = "flip"
    /\ UNCHANGED <<start, version, pc, metadata, offsets, written>>

FileNext ==
    \/ \E content \in Contents : WriteDataBlock(content)
    \/ WriteIndex \/ WriteTrailer
    \/ Crash \/ LosePages \/ Flip

FileSpec == FileInit /\ [][FileNext]_fileVars

-------------------------------------------------------------------------------
(* Reading.  Results are "refused" (NULL is returned), "died" (an assertion   *)
(* fails, or memory is read that is not mapped) or a record of what was read. *)

Died == [res |-> "died"]
Refused == [res |-> "refused"]

KnownMagic(x) == x \in {Magic("V1"), Magic("V2")}

VersionOf(x) == IF x = Magic("V1") THEN "V1" ELSE "V2"

\* The last 32 bits of a file
MagicAt(f) == Fixed(f, Len(f) - Size32, Size32)

\* metadata_read(), for a trailer at offset p
MetadataRead(f, p) ==
    [version |-> VersionOf(MagicAt(f)),
     index_block_offset |-> Fixed(f, p, Size64),
     count_data_blocks |-> Fixed(f, p + Size64, Size64),
     bytes_data_blocks |-> Fixed(f, p + 2 * Size64, Size64),
     bytes_index_block |-> Fixed(f, p + 3 * Size64, Size64)]

MinBlockLength(v) == IF v = "V1" THEN 4 * Size32 ELSE 1 + 3 * Size32

\* The index block and the trailer end within the file.
EndFits(f, end) == end <= Len(f)

\* The length of the block at offset p and the bytes that say so, in a file that
\* is mapped up to limit.
LengthAt(f, v, p) ==
    IF v = "V1" THEN [len |-> Size32, value |-> Fixed(f, p, Size32)] ELSE DecodeVarint64(f, p)

\* No bytes after the mapping are looked at, wherever the varint ends.
Mapped(f, p) == p >= 0 /\ p + 10 <= Len(f)

CrcMatches(f, p, content) == Fixed(f, p, Size32) = Crc(content)

\* The contents of the block at offset p: get_block(), and the same steps for the
\* index in mtbl_reader_init_fd().
BlockAt(f, v, p, checksums) ==
    LET size == LengthAt(f, v, p)
        data == p + size.len + Size32
        content == At(f, data, size.value)
    IN  IF ~Mapped(f, p) \/ data + size.value > Len(f) THEN Died
        ELSE IF checksums /\ ~CrcMatches(f, p + size.len, content) THEN Died
        ELSE [res |-> "block", content |-> content]

\* mtbl_reader_init_fd()
OpenReader(f, checksums) ==
    LET meta == MetadataRead(f, Len(f) - MetadataSize)
        end == meta.index_block_offset + MetadataSize + MinBlockLength(meta.version)
        index == BlockAt(f, meta.version, meta.index_block_offset, checksums)
    IN  IF Len(f) < MetadataSize THEN Refused
        ELSE IF ~KnownMagic(MagicAt(f)) THEN Refused
        ELSE IF ~EndFits(f, end) THEN Refused
        ELSE IF index = Died THEN Died
        ELSE [res |-> "open", m |-> meta, index |-> index.content]

\* One more entry of an index block, which is read up to its restart points.
ParseOffset(index, at) ==
    LET v == DecodeVarint64(index, at.next) IN
    IF at.next >= Len(index) - 2 * Size32 \/ v.len = 0 THEN at
    ELSE [next |-> at.next + v.len, found |-> Append(at.found, v.value)]

\* The offsets in an index block.  No entry is empty: the last one has been read
\* after as many rounds as there are bytes.
OffsetsIn(index) ==
    LET Parsed[i \in 0..Len(index)] ==
            IF i = 0 THEN [next |-> 0, found |-> <<>>] ELSE ParseOffset(index, Parsed[i - 1])
    IN  Parsed[Len(index)].found

\* What an iterator over the i-th index entry gets: get_block_at_index() and
\* block_iter_init(), whose assertion stops at a block without restart points.
ReadBlock(f, r, i, checksums) ==
    LET blk == BlockAt(f, r.m.version, OffsetsIn(r.index)[i], checksums) IN
    IF blk = Died THEN Died
    ELSE IF Len(blk.content) < 2 * Size32 THEN Died
    ELSE blk

\* The file reads as what was written: as many blocks as there were, each of them
\* with its contents.
ReadsAsWritten(f, checksums) ==
    LET r == OpenReader(f, checksums) IN
    /\ r.res = "open"
    /\ Len(r.index) >= 2 * Size32
    /\ Len(OffsetsIn(r.index)) = Len(written)
    /\ \A i \in DOMAIN written :
          ReadBlock(f, r, i, checksums) = [res |-> "block", content |-> written[i]]

-------------------------------------------------------------------------------
(* mtbl_verify *)

\* The loop looks at as many blocks as the trailer counts, wherever it gets to.
Rounds(meta) == meta.count_data_blocks

\* One round of the loop of verify_data_blocks(): it is at.offset bytes into the data
\* blocks, which begin at base.
VerifyBlock(f, meta, base, at) ==
    LET p == base + at.offset
        size == LengthAt(f, meta.version, p)
        next == at.offset + size.len + Size32 + size.value
    IN  IF at.res # "ok" THEN at
        ELSE IF ~Mapped(f, p) THEN [at EXCEPT !.res = "died"]
        ELSE IF next > meta.bytes_data_blocks THEN [at EXCEPT !.res = "failed"]
        ELSE IF ~CrcMatches(f, p + size.len, At(f, p + size.len + Size32, size.value))
             THEN [at EXCEPT !.res = "failed"]
        ELSE [at EXCEPT !.offset = next]

\* verify_data_blocks()
VerifyBlocks(f, meta, base) ==
    LET Round[k \in 0..Rounds(meta)] ==
            IF k = 0 THEN [res |-> "ok", offset |-> 0]
            ELSE VerifyBlock(f, meta, base, Round[k - 1])
    IN  Round[Rounds(meta)].res

\* verify_file()
Verify(f) ==
    LET r == OpenReader(f, TRUE) IN
    IF r = Refused THEN "failed"
    ELSE IF r = Died THEN "died"
    ELSE IF r.m.bytes_data_blocks = 0 /\ r.m.count_data_blocks = 0 THEN "ok"
    ELSE VerifyBlocks(f, r.m, r.m.index_block_offset - r.m.bytes_data_blocks)

-------------------------------------------------------------------------------
(* Properties *)

\* Where the data blocks end, and each of them
DataEnd == start + metadata.bytes_data_blocks
BlockEnd(i) == IF i < Len(offsets) THEN offsets[i + 1] ELSE DataEnd

\* The p-th byte of the file is one of a data block's contents.
InContents(p) == \E i \in DOMAIN written : p \in (BlockEnd(i) - Len(written[i]) + 1)..BlockEnd(i)


\* Every file that was written in full opens and reads as what was written, with
\* and without checksums, and mtbl_verify accepts it; a file without entries,
\* whose index block has the least possible size, too.
ReadsBack ==
    pc = "closed" /\ fault = "none" =>
        /\ \A checksums \in BOOLEAN : ReadsAsWritten(file, checksums)
        /\ Verify(file) = "ok"

\* When one byte of a block has changed, in its length, its checksum or its
\* contents, mtbl_verify does not say OK of a file that does not read as written.
VerifySound == fault = "flip" /\ Verify(file) = "ok" => ReadsAsWritten(file, FALSE)

\* A reader with verify_checksums never returns anything but what was written,
\* from a file with lost pages or with a changed byte: it stops.
ChecksumsProtect ==
    LET r == OpenReader(file, TRUE) IN
    fault \in {"hole", "flip"} /\ r.res = "open" /\ Len(r.index) >= 2 * Size32 =>
        \A i \in DOMAIN OffsetsIn(r.index) :
            LET blk == ReadBlock(file, r, i, TRUE) IN
            blk # Died => i \in DOMAIN written /\ blk.content = written[i]

\* What the manual of mtbl_verify says: it verifies the integrity of a file's
\* data and index blocks.  A file that it accepts reads as written, pages lost or
\* not.  This looks at files whose index is intact: the data blocks are at stake.
VerifyFindsLostPages ==
    LET r == OpenReader(file, TRUE) IN
    fault = "hole" /\ r.res = "open" =>
        (r.index = IndexContent(offsets) /\ Verify(file) = "ok" => ReadsAsWritten(file, FALSE))

===============================================================================
