\* Bytes of 180 values and varint bytes of eight, so that some lengths take two
\* bytes; no checksum's last byte is that of a magic number.
CONSTANTS
    VarintBase = 8
    ByteBase = 180
    Size32 = 2
    Size64 = 4
    Contents <- MCContents
    MaxBlocks = 3
    Starts = {0, 3}
    Versions = {"V1", "V2"}
    FlipTo = {0, 1, 3, 5, 9}
    CrcValues = 28793
    MagicV1 = 32036
    MagicV2 = 32398
    Padding = 2
    LongestContents = 24
SPECIFICATION FileSpec
INVARIANT VerifyFindsLostPages
CHECK_DEADLOCK FALSE
