\* Bytes of eight values, varint bytes of four: a value of five bytes has a
\* header with a length of two bytes, and blocks above 63 bytes have wide restart
\* points.
CONSTANTS
    VarintBase = 4
    ByteBase = 8
    Size32 = 2
    Size64 = 4
    Hint = 16
    Frame = 4
    PerPiece = 3
    Piece = 16
    Keys <- MCKeys
    Targets <- MCTargets
    ValueLengths = {0, 5}
    Intervals = {1, 2, 3}
    MaxEntries = 9
    Longest = 23
SPECIFICATION Spec
INVARIANTS WritesFit EstimateExact ArrayFound EntryDecoded SeekFindsLowerBound StepsByOne
