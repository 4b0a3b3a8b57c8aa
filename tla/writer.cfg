\* Every subset of the keys, refused keys included, with blocks of one entry and
\* of several, with and without a pool.
CONSTANTS
    Keys <- MCKeys
    EntryBytes = {1, 3}
    BlockSize = 3
    DiskBytes = {1, 2}
    Starts = {0, 5}
SPECIFICATION FairSpec
INVARIANTS TypeOK IndexLocates SeparatorsSeparate FileIsReadable
PROPERTIES ImplementsTable DestroyReturns
\* A file is written once.
CHECK_DEADLOCK FALSE
