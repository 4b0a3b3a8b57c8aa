\* Up to five entries with two keys, in chunks of two, with and without a pool.
CONSTANTS
    Keys = {1, 2}
    MaxMemory = 2
    MaxAdds = 5
SPECIFICATION FairSpec
INVARIANTS TypeOK NothingLost OutputComplete
PROPERTIES ReadersFixed IterReturns
\* A sorter is used once.
CHECK_DEADLOCK FALSE
