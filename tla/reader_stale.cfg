\* A seek after which the iterator does not stand on the lower bound.
CONSTANTS
    Files <- MCFiles
    Bases <- MCBases
    Keys <- MCKeys
SPECIFICATION Spec
INVARIANT SeekLands
CHECK_DEADLOCK FALSE
