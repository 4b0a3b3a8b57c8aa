\* Every key asked for and every bound, on files of up to three leaves.
CONSTANTS
    Files <- MCFiles
    Bases <- MCBases
    Keys <- MCKeys
SPECIFICATION Spec
INVARIANTS TypeOK StandsOnNextKey
PROPERTIES SeekRightWhenInSync NextReturnsLeast
\* A caller may do nothing: an empty file yields no iterator.
CHECK_DEADLOCK FALSE
