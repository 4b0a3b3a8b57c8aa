\* Every bound and every seek over the keys; key 0 is the empty key.
CONSTANTS
    Collections <- MCCollections
    Keys <- MCKeys
SPECIFICATION Spec
INVARIANTS TypeOK HeapOrdered NothingLost
PROPERTY NextReturnsLeast
\* A caller may do nothing: sources without keys in range give no iterator.
CHECK_DEADLOCK FALSE
