\* A writer and a sorter share two threads, two jobs each; the application may do
\* nothing more at any time.
CONSTANTS
    w = w
    s = s
    None = None
    Handlers <- MCBoth
    Ordered <- MCWriter
    Jobs <- MCTwoEach
    MaxThreads = 2
    SizeMax = 7
SPECIFICATION ServiceFairSpec
INVARIANTS TypeOK AssertsHold ThreadPlaced NoUseAfterFree
PROPERTIES ServiceSpec JobsDelivered
\* Everything stops once the pool is destroyed.
CHECK_DEADLOCK FALSE
