\* Two filesets with different filters over two files, and two iterators.
CONSTANTS
    a = a
    Files = {a, b}
    Filesets = {f1, f2}
    First = f1
    Iters = {i1, i2}
    FilterOf <- MCFilterOf
    Ids = {1, 2, 3, 4, 5, 6}
SYMMETRY MCIterSymmetry
SPECIFICATION Spec
INVARIANTS TypeOK MergerFresh IteratorsSafe ReadersOwned DeferredReloadMade
\* When the last fileset is destroyed nothing is left to do.
CHECK_DEADLOCK FALSE
