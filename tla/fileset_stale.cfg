\* The same, for reload_now() on a fileset that is out of date.
CONSTANTS
    a = a
    Files = {a, b}
    Filesets = {f1, f2}
    First = f1
    Iters = {i1, i2}
    FilterOf <- MCFilterOf
    Ids = {1, 2, 3, 4, 5, 6}
SYMMETRY MCIterSymmetry
SPECIFICATION Spec
INVARIANT UpToDateIsFresh
\* When the last fileset is destroyed nothing is left to do.
CHECK_DEADLOCK FALSE
