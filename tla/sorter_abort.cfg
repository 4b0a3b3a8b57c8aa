\* Two chunks that share a key.
CONSTANTS
    Keys = {1, 2}
    MaxMemory = 2
    MaxAdds = 4
SPECIFICATION Spec
INVARIANT WriteReportsFailure
CHECK_DEADLOCK FALSE
