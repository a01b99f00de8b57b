SPECIFICATION Spec
CONSTANTS
    CHUNK_SIZE = 2
    Elements = {1, 2}
    InitialSizes = {1, 2, 3}
    Sizes = {1, 2, 3, 4, 5, 6, 7}
    Slacks = {0, 1}
    MaxUpdates = 4
INVARIANT TextsReadBack
CHECK_DEADLOCK FALSE
