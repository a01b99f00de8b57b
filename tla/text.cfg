SPECIFICATION Spec
CONSTANTS
    CHUNK_SIZE = 2
    Elements = {1, 2}
    InitialSizes = {1, 3}
    Sizes = {1, 2, 3, 4, 5, 6, 7}
    Slacks = {0, 1}
    MaxUpdates = 4
INVARIANTS
    TypeOK
    TextsReadBack
    TextsAreDisjoint
    ChunksFitTheirToast
\* The bound on the updates, and a request that ran into the root's block.
CHECK_DEADLOCK FALSE
