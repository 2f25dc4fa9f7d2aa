SPECIFICATION Spec
CONSTANTS
    total_pages = 4
    MAX_ORDER = 2
    Reserved = {0}
    PAGE_SIZE = 4
    pool_sizes <- TwoPools
    Sizes = {1, 2, 3, 7}
    MaxObjects = 4
INVARIANTS ObjectsAreSound ChunksAreConserved NoBlockIsLost
