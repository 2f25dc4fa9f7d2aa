SPECIFICATION Spec
CONSTANTS
    total_pages = 7
    MAX_ORDER = 3
    Reserved = {5}
    MaxRefs = 2
INVARIANTS EveryPageHasOnePlace
PROPERTY KeepsPromise
