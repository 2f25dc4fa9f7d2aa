SPECIFICATION Spec
CONSTANTS
    Procs = {p1, p2}
    Programs = {prog}
    Data = {a}
    Zero = Zero
    Trampoline = Trampoline
    Nothing = Nothing
    CODE_PAGES = 1
    STACK_START = 5
    USER_TOP = 6
    SIGNAL_PAGE = 4
    Frames = {f1, f2, f3}
    NoFrame = NoFrame
    PTRS = 2
    MMAP_BASE = 2
    Hints = {0}
    Lengths = {1, 2}
    Prots <- ReadWrite
    TablesRunOut = TRUE
    AreasRunOut = FALSE
    MaxRefs = 3
    Unruly = {}
SYMMETRY Interchangeable
VIEW LaterSteps
INVARIANT AllowedAccessesSucceed
PROPERTIES FramesAreCounted IsPrivateMemory
