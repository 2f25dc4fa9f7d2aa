SPECIFICATION Spec
CONSTANTS
    Threads = {idle, p1, p2}
    Boot = idle
    Values = {0, 1}
    MaxFrames = 2
VIEW Live
SYMMETRY Interchangeable
INVARIANT SscratchTellsMode
PROPERTY IsOwnHart
