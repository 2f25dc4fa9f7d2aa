SPECIFICATION TimerFairSpec
CONSTANTS
    Slice = 2
    Delays = {1, 3}
    Never = Never
    Unlucky = {"other"}
    MaxTimers = 3
    Handlers = {1, 2}
INVARIANTS TimersAreSorted RegisterCoversHead
PROPERTIES EventsFire SlicesEnd
