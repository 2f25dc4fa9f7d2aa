SPECIFICATION TimerSpec
CONSTANTS
    Slice = 2
    Delays = {0, 1, 3}
    Never = Never
    Unlucky = {}
    MaxTimers = 4
    Handlers = {1, 2}
PROPERTY SliceEndsInSchedule
