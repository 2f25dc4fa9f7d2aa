SPECIFICATION Spec
CONSTANTS
    Tasks = {idle, shell, t1, t2}
    Idle = idle
    Shell = shell
    NULL = NULL
    Sigs = {1}
    Calls = {"exec", "exit", "testThread", "oom", "usleep", "kill", "selfkill", "signal", "unsignal"}
    Protected = {0}
    FooThreads = 1
    MaxPid = 4
    MaxTimers = 1
SYMMETRY Interchangeable
INVARIANTS RunningTaskIsQueued VictimIsIdlesAlone
