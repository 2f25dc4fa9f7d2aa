SPECIFICATION Spec
CONSTANTS
    Tasks = {idle, shell, t1, t2}
    Idle = idle
    Shell = shell
    NULL = NULL
    Sigs = {}
    Calls = {"exec", "fork", "stop", "waitpid", "usleep"}
    Protected = {0}
    FooThreads = 1
    MaxPid = 5
    MaxTimers = 2
SYMMETRY Interchangeable
PROPERTY WokenByOwnTimer
