SPECIFICATION Spec
CONSTANTS
    Tasks = {idle, shell, t1, t2, t3}
    Idle = idle
    Shell = shell
    NULL = NULL
    Sigs = {}
    Calls = {"exec", "fork", "exit", "testThread", "waitpid"}
    Protected = {0}
    FooThreads = 1
    MaxPid = 5
    MaxTimers = 0
SYMMETRY Interchangeable
PROPERTY WaitpidCollectsTheChild
