SPECIFICATION Spec
CONSTANTS
    Tasks = {idle, shell, t1, t2}
    Idle = idle
    Shell = shell
    NULL = NULL
    Sigs = {}
    Calls = {"exec", "fork", "exit", "waitpid", "stop"}
    Protected = {0, 1}
    FooThreads = 1
    MaxPid = 4
    MaxTimers = 0
SYMMETRY Interchangeable
INVARIANT ZombieHasReaper
