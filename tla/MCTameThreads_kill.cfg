SPECIFICATION Spec
CONSTANTS
    Tasks = {idle, shell, t1, t2}
    Idle = idle
    Shell = shell
    NULL = NULL
    Sigs = {1}
    Calls = {"exec", "fork", "exit", "waitpid", "uart", "stop", "kill", "signal", "usleep"}
    Protected = {0}
    FooThreads = 1
    MaxPid = 4
    MaxTimers = 2
SYMMETRY Interchangeable
INVARIANTS PidsAreUnique WaitpidWalksWholeQueue SleeperHasTimer InductiveInv
PROPERTIES ZombiesStayDead IsProcessLifecycle
