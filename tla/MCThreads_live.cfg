SPECIFICATION FairSpec
CONSTANTS
    Tasks = {idle, shell, t1, t2}
    Idle = idle
    Shell = shell
    NULL = NULL
    Sigs = {}
    Calls = {"exec", "fork", "exit", "waitpid"}
    Protected = {0}
    FooThreads = 1
    MaxPid = 4
    MaxTimers = 0
PROPERTIES RunnableGetsCpu OrphansAreFreed WaitpidReturns
INVARIANT ZombieHasReaper
