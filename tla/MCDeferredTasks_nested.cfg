SPECIFICATION TasksFairSpec
CONSTANTS
    Threads = {shell, other}
    shell = shell
    Batch <- TestTask
    Outlasts = FALSE
    MaxTasks = 6
    MaxDepth = 4
INVARIANTS PriorityIsOfRunning
PROPERTIES MostUrgentStarts TasksRun
