SPECIFICATION TasksSpec
CONSTANTS
    Threads = {shell, other}
    shell = shell
    Batch <- TestTask
    Outlasts = TRUE
    MaxTasks = 6
    MaxDepth = 4
INVARIANT IdlePriority
