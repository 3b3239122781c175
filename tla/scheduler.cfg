SPECIFICATION FairSpec
CONSTANTS
    a = a
    b = b
    c = c
    Tasks = {a, b, c}
    Idle = Idle
    NoTask = NoTask
    Objects = {}
    Period <- MCPeriod
    Deadline <- MCDeadline
    TickMod = 16
    DelayMod = 4
    SwitchMod = 1
    Delays = {0, 1, 2, 4}
    MaxNest = 2
    LastTick = 5
INVARIANTS
    TreesIntact
    TasksPartitioned
    RunningIsReady
    NoIdleWhileReady
    UrgentNotKeptWaiting
    DeferredNotForgotten
    NeverOverdue
PROPERTIES
    LockKeepsProcessor
    SleepersWake
