SPECIFICATION Spec
CONSTANTS
    a = a
    b = b
    c = c
    Tasks = {a, b, c}
    Idle = Idle
    NoTask = NoTask
    Objects = {}
    Period <- MCPeriod
    Deadline <- MCDeadline
    TickMod = 8
    DelayMod = 4
    SwitchMod = 1
    Delays = {1, 3}
    MaxNest = 0
    LastTick = 8
INVARIANT NeverOverdue
