SPECIFICATION Spec
CONSTANTS
    a = a
    b = b
    c = c
    s = s
    Tasks = {a, b, c}
    Idle = Idle
    NoTask = NoTask
    Objects = {s}
    Period <- MCPeriod
    Deadline <- MCDeadline
    TickMod = 16
    DelayMod = 8
    SwitchMod = 8
    InitValue <- MCInitValue
    ValueMod = 4
    Timeouts = {1}
    Naps = {1, 2}
    MaxGiven = 0
    LastTick = 3
INVARIANT AsleepIsNotReady
