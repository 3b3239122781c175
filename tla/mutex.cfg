SPECIFICATION Spec
CONSTANTS
    a = a
    b = b
    c = c
    m = m
    n = n
    Tasks = {a, b, c}
    Idle = Idle
    NoTask = NoTask
    Objects = {m, n}
    NoMutex = NoMutex
    Period <- MCPeriod
    Deadline <- MCDeadline
    TickMod = 16
    DelayMod = 8
    SwitchMod = 4
    ValueMod = 4
    Timeouts = {0, 1, 5}
    Naps = {1}
    LastTick = 1
INVARIANTS
    ValueCountsHolders
    WaitingObjIsQueue
    NobodyLost
PROPERTIES
    InheritanceReachesChain
SYMMETRY MutexSymmetry
