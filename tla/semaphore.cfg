SPECIFICATION Spec
CONSTANTS
    a = a
    b = b
    c = c
    s = s
    Tasks = {a, b, c}
    Idle = Idle
    NoTask = NoTask
    Objects = {s}
    Period <- MCPeriod
    Deadline <- MCDeadline
    TickMod = 16
    DelayMod = 8
    SwitchMod = 4
    InitValue <- MCInitValue
    ValueMod = 4
    Timeouts = {0, 1, 8}
    Naps = {1, 2}
    MaxGiven = 1
    LastTick = 3
INVARIANTS
    TokensConserved
    MutualExclusion
    NoTokenBesideWaiters
    WaitersAreCallers
    NobodyLost
PROPERTIES
    ImplementsCounting
