SPECIFICATION Spec
CONSTANTS
    pt = pt
    rt = rt
    be = be
    Tasks = {pt, rt, be}
    Idle = Idle
    NoTask = NoTask
    SendTree = SendTree
    RecvTree = RecvTree
    Objects = {SendTree, RecvTree}
    Messages = {x, y}
    NoMessage = NoMessage
    NodeNum = 1
    NumMod = 8
    Senders = {pt, rt}
    Receivers = {be}
    SendTicks = {6}
    RecvTicks = {0, 1, 6}
    Naps = {1, 2}
    LastTick = 3
    Period <- MCPeriod
    Deadline <- MCDeadline
    TickMod = 16
    DelayMod = 8
    SwitchMod = 4
INVARIANT NeverOverfull
