SPECIFICATION ChannelsSpec
CONSTANTS
    pt = pt
    rt = rt
    be = be
    Tasks = {pt, rt, be}
    Idle = Idle
    NoTask = NoTask
    SendTree = SendTree
    RecvTree = RecvTree
    Objects = {SendTree, RecvTree}
    Messages = {x, y}
    NoMessage = NoMessage
    NodeNum = 2
    NumMod = 8
    Senders = {rt}
    Receivers = {be}
    SendTicks = {0, 1, 6}
    RecvTicks = {0, 1, 6}
    Naps = {1}
    LastTick = 3
    Period <- MCPeriod
    Deadline <- MCDeadline
    TickMod = 16
    DelayMod = 8
    SwitchMod = 4
    client = client
    listener = listener
    Ends = {client, listener}
    Clients = {client}
    Iss <- MCIss
    SeqSpace = 16
    Mss = 2
    Mtu = 3
    SsthreshInit = 4
    SendWinInit = 2
    RecvWinInit = 2
    Hiwat = 2
    FragCounts = {1, 2}
    GapMax = 2
    TimeoutMax = 1
    CwndMax = 4
    SendSizes = {1, 2}
    RecvSizes = {2}
    Sizes <- MCSizes
INVARIANTS
    NoMessageBesideReceivers
    NobodyLost
    AckedWasTaken
    WindowCountsQueued
    FlightIsTimed
PROPERTIES
    ImplementsFifo
    ImplementsStream
