SPECIFICATION ServicesSpec
CONSTANTS
    na = na
    nb = nb
    a1 = a1
    a2 = a2
    b1 = b1
    NoCall = NoCall
    ea = ea
    eb = eb
    ec = ec
    d1 = d1
    d2 = d2
    Blank = Blank
    ta = ta
    tb = tb
    tc = tc
    td = td
    Tasks = {ta, tb, tc, td}
    m1 = m1
    m2 = m2
    NoMessage = NoMessage
    FsShape <- MCShape
    Blocks = {4, 5, 6}
    NDIRECT = 2
    Buffers <- MCBuffers
    Offsets = {0, 1}
    QueueTasks = {ta, tb, tc}
    Messages = {m1, m2}
    BufferSize = 2
    CallNodes = {na, nb}
    Callers = {a1, a2, b1}
    CallHome <- MCHome
    CallPieces = 2
    CallSizes <- MCSizes
    NodeCount = 4
    CostMatrices <- MCGraphs
    INF = 99
    TTL_DEFAULT = 16
    Senders = {0}
    Ttls = {0, 1}
    MaxSent = 1
    TimerObjs = {ta, tb, tc}
    Periods = {1, 2}
    CountsFirst = {TRUE, FALSE}
    TimerMod = 64
    TimerEnd = 4
    HeapWords = 10
    HeapRequests = {0, 1, 2, 3}
CHECK_DEADLOCK FALSE
INVARIANTS
    TreeIsSound
    PendingAreWaiting
    OkMeansExecuted
    RoutesReach
    BlocksTileArena
    TreeIsBalanced
    WriterExcludes
    NobodyStranded
    FiresEveryPeriod
    NamesResolve
    DoesWhatSourceSays
PROPERTIES
    ImplementsFiles
    ImplementsRbTree
    ImplementsFifo
