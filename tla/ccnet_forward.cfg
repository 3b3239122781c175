SPECIFICATION Spec
CONSTANTS
    NodeCount = 3
    INF = 99
    CostMatrices <- Rows
    TTL_DEFAULT = 16
    Senders <- First
    Ttls <- DefaultTtl
    MaxSent = 1
CHECK_DEADLOCK FALSE
INVARIANT ForwardedUntilArrived
