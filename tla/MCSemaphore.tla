---------------------------- MODULE MCSemaphore ----------------------------
(* One semaphore between two real-time tasks and a best-effort task. *)
EXTENDS Semaphore

CONSTANTS a, b, c, s

MCPeriod == [t \in {a, b, c} |-> IF t = a THEN 1 ELSE IF t = b THEN 5 ELSE 0]
MCDeadline == [t \in {a, b, c} |-> IF t = a THEN 1 ELSE IF t = b THEN 5 ELSE 0]
MCInitValue == [o \in {s} |-> 1]
=============================================================================
