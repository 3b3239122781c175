--------------------------- MODULE MCMessageQueue ---------------------------
(* A periodic task, a real-time task and a best-effort task at one queue. *)
EXTENDS MessageQueue

CONSTANTS pt, rt, be

MCPeriod == [t \in {pt, rt, be} |-> IF t = pt THEN 1 ELSE 0]
MCDeadline == [t \in {pt, rt, be} |-> IF t = pt THEN 1 ELSE IF t = rt THEN 3 ELSE 0]
=============================================================================
