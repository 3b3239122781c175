---------------------------- MODULE MCScheduler ----------------------------
(* Two real-time tasks, one of them periodic, and a best-effort task. *)
EXTENDS Scheduler

CONSTANTS a, b, c

MCPeriod == [t \in {a, b, c} |-> IF t = a THEN 2 ELSE 0]
MCDeadline == [t \in {a, b, c} |-> IF t = a THEN 1 ELSE IF t = b THEN 3 ELSE 0]
=============================================================================
