------------------------------ MODULE MCMutex ------------------------------
(* Two mutexes, locked in any order, by two real-time tasks and one that is
   best-effort. *)
EXTENDS Mutex, TLC

CONSTANTS a, b, c, m, n

MutexSymmetry == Permutations({m, n})

MCPeriod == [t \in {a, b, c} |-> IF t = a THEN 1 ELSE 0]
MCDeadline == [t \in {a, b, c} |-> IF t = a THEN 1 ELSE IF t = b THEN 3 ELSE 0]
=============================================================================
