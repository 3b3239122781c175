----------------------------- MODULE Resources -----------------------------
(***************************************************************************)
(* What every task of a node has beside the scheduler: software timers and *)
(* the heap.  They share no state: one of them moves, the other rests.     *)
(***************************************************************************)
EXTENDS Parts, Integers, Sequences, FiniteSets

CONSTANTS
    TimerObjs, Periods, CountsFirst, TimerMod, TimerEnd,
    HeapWords, HeapRequests

VARIABLES
    counts_first, now, clock_tree, obj, serving, created, fired,
    covers, list, used, all_size, lost

Timers == INSTANCE Timers
              WITH Timers <- TimerObjs, TickMod <- TimerMod, LastTick <- TimerEnd

Heap == INSTANCE Heap WITH Words <- HeapWords, Requests <- HeapRequests

ASSUME TimerAssumption == Timers!Assumption
ASSUME HeapAssumption == Heap!Assumption
-----------------------------------------------------------------------------
\* Every timer fires once per period.
FiresEveryPeriod == part = "timers" => Timers!FiresEveryPeriod

\* The blocks of the heap tile the arena.
BlocksTileArena == part = "heap" => Heap!BlocksTileArena
=============================================================================
