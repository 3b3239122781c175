------------------------- MODULE CountingSemaphore -------------------------
(***************************************************************************)
(* What a set of semaphores promises: tokens are handed to one task each   *)
(* and are neither made nor lost.                                          *)
(***************************************************************************)
EXTENDS Naturals, FiniteSets

CONSTANTS Tasks, Semaphores, Initial

VARIABLES count, holders

TypeOK ==
    /\ count \in [Semaphores -> Nat]
    /\ holders \in [Semaphores -> SUBSET Tasks]

Init ==
    /\ count = Initial
    /\ holders = [s \in Semaphores |-> {}]

\* A task obtains a token that is there.
Take(t, s) ==
    /\ count[s] > 0
    /\ t \notin holders[s]
    /\ count' = [count EXCEPT ![s] = @ - 1]
    /\ holders' = [holders EXCEPT ![s] = @ \cup {t}]

\* A holder gives its token back.
Release(t, s) ==
    /\ t \in holders[s]
    /\ count' = [count EXCEPT ![s] = @ + 1]
    /\ holders' = [holders EXCEPT ![s] = @ \ {t}]

\* An interrupt handler brings a new token.
Give(s) ==
    /\ count' = [count EXCEPT ![s] = @ + 1]
    /\ UNCHANGED holders

Next ==
    \E s \in Semaphores : Give(s) \/ \E t \in Tasks : Take(t, s) \/ Release(t, s)

Spec == Init /\ [][Next]_<<count, holders>>
=============================================================================
