----------------------------- MODULE Semaphore -----------------------------
(***************************************************************************)
(* The semaphores of lttit/RTOS/source/sem.c, used by tasks under the      *)
(* kernel of schedule.c and released by interrupt handlers.                *)
(*                                                                         *)
(* Neither call is one critical section.  semaphore_take leaves the        *)
(* section with the task in the wait tree but still ready, and only then   *)
(* calls task_delay; semaphore_release leaves it with the woken task in no *)
(* tree at all, and only then calls task_adt_add.  Both windows are steps  *)
(* here, open to interrupts and to the tasks those make ready.             *)
(***************************************************************************)
EXTENDS Kernel

CONSTANTS
    InitValue,  \* argument of semaphore_create
    ValueMod,   \* 2^w of semaphore.value (w = 8)
    Timeouts,   \* ticks passed to semaphore_take
    Naps,       \* ticks a task sleeps outside the calls
    MaxGiven,   \* bound on the releases by interrupt handlers
    LastTick    \* bound on the clock

ASSUME SemaphoreAssumption ==
    /\ ValueMod \in Nat /\ MaxGiven \in Nat /\ LastTick \in Nat
    /\ InitValue \in [Objects -> Nat]
    /\ Timeouts \subseteq Nat /\ Naps \subseteq Nat
    \* no release ever finds the 8-bit value at its maximum
    /\ \A o \in Objects : InitValue[o] + MaxGiven < ValueMod

VARIABLES
    k,          \* the kernel
    value,      \* semaphore.value
    pc,         \* where each task is
    on,         \* the semaphore it takes
    ticks,      \* how long it is ready to wait
    pend,       \* its copy of schedule_PendSV
    wake,       \* the task its release has still to make ready
    holders,    \* the tasks that took a token and have not released it
    given       \* how often interrupt handlers released each semaphore

vars == <<k, value, pc, on, ticks, pend, wake, holders, given>>
locals == <<on, ticks, pend, wake>>

\* delaying: left the first critical section of semaphore_take.
\* waiting: called task_delay.  waking: left that of semaphore_release.
Labels == {"run", "delaying", "waiting", "waking"}

TypeOK ==
    /\ k \in KernelState
    /\ value \in [Objects -> 0..(ValueMod - 1)]
    /\ pc \in [Tasks -> Labels]
    /\ on \in [Tasks -> Objects]
    /\ ticks \in [Tasks -> Nat]
    /\ pend \in [Tasks -> 0..(SwitchMod - 1)]
    /\ wake \in [Tasks -> Tasks \cup {NoTask}]
    /\ holders \in [Objects -> SUBSET Tasks]
    /\ given \in [Objects -> 0..MaxGiven]

Init ==
    /\ \E order \in StartOrders : k = Started(order)
    /\ value = InitValue
    /\ pc = [t \in Tasks |-> "run"]
    /\ on \in [Tasks -> Objects] /\ \A t, u \in Tasks : on[t] = on[u]
    /\ ticks = [t \in Tasks |-> 0]
    /\ pend = [t \in Tasks |-> 0]
    /\ wake = [t \in Tasks |-> NoTask]
    /\ holders = [o \in Objects |-> {}]
    /\ given = [o \in Objects |-> 0]

At(t, label) == Running(k, t) /\ pc[t] = label

obtain(t, o) ==
    /\ value' = [value EXCEPT ![o] = (@ - 1) % ValueMod]
    /\ holders' = [holders EXCEPT ![o] = @ \cup {t}]
-----------------------------------------------------------------------------
(***************************************************************************)
(* semaphore_take                                                          *)
(***************************************************************************)
\* Mutant of take_enter: the unsigned value is compared with >=.
take_enter_underflow(t, o, n) ==
    /\ At(t, "run")
    /\ t \notin holders[o]
    /\ value[o] >= 0
    /\ obtain(t, o)
    /\ UNCHANGED <<k, pc, locals, given>>

\* The first critical section: a token is there, or the call may not wait, or
\* the task joins the wait tree.
take_enter(t, o, n) ==
    /\ At(t, "run")
    /\ t \notin holders[o]
    /\ \/ /\ value[o] > 0
          /\ obtain(t, o)
          /\ UNCHANGED <<k, pc, locals, given>>
       \/ /\ value[o] = 0 /\ n = 0
          /\ UNCHANGED vars
       \/ /\ value[o] = 0 /\ n # 0
          /\ k' = insert_ipc(k, t, o)
          /\ pc' = [pc EXCEPT ![t] = "delaying"]
          /\ on' = [on EXCEPT ![t] = o]
          /\ ticks' = [ticks EXCEPT ![t] = n]
          /\ pend' = [pend EXCEPT ![t] = k.switches]
          /\ UNCHANGED <<value, wake, holders, given>>

take_delay(t) ==
    /\ At(t, "delaying")
    /\ k' = task_delay(k, ticks[t])
    /\ pc' = [pc EXCEPT ![t] = "waiting"]
    /\ ticks' = [ticks EXCEPT ![t] = 0]
    /\ UNCHANGED <<value, on, pend, wake, holders, given>>

\* while (pend == schedule_PendSV);  the switch has yet to come, or has come as
\* often as makes the 8-bit counter the same again.
take_spin(t) ==
    /\ At(t, "waiting")
    /\ pend[t] = k.switches
    /\ UNCHANGED vars

\* Mutants of take_return: a woken task does not look at the value again; a
\* task whose time is over stays in the wait tree.
take_return_unchecked(t) ==
    /\ At(t, "waiting")
    /\ pend[t] # k.switches
    /\ pc' = [pc EXCEPT ![t] = "run"]
    /\ pend' = [pend EXCEPT ![t] = 0]
    /\ IF check_ipc_state(k, t) THEN obtain(t, on[t]) /\ UNCHANGED k
       ELSE k' = remove_ipc(k, t) /\ UNCHANGED <<value, holders>>
    /\ UNCHANGED <<on, ticks, wake, given>>
take_return_queued(t) ==
    /\ At(t, "waiting")
    /\ pend[t] # k.switches
    /\ pc' = [pc EXCEPT ![t] = "run"]
    /\ pend' = [pend EXCEPT ![t] = 0]
    /\ IF check_ipc_state(k, t) /\ value[on[t]] > 0 THEN obtain(t, on[t])
       ELSE UNCHANGED <<value, holders>>
    /\ UNCHANGED <<k, on, ticks, wake, given>>

\* The loop has ended.  Still in the wait tree: the time is over.  Else a
\* release took it out; the token that release brought may be gone again.
take_return(t) ==
    /\ At(t, "waiting")
    /\ pend[t] # k.switches
    /\ pc' = [pc EXCEPT ![t] = "run"]
    /\ pend' = [pend EXCEPT ![t] = 0]
    /\ \/ /\ ~check_ipc_state(k, t)
          /\ k' = remove_ipc(k, t)
          /\ UNCHANGED <<value, holders>>
       \/ /\ check_ipc_state(k, t) /\ value[on[t]] > 0
          /\ obtain(t, on[t])
          /\ UNCHANGED k
       \/ /\ check_ipc_state(k, t) /\ value[on[t]] = 0
          /\ UNCHANGED <<k, value, holders>>
    /\ UNCHANGED <<on, ticks, wake, given>>
-----------------------------------------------------------------------------
(***************************************************************************)
(* semaphore_release                                                       *)
(***************************************************************************)
\* Mutant of unblock: the waiter keeps its place in the wait tree.
unblock_queued(w) == IF w = NoTask THEN k ELSE delay_adt_remove(k, w)

\* The most urgent waiter leaves the wait tree and the tree of sleepers.
unblock(w) == IF w = NoTask THEN k ELSE remove_ipc(delay_adt_remove(k, w), w)

increment(o) == value' = [value EXCEPT ![o] = (@ + 1) % ValueMod]

\* Mutant of release_enter: a token that is handed to a waiter is not counted.
release_uncounted(t, o) ==
    /\ At(t, "run")
    /\ t \in holders[o]
    /\ LET w == first_respond_ipc(k, o)
       IN  /\ k' = unblock(w)
           /\ wake' = [wake EXCEPT ![t] = w]
           /\ pc' = [pc EXCEPT ![t] = IF w = NoTask THEN "run" ELSE "waking"]
           /\ IF w = NoTask THEN increment(o) ELSE UNCHANGED value
    /\ holders' = [holders EXCEPT ![o] = @ \ {t}]
    /\ UNCHANGED <<on, ticks, pend, given>>

release_enter(t, o) ==
    /\ At(t, "run")
    /\ t \in holders[o]
    /\ LET w == first_respond_ipc(k, o)
       IN  /\ k' = unblock(w)
           /\ wake' = [wake EXCEPT ![t] = w]
           /\ pc' = [pc EXCEPT ![t] = IF w = NoTask THEN "run" ELSE "waking"]
    /\ increment(o)
    /\ holders' = [holders EXCEPT ![o] = @ \ {t}]
    /\ UNCHANGED <<on, ticks, pend, given>>

\* Mutant of release_wake: only a task that preempts is made ready.
release_wake_urgent(t) ==
    /\ At(t, "waking")
    /\ k' = IF sched_should_preempt(k, wake[t], t)
            THEN task_adt_add(k, wake[t]) ELSE k
    /\ pc' = [pc EXCEPT ![t] = "run"]
    /\ wake' = [wake EXCEPT ![t] = NoTask]
    /\ UNCHANGED <<value, on, ticks, pend, holders, given>>

release_wake(t) ==
    /\ At(t, "waking")
    /\ k' = task_adt_add(k, wake[t])
    /\ pc' = [pc EXCEPT ![t] = "run"]
    /\ wake' = [wake EXCEPT ![t] = NoTask]
    /\ UNCHANGED <<value, on, ticks, pend, holders, given>>

\* semaphore_release from an interrupt handler: no task runs in between.
irq_release(o) ==
    /\ SysTickTaken(k)
    /\ given[o] < MaxGiven
    /\ LET w == first_respond_ipc(k, o)
       IN  k' = IF w = NoTask THEN k ELSE task_adt_add(unblock(w), w)
    /\ increment(o)
    /\ given' = [given EXCEPT ![o] = @ + 1]
    /\ UNCHANGED <<pc, locals, holders>>
-----------------------------------------------------------------------------
nap(t) ==
    /\ At(t, "run")
    /\ \E n \in Naps : k' = task_delay(k, n)
    /\ UNCHANGED <<value, pc, locals, holders, given>>

\* leisure_task finds no deleted task.
leisure_task == Running(k, Idle) /\ UNCHANGED vars

PendSV ==
    /\ PendSVTaken(k)
    /\ k' = task_switch_context(k)
    /\ UNCHANGED <<value, pc, locals, holders, given>>

SysTick ==
    /\ SysTickTaken(k)
    /\ k.now < LastTick
    /\ k' = tick(k)
    /\ UNCHANGED <<value, pc, locals, holders, given>>

check_ticks ==
    /\ InCheckTicks(k)
    /\ k' = IF Expired(k) THEN wake_first(k) ELSE [k EXCEPT !.isr = FALSE]
    /\ UNCHANGED <<value, pc, locals, holders, given>>

\* A tree is corrupt: what the program does from here on is undefined, and
\* nothing of it is modelled.
undefined == k.corrupt /\ UNCHANGED vars

Step(t) ==
    \/ \E o \in Objects : \/ \E n \in Timeouts : take_enter(t, o, n)
                          \/ release_enter(t, o)
    \/ take_delay(t) \/ take_spin(t) \/ take_return(t)
    \/ release_wake(t) \/ nap(t)

Next ==
    \/ \E t \in Tasks : Step(t)
    \/ \E o \in Objects : irq_release(o)
    \/ leisure_task \/ PendSV \/ SysTick \/ check_ticks \/ undefined

Spec == Init /\ [][Next]_vars
-----------------------------------------------------------------------------
(***************************************************************************)
(* Properties                                                              *)
(***************************************************************************)
\* Every token is in the semaphore or with one task: none is made or lost by
\* releases that hand over to a waiter, time-outs that race with them, or tasks
\* that take the token between the release and the waiter's return.
TokensConserved ==
    \A o \in Objects :
        value[o] + Cardinality(holders[o]) = InitValue[o] + given[o]

\* A semaphore created with 1 and never released by an interrupt handler gives
\* mutual exclusion.
MutualExclusion ==
    \A o \in Objects : InitValue[o] = 1 /\ given[o] = 0 =>
        \A t, u \in holders[o] : t = u

\* The tasks that a release took out of the wait tree and that have not
\* returned from semaphore_take yet.
Woken(o) ==
    {t \in Tasks : /\ pc[t] \in {"delaying", "waiting"} /\ on[t] = o
                   /\ t \notin Nodes(k.waits[o])}

\* No wake-up is lost in the wait tree: while a task is still queued, every
\* token has a woken task that was sent for it.
NoTokenBesideWaiters ==
    \A o \in Objects : k.waits[o] # <<>> => value[o] <= Cardinality(Woken(o))

\* The wait tree holds exactly the callers that wait, once each, whatever
\* time-outs and releases cross: no return leaves its node behind.
WaitersAreCallers ==
    \A o \in Objects :
        /\ NoTwice(k.waits[o])
        /\ \A t \in Nodes(k.waits[o]) :
              pc[t] \in {"delaying", "waiting"} /\ on[t] = o

\* No task drops out of the system: it is ready, or asleep, or some release
\* that took it out of the sleepers has still to make it ready.
NobodyLost ==
    \A t \in Tasks :
        \/ t \in Nodes(k.ready) \cup Nodes(k.sleep)
        \/ \E u \in Tasks : pc[u] = "waking" /\ wake[u] = t

\* What makes them inductive: a caller that waits holds no token of its
\* semaphore, and a release that has still to wake knows whom.
CallersHoldNone ==
    \A t \in Tasks : pc[t] \in {"delaying", "waiting"} => t \notin holders[on[t]]
WakersKnowWhom ==
    \A t \in Tasks : pc[t] = "waking" => wake[t] \in Tasks

IInv ==
    /\ TypeOK
    /\ TokensConserved /\ CallersHoldNone
    /\ WaitersAreCallers /\ NoTokenBesideWaiters
    /\ NobodyLost /\ WakersKnowWhom

\* The semaphores implement CountingSemaphore.
Abstract == INSTANCE CountingSemaphore
                WITH Semaphores <- Objects, Initial <- InitValue, count <- value
ImplementsCounting == Abstract!Spec

\* docs: a task that calls task_delay(n) stays away for n ms.  Expected to fail:
\* the second half of a release may find its task asleep again, in another call.
AsleepIsNotReady == Nodes(k.sleep) \cap Nodes(k.ready) = {}
=============================================================================
