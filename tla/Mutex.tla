------------------------------- MODULE Mutex -------------------------------
(***************************************************************************)
(* The mutexes of lttit/RTOS/source/mutex.c, with priority inheritance     *)
(* along the chain of owners that wait for one another.                    *)
(*                                                                         *)
(* As in sem.c the calls leave their critical section before task_delay    *)
(* and before task_adt_add.  Unlike semaphore_take, mutex_lock does not    *)
(* look at the value again after it was woken: it always counts it down    *)
(* and always takes the ownership.                                         *)
(***************************************************************************)
EXTENDS Kernel

CONSTANTS
    NoMutex,    \* TCB.waiting_obj == NULL
    ValueMod,   \* 2^w of mutex.value (w = 8)
    Timeouts,   \* ticks passed to mutex_lock
    Naps,       \* ticks a task sleeps outside the calls
    LastTick    \* bound on the clock

ASSUME MutexAssumption ==
    /\ NoMutex \notin Objects
    /\ ValueMod \in Nat /\ ValueMod > 1 /\ LastTick \in Nat
    /\ Timeouts \subseteq Nat /\ Naps \subseteq Nat

VARIABLES
    k,          \* the kernel
    value,      \* mutex.value
    owner,      \* mutex.owner
    orig,       \* mutex.owner_orig_prio
    waiting,    \* TCB.waiting_obj
    pc,         \* where each task is
    on,         \* the mutex it locks
    ticks,      \* how long it is ready to wait
    pend,       \* its copy of schedule_PendSV
    wake,       \* the task its unlock has still to make ready
    holders     \* the tasks whose mutex_lock returned true, until they unlock

mutexes == <<value, owner, orig>>
locals == <<on, ticks, pend, wake>>
vars == <<k, mutexes, waiting, pc, locals, holders>>

\* delaying: left the first critical section of mutex_lock.
\* waiting: called task_delay.  waking: left that of mutex_unlock.
Labels == {"run", "delaying", "waiting", "waking"}

TypeOK ==
    /\ k \in KernelState
    /\ value \in [Objects -> 0..(ValueMod - 1)]
    /\ owner \in [Objects -> Tasks \cup {NoTask}]
    /\ orig \in [Objects -> Ticks]
    /\ waiting \in [Tasks -> Objects \cup {NoMutex}]
    /\ pc \in [Tasks -> Labels]
    /\ on \in [Tasks -> Objects \cup {NoMutex}]
    /\ ticks \in [Tasks -> Nat]
    /\ pend \in [Tasks -> 0..(SwitchMod - 1)]
    /\ wake \in [Tasks -> Tasks \cup {NoTask}]
    /\ holders \in [Objects -> SUBSET Tasks]

Init ==
    /\ \E order \in StartOrders : k = Started(order)
    /\ value = [o \in Objects |-> 1]
    /\ owner = [o \in Objects |-> NoTask]
    /\ orig = [o \in Objects |-> 0]
    /\ waiting = [t \in Tasks |-> NoMutex]
    /\ pc = [t \in Tasks |-> "run"]
    /\ on = [t \in Tasks |-> NoMutex]
    /\ ticks = [t \in Tasks |-> 0]
    /\ pend = [t \in Tasks |-> 0]
    /\ wake = [t \in Tasks |-> NoTask]
    /\ holders = [o \in Objects |-> {}]

At(t, label) == Running(k, t) /\ pc[t] = label
-----------------------------------------------------------------------------
\* Mutant of inherit_prio: the first owner only.
inherit_once(kk, wobj, o, t) ==
    IF owner[o] # NoTask /\ kk.dl[t] < kk.dl[owner[o]]
    THEN rtos_task_change_prio(kk, owner[o], kk.dl[t]) ELSE kk

\* One call of inherit_prio: the owner becomes at least as urgent as the waiter,
\* and the next call is for the owner of the mutex it waits for itself.
climb(p, wobj) ==
    LET prio == p.k.dl[p.waiter]
    IN  IF p.owner = NoTask THEN p
        ELSE [k |-> IF prio < p.k.dl[p.owner]
                    THEN rtos_task_change_prio(p.k, p.owner, prio) ELSE p.k,
              owner |-> IF wobj[p.owner] = NoMutex THEN NoTask
                        ELSE owner[wobj[p.owner]],
              waiter |-> p.owner]

\* The calls one after the other, from inherit_prio(owner[o], t) on.
chain(kk, wobj, o, t) ==
    LET turn[i \in Nat] == IF i = 0 THEN [k |-> kk, owner |-> owner[o], waiter |-> t]
                           ELSE climb(turn[i - 1], wobj)
    IN  turn

\* inherit_prio(owner[o], t), once t waits for o: every owner along the chain
\* becomes at least as urgent as t.  A chain longer than there are tasks is a
\* circle, on which the recursion of the code exhausts the stack.
inherit_prio(kk, wobj, o, t) ==
    LET last == chain(kk, wobj, o, t)[Cardinality(Tasks) + 1]
    IN  IF last.owner = NoTask THEN last.k ELSE corrupted(last.k)

\* Ownership of o passes to t.
own(t, o) ==
    /\ value' = [value EXCEPT ![o] = (@ - 1) % ValueMod]
    /\ owner' = [owner EXCEPT ![o] = t]
    /\ orig' = [orig EXCEPT ![o] = k.dl[t]]
    /\ waiting' = [waiting EXCEPT ![t] = NoMutex]
    /\ holders' = [holders EXCEPT ![o] = @ \cup {t}]

lock_enter(t, o, n) ==
    /\ At(t, "run")
    /\ t \notin holders[o]
    /\ \/ /\ value[o] > 0
          /\ own(t, o)
          /\ UNCHANGED <<k, pc, locals>>
       \/ /\ value[o] = 0 /\ n = 0
          /\ UNCHANGED vars
       \/ /\ value[o] = 0 /\ n # 0
          /\ waiting' = [waiting EXCEPT ![t] = o]
          /\ k' = inherit_prio(insert_ipc(k, t, o), waiting', o, t)
          /\ pc' = [pc EXCEPT ![t] = "delaying"]
          /\ on' = [on EXCEPT ![t] = o]
          /\ ticks' = [ticks EXCEPT ![t] = n]
          /\ pend' = [pend EXCEPT ![t] = k.switches]
          /\ UNCHANGED <<mutexes, wake, holders>>

lock_delay(t) ==
    /\ At(t, "delaying")
    /\ k' = task_delay(k, ticks[t])
    /\ pc' = [pc EXCEPT ![t] = "waiting"]
    /\ ticks' = [ticks EXCEPT ![t] = 0]
    /\ UNCHANGED <<mutexes, waiting, on, pend, wake, holders>>

lock_spin(t) ==
    /\ At(t, "waiting")
    /\ pend[t] = k.switches
    /\ UNCHANGED vars

\* Mutant of lock_return: waiting_obj is left behind when the time is over.
lock_return_stale(t) ==
    /\ At(t, "waiting")
    /\ pend[t] # k.switches
    /\ pc' = [pc EXCEPT ![t] = "run"]
    /\ pend' = [pend EXCEPT ![t] = 0]
    /\ on' = [on EXCEPT ![t] = NoMutex]
    /\ IF check_ipc_state(k, t) THEN own(t, on[t]) /\ UNCHANGED k
       ELSE k' = remove_ipc(k, t) /\ UNCHANGED <<mutexes, waiting, holders>>
    /\ UNCHANGED <<ticks, wake>>

\* Still in the wait tree: the time is over.  Else the mutex is taken, whether
\* or not its value is still the one the unlock left.
lock_return(t) ==
    /\ At(t, "waiting")
    /\ pend[t] # k.switches
    /\ pc' = [pc EXCEPT ![t] = "run"]
    /\ pend' = [pend EXCEPT ![t] = 0]
    /\ on' = [on EXCEPT ![t] = NoMutex]
    /\ \/ /\ ~check_ipc_state(k, t)
          /\ k' = remove_ipc(k, t)
          /\ waiting' = [waiting EXCEPT ![t] = NoMutex]
          /\ UNCHANGED <<mutexes, holders>>
       \/ /\ check_ipc_state(k, t)
          /\ own(t, on[t])
          /\ UNCHANGED k
    /\ UNCHANGED <<ticks, wake>>

\* The most urgent waiter leaves the wait tree and the tree of sleepers.
unblock(w) == IF w = NoTask THEN k ELSE remove_ipc(delay_adt_remove(k, w), w)

\* Mutant of unlock_enter: a mutex that is handed to a waiter is not counted.
unlock_uncounted(t, o) ==
    /\ At(t, "run")
    /\ t \in holders[o]
    /\ LET w == first_respond_ipc(k, o)
       IN  /\ k' = unblock(w)
           /\ waiting' = [x \in Tasks |-> IF x = w THEN NoMutex ELSE waiting[x]]
           /\ wake' = [wake EXCEPT ![t] = w]
           /\ pc' = [pc EXCEPT ![t] = IF w = NoTask THEN "run" ELSE "waking"]
           /\ value' = [value EXCEPT ![o] = IF w = NoTask THEN @ + 1 ELSE @]
    /\ owner' = [owner EXCEPT ![o] = NoTask]
    /\ holders' = [holders EXCEPT ![o] = @ \ {t}]
    /\ UNCHANGED <<orig, on, ticks, pend>>

\* The owner gets back the priority it had when it took this mutex.
unlock_enter(t, o) ==
    /\ At(t, "run")
    /\ t \in holders[o]
    /\ LET w == first_respond_ipc(k, o)
       IN  /\ k' = IF owner[o] = NoTask THEN unblock(w)
                   ELSE rtos_task_change_prio(unblock(w), owner[o], orig[o])
           /\ waiting' = [x \in Tasks |-> IF x = w THEN NoMutex ELSE waiting[x]]
           /\ wake' = [wake EXCEPT ![t] = w]
           /\ pc' = [pc EXCEPT ![t] = IF w = NoTask THEN "run" ELSE "waking"]
    /\ value' = [value EXCEPT ![o] = (@ + 1) % ValueMod]
    /\ owner' = [owner EXCEPT ![o] = NoTask]
    /\ holders' = [holders EXCEPT ![o] = @ \ {t}]
    /\ UNCHANGED <<orig, on, ticks, pend>>

\* Mutant of unlock_wake: only a task that preempts is made ready.
unlock_wake_urgent(t) ==
    /\ At(t, "waking")
    /\ k' = IF sched_should_preempt(k, wake[t], t)
            THEN task_adt_add(k, wake[t]) ELSE k
    /\ pc' = [pc EXCEPT ![t] = "run"]
    /\ wake' = [wake EXCEPT ![t] = NoTask]
    /\ UNCHANGED <<mutexes, waiting, on, ticks, pend, holders>>

unlock_wake(t) ==
    /\ At(t, "waking")
    /\ k' = task_adt_add(k, wake[t])
    /\ pc' = [pc EXCEPT ![t] = "run"]
    /\ wake' = [wake EXCEPT ![t] = NoTask]
    /\ UNCHANGED <<mutexes, waiting, on, ticks, pend, holders>>
-----------------------------------------------------------------------------
nap(t) ==
    /\ At(t, "run")
    /\ \E n \in Naps : k' = task_delay(k, n)
    /\ UNCHANGED <<mutexes, waiting, pc, locals, holders>>

leisure_task == Running(k, Idle) /\ UNCHANGED vars

PendSV ==
    /\ PendSVTaken(k)
    /\ k' = task_switch_context(k)
    /\ UNCHANGED <<mutexes, waiting, pc, locals, holders>>

SysTick ==
    /\ SysTickTaken(k)
    /\ k.now < LastTick
    /\ k' = tick(k)
    /\ UNCHANGED <<mutexes, waiting, pc, locals, holders>>

check_ticks ==
    /\ InCheckTicks(k)
    /\ k' = IF Expired(k) THEN wake_first(k) ELSE [k EXCEPT !.isr = FALSE]
    /\ UNCHANGED <<mutexes, waiting, pc, locals, holders>>

\* What a corrupt tree or an exhausted stack leads to is undefined.
undefined == k.corrupt /\ UNCHANGED vars

Step(t) ==
    \/ \E o \in Objects : \/ \E n \in Timeouts : lock_enter(t, o, n)
                          \/ unlock_enter(t, o)
    \/ lock_delay(t) \/ lock_spin(t) \/ lock_return(t)
    \/ unlock_wake(t) \/ nap(t)

Next ==
    \/ \E t \in Tasks : Step(t)
    \/ leisure_task \/ PendSV \/ SysTick \/ check_ticks \/ undefined

Spec == Init /\ [][Next]_vars
-----------------------------------------------------------------------------
(***************************************************************************)
(* Properties                                                              *)
(***************************************************************************)
\* docs: "a mutex is a special semaphore for mutual exclusion".
MutualExclusion == \A o \in Objects : Cardinality(holders[o]) <= 1

\* What the arithmetic of the value really keeps: it counts the holders below
\* one modulo 2^w, so that a second holder shows as the greatest value.
ValueCountsHolders ==
    \A o \in Objects : (value[o] + Cardinality(holders[o])) % ValueMod = 1

\* waiting_obj of a task is the mutex whose wait tree it stands in, or NULL:
\* inherit_prio follows the pointer of tasks that do not run, so one left over
\* from a call that timed out or was served would lead into a foreign mutex.
WaitingObjIsQueue ==
    \A t \in Tasks, o \in Objects :
        waiting[t] = o <=> t \in Nodes(k.waits[o])

\* A task that begins to wait finds the owner no less urgent than itself when
\* its critical section ends, and so on along the owners of owners.
InheritanceReachesChain ==
    [][\A t \in Tasks, o \in Objects :
          waiting[t] # o /\ waiting'[t] = o /\ owner[o] # NoTask /\ ~k'.corrupt
              => /\ k'.dl[owner[o]] <= k.dl[t]
                 /\ LET next == waiting[owner[o]]
                    IN  next # NoMutex /\ owner[next] # NoTask
                            => k'.dl[owner[next]] <= k.dl[t]]_vars

\* No task drops out of the system: it is ready, or asleep, or some unlock
\* that took it out of the sleepers has still to make it ready.
NobodyLost ==
    \A t \in Tasks :
        \/ t \in Nodes(k.ready) \cup Nodes(k.sleep)
        \/ \E u \in Tasks : pc[u] = "waking" /\ wake[u] = t

\* What makes them inductive: the wait tree of a mutex holds callers of its
\* mutex_lock, once each; a caller holds nothing of that mutex; who owns a mutex
\* holds it; an unlock that has still to wake knows whom.
WaitersAreCallers ==
    \A o \in Objects :
        /\ NoTwice(k.waits[o])
        /\ \A t \in Nodes(k.waits[o]) : pc[t] \in {"delaying", "waiting"} /\ on[t] = o
CallersHoldNone ==
    \A t \in Tasks : pc[t] \in {"delaying", "waiting"} =>
        on[t] \in Objects /\ t \notin holders[on[t]]
OwnersHold == \A o \in Objects : owner[o] # NoTask => owner[o] \in holders[o]
WakersKnowWhom == \A t \in Tasks : pc[t] = "waking" => wake[t] \in Tasks

IInv ==
    /\ TypeOK
    /\ ValueCountsHolders /\ CallersHoldNone /\ OwnersHold
    /\ WaitersAreCallers /\ WaitingObjIsQueue
    /\ NobodyLost /\ WakersKnowWhom
=============================================================================
