----------------------------- MODULE Scheduler -----------------------------
(***************************************************************************)
(* Tasks under the kernel of schedule.c: they are created, sleep, lock the *)
(* scheduler, delete themselves and are freed by the idle task, between    *)
(* SysTick and PendSV interrupts that come whenever they are not masked.   *)
(*                                                                         *)
(* A task keeps to what the kernel asks of its callers: it neither sleeps  *)
(* nor deletes itself while it holds the scheduler lock, and it deletes no *)
(* task but itself.                                                        *)
(***************************************************************************)
EXTENDS Kernel

CONSTANTS
    Delays,     \* arguments of task_delay
    MaxNest,    \* bound on the nesting of scheduler_lock
    LastTick    \* bound on the clock: the last value SysTick may count to

ASSUME BoundAssumption ==
    Delays \subseteq Nat /\ MaxNest \in Nat /\ LastTick \in Nat

VARIABLES
    k,          \* the kernel
    pc,         \* where each task is in the function it calls
    child       \* the TCB a task is creating

vars == <<k, pc, child>>

\* none: no TCB.  new: filled in by task_create, not linked.  run: in its own
\* code.  creating, unlocking, deleting: between two steps of that function.
Labels == {"none", "new", "run", "creating", "unlocking", "deleting"}

TypeOK ==
    /\ k \in KernelState
    /\ pc \in [Tasks -> Labels]
    /\ child \in [Tasks -> Tasks \cup {NoTask}]

Init ==
    /\ k = scheduler_init
    /\ pc = [t \in Tasks |-> "none"]
    /\ child = [t \in Tasks |-> NoTask]

At(t, label) == Running(k, t) /\ pc[t] = label

\* t runs its own code without the scheduler lock.
Free(t) == At(t, "run") /\ k.preempt = 0
-----------------------------------------------------------------------------
\* main() before scheduler_start: no interrupt is enabled.
main_create(t) ==
    /\ k.cur = NoTask
    /\ pc[t] = "none"
    /\ k' = task_adt_add(new_tcb(k, t), t)
    /\ pc' = [pc EXCEPT ![t] = "run"]
    /\ UNCHANGED child

scheduler_start ==
    /\ k.cur = NoTask
    /\ k' = task_switch_context(k)
    /\ UNCHANGED <<pc, child>>

\* task_create from a task: the deadline is read from the clock, the pid and
\* the memory are taken, and only then the critical section that links it.
create_alloc(t, c) ==
    /\ At(t, "run")
    /\ pc[c] = "none"
    /\ k' = new_tcb(k, c)
    /\ pc' = [pc EXCEPT ![t] = "creating", ![c] = "new"]
    /\ child' = [child EXCEPT ![t] = c]

create_add(t) ==
    /\ At(t, "creating")
    /\ k' = task_adt_add(k, child[t])
    /\ pc' = [pc EXCEPT ![t] = "run", ![child[t]] = "run"]
    /\ child' = [child EXCEPT ![t] = NoTask]

delay(t) ==
    /\ Free(t)
    /\ \E d \in Delays : k' = task_delay(k, d)
    /\ UNCHANGED <<pc, child>>

\* The end of one period: statistics, then the rest of the period asleep.
task_exit(t) ==
    /\ Free(t)
    /\ k' = task_delay(k, Period[t])
    /\ UNCHANGED <<pc, child>>

scheduler_lock(t) ==
    /\ At(t, "run")
    /\ k.preempt < MaxNest
    /\ k' = [k EXCEPT !.preempt = @ + 1]
    /\ UNCHANGED <<pc, child>>

\* preempt_enable(), and only then the test of what was deferred.
unlock_enable(t) ==
    /\ At(t, "run")
    /\ k.preempt > 0
    /\ k' = [k EXCEPT !.preempt = @ - 1]
    /\ pc' = [pc EXCEPT ![t] = "unlocking"]
    /\ UNCHANGED child

\* Mutant of unlock_switch: the deferred request is not looked at.
unlock_unswitched(t) ==
    /\ At(t, "unlocking")
    /\ pc' = [pc EXCEPT ![t] = "run"]
    /\ UNCHANGED <<k, child>>

unlock_switch(t) ==
    /\ At(t, "unlocking")
    /\ k' = IF k.preempt = 0 /\ k.resched
            THEN schedule([k EXCEPT !.resched = FALSE]) ELSE k
    /\ pc' = [pc EXCEPT ![t] = "run"]
    /\ UNCHANGED child

\* task_delete of the caller: the critical section, then the request.
delete_unlink(t) ==
    /\ Free(t)
    /\ k' = move_to_dead(k, t)
    /\ pc' = [pc EXCEPT ![t] = "deleting"]
    /\ UNCHANGED child

delete_switch(t) ==
    /\ At(t, "deleting")
    /\ k' = scheduler_request_switch(k)
    /\ UNCHANGED <<pc, child>>

\* leisure_task: task_free in an endless loop.
leisure_task ==
    /\ Running(k, Idle)
    /\ IF k.dead = <<>>
       THEN UNCHANGED <<k, pc>>
       ELSE /\ k' = task_free(k)
            /\ pc' = [pc EXCEPT ![rb_last(k.dead)] = "none"]
    /\ UNCHANGED child
-----------------------------------------------------------------------------
PendSV ==
    /\ PendSVTaken(k)
    /\ k' = task_switch_context(k)
    /\ UNCHANGED <<pc, child>>

SysTick ==
    /\ SysTickTaken(k)
    /\ k.now < LastTick
    /\ k' = tick(k)
    /\ UNCHANGED <<pc, child>>

\* Mutant of check_ticks: an if in place of the while.
check_ticks_once ==
    /\ InCheckTicks(k)
    /\ k' = IF Expired(k) THEN [wake_first(k) EXCEPT !.isr = FALSE]
                          ELSE [k EXCEPT !.isr = FALSE]
    /\ UNCHANGED <<pc, child>>

\* One turn of the loop of check_ticks, or its end.
check_ticks ==
    /\ InCheckTicks(k)
    /\ k' = IF Expired(k) THEN wake_first(k) ELSE [k EXCEPT !.isr = FALSE]
    /\ UNCHANGED <<pc, child>>

Step(t) ==
    \/ \E c \in Tasks : create_alloc(t, c)
    \/ create_add(t)
    \/ delay(t) \/ task_exit(t)
    \/ scheduler_lock(t) \/ unlock_enable(t) \/ unlock_switch(t)
    \/ delete_unlink(t) \/ delete_switch(t)

Interrupt == PendSV \/ SysTick \/ check_ticks

Next ==
    \/ \E t \in Tasks : main_create(t) \/ Step(t)
    \/ scheduler_start \/ leisure_task \/ Interrupt

Spec == Init /\ [][Next]_vars

\* The clock runs and the processor takes its interrupts.  SysTick is pended
\* by hardware and taken once it is not masked, however often it was.
Fairness == WF_vars(PendSV) /\ WF_vars(check_ticks) /\ SF_vars(SysTick)

FairSpec == Spec /\ Fairness
-----------------------------------------------------------------------------
(***************************************************************************)
(* Properties                                                              *)
(***************************************************************************)
\* A TCB that exists and was linked by task_create.
Live == {t \in Tasks : pc[t] \notin {"none", "new"}}

\* Whatever tasks and interrupts do between them, no caller links a TCB that
\* is linked or unlinks one that is not: schedule.c never tests for it.
TreesIntact == ~k.corrupt

\* Every live task is in exactly one of the ready, sleeping and deleted trees,
\* every other TCB in none, and each tree is ordered by the keys it was built
\* with (so first_node is a minimum, which check_ticks and PendSV rely on).
\* A task that is in none of them is lost for ever.
TasksPartitioned ==
    /\ Nodes(k.ready) \cup Nodes(k.sleep) \cup Nodes(k.dead) = Live
    /\ Nodes(k.ready) \cap Nodes(k.sleep) = {}
    /\ Nodes(k.ready) \cap Nodes(k.dead) = {}
    /\ Nodes(k.sleep) \cap Nodes(k.dead) = {}
    /\ \A tree \in {k.ready, k.sleep, k.dead} : NoTwice(tree)
    /\ Ordered(k.ready, k.rkey) /\ Ordered(k.sleep, k.wake)

\* The processor never goes on with a task that left the ready tree: a switch
\* is pending in the same critical section, or the task is between the two
\* halves of task_delete.  In particular no freed TCB is ever running.
RunningIsReady ==
    k.cur \in Tasks =>
        \/ k.cur \in Nodes(k.ready)
        \/ k.cur \in Live /\ (k.pend \/ pc[k.cur] = "deleting")

\* The idle task keeps the processor only while there is nothing to run, in
\* spite of wake-ups that arrive while it runs or is being dispatched.
NoIdleWhileReady ==
    k.cur = Idle => k.pend \/ k.ready = <<>>

\* A ready task that is ahead of the running one both by absolute deadline (the
\* test for preemption) and by ready key (the order of dispatch) is not left
\* waiting: a switch is pending, or deferred by the scheduler lock and recorded.
UrgentNotKeptWaiting ==
    \A t \in Nodes(k.ready) :
        k.cur \in Nodes(k.ready) /\ k.dl[t] < k.dl[k.cur]
                               /\ k.rkey[t] < k.rkey[k.cur]
            => k.pend \/ k.resched

\* Ticks do not pass over a sleeper: outside the tick interrupt, no sleeping
\* task is past its time of waking.
NeverOverdue ==
    ~k.isr => \A t \in Nodes(k.sleep) : Signed(k.wake[t], k.now) > 0

\* The scheduler lock is one counter for the whole system, and the tick goes on
\* waking tasks under it: still the task that holds it keeps the processor.
LockKeepsProcessor ==
    [][k.preempt > 0 => k'.cur = k.cur]_vars

\* What was deferred under the lock is not forgotten: as long as a request is
\* recorded the lock is held, or some task has yet to make the test of
\* scheduler_unlock.  Ticks record requests between the two halves of unlock,
\* and another task may unlock between them too.
DeferredNotForgotten ==
    k.resched => k.preempt > 0 \/ \E t \in Live : pc[t] = "unlocking"

\* A task asleep until some tick within the horizon wakes up.
SleepersWake ==
    \A t \in Tasks :
        (t \in Nodes(k.sleep) /\ k.wake[t] <= LastTick)
            ~> (t \notin Nodes(k.sleep))

\* docs: "while an rt task is ready no be task executes".
RtBeforeBe ==
    k.cur \in Tasks /\ ~k.pend /\ k.preempt = 0 /\ Deadline[k.cur] = 0
        => \A t \in Nodes(k.ready) : Deadline[t] = 0
-----------------------------------------------------------------------------
(***************************************************************************)
(* The inductive invariant behind the safety properties.                   *)
(***************************************************************************)
\* A TCB being created belongs to one creator and is linked nowhere yet.
ChildrenAreNew ==
    \A t \in Tasks : pc[t] = "creating" =>
        /\ child[t] \in Tasks /\ pc[child[t]] = "new"
        /\ \A u \in Tasks : pc[u] = "creating" /\ child[u] = child[t] => u = t

\* While the lock is held no switch is pending and a task is running.
NoSwitchUnderLock == k.preempt > 0 => ~k.pend /\ k.cur \in Tasks

IInv ==
    /\ TypeOK
    /\ TreesIntact
    /\ TasksPartitioned
    /\ ChildrenAreNew
    /\ NoSwitchUnderLock
    /\ RunningIsReady
    /\ NoIdleWhileReady

\* task_delete links its caller among the deleted, where it stays until the
\* idle task frees it: between the two, it is nowhere but in task_delete.
DeadAreDeleting == \A t \in Tasks : pc[t] = "deleting" <=> t \in Nodes(k.dead)

\* The requests for a switch: none is lost, whichever task it was made for.
RInv ==
    /\ IInv
    /\ DeadAreDeleting
    /\ DeferredNotForgotten
    /\ UrgentNotKeptWaiting

\* While no key has wrapped, every sleeper's key lies ahead of the clock by
\* what is left of its delay; the loop of check_ticks is still to come to those
\* whose time is now.
WakesLieAhead ==
    /\ k.now <= LastTick
    /\ \A t \in Nodes(k.sleep) :
          k.wake[t] - k.now \in (IF k.isr THEN 0 ELSE 1)..(DelayMod - 1)
=============================================================================
