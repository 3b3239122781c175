------------------------------- MODULE Kernel -------------------------------
(***************************************************************************)
(* The state of the real-time kernel and the functions of                  *)
(* lttit/RTOS/source/schedule.c that change it, each as an operator from   *)
(* kernel state to kernel state.  A critical section of the code that      *)
(* calls several of them is their composition, so the modules that extend  *)
(* this one (tasks, semaphores, mutexes, queues) make it one step.         *)
(*                                                                         *)
(* One core.  EnterCritical masks SysTick and PendSV; schedule() pends     *)
(* PendSV, which switches the task as soon as it is not masked.            *)
(***************************************************************************)
EXTENDS Integers, RbTree

CONSTANTS
    Tasks,      \* task control blocks that task_create hands out
    Idle,       \* leisureTcb, which is never in the ready tree
    Objects,    \* wait trees: one per semaphore and mutex, two per queue
    NoTask,     \* schedule_currentTCB == NULL, before scheduler_start
    Period,     \* TCB.period, 0 for a task that is not periodic
    Deadline,   \* TCB.deadline, 0 for a best-effort task
    TickMod,    \* 2^w of NowTickCount and of every tree key (w = 32)
    DelayMod,   \* 2^w of task_delay's argument (w = 16)
    SwitchMod   \* 2^w of schedule_PendSV (w = 8)

ASSUME NameAssumption ==
    Idle \notin Tasks /\ NoTask \notin Tasks /\ Idle # NoTask
ASSUME WidthAssumption ==
    /\ TickMod \in Nat /\ DelayMod \in Nat /\ SwitchMod \in Nat
    /\ 0 < DelayMod /\ DelayMod < TickMod /\ 0 < SwitchMod
ASSUME TimingAssumption ==
    /\ Period \in [Tasks -> 0..(DelayMod - 1)]
    /\ Deadline \in [Tasks -> 0..(DelayMod - 1)]

Ticks == 0..(TickMod - 1)
Never == TickMod - 1                  \* 0xFFFFFFFF, best-effort abs_deadline
Runnable == Tasks \cup {Idle}

KernelState ==
    [now      : Ticks,                \* NowTickCount
     cur      : Runnable \cup {NoTask},
     dl       : [Runnable -> Ticks],  \* TCB.abs_deadline
     ready    : Seq(Tasks),           \* ReadyRTTree, through task_node
     rkey     : [Tasks -> Ticks],     \* task_node.value
     sleep    : Seq(Tasks),           \* WakeTicksTree, through delay_node
     wake     : [Tasks -> Ticks],     \* delay_node.value
     dead     : Seq(Tasks),           \* DeleteTree, through task_node
     waits    : [Objects -> Seq(Tasks)],  \* wait trees, through IPC_node
     ikey     : [Tasks -> Ticks],     \* IPC_node.value
     pend     : BOOLEAN,              \* PendSV is pending
     switches : 0..(SwitchMod - 1),   \* schedule_PendSV
     preempt  : Nat,                  \* preempt_count
     resched  : BOOLEAN,              \* need_resched
     isr      : BOOLEAN,              \* check_ticks is in its loop
     corrupt  : BOOLEAN]              \* a node was linked or unlinked wrongly

\* scheduler_init: no task but leisureTcb, which no task_adt_add puts anywhere.
scheduler_init ==
    [now |-> 0, cur |-> NoTask, dl |-> [t \in Runnable |-> Never],
     ready |-> <<>>, rkey |-> [t \in Tasks |-> 0],
     sleep |-> <<>>, wake |-> [t \in Tasks |-> 0], dead |-> <<>>,
     waits |-> [o \in Objects |-> <<>>], ikey |-> [t \in Tasks |-> 0],
     pend |-> FALSE, switches |-> 0, preempt |-> 0, resched |-> FALSE,
     isr |-> FALSE, corrupt |-> FALSE]
-----------------------------------------------------------------------------
\* The code links a node that is linked already, or unlinks one that is not,
\* without a test: the trees are broken from there on and nothing more is said.
corrupted(k) == [k EXCEPT !.corrupt = TRUE]

\* (int)(a - b) on words of the width of a tick.
Signed(a, b) ==
    LET d == (a - b) % TickMod
    IN  IF 2 * d < TickMod THEN d ELSE d - TickMod

\* Mutant of compare_before_eq: compare_before, one tick late.
compare_before(a, b) == Signed(a, b) < 0

compare_before_eq(a, b) == Signed(a, b) <= 0

\* The key of a task in the ready tree, fixed when the task is linked.
rt_prio_value(k, t) ==
    LET diff == Signed(k.dl[t], k.now) IN IF diff <= 0 THEN 0 ELSE diff

\* Mutant of sched_should_preempt: the idle task is treated like any other.
preempt_by_deadline(k, new, cur) == k.dl[new] < k.dl[cur]

sched_should_preempt(k, new, cur) == cur = Idle \/ k.dl[new] < k.dl[cur]

schedule(k) == [k EXCEPT !.pend = TRUE]

\* Mutants of scheduler_request_switch: the lock is not looked at; a request
\* under the lock is not recorded.
request_despite_lock(k) == schedule(k)
request_unrecorded(k) == IF k.preempt = 0 THEN schedule(k) ELSE k

scheduler_request_switch(k) ==
    IF k.preempt = 0 THEN schedule(k) ELSE [k EXCEPT !.resched = TRUE]

rt_ready_add(k, t) ==
    IF t \in Nodes(k.ready) THEN k
    ELSE LET key == [k.rkey EXCEPT ![t] = rt_prio_value(k, t)]
             new == [k EXCEPT !.rkey = key,
                              !.ready = rb_insert_node(k.ready, key, t)]
         IN  IF k.cur # NoTask /\ sched_should_preempt(k, t, k.cur)
             THEN scheduler_request_switch(new)
             ELSE new

rt_ready_remove(k, t) ==
    IF t \notin Nodes(k.ready) THEN corrupted(k)
    ELSE [k EXCEPT !.ready = rb_remove_node(k.ready, t), !.rkey[t] = 0]

\* task_adt_add(t, Ready), the only state any caller passes.
task_adt_add(k, t) == rt_ready_add(k, t)
-----------------------------------------------------------------------------
(***************************************************************************)
(* Sleeping                                                                *)
(***************************************************************************)
record_wake_time(k, t, ticks) ==
    IF t \in Nodes(k.sleep) THEN corrupted(k)
    ELSE LET key == [k.wake EXCEPT ![t] = (k.now + ticks) % TickMod]
         IN  [k EXCEPT !.wake = key, !.sleep = rb_insert_node(k.sleep, key, t)]

delay_adt_remove(k, t) ==
    IF t \notin Nodes(k.sleep) THEN k
    ELSE [k EXCEPT !.sleep = rb_remove_node(k.sleep, t), !.wake[t] = 0]

\* Mutants of task_delay: the task stays in the ready tree; no switch follows.
delay_still_ready(k, ticks) ==
    IF ticks % DelayMod = 0 THEN k
    ELSE scheduler_request_switch(
             record_wake_time(k, k.cur, ticks % DelayMod))
delay_unswitched(k, ticks) ==
    IF ticks % DelayMod = 0 THEN k
    ELSE record_wake_time(rt_ready_remove(k, k.cur), k.cur, ticks % DelayMod)

\* task_delay of the running task.  The argument is cut to 16 bits, and a
\* delay of 0 ticks does nothing at all.
task_delay(k, ticks) ==
    IF ticks % DelayMod = 0 THEN k
    ELSE scheduler_request_switch(
             record_wake_time(rt_ready_remove(k, k.cur), k.cur,
                              ticks % DelayMod))

\* check_ticks in two parts: the tick, and one turn of its while loop.
tick(k) == [k EXCEPT !.now = (@ + 1) % TickMod, !.isr = TRUE]

Expired(k) ==
    k.sleep # <<>> /\ compare_before_eq(k.wake[first_node(k.sleep)], k.now)

\* Mutant of wake_first: the task is made ready and left among the sleepers.
wake_still_asleep(k) == task_adt_add(k, first_node(k.sleep))

wake_first(k) ==
    LET t  == first_node(k.sleep)
        k1 == delay_adt_remove(k, t)
        k2 == IF Deadline[t] # 0 /\ Period[t] # 0
              THEN [k1 EXCEPT !.dl[t] = (k.now + Deadline[t]) % TickMod]
              ELSE k1
    IN  task_adt_add(k2, t)
-----------------------------------------------------------------------------
(***************************************************************************)
(* Waiting for a semaphore, a mutex or a queue: IPC_node is linked in the  *)
(* object's wait tree, most urgent first.                                  *)
(***************************************************************************)
\* IPC_node.root == NULL
check_ipc_state(k, t) == \A o \in Objects : t \notin Nodes(k.waits[o])

insert_ipc(k, t, o) ==
    IF ~check_ipc_state(k, t) THEN corrupted(k)
    ELSE LET key == [k.ikey EXCEPT ![t] = k.dl[t]]
         IN  [k EXCEPT !.ikey = key,
                       !.waits[o] = rb_insert_node(k.waits[o], key, t)]

remove_ipc(k, t) ==
    [k EXCEPT !.waits = [o \in Objects |->
                            IF t \in Nodes(k.waits[o])
                            THEN rb_remove_node(k.waits[o], t)
                            ELSE k.waits[o]]]

first_respond_ipc(k, o) ==
    IF k.waits[o] = <<>> THEN NoTask ELSE first_node(k.waits[o])
-----------------------------------------------------------------------------
(***************************************************************************)
(* The life of a task                                                      *)
(***************************************************************************)
\* task_create up to the point where the task can be linked.
new_tcb(k, t) ==
    [k EXCEPT !.dl[t] = IF Deadline[t] # 0
                        THEN (k.now + Deadline[t]) % TickMod ELSE Never]

\* The critical section of task_delete; task_delete requests the switch after.
move_to_dead(k, t) ==
    LET k1 == rt_ready_remove(k, t)
    IN  IF t \in Nodes(k.dead) THEN corrupted(k)
        ELSE [k1 EXCEPT !.dead = rb_insert_node(k1.dead, k1.rkey, t)]

task_free(k) == [k EXCEPT !.dead = rb_remove_node(k.dead, rb_last(k.dead))]

\* PendSV_Handler
task_switch_context(k) ==
    [k EXCEPT !.switches = (@ + 1) % SwitchMod,
              !.cur = IF k.ready # <<>> THEN first_node(k.ready) ELSE Idle,
              !.pend = FALSE]

\* rtos_task_state(t) == Ready: in the ready tree but not on the processor.
IsReadyState(k, t) == t # k.cur /\ t \in Nodes(k.ready)

\* The key of the running task is not refreshed: its state is RUNNING.
rtos_task_change_prio(k, t, prio) ==
    IF IsReadyState(k, t)
    THEN rt_ready_add([rt_ready_remove(k, t) EXCEPT !.dl[t] = prio], t)
    ELSE [k EXCEPT !.dl[t] = prio]
-----------------------------------------------------------------------------
(***************************************************************************)
(* scheduler_start after main created every task, in some order: equal     *)
(* keys stand in the order of creation, and the first task runs.           *)
(***************************************************************************)
Created ==
    [scheduler_init EXCEPT
        !.dl = [t \in Runnable |-> IF t \in Tasks /\ Deadline[t] # 0
                                   THEN Deadline[t] ELSE Never]]

CreatedKeys == [t \in Tasks |-> rt_prio_value(Created, t)]

StartOrders ==
    {order \in [1..Cardinality(Tasks) -> Tasks] :
        NoTwice(order) /\ Ordered(order, CreatedKeys)}

Started(order) ==
    task_switch_context([Created EXCEPT !.ready = order, !.rkey = CreatedKeys])
-----------------------------------------------------------------------------
(***************************************************************************)
(* Who may take the next step.                                             *)
(***************************************************************************)
\* Task t executes: no interrupt is pending or being served.
Running(k, t) == k.cur = t /\ ~k.pend /\ ~k.isr /\ ~k.corrupt

\* PendSV and SysTick have one priority level: PendSV goes first when both
\* are pending, and neither interrupts the other.
PendSVTaken(k) == k.pend /\ ~k.isr /\ ~k.corrupt
InCheckTicks(k) == k.isr /\ ~k.corrupt
SysTickTaken(k) == k.cur # NoTask /\ ~k.pend /\ ~k.isr /\ ~k.corrupt
=============================================================================
