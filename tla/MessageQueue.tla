---------------------------- MODULE MessageQueue ----------------------------
(***************************************************************************)
(* A message queue of lttit/RTOS/source/mequeue.c: a ring of node_num      *)
(* messages with a wait tree for senders and one for receivers.            *)
(*                                                                         *)
(* queue_send and queue_receive share their shape with mutex_lock: a task  *)
(* that another one took out of its wait tree goes ahead without looking   *)
(* at msg_num again.  A sender that timed out stays in the wait tree.      *)
(***************************************************************************)
EXTENDS Kernel

CONSTANTS
    SendTree, RecvTree,     \* send_tree and recv_tree
    Messages,               \* contents of a message
    NoMessage,
    NodeNum,                \* queue_struct.node_num
    NumMod,                 \* 2^w of msg_num (w = 8)
    Senders, Receivers,     \* the tasks that send and that receive
    SendTicks, RecvTicks,   \* the time they are ready to wait
    Naps,                   \* ticks a task sleeps outside the calls
    LastTick                \* bound on the clock

ASSUME QueueAssumption ==
    /\ Objects = {SendTree, RecvTree} /\ SendTree # RecvTree
    /\ NoMessage \notin Messages
    /\ NodeNum \in Nat /\ NumMod \in Nat /\ 0 < NodeNum /\ NodeNum < NumMod
    /\ Senders \subseteq Tasks /\ Receivers \subseteq Tasks
    /\ SendTicks \subseteq Nat /\ RecvTicks \subseteq Nat
    /\ Naps \subseteq Nat /\ LastTick \in Nat

VARIABLES
    k,          \* the kernel
    ring,       \* the memory from start to end
    read,       \* the slot read last
    write,      \* the slot written next
    msg_num,    \* queue_struct.msg_num
    received,   \* the last message each task received
    pc,         \* where each task is
    msg,        \* what it sends
    ticks,      \* how long it is ready to wait
    pend,       \* its copy of schedule_PendSV
    wake        \* the task its call has still to make ready

queue == <<ring, read, write, msg_num>>
locals == <<msg, ticks, pend, wake>>
vars == <<k, queue, received, pc, locals>>

Slots == 0..(NodeNum - 1)

\* s_ in queue_send, r_ in queue_receive.  delay: left the first critical
\* section.  wait: called task_delay.  waking: left the last critical section.
Labels == {"run", "s_delay", "s_wait", "r_delay", "r_wait", "waking"}

TypeOK ==
    /\ k \in KernelState
    /\ ring \in [Slots -> Messages \cup {NoMessage}]
    /\ read \in Slots /\ write \in Slots
    /\ msg_num \in 0..(NumMod - 1)
    /\ received \in [Tasks -> Messages \cup {NoMessage}]
    /\ pc \in [Tasks -> Labels]
    /\ msg \in [Tasks -> Messages \cup {NoMessage}]
    /\ ticks \in [Tasks -> Nat]
    /\ pend \in [Tasks -> 0..(SwitchMod - 1)]
    /\ wake \in [Tasks -> Tasks \cup {NoTask}]

Init ==
    /\ \E order \in StartOrders : k = Started(order)
    /\ ring = [i \in Slots |-> NoMessage]
    /\ read = NodeNum - 1 /\ write = 0 /\ msg_num = 0
    /\ received = [t \in Tasks |-> NoMessage]
    /\ pc = [t \in Tasks |-> "run"]
    /\ msg = [t \in Tasks |-> NoMessage]
    /\ ticks = [t \in Tasks |-> 0]
    /\ pend = [t \in Tasks |-> 0]
    /\ wake = [t \in Tasks |-> NoTask]

At(t, label) == Running(k, t) /\ pc[t] = label
After(i) == (i + 1) % NodeNum
-----------------------------------------------------------------------------
(***************************************************************************)
(* The parts both calls are made of.                                       *)
(***************************************************************************)
\* Mutant of unblock: the task keeps its place in the wait tree.
unblock_queued(kk, w) == IF w = NoTask THEN kk ELSE delay_adt_remove(kk, w)

\* The most urgent task that waits on the other side leaves its trees.
unblock(kk, w) == IF w = NoTask THEN kk ELSE remove_ipc(delay_adt_remove(kk, w), w)

\* Last critical section over: t still has to make w ready, if there is a w.
leave(t, w) ==
    /\ wake' = [wake EXCEPT ![t] = w]
    /\ pc' = [pc EXCEPT ![t] = IF w = NoTask THEN "run" ELSE "waking"]
    /\ msg' = [msg EXCEPT ![t] = NoMessage]
    /\ pend' = [pend EXCEPT ![t] = 0]

write_to_queue(t, m) ==
    LET w == first_respond_ipc(k, RecvTree)
    IN  /\ ring' = [ring EXCEPT ![write] = m]
        /\ write' = After(write)
        /\ msg_num' = (msg_num + 1) % NumMod
        /\ k' = unblock(k, w)
        /\ leave(t, w)
        /\ UNCHANGED <<read, received, ticks>>

\* Mutant of extract_from_queue: the slot is read before the index advances.
extract_early(t) ==
    LET w == first_respond_ipc(k, SendTree)
    IN  /\ read' = After(read)
        /\ received' = [received EXCEPT ![t] = ring[read]]
        /\ msg_num' = (msg_num - 1) % NumMod
        /\ k' = unblock(k, w)
        /\ leave(t, w)
        /\ UNCHANGED <<ring, write, ticks>>

extract_from_queue(t) ==
    LET w == first_respond_ipc(k, SendTree)
    IN  /\ read' = After(read)
        /\ received' = [received EXCEPT ![t] = ring[After(read)]]
        /\ msg_num' = (msg_num - 1) % NumMod
        /\ k' = unblock(k, w)
        /\ leave(t, w)
        /\ UNCHANGED <<ring, write, ticks>>

\* t joins a wait tree; task_delay is the next step.
join(t, tree, label, n) ==
    /\ k' = insert_ipc(k, t, tree)
    /\ pc' = [pc EXCEPT ![t] = label]
    /\ ticks' = [ticks EXCEPT ![t] = n]
    /\ pend' = [pend EXCEPT ![t] = k.switches]
    /\ UNCHANGED <<queue, received, wake>>

sleep(t, label) ==
    /\ k' = task_delay(k, ticks[t])
    /\ pc' = [pc EXCEPT ![t] = label]
    /\ ticks' = [ticks EXCEPT ![t] = 0]
    /\ UNCHANGED <<queue, received, msg, pend, wake>>
-----------------------------------------------------------------------------
send_enter(t, m, n) ==
    /\ At(t, "run") /\ t \in Senders
    /\ \/ msg_num < NodeNum /\ write_to_queue(t, m)
       \/ msg_num >= NodeNum /\ n = 0 /\ UNCHANGED vars
       \/ /\ msg_num >= NodeNum /\ n # 0
          /\ join(t, SendTree, "s_delay", n)
          /\ msg' = [msg EXCEPT ![t] = m]

send_delay(t) == At(t, "s_delay") /\ sleep(t, "s_wait")

\* Still in the wait tree: the time is over, and the node stays where it is.
send_return(t) ==
    /\ At(t, "s_wait")
    /\ pend[t] # k.switches
    /\ \/ /\ ~check_ipc_state(k, t)
          /\ leave(t, NoTask)
          /\ UNCHANGED <<k, queue, received, ticks>>
       \/ /\ check_ipc_state(k, t)
          /\ write_to_queue(t, msg[t])

receive_enter(t, n) ==
    /\ At(t, "run") /\ t \in Receivers
    /\ \/ msg_num > 0 /\ extract_from_queue(t)
       \/ msg_num = 0 /\ n = 0 /\ UNCHANGED vars
       \/ /\ msg_num = 0 /\ n # 0
          /\ join(t, RecvTree, "r_delay", n)
          /\ UNCHANGED msg

receive_delay(t) == At(t, "r_delay") /\ sleep(t, "r_wait")

receive_return(t) ==
    /\ At(t, "r_wait")
    /\ pend[t] # k.switches
    /\ \/ /\ ~check_ipc_state(k, t)
          /\ leave(t, NoTask)
          /\ k' = remove_ipc(k, t)
          /\ UNCHANGED <<queue, received, ticks>>
       \/ /\ check_ipc_state(k, t)
          /\ extract_from_queue(t)

\* while (pend == schedule_PendSV);
spin(t) ==
    /\ At(t, "s_wait") \/ At(t, "r_wait")
    /\ pend[t] = k.switches
    /\ UNCHANGED vars

\* Mutant of make_ready: only a task that preempts is made ready.
make_ready_urgent(t) ==
    /\ At(t, "waking")
    /\ k' = IF sched_should_preempt(k, wake[t], t)
            THEN task_adt_add(k, wake[t]) ELSE k
    /\ pc' = [pc EXCEPT ![t] = "run"]
    /\ wake' = [wake EXCEPT ![t] = NoTask]
    /\ UNCHANGED <<queue, received, msg, ticks, pend>>

make_ready(t) ==
    /\ At(t, "waking")
    /\ k' = task_adt_add(k, wake[t])
    /\ pc' = [pc EXCEPT ![t] = "run"]
    /\ wake' = [wake EXCEPT ![t] = NoTask]
    /\ UNCHANGED <<queue, received, msg, ticks, pend>>
-----------------------------------------------------------------------------
nap(t) ==
    /\ At(t, "run")
    /\ \E n \in Naps : k' = task_delay(k, n)
    /\ UNCHANGED <<queue, received, pc, locals>>

leisure_task == Running(k, Idle) /\ UNCHANGED vars

PendSV ==
    /\ PendSVTaken(k)
    /\ k' = task_switch_context(k)
    /\ UNCHANGED <<queue, received, pc, locals>>

SysTick ==
    /\ SysTickTaken(k)
    /\ k.now < LastTick
    /\ k' = tick(k)
    /\ UNCHANGED <<queue, received, pc, locals>>

check_ticks ==
    /\ InCheckTicks(k)
    /\ k' = IF Expired(k) THEN wake_first(k) ELSE [k EXCEPT !.isr = FALSE]
    /\ UNCHANGED <<queue, received, pc, locals>>

\* What a corrupt tree leads to is undefined.
undefined == k.corrupt /\ UNCHANGED vars

Step(t) ==
    \/ \E m \in Messages, n \in SendTicks : send_enter(t, m, n)
    \/ \E n \in RecvTicks : receive_enter(t, n)
    \/ send_delay(t) \/ send_return(t)
    \/ receive_delay(t) \/ receive_return(t)
    \/ spin(t) \/ make_ready(t) \/ nap(t)

Next ==
    \/ \E t \in Tasks : Step(t)
    \/ leisure_task \/ PendSV \/ SysTick \/ check_ticks \/ undefined

Spec == Init /\ [][Next]_vars
-----------------------------------------------------------------------------
(***************************************************************************)
(* Properties                                                              *)
(***************************************************************************)
\* docs: a full queue makes the sender wait, and what still cannot be written
\* when the time is over is refused.  So no message is written over another.
NeverOverfull == msg_num <= NodeNum

\* With one sender and one receiver the ring is a bounded first-in first-out
\* queue, up to where a sender that gave up joins its wait tree a second time.
Contents == [i \in 1..msg_num |-> ring[(read + i) % NodeNum]]
Fifo == INSTANCE BoundedFifo WITH Capacity <- NodeNum, contents <- Contents
ImplementsFifo == Fifo!Spec

\* A receiver is not left queued beside a message, nor a sender beside a free
\* slot, unless somebody was woken for it and is on the way.
Woken(tree, labels) ==
    {t \in Tasks : pc[t] \in labels /\ t \notin Nodes(k.waits[tree])}
NoMessageBesideReceivers ==
    /\ k.waits[RecvTree] # <<>> =>
          msg_num <= Cardinality(Woken(RecvTree, {"r_delay", "r_wait"}))
    /\ k.waits[SendTree] # <<>> =>
          NodeNum - msg_num <= Cardinality(Woken(SendTree, {"s_delay", "s_wait"}))

\* No task drops out of the system: it is ready, or asleep, or some call that
\* took it out of the sleepers has still to make it ready.
NobodyLost ==
    \A t \in Tasks :
        \/ t \in Nodes(k.ready) \cup Nodes(k.sleep)
        \/ \E u \in Tasks : pc[u] = "waking" /\ wake[u] = t

\* What makes it inductive, among any number of senders and receivers: nobody
\* stands twice in a wait tree, and a call that has still to wake knows whom.
WaitTreesOnce == \A o \in Objects : NoTwice(k.waits[o])
WakersKnowWhom == \A t \in Tasks : pc[t] = "waking" => wake[t] \in Tasks

IInv == TypeOK /\ WaitTreesOnce /\ NobodyLost /\ WakersKnowWhom

\* What makes the others inductive, with one sender and one receiver: whoever
\* is in a wait tree, or has been left there by a call that timed out, finds the
\* queue full or empty; whom the other side took out finds room or a message.
Sending == {"s_delay", "s_wait"}
Receiving == {"r_delay", "r_wait"}
SendersWaitForRoom ==
    \A t \in Nodes(k.waits[SendTree]) :
        t \in Senders /\ pc[t] \notin Receiving /\ msg_num = NodeNum
WokenFindRoom ==
    \A t \in Tasks : pc[t] \in Sending =>
        /\ t \in Senders /\ msg[t] \in Messages
        /\ t \notin Nodes(k.waits[SendTree]) => msg_num < NodeNum
ReceiversWaitForMessage ==
    \A t \in Nodes(k.waits[RecvTree]) :
        t \in Receivers /\ pc[t] \in Receiving /\ msg_num = 0
WokenFindMessage ==
    \A t \in Tasks : pc[t] \in Receiving =>
        /\ t \in Receivers
        /\ t \notin Nodes(k.waits[RecvTree]) => msg_num > 0
WriteFollowsRead == write = (read + msg_num + 1) % NodeNum

PairInv ==
    /\ NeverOverfull /\ WriteFollowsRead
    /\ SendersWaitForRoom /\ WokenFindRoom
    /\ ReceiversWaitForMessage /\ WokenFindMessage
=============================================================================
