------------------------- MODULE MessageQueueProofs -------------------------
(***************************************************************************)
(* Safety of the message queues: among any number of tasks nobody drops    *)
(* out of the system; between one sender and one receiver the ring is the  *)
(* first-in first-out queue of BoundedFifo, of any capacity.               *)
(***************************************************************************)
EXTENDS MessageQueue, KernelProofs

-----------------------------------------------------------------------------
(***************************************************************************)
(* Any number of senders and receivers.                                    *)
(***************************************************************************)
LEMMA StutterKeeps ==
    ASSUME IInv, UNCHANGED vars
    PROVE  IInv'
BY DEF IInv, vars, queue, locals, TypeOK, WaitTreesOnce, NobodyLost, WakersKnowWhom

\* The memory of the queue and what was taken out of it.
RingType ==
    /\ ring \in [Slots -> Messages \cup {NoMessage}]
    /\ read \in Slots /\ write \in Slots
    /\ msg_num \in 0..(NumMod - 1)
    /\ received \in [Tasks -> Messages \cup {NoMessage}]

\* A last critical section of t: x leaves its trees, w has still to be woken.
Leaves(t, x, w) ==
    /\ k' \in KernelState
    /\ \A p \in Objects : /\ NoTwice(k'.waits[p])
                          /\ Nodes(k'.waits[p]) = Nodes(k.waits[p]) \ {x}
    /\ Present(k) \ {w} \subseteq Present(k')
    /\ w \in Tasks \cup {NoTask}
    /\ leave(t, w)
    /\ UNCHANGED ticks

LEMMA LeavesKeeps ==
    ASSUME IInv, NEW t \in Tasks, NEW x, NEW w, Leaves(t, x, w),
           pc[t] # "waking", RingType'
    PROVE  IInv'
<1>1. /\ wake' = [wake EXCEPT ![t] = w]
      /\ pc' = [pc EXCEPT ![t] = IF w = NoTask THEN "run" ELSE "waking"]
      /\ msg' = [msg EXCEPT ![t] = NoMessage]
      /\ pend' = [pend EXCEPT ![t] = 0]
      /\ w \in Tasks \cup {NoTask} /\ UNCHANGED ticks
      /\ k' \in KernelState /\ Present(k) \ {w} \subseteq Present(k')
      /\ \A p \in Objects : NoTwice(k'.waits[p])
  BY DEF Leaves, leave
<1>2. /\ \A u \in Tasks : u # t => pc'[u] = pc[u] /\ wake'[u] = wake[u]
      /\ pc'[t] = IF w = NoTask THEN "run" ELSE "waking"
      /\ wake'[t] = w
      /\ pc' \in [Tasks -> Labels] /\ wake' \in [Tasks -> Tasks \cup {NoTask}]
  BY <1>1 DEF IInv, TypeOK, Labels
<1>3. TypeOK'
  <2>1. 0 \in 0..(SwitchMod - 1)
    BY WidthAssumption
  <2>2. msg' \in [Tasks -> Messages \cup {NoMessage}]
    BY <1>1 DEF IInv, TypeOK
  <2>3. pend' \in [Tasks -> 0..(SwitchMod - 1)]
    BY <1>1, <2>1 DEF IInv, TypeOK
  <2> QED
    BY <1>1, <1>2, <2>2, <2>3 DEF IInv, TypeOK, RingType
<1>4. WaitTreesOnce'
  BY <1>1 DEF WaitTreesOnce
<1>5. NobodyLost'
  <2> SUFFICES ASSUME NEW u \in Tasks, u \notin Present(k')
               PROVE  \E v \in Tasks : pc'[v] = "waking" /\ wake'[v] = u
    BY DEF NobodyLost, Present
  <2>1. CASE u = w
    BY <1>2, <2>1, NameAssumption
  <2>2. CASE u # w
    <3>1. u \notin Present(k)
      BY <1>1, <2>2
    <3>2. PICK v \in Tasks : pc[v] = "waking" /\ wake[v] = u
      BY <3>1 DEF IInv, NobodyLost, Present
    <3> QED
      BY <1>2, <3>2
  <2> QED
    BY <2>1, <2>2
<1>6. WakersKnowWhom'
  BY <1>1, <1>2 DEF IInv, WakersKnowWhom
<1> QED
  BY <1>3, <1>4, <1>5, <1>6 DEF IInv

\* The most urgent task on one side, or nobody, leaves the wait trees and the
\* sleepers.
LEMMA UnblockLeaves ==
    ASSUME IInv, NEW o \in Objects
    PROVE  LET w == first_respond_ipc(k, o)
               n == unblock(k, w)
           IN  /\ n \in KernelState
               /\ \A p \in Objects : /\ NoTwice(n.waits[p])
                                     /\ Nodes(n.waits[p]) = Nodes(k.waits[p]) \ {w}
               /\ Present(k) \ {w} \subseteq Present(n)
               /\ w \in Tasks \cup {NoTask}
<1> DEFINE w == first_respond_ipc(k, o)
           n == unblock(k, w)
<1>1. k \in KernelState /\ \A p \in Objects : NoTwice(k.waits[p])
  BY DEF IInv, TypeOK, WaitTreesOnce
<1>2. CASE w = NoTask
  <2>1. n = k
    BY <1>2 DEF unblock
  <2>2. \A p \in Objects : NoTask \notin Nodes(k.waits[p])
    BY <1>1, NameAssumption DEF KernelState, Nodes
  <2> QED
    BY <1>1, <1>2, <2>1, <2>2
<1>3. CASE w # NoTask
  <2>1. w \in Tasks
    BY <1>1, <1>3, FirstWaits
  <2>2. n = remove_ipc(delay_adt_remove(k, w), w)
    BY <1>3 DEF unblock
  <2> QED
    BY <1>1, <2>1, <2>2, ServedLeaves
<1> QED
  BY <1>2, <1>3

\* The position after a slot is a slot.
LEMMA AfterIsSlot ==
    ASSUME NEW i \in Slots
    PROVE  After(i) \in Slots
BY QueueAssumption DEF Slots, After

LEMMA WriteLeaves ==
    ASSUME IInv, NEW t \in Tasks, NEW m \in Messages \cup {NoMessage},
           write_to_queue(t, m)
    PROVE  /\ LET w == first_respond_ipc(k, RecvTree) IN Leaves(t, w, w)
           /\ RingType'
<1> DEFINE w == first_respond_ipc(k, RecvTree)
<1>1. Leaves(t, w, w)
  <2>1. RecvTree \in Objects
    BY QueueAssumption
  <2>2. k' = unblock(k, w) /\ leave(t, w) /\ UNCHANGED ticks
    BY DEF write_to_queue
  <2> QED
    BY <2>1, <2>2, UnblockLeaves DEF Leaves
<1>2. RingType'
  <2>1. /\ ring' = [ring EXCEPT ![write] = m] /\ write' = After(write)
        /\ msg_num' = (msg_num + 1) % NumMod /\ UNCHANGED <<read, received>>
    BY DEF write_to_queue
  <2>2. RingType
    BY DEF IInv, TypeOK, RingType
  <2>3. (msg_num + 1) % NumMod \in 0..(NumMod - 1)
    BY <2>2, QueueAssumption DEF RingType
  <2>4. ring' \in [Slots -> Messages \cup {NoMessage}]
    BY <2>1, <2>2 DEF RingType
  <2> QED
    BY <2>1, <2>2, <2>3, <2>4, AfterIsSlot DEF RingType
<1> QED
  BY <1>1, <1>2

LEMMA ExtractLeaves ==
    ASSUME IInv, NEW t \in Tasks, extract_from_queue(t)
    PROVE  /\ LET w == first_respond_ipc(k, SendTree) IN Leaves(t, w, w)
           /\ RingType'
<1> DEFINE w == first_respond_ipc(k, SendTree)
<1>1. Leaves(t, w, w)
  <2>1. SendTree \in Objects
    BY QueueAssumption
  <2>2. k' = unblock(k, w) /\ leave(t, w) /\ UNCHANGED ticks
    BY DEF extract_from_queue
  <2> QED
    BY <2>1, <2>2, UnblockLeaves DEF Leaves
<1>2. RingType'
  <2>1. /\ read' = After(read)
        /\ received' = [received EXCEPT ![t] = ring[After(read)]]
        /\ msg_num' = (msg_num - 1) % NumMod /\ UNCHANGED <<ring, write>>
    BY DEF extract_from_queue
  <2>2. RingType
    BY DEF IInv, TypeOK, RingType
  <2>3. (msg_num - 1) % NumMod \in 0..(NumMod - 1)
    BY <2>2, QueueAssumption DEF RingType
  <2>4. received' \in [Tasks -> Messages \cup {NoMessage}]
    BY <2>1, <2>2, AfterIsSlot DEF RingType
  <2> QED
    BY <2>1, <2>2, <2>3, <2>4, AfterIsSlot DEF RingType
<1> QED
  BY <1>1, <1>2

\* The time is over: a receiver leaves the wait tree, a sender does not.
LEMMA TimeoutLeaves ==
    ASSUME IInv, NEW t \in Tasks, leave(t, NoTask),
           UNCHANGED <<queue, received, ticks>>
    PROVE  /\ UNCHANGED k => Leaves(t, NoTask, NoTask)
           /\ k' = remove_ipc(k, t) => Leaves(t, t, NoTask)
           /\ RingType'
<1>1. k \in KernelState /\ \A p \in Objects : NoTwice(k.waits[p])
  BY DEF IInv, TypeOK, WaitTreesOnce
<1>2. ASSUME UNCHANGED k PROVE Leaves(t, NoTask, NoTask)
  <2>1. \A p \in Objects : NoTask \notin Nodes(k.waits[p])
    BY <1>1, NameAssumption DEF KernelState, Nodes
  <2>2. \A p \in Objects : Nodes(k.waits[p]) = Nodes(k.waits[p]) \ {NoTask}
    BY <2>1
  <2> QED
    BY <1>1, <1>2, <2>2 DEF Leaves
<1>3. ASSUME k' = remove_ipc(k, t) PROVE Leaves(t, t, NoTask)
  BY <1>1, <1>3, LeaveWaits DEF Leaves, Present
<1>4. RingType'
  BY DEF IInv, TypeOK, RingType, queue
<1> QED
  BY <1>2, <1>3, <1>4

\* A task joins a wait tree, unless a call that timed out left it in one.
LEMMA JoinTree ==
    ASSUME IInv, NEW t \in Tasks, NEW o \in Objects, k' = insert_ipc(k, t, o)
    PROVE  /\ k' \in KernelState /\ Present(k') = Present(k)
           /\ \A p \in Objects :
                 /\ NoTwice(k'.waits[p])
                 /\ Nodes(k'.waits[p]) = Nodes(k.waits[p]) \cup
                       (IF check_ipc_state(k, t) /\ p = o THEN {t} ELSE {})
<1>1. k \in KernelState /\ \A p \in Objects : NoTwice(k.waits[p])
  BY DEF IInv, TypeOK, WaitTreesOnce
<1>2. CASE check_ipc_state(k, t)
  <2>1. \A p \in Objects : t \notin Nodes(k.waits[p])
    BY <1>2 DEF check_ipc_state
  <2>2. /\ k' \in KernelState
        /\ \A p \in Objects :
               NoTwice(k'.waits[p]) /\ (p # o => k'.waits[p] = k.waits[p])
        /\ Nodes(k'.waits[o]) = Nodes(k.waits[o]) \cup {t}
        /\ k'.ready = k.ready /\ k'.sleep = k.sleep
    BY <1>1, <2>1, JoinWaits
  <2> QED
    BY <1>2, <2>2 DEF Present
<1>3. CASE ~check_ipc_state(k, t)
  <2>1. k' = corrupted(k)
    BY <1>3 DEF insert_ipc
  <2>2. /\ k' \in KernelState /\ k'.waits = k.waits
        /\ k'.ready = k.ready /\ k'.sleep = k.sleep
    BY <1>1, <2>1 DEF corrupted, KernelState
  <2> QED
    BY <1>1, <1>3, <2>2 DEF Present
<1> QED
  BY <1>2, <1>3

LEMMA JoinKeeps ==
    ASSUME IInv, NEW t \in Tasks, NEW o \in Objects,
           NEW label \in Labels \ {"waking"}, NEW n \in Nat,
           pc[t] = "run", join(t, o, label, n),
           msg' \in [Tasks -> Messages \cup {NoMessage}]
    PROVE  IInv'
<1>1. /\ k' \in KernelState /\ Present(k') = Present(k)
      /\ \A p \in Objects : NoTwice(k'.waits[p])
  BY JoinTree DEF join
<1>2. /\ pc' = [pc EXCEPT ![t] = label] /\ ticks' = [ticks EXCEPT ![t] = n]
      /\ pend' = [pend EXCEPT ![t] = k.switches]
      /\ UNCHANGED <<queue, received, wake>>
  BY DEF join
<1>3. TypeOK'
  <2>1. k.switches \in 0..(SwitchMod - 1)
    BY DEF IInv, TypeOK, KernelState
  <2> QED
    BY <1>1, <1>2, <2>1 DEF IInv, TypeOK, queue
<1>4. WaitTreesOnce'
  BY <1>1 DEF WaitTreesOnce
<1>5. \A u \in Tasks : pc'[u] = "waking" <=> pc[u] = "waking"
  BY <1>2 DEF IInv, TypeOK
<1>6. NobodyLost'
  BY <1>1, <1>2, <1>5 DEF IInv, NobodyLost, Present
<1>7. WakersKnowWhom'
  BY <1>2, <1>5 DEF IInv, WakersKnowWhom
<1> QED
  BY <1>3, <1>4, <1>6, <1>7 DEF IInv

\* A step that moves nobody into or out of a wait tree, a call or a waking.
Quiet ==
    /\ Carries(k, k')
    /\ UNCHANGED <<queue, received, msg, wake>>
    /\ pc' \in [Tasks -> Labels]
    /\ \A t \in Tasks : /\ pc'[t] \in Sending <=> pc[t] \in Sending
                        /\ pc'[t] \in Receiving <=> pc[t] \in Receiving
                        /\ pc'[t] = "waking" <=> pc[t] = "waking"
    /\ ticks' \in [Tasks -> Nat]
    /\ pend' \in [Tasks -> 0..(SwitchMod - 1)]

LEMMA QuietKeeps ==
    ASSUME IInv, Quiet
    PROVE  IInv'
<1>1. k' \in KernelState /\ k'.waits = k.waits /\ Present(k) \subseteq Present(k')
  BY DEF Quiet, Carries
<1>2. TypeOK'
  BY <1>1 DEF IInv, TypeOK, Quiet, queue
<1>3. WaitTreesOnce'
  BY <1>1 DEF IInv, WaitTreesOnce
<1>4. NobodyLost' /\ WakersKnowWhom'
  BY <1>1 DEF IInv, NobodyLost, WakersKnowWhom, Quiet, Present
<1> QED
  BY <1>2, <1>3, <1>4 DEF IInv

LEMMA SleepIsQuiet ==
    ASSUME IInv, NEW t \in Tasks, send_delay(t) \/ receive_delay(t)
    PROVE  Quiet
<1>1. /\ k \in KernelState /\ k.cur \in Tasks /\ ticks[t] \in Nat
      /\ pc \in [Tasks -> Labels] /\ ticks \in [Tasks -> Nat]
      /\ pend \in [Tasks -> 0..(SwitchMod - 1)]
  BY DEF IInv, TypeOK, send_delay, receive_delay, At, Running
<1>2. Carries(k, k')
  BY <1>1, DelayCarries DEF send_delay, receive_delay, sleep
<1>3. /\ ticks' = [ticks EXCEPT ![t] = 0]
      /\ UNCHANGED <<queue, received, msg, pend, wake>>
      /\ \/ pc[t] = "s_delay" /\ pc' = [pc EXCEPT ![t] = "s_wait"]
         \/ pc[t] = "r_delay" /\ pc' = [pc EXCEPT ![t] = "r_wait"]
  BY DEF send_delay, receive_delay, sleep, At
<1> QED
  BY <1>1, <1>2, <1>3 DEF Quiet, Sending, Receiving, Labels

LEMMA KernelStepIsQuiet ==
    ASSUME IInv, \/ \E t \in Tasks : nap(t)
                 \/ PendSV \/ SysTick \/ check_ticks
    PROVE  Quiet
<1>1. k \in KernelState
  BY DEF IInv, TypeOK
<1>2. ASSUME NEW t \in Tasks, nap(t) PROVE Carries(k, k')
  <2>1. k.cur \in Tasks
    BY <1>2 DEF nap, At, Running
  <2> QED
    BY <1>1, <1>2, <2>1, DelayCarries, QueueAssumption DEF nap
<1>3. ASSUME PendSV PROVE Carries(k, k')
  BY <1>1, <1>3, SwitchCarries DEF PendSV
<1>4. ASSUME SysTick PROVE Carries(k, k')
  BY <1>1, <1>4, TickCarries DEF SysTick
<1>5. ASSUME check_ticks PROVE Carries(k, k')
  BY <1>1, <1>5, TickCarries, WakeCarries DEF check_ticks, Expired
<1>6. Carries(k, k') /\ UNCHANGED <<queue, received, pc, locals>>
  BY <1>2, <1>3, <1>4, <1>5 DEF nap, PendSV, SysTick, check_ticks
<1> QED
  BY <1>6 DEF IInv, TypeOK, Quiet, locals

\* The task that a call took from the sleepers is made ready.
LEMMA MakeReadyKeeps ==
    ASSUME IInv, NEW t \in Tasks, make_ready(t)
    PROVE  IInv' /\ k'.waits = k.waits
<1>1. /\ k \in KernelState /\ pc[t] = "waking" /\ wake[t] \in Tasks
      /\ k' = task_adt_add(k, wake[t])
      /\ pc' = [pc EXCEPT ![t] = "run"] /\ wake' = [wake EXCEPT ![t] = NoTask]
      /\ UNCHANGED <<queue, received, msg, ticks, pend>>
  BY DEF IInv, TypeOK, WakersKnowWhom, make_ready, At
<1>2. Carries(k, k') /\ wake[t] \in Present(k')
  BY <1>1, AddCarries
<1>3. k' \in KernelState /\ k'.waits = k.waits /\ Present(k) \subseteq Present(k')
  BY <1>2 DEF Carries
<1>4. /\ \A u \in Tasks : u # t => pc'[u] = pc[u] /\ wake'[u] = wake[u]
      /\ pc'[t] = "run"
      /\ pc' \in [Tasks -> Labels] /\ wake' \in [Tasks -> Tasks \cup {NoTask}]
  BY <1>1 DEF IInv, TypeOK, Labels
<1>5. TypeOK' /\ WaitTreesOnce' /\ WakersKnowWhom'
  BY <1>1, <1>3, <1>4 DEF IInv, TypeOK, WaitTreesOnce, WakersKnowWhom, queue
<1>6. NobodyLost'
  <2> SUFFICES ASSUME NEW u \in Tasks, u \notin Present(k')
               PROVE  \E v \in Tasks : pc'[v] = "waking" /\ wake'[v] = u
    BY DEF NobodyLost, Present
  <2>1. u \notin Present(k) /\ u # wake[t]
    BY <1>2, <1>3
  <2>2. PICK v \in Tasks : pc[v] = "waking" /\ wake[v] = u
    BY <2>1 DEF IInv, NobodyLost, Present
  <2> QED
    BY <1>4, <2>1, <2>2
<1> QED
  BY <1>3, <1>5, <1>6 DEF IInv

LEMMA InitIInv ==
    ASSUME IsFiniteSet(Tasks), Init
    PROVE  /\ IInv
           /\ \A o \in Objects : k.waits[o] = <<>>
<1>1. /\ k \in KernelState /\ Tasks \subseteq Present(k)
      /\ \A o \in Objects : k.waits[o] = <<>>
  <2>1. PICK order \in StartOrders : k = Started(order)
    BY DEF Init
  <2> QED
    BY <2>1, StartIsPresent
<1>2. TypeOK
  <2>1. /\ 0 \in 0..(SwitchMod - 1) /\ 0 \in Nat /\ 0 \in 0..(NumMod - 1)
        /\ 0 \in Slots /\ NodeNum - 1 \in Slots
    BY WidthAssumption, QueueAssumption DEF Slots
  <2> QED
    BY <1>1, <2>1 DEF Init, TypeOK, Labels
<1>3. WaitTreesOnce
  BY <1>1 DEF WaitTreesOnce, NoTwice, Nodes
<1>4. NobodyLost /\ WakersKnowWhom
  BY <1>1 DEF Init, NobodyLost, WakersKnowWhom, Present
<1> QED
  BY <1>1, <1>2, <1>3, <1>4 DEF IInv

LEMMA SendEnterKeeps ==
    ASSUME IInv, NEW t \in Tasks, NEW m \in Messages, NEW n \in SendTicks,
           send_enter(t, m, n)
    PROVE  IInv'
<1>1. pc[t] = "run" /\ n \in Nat
  BY QueueAssumption DEF send_enter, At
<1>2. CASE write_to_queue(t, m)
  BY <1>1, <1>2, WriteLeaves, LeavesKeeps
<1>3. CASE join(t, SendTree, "s_delay", n) /\ msg' = [msg EXCEPT ![t] = m]
  <2>1. msg' \in [Tasks -> Messages \cup {NoMessage}]
    BY <1>3 DEF IInv, TypeOK
  <2>2. SendTree \in Objects /\ "s_delay" \in Labels \ {"waking"}
    BY QueueAssumption DEF Labels
  <2> QED
    BY <1>1, <1>3, <2>1, <2>2, JoinKeeps
<1> QED
  BY <1>2, <1>3, StutterKeeps DEF send_enter

LEMMA SendReturnKeeps ==
    ASSUME IInv, NEW t \in Tasks, send_return(t)
    PROVE  IInv'
<1>1. pc[t] = "s_wait" /\ msg[t] \in Messages \cup {NoMessage}
  BY DEF IInv, TypeOK, send_return, At
<1>2. CASE write_to_queue(t, msg[t])
  BY <1>1, <1>2, WriteLeaves, LeavesKeeps
<1>3. CASE leave(t, NoTask) /\ UNCHANGED <<k, queue, received, ticks>>
  BY <1>1, <1>3, TimeoutLeaves, LeavesKeeps
<1> QED
  BY <1>2, <1>3 DEF send_return

LEMMA ReceiveEnterKeeps ==
    ASSUME IInv, NEW t \in Tasks, NEW n \in RecvTicks, receive_enter(t, n)
    PROVE  IInv'
<1>1. pc[t] = "run" /\ n \in Nat
  BY QueueAssumption DEF receive_enter, At
<1>2. CASE extract_from_queue(t)
  BY <1>1, <1>2, ExtractLeaves, LeavesKeeps
<1>3. CASE join(t, RecvTree, "r_delay", n) /\ UNCHANGED msg
  <2>1. msg' \in [Tasks -> Messages \cup {NoMessage}]
    BY <1>3 DEF IInv, TypeOK
  <2>2. RecvTree \in Objects /\ "r_delay" \in Labels \ {"waking"}
    BY QueueAssumption DEF Labels
  <2> QED
    BY <1>1, <1>3, <2>1, <2>2, JoinKeeps
<1> QED
  BY <1>2, <1>3, StutterKeeps DEF receive_enter

LEMMA ReceiveReturnKeeps ==
    ASSUME IInv, NEW t \in Tasks, receive_return(t)
    PROVE  IInv'
<1>1. pc[t] = "r_wait"
  BY DEF receive_return, At
<1>2. CASE extract_from_queue(t)
  BY <1>1, <1>2, ExtractLeaves, LeavesKeeps
<1>3. CASE leave(t, NoTask) /\ k' = remove_ipc(k, t)
           /\ UNCHANGED <<queue, received, ticks>>
  BY <1>1, <1>3, TimeoutLeaves, LeavesKeeps
<1> QED
  BY <1>2, <1>3 DEF receive_return

LEMMA NextKeeps ==
    ASSUME IInv, [Next]_vars
    PROVE  IInv'
<1>1. ASSUME NEW t \in Tasks, Step(t) PROVE IInv'
  <2>1. CASE \E m \in Messages, n \in SendTicks : send_enter(t, m, n)
    BY <2>1, SendEnterKeeps
  <2>2. CASE \E n \in RecvTicks : receive_enter(t, n)
    BY <2>2, ReceiveEnterKeeps
  <2>3. CASE send_delay(t) \/ receive_delay(t)
    BY <2>3, SleepIsQuiet, QuietKeeps
  <2>4. CASE send_return(t)
    BY <2>4, SendReturnKeeps
  <2>5. CASE receive_return(t)
    BY <2>5, ReceiveReturnKeeps
  <2>6. CASE spin(t)
    BY <2>6, StutterKeeps DEF spin
  <2>7. CASE make_ready(t)
    BY <2>7, MakeReadyKeeps
  <2>8. CASE nap(t)
    BY <2>8, KernelStepIsQuiet, QuietKeeps
  <2> QED
    BY <1>1, <2>1, <2>2, <2>3, <2>4, <2>5, <2>6, <2>7, <2>8 DEF Step
<1>2. CASE leisure_task \/ undefined \/ UNCHANGED vars
  BY <1>2, StutterKeeps DEF leisure_task, undefined
<1>3. CASE PendSV \/ SysTick \/ check_ticks
  BY <1>3, KernelStepIsQuiet, QuietKeeps
<1> QED
  BY <1>1, <1>2, <1>3 DEF Next

\* The inductive invariant for any number of senders and receivers.
THEOREM QueueInvariant ==
    ASSUME IsFiniteSet(Tasks)
    PROVE  Spec => []IInv
<1>1. Init => IInv
  BY InitIInv
<1>2. IInv /\ [Next]_vars => IInv'
  BY NextKeeps
<1> QED
  BY <1>1, <1>2, PTL DEF Spec

\* queue_send and queue_receive: no task drops out between the critical section
\* that takes it from the sleepers and the task_adt_add that follows.
THEOREM NobodyIsLost ==
    ASSUME IsFiniteSet(Tasks)
    PROVE  Spec => []NobodyLost
<1>1. IInv => NobodyLost
  BY DEF IInv
<1> QED
  BY <1>1, QueueInvariant, PTL
-----------------------------------------------------------------------------
(***************************************************************************)
(* One sender and one receiver.                                            *)
(***************************************************************************)
\* One task at most sends, one at most receives; it may be the same.
OnePair ==
    /\ \A t, u \in Senders : t = u
    /\ \A t, u \in Receivers : t = u

LEMMA PairStutterKeeps ==
    ASSUME PairInv, UNCHANGED vars
    PROVE  PairInv'
BY DEF PairInv, vars, queue, locals, NeverOverfull, WriteFollowsRead,
       SendersWaitForRoom, WokenFindRoom, ReceiversWaitForMessage, WokenFindMessage

\* A step that leaves the queue alone, moves nobody in or out of a wait tree,
\* and begins or ends no call.
LEMMA PairQuietKeeps ==
    ASSUME IInv, PairInv, k'.waits = k.waits, UNCHANGED <<queue, msg>>,
           \A t \in Tasks : /\ pc'[t] \in Sending <=> pc[t] \in Sending
                            /\ pc'[t] \in Receiving <=> pc[t] \in Receiving
    PROVE  PairInv'
<1>1. \A o \in Objects : Nodes(k.waits[o]) \subseteq Tasks
  BY QueuedNodes DEF IInv, TypeOK
<1>2. SendTree \in Objects /\ RecvTree \in Objects
  BY QueueAssumption
<1>3. NeverOverfull' /\ WriteFollowsRead'
  BY DEF PairInv, NeverOverfull, WriteFollowsRead, queue
<1>4. SendersWaitForRoom' /\ ReceiversWaitForMessage'
  BY <1>1, <1>2 DEF PairInv, SendersWaitForRoom, ReceiversWaitForMessage, queue
<1>5. WokenFindRoom' /\ WokenFindMessage'
  BY DEF PairInv, WokenFindRoom, WokenFindMessage, queue
<1> QED
  BY <1>3, <1>4, <1>5 DEF PairInv

\* What write_to_queue does to the numbers, when there is room.
LEMMA WriteCounts ==
    ASSUME IInv, PairInv, NEW t \in Tasks, NEW m \in Messages,
           write_to_queue(t, m), msg_num < NodeNum
    PROVE  /\ msg_num' = msg_num + 1 /\ NeverOverfull' /\ WriteFollowsRead'
<1>1. /\ msg_num \in Nat /\ NodeNum \in Nat /\ NodeNum > 0 /\ NumMod \in Nat
      /\ NodeNum < NumMod /\ read \in Int
  BY QueueAssumption DEF IInv, TypeOK, Slots
<1>2. /\ msg_num' = (msg_num + 1) % NumMod /\ read' = read
      /\ write' = (write + 1) % NodeNum
  BY DEF write_to_queue, After
<1>3. msg_num + 1 \in 0..(NumMod - 1)
  BY <1>1
<1>4. msg_num' = msg_num + 1
  BY <1>1, <1>2, <1>3, SmallMod
<1>5. NeverOverfull'
  BY <1>1, <1>4 DEF NeverOverfull
<1>6. WriteFollowsRead'
  <2> DEFINE x == read + msg_num + 1
  <2>1. x \in Int /\ read' + msg_num' + 1 = x + 1
    BY <1>1, <1>2, <1>4
  <2>2. write = x % NodeNum
    BY DEF PairInv, WriteFollowsRead
  <2> HIDE DEF x
  <2>3. ((x % NodeNum) + 1) % NodeNum = (x + 1) % NodeNum
    BY <1>1, <2>1, NextMod
  <2> QED
    BY <1>2, <2>1, <2>2, <2>3 DEF WriteFollowsRead
<1> QED
  BY <1>4, <1>5, <1>6

LEMMA ExtractCounts ==
    ASSUME IInv, PairInv, NEW t \in Tasks, extract_from_queue(t), msg_num > 0
    PROVE  /\ msg_num' = msg_num - 1 /\ NeverOverfull' /\ WriteFollowsRead'
<1>1. /\ msg_num \in Nat /\ NodeNum \in Nat /\ NodeNum > 0 /\ NumMod \in Nat
      /\ msg_num < NumMod /\ read \in 0..(NodeNum - 1)
  BY QueueAssumption DEF IInv, TypeOK, Slots
<1>2. /\ msg_num' = (msg_num - 1) % NumMod /\ read' = (read + 1) % NodeNum
      /\ write' = write
  BY DEF extract_from_queue, After
<1>3. msg_num - 1 \in 0..(NumMod - 1)
  BY <1>1
<1>4. msg_num' = msg_num - 1
  BY <1>1, <1>2, <1>3, SmallMod
<1>5. NeverOverfull'
  BY <1>1, <1>4 DEF PairInv, NeverOverfull
<1>6. WriteFollowsRead'
  <2> DEFINE c == msg_num + 1
             v == read
             r == (v + 1) % NodeNum
  <2>1. c \in Int /\ v \in 0..(NodeNum - 1) /\ read + msg_num + 1 = v + c
    BY <1>1
  <2> HIDE DEF c, v
  <2>2. r \in 0..(NodeNum - 1) /\ (r + (c - 1)) % NodeNum = (v + c) % NodeNum
    BY <1>1, <2>1, UpMod
  <2>3. read' = r
    BY <1>2 DEF v
  <2> HIDE DEF r
  <2>4. read' + msg_num' + 1 = r + (c - 1)
    BY <1>1, <1>4, <2>2, <2>3 DEF c
  <2>5. write = (v + c) % NodeNum
    BY <2>1 DEF PairInv, WriteFollowsRead
  <2> QED
    BY <1>2, <2>2, <2>4, <2>5 DEF WriteFollowsRead
<1> QED
  BY <1>4, <1>5, <1>6

\* The only sender writes: it is in no call and no wait tree any more, and
\* neither is the only receiver, whom it took out.
LEMMA PairWriteKeeps ==
    ASSUME OnePair, IInv, PairInv, NEW t \in Senders, NEW m \in Messages,
           write_to_queue(t, m), msg_num < NodeNum,
           pc[t] \in {"run", "s_wait"}
    PROVE  PairInv'
<1> DEFINE w == first_respond_ipc(k, RecvTree)
<1>1. /\ t \in Tasks /\ SendTree \in Objects /\ RecvTree \in Objects
      /\ k \in KernelState /\ pc \in [Tasks -> Labels]
      /\ Senders \subseteq Tasks /\ Receivers \subseteq Tasks /\ msg_num \in Nat
      /\ NodeNum \in Nat
  BY QueueAssumption DEF IInv, TypeOK
<1>2. msg_num' = msg_num + 1 /\ NeverOverfull' /\ WriteFollowsRead'
  BY <1>1, WriteCounts
<1>3. Leaves(t, w, w)
  BY <1>1, WriteLeaves
<1>4. \A p \in Objects : Nodes(k'.waits[p]) = Nodes(k.waits[p]) \ {w}
  BY <1>3 DEF Leaves
<1>5. /\ \A u \in Tasks : u # t => pc'[u] = pc[u] /\ msg'[u] = msg[u]
      /\ pc'[t] \notin Sending /\ pc'[t] \notin Receiving
  BY <1>1, <1>3 DEF Leaves, leave, IInv, TypeOK, Sending, Receiving
<1>6. Nodes(k.waits[SendTree]) = {}
  BY <1>1 DEF PairInv, SendersWaitForRoom
<1>7. Nodes(k'.waits[RecvTree]) = {}
  <2>1. CASE Nodes(k.waits[RecvTree]) = {}
    BY <1>1, <1>4, <2>1
  <2>2. CASE Nodes(k.waits[RecvTree]) # {}
    <3>1. w \in Nodes(k.waits[RecvTree])
      BY <1>1, <2>2, FirstWaits, QueuedNodes
    <3>2. \A u \in Nodes(k.waits[RecvTree]) : u = w
      BY <3>1 DEF PairInv, ReceiversWaitForMessage, OnePair
    <3> QED
      BY <1>1, <1>4, <3>2
  <2> QED
    BY <2>1, <2>2
<1>8. SendersWaitForRoom' /\ ReceiversWaitForMessage'
  BY <1>1, <1>4, <1>6, <1>7 DEF SendersWaitForRoom, ReceiversWaitForMessage
<1>9. WokenFindRoom'
  <2>1. \A u \in Tasks : pc'[u] \notin Sending
    BY <1>5 DEF PairInv, WokenFindRoom, OnePair
  <2> QED
    BY <2>1 DEF WokenFindRoom
<1>10. WokenFindMessage'
  BY <1>1, <1>2, <1>5 DEF PairInv, WokenFindMessage
<1> QED
  BY <1>2, <1>8, <1>9, <1>10 DEF PairInv

\* The same for the only receiver.
LEMMA PairExtractKeeps ==
    ASSUME OnePair, IInv, PairInv, NEW t \in Receivers,
           extract_from_queue(t), msg_num > 0,
           pc[t] \in {"run", "r_wait"}
    PROVE  PairInv'
<1> DEFINE w == first_respond_ipc(k, SendTree)
<1>1. /\ t \in Tasks /\ SendTree \in Objects /\ RecvTree \in Objects
      /\ k \in KernelState /\ pc \in [Tasks -> Labels]
      /\ Senders \subseteq Tasks /\ Receivers \subseteq Tasks /\ msg_num \in Nat
      /\ NodeNum \in Nat
  BY QueueAssumption DEF IInv, TypeOK
<1>2. msg_num' = msg_num - 1 /\ NeverOverfull' /\ WriteFollowsRead'
  BY <1>1, ExtractCounts
<1>3. Leaves(t, w, w)
  BY <1>1, ExtractLeaves
<1>4. \A p \in Objects : Nodes(k'.waits[p]) = Nodes(k.waits[p]) \ {w}
  BY <1>3 DEF Leaves
<1>5. /\ \A u \in Tasks : u # t => pc'[u] = pc[u] /\ msg'[u] = msg[u]
      /\ pc'[t] \notin Sending /\ pc'[t] \notin Receiving
  BY <1>1, <1>3 DEF Leaves, leave, IInv, TypeOK, Sending, Receiving
<1>6. Nodes(k.waits[RecvTree]) = {}
  BY <1>1 DEF PairInv, ReceiversWaitForMessage
<1>7. Nodes(k'.waits[SendTree]) = {}
  <2>1. CASE Nodes(k.waits[SendTree]) = {}
    BY <1>1, <1>4, <2>1
  <2>2. CASE Nodes(k.waits[SendTree]) # {}
    <3>1. w \in Nodes(k.waits[SendTree])
      BY <1>1, <2>2, FirstWaits, QueuedNodes
    <3>2. \A u \in Nodes(k.waits[SendTree]) : u = w
      BY <3>1 DEF PairInv, SendersWaitForRoom, OnePair
    <3> QED
      BY <1>1, <1>4, <3>2
  <2> QED
    BY <2>1, <2>2
<1>8. SendersWaitForRoom' /\ ReceiversWaitForMessage'
  BY <1>1, <1>4, <1>6, <1>7 DEF SendersWaitForRoom, ReceiversWaitForMessage
<1>9. WokenFindRoom'
  BY <1>1, <1>2, <1>5 DEF PairInv, WokenFindRoom, NeverOverfull
<1>10. WokenFindMessage'
  <2>1. \A u \in Tasks : pc'[u] \notin Receiving
    BY <1>5 DEF PairInv, WokenFindMessage, OnePair
  <2> QED
    BY <2>1 DEF WokenFindMessage
<1> QED
  BY <1>2, <1>8, <1>9, <1>10 DEF PairInv

\* A sender that joins the senders' tree, or is left in it, finds the queue full.
LEMMA PairJoinSendKeeps ==
    ASSUME IInv, PairInv, NEW t \in Senders, NEW m \in Messages, NEW n,
           pc[t] = "run", msg_num >= NodeNum,
           join(t, SendTree, "s_delay", n), msg' = [msg EXCEPT ![t] = m]
    PROVE  PairInv'
<1>1. /\ t \in Tasks /\ SendTree \in Objects /\ RecvTree \in Objects
      /\ RecvTree # SendTree /\ k \in KernelState /\ msg_num = NodeNum
      /\ \A o \in Objects : Nodes(k.waits[o]) \subseteq Tasks
  <2>1. k \in KernelState /\ msg_num \in Nat /\ NodeNum \in Nat
    BY QueueAssumption DEF IInv, TypeOK
  <2>2. msg_num = NodeNum
    BY <2>1 DEF PairInv, NeverOverfull
  <2> QED
    BY <2>1, <2>2, QueueAssumption, QueuedNodes
<1>2. /\ \A u \in Tasks : u # t => pc'[u] = pc[u] /\ msg'[u] = msg[u]
      /\ pc'[t] = "s_delay" /\ msg'[t] = m /\ UNCHANGED queue
  BY <1>1 DEF join, IInv, TypeOK
<1>3. t \notin Nodes(k.waits[RecvTree])
  BY DEF PairInv, ReceiversWaitForMessage, Receiving
<1>4. /\ Nodes(k'.waits[SendTree]) = Nodes(k.waits[SendTree]) \cup {t}
      /\ Nodes(k'.waits[RecvTree]) = Nodes(k.waits[RecvTree])
  <2>1. \A p \in Objects :
           Nodes(k'.waits[p]) = Nodes(k.waits[p]) \cup
                 (IF check_ipc_state(k, t) /\ p = SendTree THEN {t} ELSE {})
    BY <1>1, JoinTree DEF join
  <2>2. check_ipc_state(k, t) \/ t \in Nodes(k.waits[SendTree])
    BY <1>3, QueueAssumption DEF check_ipc_state
  <2> QED
    BY <1>1, <2>1, <2>2
<1>5. NeverOverfull' /\ WriteFollowsRead'
  BY <1>2 DEF PairInv, NeverOverfull, WriteFollowsRead, queue
<1>6. SendersWaitForRoom'
  BY <1>1, <1>2, <1>4 DEF PairInv, SendersWaitForRoom, Receiving, queue
<1>7. WokenFindRoom'
  BY <1>1, <1>2, <1>4 DEF PairInv, WokenFindRoom, queue
<1>8. ReceiversWaitForMessage'
  BY <1>1, <1>2, <1>3, <1>4 DEF PairInv, ReceiversWaitForMessage, queue
<1>9. WokenFindMessage'
  BY <1>1, <1>2, <1>4 DEF PairInv, WokenFindMessage, Receiving, queue
<1> QED
  BY <1>5, <1>6, <1>7, <1>8, <1>9 DEF PairInv

\* A receiver that finds the queue empty is in no tree, and joins its own.
LEMMA PairJoinReceiveKeeps ==
    ASSUME IInv, PairInv, NEW t \in Receivers, NEW n,
           pc[t] = "run", msg_num = 0,
           join(t, RecvTree, "r_delay", n), UNCHANGED msg
    PROVE  PairInv'
<1>1. /\ t \in Tasks /\ SendTree \in Objects /\ RecvTree \in Objects
      /\ RecvTree # SendTree /\ k \in KernelState /\ NodeNum # 0
      /\ \A o \in Objects : Nodes(k.waits[o]) \subseteq Tasks
  <2>1. k \in KernelState
    BY DEF IInv, TypeOK
  <2> QED
    BY <2>1, QueueAssumption, QueuedNodes
<1>2. /\ \A u \in Tasks : u # t => pc'[u] = pc[u]
      /\ pc'[t] = "r_delay" /\ UNCHANGED queue
  BY <1>1 DEF join, IInv, TypeOK
<1>3. Nodes(k.waits[SendTree]) = {}
  BY <1>1 DEF PairInv, SendersWaitForRoom
<1>4. t \notin Nodes(k.waits[RecvTree])
  BY DEF PairInv, ReceiversWaitForMessage, Receiving
<1>5. /\ Nodes(k'.waits[RecvTree]) = Nodes(k.waits[RecvTree]) \cup {t}
      /\ Nodes(k'.waits[SendTree]) = {}
  <2>1. \A p \in Objects :
           Nodes(k'.waits[p]) = Nodes(k.waits[p]) \cup
                 (IF check_ipc_state(k, t) /\ p = RecvTree THEN {t} ELSE {})
    BY <1>1, JoinTree DEF join
  <2>2. check_ipc_state(k, t)
    BY <1>3, <1>4, QueueAssumption DEF check_ipc_state
  <2> QED
    BY <1>1, <1>3, <2>1, <2>2
<1>6. NeverOverfull' /\ WriteFollowsRead'
  BY <1>2 DEF PairInv, NeverOverfull, WriteFollowsRead, queue
<1>7. SendersWaitForRoom' /\ ReceiversWaitForMessage'
  BY <1>1, <1>2, <1>5
     DEF PairInv, SendersWaitForRoom, ReceiversWaitForMessage, Receiving, queue
<1>8. WokenFindRoom'
  BY <1>1, <1>2, <1>3, <1>5 DEF PairInv, WokenFindRoom, Sending, queue
<1>9. WokenFindMessage'
  BY <1>1, <1>2, <1>5 DEF PairInv, WokenFindMessage, queue
<1> QED
  BY <1>6, <1>7, <1>8, <1>9 DEF PairInv

\* The time is over, for a sender, which stays in the tree, or a receiver.
LEMMA PairTimeoutKeeps ==
    ASSUME IInv, PairInv, NEW t \in Tasks, leave(t, NoTask),
           UNCHANGED <<queue, received, ticks>>,
           \/ pc[t] = "s_wait" /\ UNCHANGED k
           \/ pc[t] = "r_wait" /\ k' = remove_ipc(k, t)
    PROVE  PairInv'
<1>1. /\ k \in KernelState /\ SendTree \in Objects /\ RecvTree \in Objects
      /\ \A o \in Objects : Nodes(k.waits[o]) \subseteq Tasks
  <2>1. k \in KernelState
    BY DEF IInv, TypeOK
  <2> QED
    BY <2>1, QueueAssumption, QueuedNodes
<1>2. /\ \A u \in Tasks : u # t => pc'[u] = pc[u] /\ msg'[u] = msg[u]
      /\ pc'[t] = "run"
  BY DEF leave, IInv, TypeOK
<1>3. \A o \in Objects : /\ Nodes(k'.waits[o]) \subseteq Nodes(k.waits[o])
                         /\ Nodes(k.waits[o]) \subseteq Nodes(k'.waits[o]) \cup {t}
  <2>1. CASE UNCHANGED k
    BY <2>1
  <2>2. CASE k' = remove_ipc(k, t)
    <3>1. \A o \in Objects : NoTwice(k.waits[o])
      BY DEF IInv, WaitTreesOnce
    <3>2. \A o \in Objects : Nodes(k'.waits[o]) = Nodes(k.waits[o]) \ {t}
      BY <1>1, <2>2, <3>1, LeaveWaits
    <3> QED
      BY <3>2
  <2> QED
    BY <2>1, <2>2
<1>4. t \notin Nodes(k'.waits[RecvTree])
  <2>1. CASE pc[t] = "s_wait"
    BY <1>1, <1>3, <2>1 DEF PairInv, ReceiversWaitForMessage, Receiving
  <2>2. CASE k' = remove_ipc(k, t)
    <3>1. \A o \in Objects : NoTwice(k.waits[o])
      BY DEF IInv, WaitTreesOnce
    <3>2. \A o \in Objects : Nodes(k'.waits[o]) = Nodes(k.waits[o]) \ {t}
      BY <1>1, <2>2, <3>1, LeaveWaits
    <3> QED
      BY <1>1, <3>2
  <2> QED
    BY <2>1, <2>2
<1>5. NeverOverfull' /\ WriteFollowsRead'
  BY DEF PairInv, NeverOverfull, WriteFollowsRead, queue
<1>6. SendersWaitForRoom' /\ ReceiversWaitForMessage'
  BY <1>1, <1>2, <1>3, <1>4
     DEF PairInv, SendersWaitForRoom, ReceiversWaitForMessage, Receiving, queue
<1>7. WokenFindRoom' /\ WokenFindMessage'
  <2>1. ASSUME NEW u \in Tasks, u # t, NEW o \in Objects
        PROVE  u \in Nodes(k'.waits[o]) <=> u \in Nodes(k.waits[o])
    BY <1>3, <2>1
  <2> QED
    BY <1>1, <1>2, <2>1
       DEF PairInv, WokenFindRoom, WokenFindMessage, Sending, Receiving, queue
<1> QED
  BY <1>5, <1>6, <1>7 DEF PairInv

LEMMA PairInit ==
    ASSUME IsFiniteSet(Tasks), Init
    PROVE  PairInv
<1>1. /\ Nodes(k.waits[SendTree]) = {} /\ Nodes(k.waits[RecvTree]) = {}
  BY InitIInv, QueueAssumption DEF Nodes
<1>2. NeverOverfull /\ WriteFollowsRead
  <2>1. read = NodeNum - 1 /\ write = 0 /\ msg_num = 0
    BY DEF Init
  <2>2. NodeNum \in Nat /\ NodeNum > 0
    BY QueueAssumption
  <2>3. (0 + NodeNum) % NodeNum = 0 % NodeNum
    BY <2>2, TurnMod
  <2>4. (NodeNum - 1) + 0 + 1 = 0 + NodeNum /\ 0 % NodeNum = 0
    BY <2>2
  <2> QED
    BY <2>1, <2>2, <2>3, <2>4 DEF NeverOverfull, WriteFollowsRead
<1> QED
  BY <1>1, <1>2 DEF Init, PairInv, SendersWaitForRoom, WokenFindRoom,
                    ReceiversWaitForMessage, WokenFindMessage, Sending, Receiving

\* What a step of one pair is: a message goes in, one comes out, or neither.
LEMMA PairStep ==
    ASSUME OnePair, IInv, PairInv, [Next]_vars
    PROVE  /\ PairInv'
           /\ \/ \E t \in Tasks, m \in Messages :
                    write_to_queue(t, m) /\ msg_num < NodeNum
              \/ \E t \in Tasks : extract_from_queue(t) /\ msg_num > 0
              \/ UNCHANGED <<queue, received>>
<1> DEFINE In == \E t \in Tasks, m \in Messages :
                    write_to_queue(t, m) /\ msg_num < NodeNum
           Out == \E t \in Tasks : extract_from_queue(t) /\ msg_num > 0
           Else == UNCHANGED <<queue, received>>
<1> SUFFICES PairInv' /\ (In \/ Out \/ Else)
  OBVIOUS
<1>1. CASE UNCHANGED vars
  BY <1>1, PairStutterKeeps DEF vars
<1>2. CASE Quiet
  <2>1. PairInv'
    BY <1>2, PairQuietKeeps DEF Quiet, Carries
  <2> QED
    BY <1>2, <2>1 DEF Quiet
<1>3. ASSUME NEW t \in Tasks, NEW m \in Messages, NEW n \in SendTicks,
             send_enter(t, m, n)
      PROVE  PairInv' /\ (In \/ Out \/ Else)
  <2>1. pc[t] = "run" /\ t \in Senders
    BY <1>3 DEF send_enter, At
  <2>2. CASE msg_num < NodeNum /\ write_to_queue(t, m)
    BY <2>1, <2>2, PairWriteKeeps
  <2>3. CASE /\ msg_num >= NodeNum
             /\ join(t, SendTree, "s_delay", n) /\ msg' = [msg EXCEPT ![t] = m]
    BY <2>1, <2>3, PairJoinSendKeeps DEF join
  <2> QED
    BY <1>1, <1>3, <2>2, <2>3 DEF send_enter
<1>4. ASSUME NEW t \in Tasks, NEW n \in RecvTicks, receive_enter(t, n)
      PROVE  PairInv' /\ (In \/ Out \/ Else)
  <2>1. pc[t] = "run" /\ t \in Receivers
    BY <1>4 DEF receive_enter, At
  <2>2. CASE msg_num > 0 /\ extract_from_queue(t)
    BY <2>1, <2>2, PairExtractKeeps
  <2>3. CASE msg_num = 0 /\ join(t, RecvTree, "r_delay", n) /\ UNCHANGED msg
    BY <2>1, <2>3, PairJoinReceiveKeeps DEF join
  <2> QED
    BY <1>1, <1>4, <2>2, <2>3 DEF receive_enter
<1>5. ASSUME NEW t \in Tasks, send_return(t)
      PROVE  PairInv' /\ (In \/ Out \/ Else)
  <2>1. /\ pc[t] = "s_wait" /\ t \in Senders /\ msg[t] \in Messages
        /\ check_ipc_state(k, t) => msg_num < NodeNum
    BY <1>5, QueueAssumption
       DEF send_return, At, PairInv, WokenFindRoom, Sending, check_ipc_state
  <2>2. CASE check_ipc_state(k, t) /\ write_to_queue(t, msg[t])
    BY <2>1, <2>2, PairWriteKeeps
  <2>3. CASE leave(t, NoTask) /\ UNCHANGED <<k, queue, received, ticks>>
    BY <2>1, <2>3, PairTimeoutKeeps
  <2> QED
    BY <1>5, <2>2, <2>3 DEF send_return
<1>6. ASSUME NEW t \in Tasks, receive_return(t)
      PROVE  PairInv' /\ (In \/ Out \/ Else)
  <2>1. /\ pc[t] = "r_wait" /\ t \in Receivers
        /\ check_ipc_state(k, t) => msg_num > 0
    BY <1>6, QueueAssumption
       DEF receive_return, At, PairInv, WokenFindMessage, Receiving, check_ipc_state
  <2>2. CASE check_ipc_state(k, t) /\ extract_from_queue(t)
    BY <2>1, <2>2, PairExtractKeeps
  <2>3. CASE leave(t, NoTask) /\ k' = remove_ipc(k, t)
             /\ UNCHANGED <<queue, received, ticks>>
    BY <2>1, <2>3, PairTimeoutKeeps
  <2> QED
    BY <1>6, <2>2, <2>3 DEF receive_return
<1>7. ASSUME NEW t \in Tasks, make_ready(t)
      PROVE  PairInv' /\ (In \/ Out \/ Else)
  <2>1. /\ pc[t] = "waking" /\ pc' = [pc EXCEPT ![t] = "run"]
        /\ UNCHANGED <<queue, received, msg>> /\ pc \in [Tasks -> Labels]
    BY <1>7 DEF make_ready, At, IInv, TypeOK
  <2>2. \A u \in Tasks : /\ pc'[u] \in Sending <=> pc[u] \in Sending
                         /\ pc'[u] \in Receiving <=> pc[u] \in Receiving
    BY <2>1 DEF Sending, Receiving
  <2>3. PairInv'
    BY <1>7, <2>1, <2>2, MakeReadyKeeps, PairQuietKeeps
  <2> QED
    BY <2>1, <2>3
<1>8. CASE \E t \in Tasks : Step(t)
  <2>1. PICK t \in Tasks : Step(t)
    BY <1>8
  <2>2. CASE send_delay(t) \/ receive_delay(t)
    BY <1>2, <2>2, SleepIsQuiet
  <2>3. CASE spin(t)
    BY <1>1, <2>3 DEF spin
  <2>4. CASE nap(t)
    BY <1>2, <2>4, KernelStepIsQuiet
  <2> HIDE DEF In, Out, Else
  <2> QED
    BY <1>3, <1>4, <1>5, <1>6, <1>7, <2>1, <2>2, <2>3, <2>4 DEF Step
<1>9. CASE PendSV \/ SysTick \/ check_ticks
  BY <1>2, <1>9, KernelStepIsQuiet
<1> HIDE DEF In, Out, Else
<1> QED
  BY <1>1, <1>8, <1>9 DEF Next, leisure_task, undefined

\* The inductive invariant for one sender and one receiver.
THEOREM PairInvariant ==
    ASSUME IsFiniteSet(Tasks), OnePair
    PROVE  Spec => [](IInv /\ PairInv)
<1>1. Init => IInv /\ PairInv
  BY InitIInv, PairInit
<1>2. (IInv /\ PairInv) /\ [Next]_vars => (IInv /\ PairInv)'
  BY NextKeeps, PairStep
<1> QED
  BY <1>1, <1>2, PTL DEF Spec

\* queue_send: what the code means by "full" holds between one sender and one
\* receiver; with two senders the queue overflows (run queue_overfull).
THEOREM PairNeverOverfull ==
    ASSUME IsFiniteSet(Tasks), OnePair
    PROVE  Spec => []NeverOverfull
<1>1. PairInv => NeverOverfull
  BY DEF PairInv
<1> QED
  BY <1>1, PairInvariant, PTL

\* write_to_queue and extract_from_queue: no wake-up is lost between one sender
\* and one receiver.
THEOREM NobodyQueuedBesideWork ==
    ASSUME IsFiniteSet(Tasks), OnePair
    PROVE  Spec => []NoMessageBesideReceivers
<1>1. IInv /\ PairInv => NoMessageBesideReceivers
  <2> SUFFICES ASSUME IInv, PairInv PROVE NoMessageBesideReceivers
    OBVIOUS
  <2>1. \A tree, labels : Cardinality(Woken(tree, labels)) \in Nat
    BY TasksCount DEF Woken
  <2>2. k \in KernelState /\ SendTree \in Objects /\ RecvTree \in Objects
        /\ NodeNum \in Nat
    BY QueueAssumption DEF IInv, TypeOK
  <2>3. k.waits[RecvTree] # <<>> => msg_num = 0
    BY <2>2, QueuedNodes DEF PairInv, ReceiversWaitForMessage
  <2>4. k.waits[SendTree] # <<>> => NodeNum - msg_num = 0
    BY <2>2, QueuedNodes DEF PairInv, SendersWaitForRoom
  <2> QED
    BY <2>1, <2>3, <2>4 DEF NoMessageBesideReceivers
<1> QED
  BY <1>1, PairInvariant, PTL
-----------------------------------------------------------------------------
(***************************************************************************)
(* The refinement: between one sender and one receiver every step of the   *)
(* queue under the kernel is a Send, a Receive or a stutter of             *)
(* BoundedFifo.                                                            *)
(***************************************************************************)
\* The ring read from the slot after read on is a sequence of msg_num messages.
LEMMA ContentsType ==
    ASSUME IInv
    PROVE  /\ Contents \in Seq(Messages \cup {NoMessage})
           /\ Len(Contents) = msg_num
           /\ \A i \in 1..msg_num : Contents[i] = ring[(read + i) % NodeNum]
<1>1. /\ msg_num \in Nat /\ read \in Int /\ NodeNum \in Nat /\ NodeNum > 0
      /\ ring \in [Slots -> Messages \cup {NoMessage}]
  BY QueueAssumption DEF IInv, TypeOK, Slots
<1>2. \A i \in 1..msg_num : (read + i) % NodeNum \in Slots
  BY <1>1 DEF Slots
<1>3. \A i \in 1..msg_num : ring[(read + i) % NodeNum] \in Messages \cup {NoMessage}
  BY <1>1, <1>2
<1>4. Contents \in [1..msg_num -> Messages \cup {NoMessage}]
  BY <1>3 DEF Contents
<1> QED
  BY <1>1, <1>4 DEF Contents

\* write_to_queue appends: the slot it writes is none of those in use.
LEMMA WriteSends ==
    ASSUME IInv, PairInv, NEW t \in Tasks, NEW m \in Messages,
           write_to_queue(t, m), msg_num < NodeNum
    PROVE  Fifo!Send(m)
<1> DEFINE n == msg_num
<1>1. /\ n \in Nat /\ NodeNum \in Nat /\ NodeNum > 0 /\ read \in Int
      /\ ring \in [Slots -> Messages \cup {NoMessage}] /\ write \in Slots
  BY QueueAssumption DEF IInv, TypeOK, Slots
<1>2. /\ ring' = [ring EXCEPT ![write] = m] /\ read' = read /\ msg_num' = n + 1
      /\ UNCHANGED received
  BY WriteCounts DEF write_to_queue
<1>3. write = (read + (n + 1)) % NodeNum
  <2>1. read + n + 1 = read + (n + 1)
    BY <1>1
  <2> QED
    BY <2>1 DEF PairInv, WriteFollowsRead
<1>4. ASSUME NEW i \in 1..n
      PROVE  (read + i) % NodeNum # write /\ (read + i) % NodeNum \in Slots
  <2> DEFINE x == read + i
             y == read + (n + 1)
  <2>1. x \in Int /\ y \in Int /\ x < y /\ y - x < NodeNum
    BY <1>1
  <2>2. x % NodeNum \in Slots
    BY <1>1, <2>1 DEF Slots
  <2> HIDE DEF x, y
  <2>3. x % NodeNum # y % NodeNum
    BY <1>1, <2>1, ApartMod
  <2> QED
    BY <1>3, <2>2, <2>3 DEF x, y
<1>5. Contents' = Append(Contents, m)
  <2>1. /\ Contents \in Seq(Messages \cup {NoMessage}) /\ Len(Contents) = n
        /\ \A i \in 1..n : Contents[i] = ring[(read + i) % NodeNum]
    BY ContentsType
  <2>2. Contents' = [i \in 1..(n + 1) |-> ring'[(read + i) % NodeNum]]
    BY <1>2 DEF Contents
  <2>3. Append(Contents, m) =
            [i \in 1..(n + 1) |-> IF i = n + 1 THEN m ELSE Contents[i]]
    <3> DEFINE c == Contents
    <3>1. c \in Seq(Messages \cup {NoMessage}) /\ Len(c) = n
      BY <2>1
    <3> HIDE DEF c
    <3>2. Append(c, m) = [i \in 1..(n + 1) |-> IF i = n + 1 THEN m ELSE c[i]]
      BY <3>1, AppendIs
    <3> QED
      BY <3>2 DEF c
  <2>4. ASSUME NEW i \in 1..(n + 1)
        PROVE  ring'[(read + i) % NodeNum] = IF i = n + 1 THEN m ELSE Contents[i]
    <3>1. CASE i = n + 1
      BY <1>1, <1>2, <1>3, <3>1
    <3>2. CASE i # n + 1
      <4>1. i \in 1..n
        BY <1>1, <3>2
      <4>2. ring'[(read + i) % NodeNum] = ring[(read + i) % NodeNum]
        BY <1>1, <1>2, <1>4, <4>1
      <4> QED
        BY <2>1, <3>2, <4>1, <4>2
    <3> QED
      BY <3>1, <3>2
  <2> QED
    BY <2>2, <2>3, <2>4
<1>6. Len(Contents) < NodeNum
  BY ContentsType
<1> QED
  BY <1>2, <1>5, <1>6 DEF Fifo!Send

\* extract_from_queue takes the first message.
LEMMA ExtractReceives ==
    ASSUME IInv, PairInv, NEW t \in Tasks, extract_from_queue(t), msg_num > 0
    PROVE  Fifo!Receive(t)
<1> DEFINE n == msg_num
<1>1. /\ n \in Nat /\ NodeNum \in Nat /\ NodeNum > 0 /\ read \in 0..(NodeNum - 1)
  BY QueueAssumption DEF IInv, TypeOK, Slots
<1>2. /\ UNCHANGED ring /\ read' = (read + 1) % NodeNum /\ msg_num' = n - 1
      /\ received' = [received EXCEPT ![t] = ring[(read + 1) % NodeNum]]
  BY ExtractCounts DEF extract_from_queue, After
<1>3. /\ Contents \in Seq(Messages \cup {NoMessage}) /\ Len(Contents) = n
      /\ \A i \in 1..n : Contents[i] = ring[(read + i) % NodeNum]
  BY ContentsType
<1>4. ASSUME NEW i \in 1..(n - 1)
      PROVE  (read' + i) % NodeNum = (read + (i + 1)) % NodeNum
  <2> DEFINE c == i + 1
             v == read
             d == NodeNum
  <2>1. d \in Nat /\ d > 0 /\ c \in Int /\ v \in 0..(d - 1) /\ c - 1 = i
    BY <1>1
  <2> HIDE DEF c, v, d
  <2>2. (((v + 1) % d) + (c - 1)) % d = (v + c) % d
    BY <2>1, UpMod
  <2> QED
    BY <1>2, <2>1, <2>2 DEF c, v, d
<1>5. Contents' = Tail(Contents)
  <2>1. Contents' = [i \in 1..(n - 1) |-> ring[(read' + i) % NodeNum]]
    BY <1>2 DEF Contents
  <2>2. Tail(Contents) = [i \in 1..(n - 1) |-> Contents[i + 1]]
    <3> DEFINE c == Contents
    <3>1. c \in Seq(Messages \cup {NoMessage}) /\ Len(c) = n /\ n > 0
      BY <1>3
    <3> HIDE DEF c
    <3>2. Tail(c) = [i \in 1..(n - 1) |-> c[i + 1]]
      BY <3>1, TailIs
    <3> QED
      BY <3>2 DEF c
  <2>3. ASSUME NEW i \in 1..(n - 1)
        PROVE  ring[(read' + i) % NodeNum] = Contents[i + 1]
    <3>1. i + 1 \in 1..n
      BY <1>1
    <3> QED
      BY <1>3, <1>4, <3>1
  <2> QED
    BY <2>1, <2>2, <2>3
<1>6. Contents # <<>> /\ Head(Contents) = ring[(read + 1) % NodeNum]
  <2>1. 1 \in 1..n
    BY <1>1
  <2>2. Contents[1] = ring[(read + 1) % NodeNum]
    BY <1>3, <2>1
  <2> DEFINE c == Contents
  <2>3. c \in Seq(Messages \cup {NoMessage}) /\ Len(c) = n /\ n > 0
    BY <1>3
  <2> HIDE DEF c
  <2>4. c # <<>> /\ Head(c) = c[1]
    BY <2>3
  <2> QED
    BY <2>2, <2>4 DEF c
<1> QED
  BY <1>2, <1>5, <1>6 DEF Fifo!Receive

\* queue_send and queue_receive do what BoundedFifo promises.
THEOREM ImplementsBoundedFifo ==
    ASSUME IsFiniteSet(Tasks), OnePair
    PROVE  Spec => ImplementsFifo
<1>1. Init => Fifo!Init
  <2> SUFFICES ASSUME Init PROVE Contents = <<>>
    BY DEF Init, Fifo!Init
  <2>1. IInv /\ msg_num = 0
    BY InitIInv DEF Init
  <2> DEFINE c == Contents
  <2>2. c \in Seq(Messages \cup {NoMessage}) /\ Len(c) = 0
    BY <2>1, ContentsType
  <2> HIDE DEF c
  <2>3. c = <<>>
    BY <2>2
  <2> QED
    BY <2>3 DEF c
<1>2. (IInv /\ PairInv) /\ [Next]_vars => [Fifo!Step]_<<Contents, received>>
  <2> SUFFICES ASSUME IInv, PairInv, [Next]_vars
               PROVE  [Fifo!Next]_<<Contents, received>>
    BY DEF Fifo!Step
  <2>1. CASE \E t \in Tasks, m \in Messages :
                write_to_queue(t, m) /\ msg_num < NodeNum
    BY <2>1, WriteSends DEF Fifo!Next
  <2>2. CASE \E t \in Tasks : extract_from_queue(t) /\ msg_num > 0
    BY <2>2, ExtractReceives DEF Fifo!Next
  <2>3. CASE UNCHANGED <<queue, received>>
    BY <2>3 DEF queue, Contents
  <2> QED
    BY <2>1, <2>2, <2>3, PairStep
<1> QED
  BY <1>1, <1>2, PairInvariant, PTL DEF Spec, ImplementsFifo, Fifo!Spec
=============================================================================
