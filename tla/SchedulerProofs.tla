-------------------------- MODULE SchedulerProofs --------------------------
(***************************************************************************)
(* Safety of the scheduler for every number of tasks, every timing and     *)
(* every width of the counters.  IInv of Scheduler is inductive: it holds  *)
(* at the start and every action preserves it, one lemma per action below. *)
(* After it, the resources tasks share: every timer of timer.c fires once  *)
(* per period, and the blocks of heap.c tile the arena.                    *)
(***************************************************************************)
EXTENDS Scheduler, Resources, KernelProofs

\* The well-formed trees of the kernel lemmas are a part of TasksPartitioned.
LEMMA PartitionIsTreesOK ==
    ASSUME TasksPartitioned
    PROVE  TreesOK(k)
BY DEF TasksPartitioned, TreesOK

LEMMA InitIInv == Init => IInv
<1> SUFFICES ASSUME Init PROVE IInv
  OBVIOUS
<1>1. TypeOK
  BY WidthAssumption DEF Init, TypeOK, Labels, scheduler_init, KernelState,
     Ticks, Never, Runnable
<1>2. Nodes(<<>>) = {} /\ NoTwice(<<>>) /\ \A key : Ordered(<<>>, key)
  BY DEF Nodes, NoTwice, Ordered
<1>3. TasksPartitioned
  BY <1>2 DEF Init, scheduler_init, TasksPartitioned, Live
<1> QED
  BY <1>1, <1>3, NameAssumption DEF Init, scheduler_init, IInv, TreesIntact,
     ChildrenAreNew, NoSwitchUnderLock, RunningIsReady, NoIdleWhileReady

\* A task that is executing its own code is in the ready tree and in no other.
LEMMA RunnerIsReady ==
    ASSUME IInv, NEW t \in Tasks, Running(k, t), pc[t] # "deleting"
    PROVE  /\ t \in Nodes(k.ready) /\ t \notin Nodes(k.sleep)
           /\ t \notin Nodes(k.dead) /\ t \in Live
BY DEF IInv, Running, RunningIsReady, TasksPartitioned

LEMMA MainCreateStep ==
    ASSUME IInv, NEW t \in Tasks, main_create(t)
    PROVE  IInv' /\ k'.cur = k.cur
<1> DEFINE k1 == new_tcb(k, t)
<1>1. k \in KernelState /\ TreesOK(k)
  BY PartitionIsTreesOK DEF IInv, TypeOK
<1>2. /\ k1 \in KernelState /\ TreesOK(k1)
      /\ k1 = [k EXCEPT !.dl = k1.dl]
  BY <1>1, NewTcb
<1> HIDE DEF k1
<1>3. pc[t] = "none" /\ k.cur = NoTask
  BY DEF main_create
<1>4. k' = rt_ready_add(k1, t)
  BY DEF main_create, task_adt_add, k1
<1>5. /\ k' \in KernelState /\ TreesOK(k')
      /\ Nodes(k'.ready) = Nodes(k1.ready) \cup {t}
      /\ SameButReady(k1, k') /\ k'.corrupt = k1.corrupt
  BY <1>2, <1>4, ReadyAdd
<1>6. /\ k1.ready = k.ready /\ k1.sleep = k.sleep /\ k1.dead = k.dead
      /\ k1.cur = NoTask /\ k.cur = NoTask /\ k1.preempt = k.preempt
      /\ k1.corrupt = k.corrupt
  BY <1>1, <1>2, <1>3 DEF KernelState
<1>7. k'.cur = NoTask /\ k'.sleep = k.sleep /\ k'.dead = k.dead
      /\ k'.preempt = k.preempt
  BY <1>5, <1>6 DEF SameButReady
<1>8. t \notin Live /\ Live' = Live \cup {t}
  BY DEF main_create, Live, IInv, TypeOK
<1>9. TypeOK'
  BY <1>5 DEF main_create, IInv, TypeOK, Labels
<1>10. TasksPartitioned'
  BY <1>5, <1>6, <1>7, <1>8 DEF IInv, TasksPartitioned, TreesOK
<1>11. ChildrenAreNew'
  BY DEF main_create, IInv, TypeOK, ChildrenAreNew
<1> QED
  BY <1>5, <1>6, <1>7, <1>9, <1>10, <1>11, NameAssumption
     DEF IInv, TreesIntact, NoSwitchUnderLock, RunningIsReady, NoIdleWhileReady

\* The trees and what they are made of.
SameTrees(m, n) ==
    /\ n.ready = m.ready /\ n.rkey = m.rkey
    /\ n.sleep = m.sleep /\ n.wake = m.wake
    /\ n.dead = m.dead /\ n.corrupt = m.corrupt

\* A step that leaves the trees and the set of live tasks alone.
LEMMA TreesUntouched ==
    ASSUME IInv, SameTrees(k, k'), Live' = Live
    PROVE  TreesIntact' /\ TasksPartitioned'
BY DEF IInv, SameTrees, TreesIntact, TasksPartitioned

LEMMA SchedulerStartStep ==
    ASSUME IInv, scheduler_start
    PROVE  IInv'
<1>1. /\ k' \in KernelState
      /\ k' = [k EXCEPT !.switches = k'.switches, !.cur = k'.cur, !.pend = FALSE]
      /\ k'.cur \in Runnable
      /\ k'.cur \in Tasks => k'.cur \in Nodes(k.ready)
      /\ k'.cur = Idle => k.ready = <<>>
  BY SwitchContext DEF scheduler_start, IInv, TypeOK
<1>2. SameTrees(k, k') /\ k'.preempt = k.preempt /\ k'.pend = FALSE
  BY <1>1 DEF SameTrees, IInv, TypeOK, KernelState
<1>3. k.preempt = 0
  BY NameAssumption DEF scheduler_start, IInv, TypeOK, KernelState,
     NoSwitchUnderLock
<1>4. TreesIntact' /\ TasksPartitioned'
  BY <1>2, TreesUntouched DEF scheduler_start, Live
<1>5. TypeOK'
  BY <1>1 DEF scheduler_start, IInv, TypeOK
<1>6. ChildrenAreNew'
  BY DEF scheduler_start, IInv, ChildrenAreNew
<1> QED
  BY <1>1, <1>2, <1>3, <1>4, <1>5, <1>6
     DEF IInv, NoSwitchUnderLock, RunningIsReady, NoIdleWhileReady, SameTrees

LEMMA PendSVStep ==
    ASSUME IInv, PendSV
    PROVE  IInv' /\ k.preempt = 0
<1>1. /\ k' \in KernelState
      /\ k' = [k EXCEPT !.switches = k'.switches, !.cur = k'.cur, !.pend = FALSE]
      /\ k'.cur \in Runnable
      /\ k'.cur \in Tasks => k'.cur \in Nodes(k.ready)
      /\ k'.cur = Idle => k.ready = <<>>
  BY SwitchContext DEF PendSV, IInv, TypeOK
<1>2. SameTrees(k, k') /\ k'.preempt = k.preempt /\ k'.pend = FALSE
  BY <1>1 DEF SameTrees, IInv, TypeOK, KernelState
<1>3. k.preempt = 0
  BY DEF PendSV, PendSVTaken, IInv, TypeOK, KernelState, NoSwitchUnderLock
<1>4. TreesIntact' /\ TasksPartitioned'
  BY <1>2, TreesUntouched DEF PendSV, Live
<1>5. TypeOK'
  BY <1>1 DEF PendSV, IInv, TypeOK
<1>6. ChildrenAreNew'
  BY DEF PendSV, IInv, ChildrenAreNew
<1> QED
  BY <1>1, <1>2, <1>3, <1>4, <1>5, <1>6
     DEF IInv, NoSwitchUnderLock, RunningIsReady, NoIdleWhileReady, SameTrees

LEMMA SysTickStep ==
    ASSUME IInv, SysTick
    PROVE  IInv' /\ k'.cur = k.cur
<1>1. (k.now + 1) % TickMod \in Ticks
  <2>1. k.now + 1 \in Int
    BY WidthAssumption DEF IInv, TypeOK, KernelState, Ticks
  <2> QED
    BY <2>1, WordType
<1>2. k' \in KernelState
  BY <1>1 DEF SysTick, tick, IInv, TypeOK, KernelState
<1>3. /\ SameTrees(k, k') /\ k'.cur = k.cur /\ k'.pend = k.pend
      /\ k'.preempt = k.preempt
  BY DEF SysTick, tick, SameTrees, IInv, TypeOK, KernelState
<1>4. TreesIntact' /\ TasksPartitioned'
  BY <1>3, TreesUntouched DEF SysTick, Live
<1>5. TypeOK' /\ ChildrenAreNew'
  BY <1>2 DEF SysTick, IInv, TypeOK, ChildrenAreNew
<1> QED
  BY <1>3, <1>4, <1>5 DEF SysTick, IInv, NoSwitchUnderLock, RunningIsReady,
     NoIdleWhileReady, SameTrees, Live

LEMMA CheckTicksStep ==
    ASSUME IInv, check_ticks
    PROVE  IInv' /\ k'.cur = k.cur
<1>1. ChildrenAreNew' /\ Live' = Live
  BY DEF check_ticks, IInv, ChildrenAreNew, Live
<1>2. CASE Expired(k)
  <2> DEFINE t == first_node(k.sleep)
  <2>1. k' = wake_first(k) /\ k.sleep # <<>>
    BY <1>2 DEF check_ticks, Expired
  <2>2. k \in KernelState /\ TreesOK(k) /\ Nodes(k.ready) \cap Nodes(k.sleep) = {}
    BY PartitionIsTreesOK DEF IInv, TypeOK, TasksPartitioned
  <2>3. /\ k' \in KernelState /\ TreesOK(k')
        /\ t \in Nodes(k.sleep)
        /\ Nodes(k'.ready) = Nodes(k.ready) \cup {t}
        /\ Nodes(k'.sleep) = Nodes(k.sleep) \ {t}
        /\ k'.dead = k.dead
        /\ SameButTrees(k, k')
        /\ k'.corrupt = k.corrupt
        /\ k.preempt # 0 => k'.pend = k.pend
        /\ k.pend => k'.pend
        /\ k.preempt = 0 /\ k.cur = Idle => k'.pend
    BY <2>1, <2>2, WakeFirst
  <2> HIDE DEF t
  <2>4. k'.cur = k.cur /\ k'.preempt = k.preempt
    BY <2>3 DEF SameButTrees
  <2>5. TasksPartitioned'
    BY <1>1, <2>3 DEF IInv, TasksPartitioned, TreesOK
  <2>6. TypeOK'
    BY <2>3 DEF check_ticks, IInv, TypeOK
  <2>7. RunningIsReady'
    BY <1>1, <2>3, <2>4 DEF check_ticks, IInv, RunningIsReady
  <2>8. NoIdleWhileReady' /\ NoSwitchUnderLock'
    <3>1. k.preempt \in Nat /\ (k.cur = Idle => k.preempt = 0)
      BY NameAssumption DEF IInv, NoSwitchUnderLock, TypeOK, KernelState
    <3> QED
      BY <2>3, <2>4, <3>1 DEF IInv, NoIdleWhileReady, NoSwitchUnderLock
  <2> QED
    BY <1>1, <2>3, <2>4, <2>5, <2>6, <2>7, <2>8 DEF IInv, TreesIntact
<1>3. CASE ~Expired(k)
  <2>1. k' = [k EXCEPT !.isr = FALSE]
    BY <1>3 DEF check_ticks
  <2>2. /\ SameTrees(k, k') /\ k'.cur = k.cur /\ k'.pend = k.pend
        /\ k'.preempt = k.preempt /\ k' \in KernelState
    BY <2>1 DEF SameTrees, IInv, TypeOK, KernelState
  <2>3. TreesIntact' /\ TasksPartitioned'
    BY <1>1, <2>2, TreesUntouched
  <2>4. TypeOK'
    BY <2>2 DEF check_ticks, IInv, TypeOK
  <2> QED
    BY <1>1, <2>2, <2>3, <2>4 DEF check_ticks, IInv, NoSwitchUnderLock,
       RunningIsReady, NoIdleWhileReady, SameTrees
<1> QED
  BY <1>2, <1>3

LEMMA CreateAllocStep ==
    ASSUME IInv, NEW t \in Tasks, NEW c \in Tasks, create_alloc(t, c)
    PROVE  IInv' /\ k'.cur = k.cur
<1>1. k' \in KernelState /\ k' = [k EXCEPT !.dl = k'.dl]
  <2>1. k \in KernelState /\ TreesOK(k)
    BY PartitionIsTreesOK DEF IInv, TypeOK
  <2>2. k' = new_tcb(k, c)
    BY DEF create_alloc
  <2> QED
    BY <2>1, <2>2, NewTcb
<1>2. /\ SameTrees(k, k') /\ k'.cur = k.cur /\ k'.pend = k.pend
      /\ k'.preempt = k.preempt
  BY <1>1 DEF SameTrees, IInv, TypeOK, KernelState
<1>3. /\ pc[t] = "run" /\ pc[c] = "none" /\ t # c
      /\ pc' = [pc EXCEPT ![t] = "creating", ![c] = "new"]
      /\ child' = [child EXCEPT ![t] = c]
  BY DEF create_alloc, At
<1>4. Live' = Live
  BY <1>3 DEF Live, IInv, TypeOK
<1>5. TreesIntact' /\ TasksPartitioned'
  BY <1>2, <1>4, TreesUntouched
<1>6. TypeOK'
  BY <1>1, <1>3 DEF IInv, TypeOK, Labels
<1>7. ChildrenAreNew'
  BY <1>3 DEF IInv, TypeOK, ChildrenAreNew
<1>8. RunningIsReady'
  BY <1>2, <1>3, <1>4 DEF IInv, TypeOK, RunningIsReady, SameTrees
<1> QED
  BY <1>2, <1>5, <1>6, <1>7, <1>8
     DEF IInv, NoSwitchUnderLock, NoIdleWhileReady, SameTrees

LEMMA CreateAddStep ==
    ASSUME IInv, NEW t \in Tasks, create_add(t)
    PROVE  IInv' /\ k'.cur = k.cur
<1> DEFINE c == child[t]
<1>1. /\ c \in Tasks /\ pc[c] = "new" /\ pc[t] = "creating" /\ c # t
      /\ Running(k, t)
  BY DEF create_add, At, IInv, ChildrenAreNew
<1>2. /\ pc' = [pc EXCEPT ![t] = "run", ![c] = "run"]
      /\ child' = [child EXCEPT ![t] = NoTask]
      /\ k' = rt_ready_add(k, c)
  BY DEF create_add, task_adt_add
<1> HIDE DEF c
<1>3. k \in KernelState /\ TreesOK(k)
  BY PartitionIsTreesOK DEF IInv, TypeOK
<1>4. /\ k' \in KernelState /\ TreesOK(k')
      /\ Nodes(k'.ready) = Nodes(k.ready) \cup {c}
      /\ SameButReady(k, k') /\ k'.corrupt = k.corrupt
      /\ k.preempt # 0 => k'.pend = k.pend
  BY <1>1, <1>2, <1>3, ReadyAdd
<1>5. /\ k'.cur = k.cur /\ k'.sleep = k.sleep /\ k'.dead = k.dead
      /\ k'.preempt = k.preempt
  BY <1>4 DEF SameButReady
<1>6. c \notin Live /\ Live' = Live \cup {c}
  BY <1>1, <1>2 DEF Live, IInv, TypeOK
<1>7. TasksPartitioned'
  BY <1>4, <1>5, <1>6 DEF IInv, TasksPartitioned, TreesOK
<1>8. TypeOK'
  BY <1>1, <1>2, <1>4 DEF IInv, TypeOK, Labels
<1>9. ChildrenAreNew'
  <2>1. \A u \in Tasks : pc[u] = "creating" /\ u # t => child[u] # c
    BY <1>1 DEF c, IInv, ChildrenAreNew
  <2> QED
    BY <1>1, <1>2, <2>1 DEF IInv, TypeOK, ChildrenAreNew
<1>10. RunningIsReady' /\ NoIdleWhileReady'
  <2>1. k.cur = t /\ t \in Nodes(k.ready) /\ t # Idle
    BY <1>1, RunnerIsReady, NameAssumption DEF Running
  <2> QED
    BY <1>4, <1>5, <2>1 DEF RunningIsReady, NoIdleWhileReady
<1>11. NoSwitchUnderLock'
  BY <1>4, <1>5 DEF IInv, TypeOK, KernelState, NoSwitchUnderLock
<1> QED
  BY <1>4, <1>5, <1>7, <1>8, <1>9, <1>10, <1>11 DEF IInv, TreesIntact

LEMMA DelayStep ==
    ASSUME IInv, NEW t \in Tasks, delay(t) \/ task_exit(t)
    PROVE  IInv' /\ k'.cur = k.cur
<1>1. /\ Running(k, t) /\ pc[t] = "run" /\ k.preempt = 0 /\ k.cur = t
      /\ UNCHANGED <<pc, child>>
  BY DEF delay, task_exit, Free, At, Running
<1>2. PICK d \in Nat : k' = task_delay(k, d)
  <2>1. Period[t] \in Nat
    BY TimingAssumption, WidthAssumption
  <2> QED
    BY <2>1, BoundAssumption DEF delay, task_exit
<1>3. /\ t \in Nodes(k.ready) /\ t \notin Nodes(k.sleep)
      /\ t \notin Nodes(k.dead) /\ t \in Live
  BY <1>1, RunnerIsReady
<1>4. k \in KernelState /\ TreesOK(k)
  BY PartitionIsTreesOK DEF IInv, TypeOK
<1>5. \/ k' = k
      \/ /\ k' \in KernelState /\ TreesOK(k')
         /\ Nodes(k'.ready) = Nodes(k.ready) \ {k.cur}
         /\ Nodes(k'.sleep) = Nodes(k.sleep) \cup {k.cur}
         /\ k'.dead = k.dead /\ SameButTrees(k, k')
         /\ k'.pend /\ k'.corrupt = k.corrupt
  BY <1>1, <1>2, <1>3, <1>4, TaskDelay
<1>6. Live' = Live /\ ChildrenAreNew'
  BY <1>1 DEF Live, IInv, ChildrenAreNew
<1>7. CASE k' = k
  BY <1>1, <1>6, <1>7 DEF IInv, TypeOK, TreesIntact, TasksPartitioned,
     NoSwitchUnderLock, RunningIsReady, NoIdleWhileReady
<1>8. CASE k' # k
  <2>1. k'.cur = t /\ k'.preempt = 0
    BY <1>1, <1>5, <1>8 DEF SameButTrees
  <2>2. TasksPartitioned'
    BY <1>1, <1>3, <1>5, <1>6, <1>8 DEF IInv, TasksPartitioned, TreesOK
  <2>3. TypeOK'
    BY <1>1, <1>5, <1>8 DEF IInv, TypeOK
  <2>4. RunningIsReady' /\ NoIdleWhileReady' /\ NoSwitchUnderLock'
    BY <1>3, <1>5, <1>6, <1>8, <2>1
       DEF RunningIsReady, NoIdleWhileReady, NoSwitchUnderLock
  <2> QED
    BY <1>1, <1>5, <1>6, <1>8, <2>1, <2>2, <2>3, <2>4 DEF IInv, TreesIntact
<1> QED
  BY <1>7, <1>8

LEMMA LockSteps ==
    ASSUME IInv, NEW t \in Tasks,
           scheduler_lock(t) \/ unlock_enable(t) \/ unlock_switch(t)
    PROVE  IInv' /\ k'.cur = k.cur
<1>1. /\ Running(k, t) /\ pc[t] \in {"run", "unlocking"} /\ UNCHANGED child
      /\ pc' = pc \/ pc' = [pc EXCEPT ![t] = "unlocking"]
                 \/ pc' = [pc EXCEPT ![t] = "run"]
  BY DEF scheduler_lock, unlock_enable, unlock_switch, At
<1>2. t \in Nodes(k.ready) /\ k.cur = t /\ ~k.pend
  BY <1>1, RunnerIsReady DEF Running
<1>3. k.preempt \in Nat
  BY DEF IInv, TypeOK, KernelState
<1>4. /\ k' \in KernelState
      /\ SameTrees(k, k') /\ k'.cur = k.cur
      /\ k'.preempt > 0 => ~k'.pend
  <2>1. k \in KernelState
    BY DEF IInv, TypeOK
  <2>2. ASSUME NEW n \in Nat, NEW r \in BOOLEAN, NEW p \in BOOLEAN,
               NEW m, m = [k EXCEPT !.preempt = n, !.resched = r, !.pend = p]
        PROVE  m \in KernelState /\ SameTrees(k, m) /\ m.cur = k.cur
    <3>1. m \in KernelState
      BY <2>1, <2>2 DEF KernelState
    <3>2. SameTrees(k, m) /\ m.cur = k.cur
      BY <2>1, <2>2 DEF KernelState, SameTrees
    <3> QED
      BY <3>1, <3>2
  <2>3. CASE scheduler_lock(t)
    <3>1. k' = [k EXCEPT !.preempt = k.preempt + 1, !.resched = k.resched,
                         !.pend = k.pend]
      BY <2>1, <2>3 DEF scheduler_lock, KernelState
    <3>2. k.preempt + 1 \in Nat /\ k.resched \in BOOLEAN /\ k.pend \in BOOLEAN
      BY <1>3, <2>1 DEF KernelState
    <3>3. k'.pend = k.pend
      BY <2>3 DEF scheduler_lock
    <3> QED
      BY <1>2, <2>2, <3>1, <3>2, <3>3
  <2>4. CASE unlock_enable(t)
    <3>1. k' = [k EXCEPT !.preempt = k.preempt - 1, !.resched = k.resched,
                         !.pend = k.pend]
      BY <2>1, <2>4 DEF unlock_enable, KernelState
    <3>2. k.preempt - 1 \in Nat /\ k.resched \in BOOLEAN /\ k.pend \in BOOLEAN
      BY <1>3, <2>1, <2>4 DEF unlock_enable, KernelState
    <3>3. k'.pend = k.pend
      BY <2>4 DEF unlock_enable
    <3> QED
      BY <1>2, <2>2, <3>1, <3>2, <3>3
  <2>5. CASE unlock_switch(t)
    <3>1. CASE k.preempt = 0 /\ k.resched
      <4>1. k' = [k EXCEPT !.preempt = 0, !.resched = FALSE, !.pend = TRUE]
        BY <2>1, <2>5, <3>1 DEF unlock_switch, schedule, KernelState
      <4>2. k'.preempt = 0
        BY <2>1, <4>1 DEF KernelState
      <4>3. k' \in KernelState /\ SameTrees(k, k') /\ k'.cur = k.cur
        <5>1. 0 \in Nat /\ FALSE \in BOOLEAN /\ TRUE \in BOOLEAN
          OBVIOUS
        <5> QED
          BY <2>2, <4>1, <5>1
      <4> QED
        BY <4>2, <4>3
    <3>2. CASE ~(k.preempt = 0 /\ k.resched)
      <4>1. k' = k
        BY <2>5, <3>2 DEF unlock_switch
      <4> QED
        BY <1>2, <2>1, <4>1 DEF SameTrees
    <3> QED
      BY <3>1, <3>2
  <2> QED
    BY <2>3, <2>4, <2>5
<1>5. Live' = Live
  BY <1>1 DEF Live, IInv, TypeOK
<1>6. TreesIntact' /\ TasksPartitioned'
  BY <1>4, <1>5, TreesUntouched
<1>7. TypeOK'
  BY <1>1, <1>4 DEF IInv, TypeOK, Labels
<1>8. ChildrenAreNew'
  BY <1>1 DEF IInv, TypeOK, ChildrenAreNew
<1> QED
  BY <1>2, <1>4, <1>6, <1>7, <1>8, NameAssumption DEF IInv, NoSwitchUnderLock,
     RunningIsReady, NoIdleWhileReady, SameTrees

LEMMA DeleteUnlinkStep ==
    ASSUME IInv, NEW t \in Tasks, delete_unlink(t)
    PROVE  IInv' /\ k'.cur = k.cur
<1>1. /\ Running(k, t) /\ pc[t] = "run" /\ k.preempt = 0 /\ k.cur = t
      /\ k' = move_to_dead(k, t)
      /\ pc' = [pc EXCEPT ![t] = "deleting"] /\ UNCHANGED child
  BY DEF delete_unlink, Free, At, Running
<1>2. t \in Nodes(k.ready) /\ t \notin Nodes(k.dead) /\ t \in Live
  BY <1>1, RunnerIsReady
<1>3. k \in KernelState /\ TreesOK(k)
  BY PartitionIsTreesOK DEF IInv, TypeOK
<1>4. /\ k' \in KernelState /\ TreesOK(k')
      /\ Nodes(k'.ready) = Nodes(k.ready) \ {t}
      /\ Nodes(k'.dead) = Nodes(k.dead) \cup {t}
      /\ k'.sleep = k.sleep /\ SameButTrees(k, k')
      /\ k'.corrupt = k.corrupt
  BY <1>1, <1>2, <1>3, MoveToDead
<1>5. k'.cur = t /\ k'.preempt = 0
  BY <1>1, <1>4 DEF SameButTrees
<1>6. Live' = Live /\ pc'[t] = "deleting"
  BY <1>1 DEF Live, IInv, TypeOK
<1>7. TasksPartitioned'
  BY <1>2, <1>4, <1>6 DEF IInv, TasksPartitioned, TreesOK
<1>8. TypeOK'
  BY <1>1, <1>4 DEF IInv, TypeOK, Labels
<1>9. ChildrenAreNew'
  BY <1>1 DEF IInv, TypeOK, ChildrenAreNew
<1> QED
  BY <1>1, <1>2, <1>4, <1>5, <1>6, <1>7, <1>8, <1>9, NameAssumption
     DEF IInv, TreesIntact, NoSwitchUnderLock, RunningIsReady, NoIdleWhileReady

LEMMA DeleteSwitchStep ==
    ASSUME IInv, NEW t \in Tasks, delete_switch(t)
    PROVE  IInv' /\ k'.cur = k.cur
<1>1. /\ Running(k, t) /\ pc[t] = "deleting" /\ k.cur = t
      /\ k' = scheduler_request_switch(k) /\ UNCHANGED <<pc, child>>
  BY DEF delete_switch, At, Running
<1>2. /\ k' \in KernelState /\ SameButReady(k, k')
      /\ k'.ready = k.ready /\ k'.rkey = k.rkey /\ k'.corrupt = k.corrupt
      /\ k.preempt # 0 => k'.pend = k.pend
  BY <1>1, RequestSwitch DEF IInv, TypeOK
<1>3. SameTrees(k, k') /\ k'.cur = t /\ k'.preempt = k.preempt
  BY <1>1, <1>2 DEF SameTrees, SameButReady
<1>4. Live' = Live /\ ChildrenAreNew'
  BY <1>1 DEF Live, IInv, ChildrenAreNew
<1>5. TreesIntact' /\ TasksPartitioned'
  BY <1>3, <1>4, TreesUntouched
<1>6. TypeOK'
  BY <1>1, <1>2 DEF IInv, TypeOK
<1>7. RunningIsReady' /\ NoIdleWhileReady'
  BY <1>1, <1>3, <1>4, NameAssumption
     DEF IInv, RunningIsReady, NoIdleWhileReady, SameTrees
<1>8. NoSwitchUnderLock'
  BY <1>1, <1>2, <1>3 DEF IInv, TypeOK, KernelState, NoSwitchUnderLock
<1> QED
  BY <1>1, <1>3, <1>4, <1>5, <1>6, <1>7, <1>8 DEF IInv

LEMMA LeisureStep ==
    ASSUME IInv, leisure_task
    PROVE  IInv' /\ k'.cur = k.cur
<1>1. k.cur = Idle /\ ~k.pend /\ UNCHANGED child
  BY DEF leisure_task, Running
<1>2. CASE k.dead = <<>>
  BY <1>2 DEF leisure_task, IInv, TypeOK, TreesIntact, TasksPartitioned, Live,
     ChildrenAreNew, NoSwitchUnderLock, RunningIsReady, NoIdleWhileReady
<1>3. CASE k.dead # <<>>
  <2> DEFINE t == rb_last(k.dead)
  <2>1. k' = task_free(k) /\ pc' = [pc EXCEPT ![t] = "none"]
    BY <1>3 DEF leisure_task
  <2>2. k \in KernelState /\ TreesOK(k)
    BY PartitionIsTreesOK DEF IInv, TypeOK
  <2>3. /\ k' \in KernelState /\ TreesOK(k')
        /\ t \in Nodes(k.dead) /\ t \in Tasks
        /\ Nodes(k'.dead) = Nodes(k.dead) \ {t}
        /\ k' = [k EXCEPT !.dead = k'.dead]
    BY <1>3, <2>1, <2>2, TaskFree
  <2> HIDE DEF t
  <2>4. /\ k'.cur = k.cur /\ k'.pend = k.pend /\ k'.preempt = k.preempt
        /\ k'.ready = k.ready /\ k'.sleep = k.sleep /\ k'.corrupt = k.corrupt
    BY <2>3 DEF KernelState
  <2>5. t \in Live /\ Live' = Live \ {t}
    BY <2>1, <2>3 DEF IInv, TasksPartitioned, TypeOK, Live
  <2>6. TasksPartitioned'
    BY <2>3, <2>4, <2>5 DEF IInv, TasksPartitioned, TreesOK
  <2>7. TypeOK'
    BY <1>1, <2>1, <2>3 DEF IInv, TypeOK, Labels
  <2>8. ChildrenAreNew'
    BY <1>1, <2>1, <2>3, <2>5 DEF IInv, TypeOK, ChildrenAreNew, Live
  <2>9. RunningIsReady' /\ NoIdleWhileReady' /\ NoSwitchUnderLock'
    BY <1>1, <2>4, NameAssumption
       DEF IInv, RunningIsReady, NoIdleWhileReady, NoSwitchUnderLock
  <2> QED
    BY <2>4, <2>6, <2>7, <2>8, <2>9 DEF IInv, TreesIntact
<1> QED
  BY <1>2, <1>3
-----------------------------------------------------------------------------
\* Every step preserves the invariant, and the processor changes hands only at
\* the start and in PendSV, which the lock rules out.
LEMMA NextIInv ==
    ASSUME IInv, [Next]_vars
    PROVE  IInv' /\ (k.preempt > 0 => k'.cur = k.cur)
<1>1. CASE UNCHANGED vars
  BY <1>1 DEF vars, IInv, TypeOK, TreesIntact, TasksPartitioned, Live,
     ChildrenAreNew, NoSwitchUnderLock, RunningIsReady, NoIdleWhileReady
<1>2. ASSUME NEW t \in Tasks, main_create(t)
      PROVE  IInv' /\ k'.cur = k.cur
  BY <1>2, MainCreateStep
<1>3. ASSUME NEW t \in Tasks, Step(t)
      PROVE  IInv' /\ k'.cur = k.cur
  BY <1>3, CreateAllocStep, CreateAddStep, DelayStep, LockSteps,
     DeleteUnlinkStep, DeleteSwitchStep DEF Step
<1>4. CASE scheduler_start
  <2>1. ~(k.preempt > 0)
    BY <1>4, NameAssumption DEF scheduler_start, IInv, NoSwitchUnderLock
  <2> QED
    BY <1>4, <2>1, SchedulerStartStep
<1>5. CASE leisure_task
  BY <1>5, LeisureStep
<1>6. CASE PendSV
  BY <1>6, PendSVStep
<1>7. CASE SysTick
  BY <1>7, SysTickStep
<1>8. CASE check_ticks
  BY <1>8, CheckTicksStep
<1> QED
  BY <1>1, <1>2, <1>3, <1>4, <1>5, <1>6, <1>7, <1>8 DEF Next, Interrupt

LEMMA Invariance == Spec => []IInv
<1>1. IInv /\ [Next]_vars => IInv'
  BY NextIInv
<1> QED
  BY <1>1, InitIInv, PTL DEF Spec

\* The state of the scheduler keeps its type.
THEOREM TypeCorrect == Spec => []TypeOK
<1>1. IInv => TypeOK
  BY DEF IInv
<1> QED
  BY <1>1, Invariance, PTL

\* No interleaving of tasks and interrupts makes schedule.c link a TCB twice or
\* unlink one that is not linked.
THEOREM TreesStayIntact == Spec => []TreesIntact
<1>1. IInv => TreesIntact
  BY DEF IInv
<1> QED
  BY <1>1, Invariance, PTL

\* Every live task is in exactly one of the trees, and the trees are in order:
\* no task is lost and none is queued twice.
THEOREM TasksStayPartitioned == Spec => []TasksPartitioned
<1>1. IInv => TasksPartitioned
  BY DEF IInv
<1> QED
  BY <1>1, Invariance, PTL

\* The processor does not go on with a task that is not ready, nor with one
\* that was freed.
THEOREM RunningStaysReady == Spec => []RunningIsReady
<1>1. IInv => RunningIsReady
  BY DEF IInv
<1> QED
  BY <1>1, Invariance, PTL

\* The processor does not idle while a task is ready.
THEOREM NeverIdleWhileReady == Spec => []NoIdleWhileReady
<1>1. IInv => NoIdleWhileReady
  BY DEF IInv
<1> QED
  BY <1>1, Invariance, PTL

\* The task that holds the scheduler lock keeps the processor.
THEOREM LockHolderKeepsProcessor == Spec => LockKeepsProcessor
<1>1. IInv /\ [Next]_vars => [k.preempt > 0 => k'.cur = k.cur]_vars
  BY NextIInv
<1> QED
  BY <1>1, Invariance, PTL DEF Spec, LockKeepsProcessor
-----------------------------------------------------------------------------
(***************************************************************************)
(* The requests for a switch.  RInv is inductive on top of IInv: one lemma *)
(* per group of actions.                                                   *)
(***************************************************************************)
\* What the properties say of requests, in the words of the kernel lemmas.
LEMMA UrgentIsEager == UrgentNotKeptWaiting <=> Eager(k)
BY DEF UrgentNotKeptWaiting, Eager

\* A step records requests only under the lock, and no task leaves the middle
\* of scheduler_unlock.
LEMMA DeferredKept ==
    ASSUME RInv, k'.preempt = k.preempt,
           k'.resched => k.resched \/ k.preempt > 0,
           \A u \in Tasks : pc[u] = "unlocking" => pc'[u] = "unlocking"
    PROVE  DeferredNotForgotten'
BY DEF RInv, DeferredNotForgotten, Live

LEMMA InitRInv == Init => RInv
<1> SUFFICES ASSUME Init PROVE RInv
  OBVIOUS
<1>1. Nodes(<<>>) = {}
  BY DEF Nodes
<1> QED
  BY <1>1, InitIInv DEF Init, scheduler_init, RInv, DeadAreDeleting,
     DeferredNotForgotten, UrgentNotKeptWaiting

\* What a step must keep besides IInv.
Requests == DeadAreDeleting /\ DeferredNotForgotten /\ UrgentNotKeptWaiting

LEMMA CreateRequests ==
    ASSUME RInv, IInv', NEW t \in Tasks,
           main_create(t) \/ (\E c \in Tasks : create_alloc(t, c)) \/ create_add(t)
    PROVE  Requests'
<1>1. IInv /\ k \in KernelState /\ TreesOK(k) /\ Eager(k) /\ pc \in [Tasks -> Labels]
  BY PartitionIsTreesOK, UrgentIsEager DEF RInv, IInv, TypeOK
<1>2. Nodes(k.ready) \subseteq Live /\ Live \subseteq Tasks
  BY <1>1 DEF IInv, TasksPartitioned, Live
<1>3. ASSUME NEW c \in Tasks, pc[c] = "none"
      PROVE  LET n == new_tcb(k, c)
             IN  /\ n \in KernelState /\ TreesOK(n) /\ Eager(n)
                 /\ n = [k EXCEPT !.dl = n.dl]
  <2> DEFINE n == new_tcb(k, c)
  <2>1. /\ n \in KernelState /\ TreesOK(n) /\ n = [k EXCEPT !.dl = n.dl]
        /\ \A u \in Tasks \ {c} : n.dl[u] = k.dl[u]
    BY <1>1, NewTcb
  <2> HIDE DEF n
  <2>2. /\ n.ready = k.ready /\ n.rkey = k.rkey /\ n.cur = k.cur
        /\ n.pend = k.pend /\ n.resched = k.resched
    BY <1>1, <2>1 DEF KernelState
  <2>3. Nodes(k.ready) \subseteq Tasks \ {c}
    BY <1>2, <1>3 DEF Live
  <2>4. Eager(n)
    BY <1>1, <2>1, <2>2, <2>3 DEF Eager
  <2> QED
    BY <2>1, <2>4 DEF n
<1>4. CASE main_create(t)
  <2> DEFINE k1 == new_tcb(k, t)
  <2>1. k.cur = NoTask /\ pc[t] = "none" /\ pc' = [pc EXCEPT ![t] = "run"]
        /\ k' = rt_ready_add(k1, t)
    BY <1>4 DEF main_create, task_adt_add
  <2>2. /\ k1 \in KernelState /\ TreesOK(k1) /\ Eager(k1)
        /\ k1 = [k EXCEPT !.dl = k1.dl]
    BY <1>3, <2>1
  <2> HIDE DEF k1
  <2>3. k.preempt = 0
    BY <1>1, <2>1, NameAssumption DEF IInv, NoSwitchUnderLock, KernelState
  <2>4. /\ k1.cur = NoTask /\ k1.preempt = 0 /\ k1.dead = k.dead
        /\ k1.resched = k.resched
    BY <1>1, <2>1, <2>2, <2>3 DEF KernelState
  <2>5. SameButReady(k1, k') /\ (k1.preempt = 0 => k'.resched = k1.resched)
    BY <2>1, <2>2, ReadyAdd
  <2>6. k'.dead = k.dead /\ k'.resched = k.resched /\ k'.preempt = k.preempt
    BY <2>3, <2>4, <2>5 DEF SameButReady
  <2>7. Eager(k')
    BY <2>1, <2>2, <2>4, NameAssumption, AddEager
  <2>8. DeadAreDeleting'
    BY <1>1, <2>1, <2>6 DEF RInv, DeadAreDeleting
  <2>9. DeferredNotForgotten'
    BY <1>1, <2>1, <2>6, DeferredKept
  <2> QED
    BY <2>7, <2>8, <2>9 DEF Requests, UrgentNotKeptWaiting, Eager
<1>5. ASSUME NEW c \in Tasks, create_alloc(t, c)
      PROVE  Requests'
  <2>1. /\ pc[t] = "run" /\ pc[c] = "none" /\ k' = new_tcb(k, c)
        /\ pc' = [pc EXCEPT ![t] = "creating", ![c] = "new"]
    BY <1>5 DEF create_alloc, At
  <2>2. k' = [k EXCEPT !.dl = k'.dl] /\ Eager(k')
    BY <1>3, <2>1
  <2>3. k'.dead = k.dead /\ k'.resched = k.resched /\ k'.preempt = k.preempt
    BY <1>1, <2>2 DEF KernelState
  <2>4. DeadAreDeleting'
    BY <1>1, <2>1, <2>3 DEF RInv, DeadAreDeleting
  <2>5. DeferredNotForgotten'
    BY <1>1, <2>1, <2>3, DeferredKept
  <2> QED
    BY <2>2, <2>4, <2>5 DEF Requests, UrgentNotKeptWaiting, Eager
<1>6. CASE create_add(t)
  <2> DEFINE c == child[t]
  <2>1. /\ c \in Tasks /\ pc[c] = "new" /\ pc[t] = "creating" /\ k.cur = t
        /\ pc' = [pc EXCEPT ![t] = "run", ![c] = "run"]
        /\ k' = rt_ready_add(k, c)
    BY <1>1, <1>6 DEF create_add, At, Running, task_adt_add, IInv, ChildrenAreNew
  <2> HIDE DEF c
  <2>2. c # k.cur
    BY <2>1
  <2>3. Eager(k')
    BY <1>1, <2>1, <2>2, AddEager
  <2>4. SameButReady(k, k') /\ (k.preempt = 0 => k'.resched = k.resched)
    BY <1>1, <2>1, ReadyAdd
  <2>5. k'.dead = k.dead /\ k'.preempt = k.preempt /\ k.preempt \in Nat
    BY <1>1, <2>4 DEF SameButReady, KernelState
  <2>6. DeadAreDeleting'
    BY <1>1, <2>1, <2>5 DEF RInv, DeadAreDeleting
  <2>7. DeferredNotForgotten'
    BY <1>1, <2>1, <2>4, <2>5, DeferredKept
  <2> QED
    BY <2>3, <2>6, <2>7 DEF Requests, UrgentNotKeptWaiting, Eager
<1> QED
  BY <1>4, <1>5, <1>6

LEMMA DelayRequests ==
    ASSUME RInv, NEW t \in Tasks, delay(t) \/ task_exit(t)
    PROVE  Requests'
<1>1. /\ IInv /\ Running(k, t) /\ pc[t] = "run" /\ k.preempt = 0 /\ k.cur = t
      /\ UNCHANGED pc
  BY DEF RInv, delay, task_exit, Free, At, Running
<1>2. PICK d \in Nat : k' = task_delay(k, d)
  <2>1. Period[t] \in Nat
    BY TimingAssumption, WidthAssumption
  <2> QED
    BY <2>1, BoundAssumption DEF delay, task_exit
<1>3. /\ k \in KernelState /\ TreesOK(k)
      /\ t \in Nodes(k.ready) /\ t \notin Nodes(k.sleep)
  BY <1>1, RunnerIsReady, PartitionIsTreesOK DEF IInv, TypeOK
<1>4. \/ k' = k
      \/ /\ k'.dead = k.dead /\ SameButTrees(k, k')
         /\ k'.pend /\ k'.resched = k.resched
  BY <1>1, <1>2, <1>3, TaskDelay
<1>5. k'.dead = k.dead /\ k'.preempt = k.preempt /\ k'.resched = k.resched
  BY <1>4 DEF SameButTrees
<1>6. DeadAreDeleting'
  BY <1>1, <1>5 DEF RInv, DeadAreDeleting
<1>7. DeferredNotForgotten'
  BY <1>1, <1>5, DeferredKept
<1>8. UrgentNotKeptWaiting'
  BY <1>4 DEF RInv, UrgentNotKeptWaiting
<1> QED
  BY <1>6, <1>7, <1>8 DEF Requests

LEMMA LockRequests ==
    ASSUME RInv, NEW t \in Tasks,
           scheduler_lock(t) \/ unlock_enable(t) \/ unlock_switch(t)
    PROVE  Requests'
<1>1. /\ k \in KernelState /\ pc \in [Tasks -> Labels]
      /\ pc[t] \in {"run", "unlocking"} /\ t \in Live
  BY DEF RInv, IInv, TypeOK, scheduler_lock, unlock_enable, unlock_switch, At, Live
<1>2. /\ k'.dead = k.dead /\ k'.ready = k.ready /\ k'.rkey = k.rkey
      /\ k'.cur = k.cur /\ k'.dl = k.dl
      /\ k.pend \/ k.resched => k'.pend \/ k'.resched
  <2>1. CASE scheduler_lock(t)
    BY <1>1, <2>1 DEF scheduler_lock, KernelState
  <2>2. CASE unlock_enable(t)
    BY <1>1, <2>2 DEF unlock_enable, KernelState
  <2>3. CASE unlock_switch(t)
    <3>1. CASE k.preempt = 0 /\ k.resched
      <4>1. k' = schedule([k EXCEPT !.resched = FALSE])
        BY <2>3, <3>1 DEF unlock_switch
      <4> QED
        BY <1>1, <3>1, <4>1 DEF schedule, KernelState
    <3>2. CASE ~(k.preempt = 0 /\ k.resched)
      BY <2>3, <3>2 DEF unlock_switch
    <3> QED
      BY <3>1, <3>2
  <2> QED
    BY <2>1, <2>2, <2>3
<1>3. UrgentNotKeptWaiting'
  BY <1>2 DEF RInv, UrgentNotKeptWaiting
<1>4. DeadAreDeleting'
  BY <1>1, <1>2 DEF RInv, DeadAreDeleting, scheduler_lock, unlock_enable,
     unlock_switch
<1>5. DeferredNotForgotten'
  <2>1. CASE scheduler_lock(t)
    <3>1. k'.preempt > 0
      BY <1>1, <2>1 DEF scheduler_lock, KernelState
    <3> QED
      BY <3>1 DEF DeferredNotForgotten
  <2>2. CASE unlock_enable(t)
    <3>1. pc'[t] = "unlocking"
      BY <1>1, <2>2 DEF unlock_enable
    <3> QED
      BY <3>1 DEF DeferredNotForgotten, Live
  <2>3. CASE unlock_switch(t)
    <3>1. k.preempt \in Nat
      BY <1>1 DEF KernelState
    <3>2. ~k'.resched \/ k'.preempt > 0
      BY <1>1, <2>3, <3>1 DEF unlock_switch, schedule, KernelState
    <3> QED
      BY <3>2 DEF DeferredNotForgotten
  <2> QED
    BY <2>1, <2>2, <2>3
<1> QED
  BY <1>3, <1>4, <1>5 DEF Requests

LEMMA DeleteRequests ==
    ASSUME RInv, NEW t \in Tasks, delete_unlink(t) \/ delete_switch(t)
    PROVE  Requests'
<1>1. /\ IInv /\ k \in KernelState /\ TreesOK(k) /\ pc \in [Tasks -> Labels]
      /\ Running(k, t) /\ k.cur = t
  BY PartitionIsTreesOK
     DEF RInv, IInv, TypeOK, delete_unlink, delete_switch, Free, At, Running
<1>2. CASE delete_unlink(t)
  <2>1. /\ pc[t] = "run" /\ k' = move_to_dead(k, t)
        /\ pc' = [pc EXCEPT ![t] = "deleting"]
    BY <1>2 DEF delete_unlink, Free, At
  <2>2. t \in Nodes(k.ready) /\ t \notin Nodes(k.dead)
    BY <1>1, <2>1, RunnerIsReady
  <2>3. /\ Nodes(k'.ready) = Nodes(k.ready) \ {t}
        /\ Nodes(k'.dead) = Nodes(k.dead) \cup {t}
        /\ SameButTrees(k, k') /\ k'.resched = k.resched
    BY <1>1, <2>1, <2>2, MoveToDead
  <2>4. k'.cur = t /\ k'.preempt = k.preempt
    BY <1>1, <2>3 DEF SameButTrees
  <2>5. DeadAreDeleting'
    BY <1>1, <2>1, <2>3 DEF RInv, DeadAreDeleting
  <2>6. DeferredNotForgotten'
    BY <1>1, <2>1, <2>3, <2>4, DeferredKept
  <2>7. UrgentNotKeptWaiting'
    BY <2>3, <2>4 DEF UrgentNotKeptWaiting
  <2> QED
    BY <2>5, <2>6, <2>7 DEF Requests
<1>3. CASE delete_switch(t)
  <2>1. pc' = pc /\ k' = scheduler_request_switch(k)
    BY <1>3 DEF delete_switch
  <2>2. /\ SameButReady(k, k') /\ k'.ready = k.ready /\ k'.rkey = k.rkey
        /\ k.preempt = 0 => k'.pend /\ k'.resched = k.resched
        /\ k.preempt # 0 => k'.pend = k.pend /\ k'.resched
    BY <1>1, <2>1, RequestSwitch
  <2>3. k'.dead = k.dead /\ k'.preempt = k.preempt /\ k.preempt \in Nat
    BY <1>1, <2>2 DEF SameButReady, KernelState
  <2>4. DeadAreDeleting'
    BY <2>1, <2>3 DEF RInv, DeadAreDeleting
  <2>5. DeferredNotForgotten'
    BY <2>1, <2>2, <2>3, DeferredKept
  <2>6. UrgentNotKeptWaiting'
    BY <2>2 DEF UrgentNotKeptWaiting
  <2> QED
    BY <2>4, <2>5, <2>6 DEF Requests
<1> QED
  BY <1>2, <1>3

LEMMA LeisureRequests ==
    ASSUME RInv, leisure_task
    PROVE  Requests'
<1>1. /\ IInv /\ k \in KernelState /\ TreesOK(k) /\ pc \in [Tasks -> Labels]
      /\ k.cur = Idle
  BY PartitionIsTreesOK DEF RInv, IInv, TypeOK, leisure_task, Running
<1>2. CASE k.dead = <<>>
  BY <1>2 DEF leisure_task, RInv, Requests, DeadAreDeleting,
     DeferredNotForgotten, Live, UrgentNotKeptWaiting
<1>3. CASE k.dead # <<>>
  <2> DEFINE t == rb_last(k.dead)
  <2>1. k' = task_free(k) /\ pc' = [pc EXCEPT ![t] = "none"]
    BY <1>3 DEF leisure_task
  <2>2. /\ t \in Nodes(k.dead) /\ t \in Tasks
        /\ Nodes(k'.dead) = Nodes(k.dead) \ {t}
        /\ k' = [k EXCEPT !.dead = k'.dead]
    BY <1>1, <1>3, <2>1, TaskFree
  <2> HIDE DEF t
  <2>3. /\ k'.cur = k.cur /\ k'.preempt = k.preempt /\ k'.resched = k.resched
        /\ k'.ready = k.ready
    BY <1>1, <2>2 DEF KernelState
  <2>4. pc[t] = "deleting"
    BY <2>2 DEF RInv, DeadAreDeleting
  <2>5. DeadAreDeleting'
    BY <1>1, <2>1, <2>2 DEF RInv, DeadAreDeleting
  <2>6. DeferredNotForgotten'
    BY <1>1, <2>1, <2>3, <2>4, DeferredKept
  <2>7. Nodes(k.ready) \subseteq Tasks
    BY <1>1 DEF KernelState, Nodes
  <2>8. UrgentNotKeptWaiting'
    BY <1>1, <2>3, <2>7, NameAssumption DEF UrgentNotKeptWaiting
  <2> QED
    BY <2>5, <2>6, <2>8 DEF Requests
<1> QED
  BY <1>2, <1>3

LEMMA InterruptRequests ==
    ASSUME RInv, scheduler_start \/ Interrupt
    PROVE  Requests'
<1>1. /\ IInv /\ k \in KernelState /\ TreesOK(k) /\ Eager(k) /\ UNCHANGED pc
  BY PartitionIsTreesOK, UrgentIsEager DEF RInv, IInv, TypeOK, scheduler_start,
     Interrupt, PendSV, SysTick, check_ticks
<1>2. SUFFICES /\ Nodes(k'.dead) = Nodes(k.dead) /\ k'.preempt = k.preempt
               /\ k'.resched => k.resched \/ k.preempt > 0
               /\ Eager(k')
  <2>1. DeadAreDeleting'
    BY <1>1, <1>2 DEF RInv, DeadAreDeleting
  <2>2. DeferredNotForgotten'
    BY <1>1, <1>2, DeferredKept
  <2> QED
    BY <1>2, <2>1, <2>2 DEF Requests, UrgentNotKeptWaiting, Eager
<1>3. CASE scheduler_start \/ PendSV
  <2>1. k' = task_switch_context(k)
    BY <1>3 DEF scheduler_start, PendSV
  <2>2. k' = [k EXCEPT !.switches = k'.switches, !.cur = k'.cur, !.pend = FALSE]
    BY <1>1, <2>1, SwitchContext
  <2>3. k'.dead = k.dead /\ k'.preempt = k.preempt /\ k'.resched = k.resched
    BY <1>1, <2>2 DEF KernelState
  <2> QED
    BY <1>1, <2>1, <2>3, SwitchEager
<1>4. CASE SysTick \/ (check_ticks /\ ~Expired(k))
  <2>1. /\ k'.ready = k.ready /\ k'.rkey = k.rkey /\ k'.dl = k.dl
        /\ k'.cur = k.cur /\ k'.dead = k.dead /\ k'.pend = k.pend
        /\ k'.preempt = k.preempt /\ k'.resched = k.resched
    BY <1>1, <1>4 DEF SysTick, tick, check_ticks, KernelState
  <2> QED
    BY <1>1, <2>1 DEF Eager
<1>5. CASE check_ticks /\ Expired(k)
  <2>1. k' = wake_first(k) /\ k.sleep # <<>>
    BY <1>5 DEF check_ticks, Expired
  <2>2. Nodes(k.ready) \cap Nodes(k.sleep) = {}
    BY <1>1 DEF IInv, TasksPartitioned
  <2>3. k.pend \/ k.cur \notin Nodes(k.sleep)
    <3>1. Nodes(k.sleep) \subseteq Tasks
      BY <1>1 DEF KernelState, Nodes
    <3> QED
      BY <1>1, <2>2, <3>1
         DEF RInv, IInv, RunningIsReady, TasksPartitioned, DeadAreDeleting
  <2>4. Eager(k')
    BY <1>1, <2>1, <2>2, <2>3, WakeEager
  <2>5. /\ k'.dead = k.dead /\ SameButTrees(k, k')
        /\ k.preempt = 0 => k'.resched = k.resched
    BY <1>1, <2>1, <2>2, WakeFirst
  <2>6. k'.preempt = k.preempt /\ k.preempt \in Nat
    BY <1>1, <2>5 DEF SameButTrees, KernelState
  <2> QED
    BY <2>4, <2>5, <2>6
<1> QED
  BY <1>3, <1>4, <1>5 DEF Interrupt

LEMMA NextRInv ==
    ASSUME RInv, [Next]_vars
    PROVE  RInv'
<1>1. IInv'
  BY NextIInv DEF RInv
<1>2. SUFFICES Requests'
  BY <1>1, <1>2 DEF RInv, Requests
<1>3. CASE UNCHANGED vars
  BY <1>3 DEF vars, RInv, Requests, DeadAreDeleting, DeferredNotForgotten, Live,
     UrgentNotKeptWaiting
<1>4. ASSUME NEW t \in Tasks, main_create(t) \/ Step(t)
      PROVE  Requests'
  BY <1>1, <1>4, CreateRequests, DelayRequests, LockRequests, DeleteRequests
     DEF Step
<1>5. CASE leisure_task
  BY <1>5, LeisureRequests
<1>6. CASE scheduler_start \/ Interrupt
  BY <1>6, InterruptRequests
<1> QED
  BY <1>3, <1>4, <1>5, <1>6 DEF Next

LEMMA RequestInvariance == Spec => []RInv
<1>1. RInv /\ [Next]_vars => RInv'
  BY NextRInv
<1> QED
  BY <1>1, InitRInv, PTL DEF Spec

\* A request that the scheduler lock deferred is answered: it stays recorded
\* until the lock is free and a task is about to look at it.
THEOREM DeferredIsRemembered == Spec => []DeferredNotForgotten
<1>1. RInv => DeferredNotForgotten
  BY DEF RInv
<1> QED
  BY <1>1, RequestInvariance, PTL

\* A ready task that is ahead of the running one has a switch pending or
\* deferred.
THEOREM UrgentIsHeeded == Spec => []UrgentNotKeptWaiting
<1>1. RInv => UrgentNotKeptWaiting
  BY DEF RInv
<1> QED
  BY <1>1, RequestInvariance, PTL
-----------------------------------------------------------------------------
(***************************************************************************)
(* The clock.  The keys of the sleepers are compared as plain numbers in   *)
(* their tree and as signed differences by check_ticks: the two agree      *)
(* until a key wraps, so the theorem stops one longest delay before the    *)
(* clock does.                                                             *)
(***************************************************************************)
Unwrapped == LastTick + DelayMod <= TickMod /\ 2 * DelayMod <= TickMod

\* The signed difference of words that are less than half a turn apart.
LEMMA SignedAhead ==
    ASSUME Unwrapped, NEW a \in Ticks, NEW b \in Ticks, a - b \in 0..(DelayMod - 1)
    PROVE  Signed(a, b) = a - b
<1> DEFINE d == a - b
<1>1. d \in 0..(TickMod - 1) /\ 2 * d < TickMod /\ TickMod \in Nat
  BY WidthAssumption DEF Unwrapped, Ticks
<1> HIDE DEF d
<1>2. d % TickMod = d
  BY <1>1, SmallMod
<1> QED
  BY <1>1, <1>2 DEF Signed, d

\* A step of the kernel that leaves the clock and the sleepers' keys alone,
\* whoever wakes up.
LEMMA SameClock ==
    ASSUME WakesLieAhead, k'.now = k.now, k'.isr = k.isr,
           \A u \in Nodes(k'.sleep) : u \in Nodes(k.sleep) /\ k'.wake[u] = k.wake[u]
    PROVE  WakesLieAhead'
BY DEF WakesLieAhead

\* A step that leaves the clock, the sleepers and their keys alone.
LEMMA SleepersUntouched ==
    ASSUME WakesLieAhead, k'.now = k.now, k'.isr = k.isr,
           k'.sleep = k.sleep, k'.wake = k.wake
    PROVE  WakesLieAhead'
BY SameClock

LEMMA DelayClock ==
    ASSUME Unwrapped, IInv, WakesLieAhead, NEW t \in Tasks, delay(t) \/ task_exit(t)
    PROVE  WakesLieAhead'
<1>1. /\ Running(k, t) /\ pc[t] = "run" /\ k.preempt = 0 /\ k.cur = t /\ ~k.isr
  BY DEF delay, task_exit, Free, At, Running
<1>2. PICK d \in Nat : k' = task_delay(k, d)
  <2>1. Period[t] \in Nat
    BY TimingAssumption, WidthAssumption
  <2> QED
    BY <2>1, BoundAssumption DEF delay, task_exit
<1>3. /\ k \in KernelState /\ TreesOK(k)
      /\ t \in Nodes(k.ready) /\ t \notin Nodes(k.sleep)
  BY <1>1, RunnerIsReady, PartitionIsTreesOK DEF IInv, TypeOK
<1> DEFINE ticks == d % DelayMod
<1>4. CASE ticks = 0
  <2>1. k' = k
    BY <1>2, <1>4 DEF task_delay
  <2> QED
    BY <2>1 DEF WakesLieAhead
<1>5. CASE ticks # 0
  <2>1. ticks \in 1..(DelayMod - 1)
    BY <1>5, WidthAssumption
  <2>2. k'.wake = [k.wake EXCEPT ![t] = (k.now + ticks) % TickMod]
    BY <1>1, <1>2, <1>3, <1>5, DelayKeys
  <2>3. \/ k' = k
        \/ SameButTrees(k, k') /\ Nodes(k'.sleep) = Nodes(k.sleep) \cup {t}
    BY <1>1, <1>2, <1>3, TaskDelay
  <2> HIDE DEF ticks
  <2>4. k.now \in Nat /\ k.wake \in [Tasks -> Ticks] /\ Nodes(k.sleep) \subseteq Tasks
    <3>1. k.now \in Ticks /\ k.wake \in [Tasks -> Ticks] /\ k.sleep \in Seq(Tasks)
      BY <1>3 DEF KernelState
    <3> QED
      BY <3>1, WidthAssumption DEF Ticks, Nodes
  <2>5. (k.now + ticks) % TickMod = k.now + ticks
    <3> DEFINE n == k.now + ticks
    <3>1. n \in 0..(TickMod - 1) /\ TickMod \in Nat
      BY <2>1, <2>4, WidthAssumption, BoundAssumption DEF Unwrapped, WakesLieAhead
    <3> HIDE DEF n
    <3>2. n % TickMod = n
      BY <3>1, SmallMod
    <3> QED
      BY <3>2 DEF n
  <2>6. k'.wake[t] = k.now + ticks /\ \A u \in Tasks \ {t} : k'.wake[u] = k.wake[u]
    BY <2>2, <2>4, <2>5
  <2>7. k'.now = k.now /\ k'.isr = k.isr
    BY <2>3 DEF SameButTrees
  <2>8. ASSUME NEW u \in Nodes(k'.sleep)
        PROVE  k'.wake[u] - k.now \in 1..(DelayMod - 1)
    <3>1. CASE u = t
      <4>1. (k.now + ticks) - k.now = ticks
        BY <2>1, <2>4
      <4> QED
        BY <2>1, <2>6, <3>1, <4>1
    <3>2. CASE u # t
      <4>1. u \in Nodes(k.sleep) /\ k'.wake[u] = k.wake[u]
        BY <2>3, <2>4, <2>6, <2>8, <3>2
      <4> QED
        BY <1>1, <4>1 DEF WakesLieAhead
    <3> QED
      BY <3>1, <3>2
  <2> QED
    BY <1>1, <2>7, <2>8 DEF WakesLieAhead
<1> QED
  BY <1>4, <1>5

LEMMA SysTickClock ==
    ASSUME Unwrapped, IInv, WakesLieAhead, SysTick
    PROVE  WakesLieAhead'
<1>1. /\ k \in KernelState /\ ~k.isr /\ k.now < LastTick /\ k' = tick(k)
  BY DEF IInv, TypeOK, SysTick, SysTickTaken
<1>2. k.now \in Nat /\ k.wake \in [Tasks -> Ticks] /\ Nodes(k.sleep) \subseteq Tasks
  BY <1>1, WidthAssumption DEF KernelState, Ticks, Nodes
<1>3. (k.now + 1) % TickMod = k.now + 1
  <2> DEFINE n == k.now + 1
  <2>1. n \in 0..(TickMod - 1) /\ TickMod \in Nat
    BY <1>1, <1>2, WidthAssumption, BoundAssumption DEF Unwrapped
  <2> HIDE DEF n
  <2>2. n % TickMod = n
    BY <2>1, SmallMod
  <2> QED
    BY <2>2 DEF n
<1>4. k'.now = k.now + 1 /\ k'.isr /\ k'.sleep = k.sleep /\ k'.wake = k.wake
  BY <1>1, <1>3 DEF tick, KernelState
<1>5. k'.now <= LastTick
  BY <1>1, <1>2, <1>4, BoundAssumption
<1>6. ASSUME NEW u \in Nodes(k.sleep)
      PROVE  k.wake[u] - (k.now + 1) \in 0..(DelayMod - 1)
  <2>1. k.wake[u] - k.now \in 1..(DelayMod - 1) /\ k.wake[u] \in Nat
    BY <1>1, <1>2, WidthAssumption DEF WakesLieAhead, Ticks
  <2> QED
    BY <1>2, <2>1, WidthAssumption
<1> QED
  BY <1>4, <1>5, <1>6 DEF WakesLieAhead

LEMMA CheckTicksClock ==
    ASSUME Unwrapped, IInv, WakesLieAhead, check_ticks
    PROVE  WakesLieAhead'
<1>1. /\ k \in KernelState /\ TreesOK(k) /\ k.isr
      /\ Nodes(k.ready) \cap Nodes(k.sleep) = {}
  BY PartitionIsTreesOK DEF IInv, TypeOK, TasksPartitioned, check_ticks, InCheckTicks
<1>2. CASE Expired(k)
  <2>1. k' = wake_first(k) /\ k.sleep # <<>>
    BY <1>2 DEF check_ticks, Expired
  <2>2. SameButTrees(k, k') /\ Nodes(k'.sleep) \subseteq Nodes(k.sleep)
    BY <1>1, <2>1, WakeFirst
  <2>3. \A u \in Nodes(k'.sleep) : k'.wake[u] = k.wake[u]
    BY <1>1, <2>1, WakeKeys
  <2> QED
    BY <2>2, <2>3, SameClock DEF SameButTrees
<1>3. CASE ~Expired(k)
  <2>1. k' = [k EXCEPT !.isr = FALSE]
    BY <1>3 DEF check_ticks
  <2>2. /\ k'.now = k.now /\ ~k'.isr /\ k'.sleep = k.sleep /\ k'.wake = k.wake
    BY <1>1, <2>1 DEF KernelState
  <2>3. /\ k.now \in Nat /\ k.now \in Ticks /\ k.wake \in [Tasks -> Ticks]
        /\ k.wake \in [Tasks -> Int] /\ k.sleep \in Seq(Tasks)
        /\ Ordered(k.sleep, k.wake)
    BY <1>1, WidthAssumption DEF KernelState, Ticks, TreesOK
  <2>4. ASSUME NEW u \in Nodes(k.sleep)
        PROVE  k.wake[u] - k.now \in 1..(DelayMod - 1)
    <3> DEFINE f == first_node(k.sleep)
    <3>1. k.sleep # <<>>
      BY <2>3, <2>4, EmptyNodes
    <3>2. f \in Nodes(k.sleep) /\ f \in Tasks
      BY <2>3, <3>1, EndsAreNodes
    <3>3. k.wake[f] <= k.wake[u]
      BY <2>3, FirstIsLeast
    <3>4. Signed(k.wake[f], k.now) > 0 \/ ~(Signed(k.wake[f], k.now) \in Int)
      BY <1>3, <3>1 DEF Expired, compare_before_eq
    <3> HIDE DEF f
    <3>5. /\ k.wake[f] - k.now \in 0..(DelayMod - 1)
          /\ k.wake[u] - k.now \in 0..(DelayMod - 1)
      BY <1>1, <3>2 DEF WakesLieAhead
    <3>6. k.wake[f] \in Ticks /\ k.wake[u] \in Ticks
      BY <2>3, <3>2 DEF Nodes
    <3>7. Signed(k.wake[f], k.now) = k.wake[f] - k.now
      BY <2>3, <3>5, <3>6, SignedAhead
    <3>8. k.wake[f] - k.now > 0
      BY <3>4, <3>5, <3>7, WidthAssumption
    <3>9. k.wake[f] \in Nat /\ k.wake[u] \in Nat
      BY <3>6, WidthAssumption DEF Ticks
    <3> QED
      BY <2>3, <3>3, <3>5, <3>8, <3>9, WidthAssumption
  <2> QED
    BY <2>2, <2>4 DEF WakesLieAhead
<1> QED
  BY <1>2, <1>3

LEMMA NextClock ==
    ASSUME Unwrapped, IInv, WakesLieAhead, [Next]_vars
    PROVE  WakesLieAhead'
<1>1. k \in KernelState /\ TreesOK(k)
  BY PartitionIsTreesOK DEF IInv, TypeOK
<1>2. CASE UNCHANGED vars
  BY <1>2 DEF vars, WakesLieAhead
<1>3. ASSUME NEW t \in Tasks, main_create(t)
      PROVE  WakesLieAhead'
  <2> DEFINE k1 == new_tcb(k, t)
  <2>1. /\ k1 \in KernelState /\ TreesOK(k1) /\ k1.now = k.now /\ k1.isr = k.isr
        /\ k1.sleep = k.sleep /\ k1.wake = k.wake
    BY <1>1, <1>3, NewTcb
  <2>2. k' = rt_ready_add(k1, t)
    BY <1>3 DEF main_create, task_adt_add
  <2> HIDE DEF k1
  <2>3. SameButReady(k1, k')
    BY <2>1, <2>2, ReadyAdd
  <2> QED
    BY <2>1, <2>3, SleepersUntouched DEF SameButReady
<1>4. ASSUME NEW t \in Tasks, NEW c \in Tasks, create_alloc(t, c)
      PROVE  WakesLieAhead'
  <2>1. k' = new_tcb(k, c)
    BY <1>4 DEF create_alloc
  <2> QED
    BY <1>1, <2>1, NewTcb, SleepersUntouched
<1>5. ASSUME NEW t \in Tasks, create_add(t)
      PROVE  WakesLieAhead'
  <2>1. k' = rt_ready_add(k, child[t]) /\ child[t] \in Tasks
    BY <1>5 DEF create_add, task_adt_add, At, IInv, ChildrenAreNew
  <2>2. SameButReady(k, k')
    BY <1>1, <2>1, ReadyAdd
  <2> QED
    BY <2>2, SleepersUntouched DEF SameButReady
<1>6. ASSUME NEW t \in Tasks, delay(t) \/ task_exit(t)
      PROVE  WakesLieAhead'
  BY <1>6, DelayClock
<1>7. ASSUME NEW t \in Tasks,
             scheduler_lock(t) \/ unlock_enable(t) \/ unlock_switch(t)
      PROVE  WakesLieAhead'
  <2>1. /\ k'.now = k.now /\ k'.isr = k.isr
        /\ k'.sleep = k.sleep /\ k'.wake = k.wake
    <3>1. CASE scheduler_lock(t)
      BY <1>1, <3>1 DEF scheduler_lock, KernelState
    <3>2. CASE unlock_enable(t)
      BY <1>1, <3>2 DEF unlock_enable, KernelState
    <3>3. CASE unlock_switch(t)
      BY <1>1, <3>3 DEF unlock_switch, schedule, KernelState
    <3> QED
      BY <1>7, <3>1, <3>2, <3>3
  <2> QED
    BY <2>1, SleepersUntouched
<1>8. ASSUME NEW t \in Tasks, delete_unlink(t)
      PROVE  WakesLieAhead'
  <2>1. /\ Running(k, t) /\ pc[t] = "run" /\ k' = move_to_dead(k, t)
    BY <1>8 DEF delete_unlink, Free, At
  <2>2. t \in Nodes(k.ready) /\ t \notin Nodes(k.dead)
    BY <2>1, RunnerIsReady
  <2>3. /\ k'.now = k.now /\ k'.isr = k.isr
        /\ k'.sleep = k.sleep /\ k'.wake = k.wake
    BY <1>1, <2>1, <2>2 DEF move_to_dead, rt_ready_remove, KernelState
  <2> QED
    BY <2>3, SleepersUntouched
<1>9. ASSUME NEW t \in Tasks, delete_switch(t)
      PROVE  WakesLieAhead'
  <2>1. SameButReady(k, k')
    BY <1>1, <1>9, RequestSwitch DEF delete_switch
  <2> QED
    BY <2>1, SleepersUntouched DEF SameButReady
<1>10. CASE leisure_task
  <2>1. k' = k \/ k' = task_free(k)
    BY <1>10 DEF leisure_task
  <2>2. /\ k'.now = k.now /\ k'.isr = k.isr
        /\ k'.sleep = k.sleep /\ k'.wake = k.wake
    BY <1>1, <2>1 DEF task_free, KernelState
  <2> QED
    BY <2>2, SleepersUntouched
<1>11. CASE scheduler_start \/ PendSV
  <2>1. /\ k'.now = k.now /\ k'.isr = k.isr
        /\ k'.sleep = k.sleep /\ k'.wake = k.wake
    BY <1>1, <1>11 DEF scheduler_start, PendSV, task_switch_context, KernelState
  <2> QED
    BY <2>1, SleepersUntouched
<1>12. CASE SysTick
  BY <1>12, SysTickClock
<1>13. CASE check_ticks
  BY <1>13, CheckTicksClock
<1> QED
  BY <1>2, <1>3, <1>4, <1>5, <1>6, <1>7, <1>8, <1>9, <1>10, <1>11, <1>12, <1>13
     DEF Next, Step, Interrupt

\* No tick passes over a sleeper, until one longest delay before the first key
\* wraps (the run scheduler_wrap shows that it may happen from there on).
THEOREM NobodyOversleeps ==
    ASSUME Unwrapped
    PROVE  Spec => []NeverOverdue
<1> DEFINE Inv == IInv /\ WakesLieAhead
<1>1. Init => Inv
  <2>1. Nodes(<<>>) = {}
    BY DEF Nodes
  <2> QED
    BY <2>1, InitIInv, BoundAssumption DEF Init, scheduler_init, WakesLieAhead
<1>2. Inv /\ [Next]_vars => Inv'
  BY NextIInv, NextClock
<1>3. Inv => NeverOverdue
  <2> SUFFICES ASSUME Inv, ~k.isr, NEW t \in Nodes(k.sleep)
               PROVE  Signed(k.wake[t], k.now) > 0
    BY DEF NeverOverdue
  <2>1. k.wake[t] - k.now \in 1..(DelayMod - 1)
    BY DEF WakesLieAhead
  <2>2. k.wake[t] \in Ticks /\ k.now \in Ticks
    BY DEF IInv, TypeOK, KernelState, Nodes
  <2>3. Signed(k.wake[t], k.now) = k.wake[t] - k.now
    BY <2>1, <2>2, SignedAhead, WidthAssumption
  <2> QED
    BY <2>1, <2>3, WidthAssumption
<1> QED
  BY <1>1, <1>2, <1>3, PTL DEF Spec
-----------------------------------------------------------------------------
(***************************************************************************)
(* Software timers.  The invariant gives each timer the tick it is due at: *)
(* one period after it ran last, and none that is past.                    *)
(***************************************************************************)
\* What linking and unlinking do, for the instance's copies of the operators.
LEMMA TimerLinks ==
    ASSUME NEW S, NEW tree \in Seq(S), NEW key \in [S -> Int], NEW n \in S,
           Timers!NoTwice(tree), Timers!Ordered(tree, key), n \notin Timers!Nodes(tree),
           NEW new, new = Timers!rb_insert_node(tree, key, n)
    PROVE  /\ new \in Seq(S) /\ Timers!NoTwice(new) /\ Timers!Ordered(new, key)
           /\ Timers!Nodes(new) = Timers!Nodes(tree) \cup {n}
<1>1. NoTwice(tree) /\ Ordered(tree, key) /\ n \notin Nodes(tree)
  BY DEF NoTwice, Ordered, Nodes, Timers!NoTwice, Timers!Ordered, Timers!Nodes
<1>2. new = rb_insert_node(tree, key, n)
  <2>1. Timers!Cardinality({i \in DOMAIN tree : key[tree[i]] <= key[n]}) =
        Cardinality({i \in DOMAIN tree : key[tree[i]] <= key[n]})
    BY DEF Timers!Cardinality, Cardinality
  <2>2. Timers!Place(tree, key, n) = Place(tree, key, n)
    BY <2>1 DEF Timers!Place, Place
  <2> QED
    BY <2>2 DEF Timers!rb_insert_node, rb_insert_node
<1>3. /\ new \in Seq(S) /\ Nodes(new) = Nodes(tree) \cup {n} /\ NoTwice(new)
      /\ Ordered(new, key)
  BY <1>1, <1>2, InsertNodes, InsertOrdered
<1> QED
  BY <1>3 DEF NoTwice, Ordered, Nodes, Timers!NoTwice, Timers!Ordered, Timers!Nodes

LEMMA TimerUnlinks ==
    ASSUME NEW S, NEW tree \in Seq(S), NEW key, NEW n \in Timers!Nodes(tree),
           Timers!NoTwice(tree), Timers!Ordered(tree, key),
           NEW new, new = Timers!rb_remove_node(tree, n)
    PROVE  /\ new \in Seq(S) /\ Timers!NoTwice(new) /\ Timers!Ordered(new, key)
           /\ Timers!Nodes(new) = Timers!Nodes(tree) \ {n}
<1>1. NoTwice(tree) /\ Ordered(tree, key) /\ n \in Nodes(tree)
  BY DEF NoTwice, Ordered, Nodes, Timers!NoTwice, Timers!Ordered, Timers!Nodes
<1>2. new = rb_remove_node(tree, n)
  BY DEF Timers!rb_remove_node, rb_remove_node
<1>3. /\ new \in Seq(S) /\ Nodes(new) = Nodes(tree) \ {n} /\ NoTwice(new)
      /\ Ordered(new, key)
  BY <1>1, <1>2, RemoveNodes, RemoveOrdered
<1> QED
  BY <1>3 DEF NoTwice, Ordered, Nodes, Timers!NoTwice, Timers!Ordered, Timers!Nodes

LEMMA TimersRetyped ==
    ASSUME NEW S, NEW T, NEW tree \in Seq(S), Timers!Nodes(tree) \subseteq T
    PROVE  tree \in Seq(T)
<1>1. \A i \in DOMAIN tree : tree[i] \in T
  BY DEF Timers!Nodes
<1> QED
  BY <1>1

LEMMA TimersSameKeys ==
    ASSUME NEW tree, NEW key, NEW other, Timers!Ordered(tree, key),
           \A n \in Timers!Nodes(tree) : other[n] = key[n]
    PROVE  Timers!Ordered(tree, other)
BY DEF Timers!Ordered, Timers!Nodes

LEMMA TimerConstants ==
    /\ Periods \subseteq Nat /\ \A p \in Periods : p > 0
    /\ TimerMod \in Nat /\ TimerEnd \in Nat /\ TimerEnd < TimerMod
    /\ CountsFirst \subseteq BOOLEAN
BY TimerAssumption DEF Timers!Assumption

\* What the invariant says of the timers, on records written out.
Both(tree, o) == [tree |-> tree, obj |-> o]
Due(o) == [t \in DOMAIN o |-> o[t].value]

LEMMA TypedIs ==
    ASSUME NEW tree, NEW o, NEW born, NEW runs
    PROVE  Timers!Typed(Both(tree, o), born, runs) =
             ( /\ DOMAIN o \subseteq TimerObjs /\ \A t \in DOMAIN o : o[t] \in Timers!Timer
               /\ tree \in Seq(DOMAIN o)
               /\ born \in [TimerObjs -> 0..now] /\ runs \in [TimerObjs -> Nat]
               /\ \A t \in TimerObjs \ DOMAIN o : runs[t] = 0 )
BY DEF Timers!Typed, Both

LEMMA SortedIs ==
    ASSUME NEW tree, NEW o, NEW runs
    PROVE  Timers!Sorted(Both(tree, o), runs) =
             ( /\ Timers!NoTwice(tree) /\ Timers!Ordered(tree, Due(o))
               /\ Timers!Nodes(tree) = {t \in DOMAIN o : o[t].stop_flag = "run" \/ runs[t] = 0} )
BY DEF Timers!Sorted, Timers!Runs, Both, Due

Punctual(v, p, f, b, c) ==
    /\ f = "run" \/ c = 0 => v = b + p * (c + 1) /\ v >= Timers!Soonest
    /\ c > 0 => b + p * c <= Timers!Latest
    /\ f = "stop" => c <= 1

LEMMA OnTimeIs ==
    ASSUME NEW tree, NEW o, NEW born, NEW runs, NEW t
    PROVE  Timers!OnTime(Both(tree, o), born, runs, t) =
              Punctual(o[t].value, o[t].period, o[t].stop_flag, born[t], runs[t])
BY DEF Timers!OnTime, Timers!Runs, Punctual, Both

\* The clock and the port.
Clock == now \in 0..TimerEnd /\ counts_first \in BOOLEAN /\ serving \in BOOLEAN

LEMMA ClockBounds ==
    ASSUME Clock
    PROVE  /\ now \in Nat /\ Timers!Soonest \in {now, now + 1}
           /\ Timers!Latest \in {now - 1, now}
           /\ serving => Timers!Soonest = now /\ Timers!Latest = now
BY TimerConstants DEF Clock, Timers!Soonest, Timers!Latest

\* clock_tree_add gives a timer its next time, which does not wrap.
LEMMA AddSound ==
    ASSUME Timers!NeverWraps, Clock,
           NEW tree, NEW o, NEW born, NEW runs, Timers!Typed(Both(tree, o), born, runs),
           NEW t \in DOMAIN o, t \notin Timers!Nodes(tree),
           Timers!NoTwice(tree), Timers!Ordered(tree, Due(o)),
           Timers!Nodes(tree) \cup {t} = {u \in DOMAIN o : o[u].stop_flag = "run" \/ runs[u] = 0},
           \A u \in DOMAIN o : u # t => Timers!OnTime(Both(tree, o), born, runs, u),
           born[t] + o[t].period * runs[t] = now, runs[t] > 0 => now <= Timers!Latest,
           o[t].stop_flag = "stop" => runs[t] <= 1,
           NEW y, y = Timers!clock_tree_add(Both(tree, o), t)
    PROVE  /\ Timers!Sound(y, born, runs) /\ y = Both(y.tree, y.obj)
           /\ DOMAIN y.obj = DOMAIN o /\ \A u \in DOMAIN o : u # t => y.obj[u] = o[u]
           /\ Timers!Nodes(y.tree) = Timers!Nodes(tree) \cup {t}
<1> DEFINE v == now + o[t].period
           due == [o EXCEPT ![t].value = v]
           new == Timers!rb_insert_node(tree, Due(due), t)
<1>1. /\ DOMAIN o \subseteq TimerObjs /\ \A u \in DOMAIN o : o[u] \in Timers!Timer
      /\ tree \in Seq(DOMAIN o)
      /\ born \in [TimerObjs -> 0..now] /\ runs \in [TimerObjs -> Nat]
      /\ \A u \in TimerObjs \ DOMAIN o : runs[u] = 0
  BY TypedIs
<1>2. /\ o[t].period \in Nat /\ o[t].period > 0 /\ o[t].stop_flag \in {"run", "stop"}
      /\ o[t].period \in Periods
      /\ o[t] \in [value : 0..(TimerMod - 1), period : Periods, stop_flag : {"run", "stop"}]
  BY <1>1, TimerConstants DEF Timers!Timer
<1>3. v \in 0..(TimerMod - 1) /\ v % TimerMod = v
  <2>1. 2 * (TimerEnd + o[t].period) < TimerMod
    BY <1>2 DEF Timers!NeverWraps
  <2>2. v \in 0..(TimerMod - 1)
    BY <1>2, <2>1, TimerConstants DEF Clock
  <2> HIDE DEF v
  <2> QED
    BY <2>2, SmallMod, TimerConstants
<1>4. y = Both(new, due)
  BY <1>3 DEF Timers!clock_tree_add, Both, Due
<1>5. /\ DOMAIN due = DOMAIN o
      /\ \A u \in DOMAIN o : u # t => due[u] = o[u]
      /\ due[t] \in Timers!Timer /\ due[t].value = v
      /\ due[t].period = o[t].period /\ due[t].stop_flag = o[t].stop_flag
  <2> HIDE DEF v
  <2> QED
    BY <1>2, <1>3 DEF Timers!Timer
<1> HIDE DEF due, new, v
<1>6. /\ new \in Seq(DOMAIN o) /\ Timers!NoTwice(new) /\ Timers!Ordered(new, Due(due))
      /\ Timers!Nodes(new) = Timers!Nodes(tree) \cup {t}
  <2>1. Due(due) \in [DOMAIN o -> Int]
    <3>1. \A u \in DOMAIN o : due[u] \in Timers!Timer
      BY <1>1, <1>5
    <3>2. \A u \in DOMAIN o : due[u].value \in Int
      BY <3>1, TimerConstants DEF Timers!Timer
    <3> QED
      BY <1>5, <3>2 DEF Due
  <2>2. Timers!Ordered(tree, Due(due))
    <3>1. Timers!Nodes(tree) \subseteq DOMAIN o
      BY <1>1 DEF Timers!Nodes
    <3>2. \A u \in Timers!Nodes(tree) : Due(due)[u] = Due(o)[u]
      BY <1>5, <3>1 DEF Due
    <3> QED
      BY <3>2, TimersSameKeys
  <2> QED
    BY <1>1, <2>1, <2>2, TimerLinks DEF new
<1>7. Timers!Typed(y, born, runs)
  <2>1. \A u \in DOMAIN o : due[u] \in Timers!Timer
    BY <1>1, <1>5
  <2> QED
    BY <1>1, <1>4, <1>5, <1>6, <2>1, TypedIs
<1>8. Timers!Sorted(y, runs)
  <2>1. \A u \in DOMAIN o : due[u].stop_flag = o[u].stop_flag
    BY <1>5
  <2>2. Timers!Nodes(new) = {u \in DOMAIN due : due[u].stop_flag = "run" \/ runs[u] = 0}
    BY <1>5, <1>6, <2>1
  <2>3. Timers!Sorted(Both(new, due), runs)
    BY <1>6, <2>2 DEF Timers!Sorted, Timers!Runs, Both, Due
  <2> QED
    BY <1>4, <2>3
<1>9. ASSUME NEW u \in DOMAIN o
      PROVE  Timers!OnTime(y, born, runs, u)
  <2>1. CASE u # t
    <3>1. Punctual(o[u].value, o[u].period, o[u].stop_flag, born[u], runs[u])
      BY <2>1, OnTimeIs
    <3> QED
      BY <1>4, <1>5, <2>1, <3>1, OnTimeIs
  <2>2. CASE u = t
    <3> DEFINE p == o[t].period
               c == runs[t]
               b == born[t]
    <3>1. /\ p \in Nat /\ p > 0 /\ c \in Nat /\ b \in Nat /\ b + p * c = now
          /\ c > 0 => now <= Timers!Latest
      BY <1>1, <1>2, ClockBounds
    <3>2. p * (c + 1) = p * c + p
      BY <3>1
    <3>3. v = now + p /\ v >= Timers!Soonest
      BY <1>2, ClockBounds DEF v
    <3>4. b + p * (c + 1) = v /\ v >= Timers!Soonest
          /\ (c > 0 => b + p * c <= Timers!Latest)
      BY <3>1, <3>2, <3>3, ClockBounds
    <3>5. Punctual(v, p, o[t].stop_flag, b, c)
      <4> HIDE DEF p, c, b
      <4>1. o[t].stop_flag = "stop" => c <= 1
        BY DEF c
      <4> QED
        BY <3>4, <4>1 DEF Punctual
    <3> QED
      BY <1>4, <1>5, <2>2, <3>5, OnTimeIs
  <2> QED
    BY <2>1, <2>2
<1>10. y.obj = due /\ y.tree = new /\ y = Both(y.tree, y.obj)
  BY <1>4 DEF Both
<1> QED
  BY <1>5, <1>6, <1>7, <1>8, <1>9, <1>10 DEF Timers!Sound, Timers!InTime

\* When a timer is created, and when it is deleted, the others stay as they are.
Born(o, y, born) ==
    [u \in TimerObjs |-> IF u \notin DOMAIN y.obj THEN 0
                         ELSE IF u \in DOMAIN o THEN born[u] ELSE now]

LEMMA CreateSound ==
    ASSUME Timers!NeverWraps, Clock,
           NEW tree, NEW o, NEW born, NEW runs, Timers!Sound(Both(tree, o), born, runs),
           NEW t \in TimerObjs \ DOMAIN o, NEW p \in Periods, NEW f \in {"run", "stop"},
           NEW y, y = Timers!timer_create(Both(tree, o), t, p, f)
    PROVE  /\ Timers!Sound(y, Born(o, y, born), Timers!Kept(y, runs)) /\ y = Both(y.tree, y.obj)
           /\ \A u \in DOMAIN o : u \in DOMAIN y.obj /\ y.obj[u] = o[u]
           /\ Timers!Nodes(tree) \subseteq Timers!Nodes(y.tree)
<1> DEFINE n == [value |-> 0, period |-> p, stop_flag |-> f]
           all == [u \in DOMAIN o \cup {t} |-> IF u = t THEN n ELSE o[u]]
           b == Born(o, y, born)
           r == Timers!Kept(y, runs)
<1>1. /\ Timers!Typed(Both(tree, o), born, runs) /\ Timers!Sorted(Both(tree, o), runs)
      /\ \A u \in DOMAIN o : Timers!OnTime(Both(tree, o), born, runs, u)
  BY DEF Timers!Sound, Timers!InTime, Both
<1>2. /\ DOMAIN o \subseteq TimerObjs /\ \A u \in DOMAIN o : o[u] \in Timers!Timer
      /\ tree \in Seq(DOMAIN o)
      /\ born \in [TimerObjs -> 0..now] /\ runs \in [TimerObjs -> Nat]
      /\ \A u \in TimerObjs \ DOMAIN o : runs[u] = 0
  BY <1>1, TypedIs
<1>3. /\ Timers!NoTwice(tree) /\ Timers!Ordered(tree, Due(o))
      /\ Timers!Nodes(tree) = {u \in DOMAIN o : o[u].stop_flag = "run" \/ runs[u] = 0}
  BY <1>1, SortedIs
<1>4. y = Timers!clock_tree_add(Both(tree, all), t)
  BY DEF Timers!timer_create, Both
<1>5. n \in Timers!Timer /\ n.period = p /\ n.stop_flag = f
  BY TimerConstants DEF Timers!Timer
<1> HIDE DEF n
<1>6. /\ DOMAIN all = DOMAIN o \cup {t} /\ all[t] = n /\ t \notin DOMAIN o /\ t \in TimerObjs
      /\ \A u \in DOMAIN o : all[u] = o[u] /\ u # t
  OBVIOUS
<1> HIDE DEF all
<1>7. runs[t] = 0
  BY <1>2, <1>6
<1>8. DOMAIN y.obj = DOMAIN all
  BY <1>4 DEF Timers!clock_tree_add, Both
<1>9. b \in [TimerObjs -> 0..now] /\ b[t] = now /\ \A u \in DOMAIN o : b[u] = born[u]
  <2>1. \A u \in TimerObjs : IF u \notin DOMAIN y.obj THEN b[u] = 0
                             ELSE b[u] = IF u \in DOMAIN o THEN born[u] ELSE now
    BY DEF Born
  <2>2. 0 \in 0..now /\ now \in 0..now
    BY ClockBounds
  <2>3. \A u \in TimerObjs : b[u] \in 0..now
    BY <1>2, <2>1, <2>2
  <2>4. b = [u \in TimerObjs |-> b[u]]
    BY DEF Born
  <2> QED
    BY <1>2, <1>6, <1>8, <2>1, <2>3, <2>4
<1>10. r = runs
  <2>1. \A u \in TimerObjs : r[u] = runs[u]
    BY <1>2, <1>6, <1>8 DEF Timers!Kept
  <2>2. r = [u \in TimerObjs |-> r[u]] /\ runs = [u \in TimerObjs |-> runs[u]]
    BY <1>2 DEF Timers!Kept
  <2> QED
    BY <2>1, <2>2
<1> HIDE DEF b, r
<1>11. Timers!Typed(Both(tree, all), b, runs)
  <2>1. tree \in Seq(DOMAIN all)
    BY <1>2, <1>6, SeqGrows
  <2>2. \A u \in DOMAIN all : all[u] \in Timers!Timer
    BY <1>2, <1>5, <1>6
  <2> QED
    BY <1>2, <1>6, <1>9, <2>1, <2>2 DEF Timers!Typed, Both
<1>12. Timers!Ordered(tree, Due(all)) /\ t \notin Timers!Nodes(tree)
  <2>1. \A u \in Timers!Nodes(tree) : u \in DOMAIN o
    BY <1>3
  <2>2. \A u \in Timers!Nodes(tree) : Due(all)[u] = Due(o)[u]
    BY <1>6, <2>1 DEF Due
  <2> QED
    BY <1>3, <1>6, <2>1, <2>2, TimersSameKeys
<1>13. Timers!Nodes(tree) \cup {t} =
          {u \in DOMAIN all : all[u].stop_flag = "run" \/ runs[u] = 0}
  BY <1>3, <1>6, <1>7
<1>14. ASSUME NEW u \in DOMAIN all, u # t PROVE Timers!OnTime(Both(tree, all), b, runs, u)
  <2>1. u \in DOMAIN o /\ all[u] = o[u] /\ b[u] = born[u]
    BY <1>6, <1>9, <1>14
  <2>2. Punctual(o[u].value, o[u].period, o[u].stop_flag, born[u], runs[u])
    BY <1>1, <2>1, OnTimeIs
  <2> QED
    BY <2>1, <2>2, OnTimeIs
<1>15. /\ b[t] + all[t].period * runs[t] = now /\ ~(runs[t] > 0) /\ runs[t] <= 1
  <2>1. b[t] = now /\ runs[t] = 0 /\ all[t].period \in Nat /\ now \in Nat
    BY <1>5, <1>6, <1>7, <1>9, ClockBounds, TimerConstants
  <2> QED
    BY <2>1
<1>16. /\ Timers!Sound(y, b, runs) /\ y = Both(y.tree, y.obj)
       /\ DOMAIN y.obj = DOMAIN all /\ \A u \in DOMAIN all : u # t => y.obj[u] = all[u]
       /\ Timers!Nodes(y.tree) = Timers!Nodes(tree) \cup {t}
  <2>1. t \in DOMAIN all
    BY <1>6
  <2> QED
    BY <1>3, <1>4, <1>11, <1>12, <1>13, <1>14, <1>15, <2>1, AddSound
<1> QED
  BY <1>6, <1>10, <1>16 DEF b, r

LEMMA DeleteSound ==
    ASSUME Clock,
           NEW tree, NEW o, NEW born, NEW runs, Timers!Sound(Both(tree, o), born, runs),
           NEW t \in Timers!Nodes(tree), NEW y, y = Timers!timer_delete(Both(tree, o), t)
    PROVE  /\ Timers!Sound(y, Born(o, y, born), Timers!Kept(y, runs)) /\ y = Both(y.tree, y.obj)
           /\ \A u \in DOMAIN o : u # t => u \in DOMAIN y.obj /\ y.obj[u] = o[u]
           /\ Timers!Nodes(tree) \ {t} \subseteq Timers!Nodes(y.tree)
<1> DEFINE left == [u \in DOMAIN o \ {t} |-> o[u]]
           new == Timers!rb_remove_node(tree, t)
           b == Born(o, y, born)
           r == Timers!Kept(y, runs)
<1>1. /\ Timers!Typed(Both(tree, o), born, runs) /\ Timers!Sorted(Both(tree, o), runs)
      /\ \A u \in DOMAIN o : Timers!OnTime(Both(tree, o), born, runs, u)
  BY DEF Timers!Sound, Timers!InTime, Both
<1>2. /\ DOMAIN o \subseteq TimerObjs /\ \A u \in DOMAIN o : o[u] \in Timers!Timer
      /\ tree \in Seq(DOMAIN o)
      /\ born \in [TimerObjs -> 0..now] /\ runs \in [TimerObjs -> Nat]
      /\ \A u \in TimerObjs \ DOMAIN o : runs[u] = 0
  BY <1>1, TypedIs
<1>3. /\ Timers!NoTwice(tree) /\ Timers!Ordered(tree, Due(o))
      /\ Timers!Nodes(tree) = {u \in DOMAIN o : o[u].stop_flag = "run" \/ runs[u] = 0}
  BY <1>1, SortedIs
<1>4. y = Both(new, left)
  BY DEF Timers!timer_delete, Timers!clock_tree_remove, Both
<1>5. /\ new \in Seq(DOMAIN o) /\ Timers!NoTwice(new) /\ Timers!Ordered(new, Due(o))
      /\ Timers!Nodes(new) = Timers!Nodes(tree) \ {t}
  <2>1. tree \in Seq(DOMAIN o)
    BY <1>2
  <2>2. new = Timers!rb_remove_node(tree, t)
    OBVIOUS
  <2> HIDE DEF left, new, b, r
  <2> QED
    BY <1>3, <2>1, <2>2, TimerUnlinks
<1>6. /\ DOMAIN left = DOMAIN o \ {t} /\ \A u \in DOMAIN left : left[u] = o[u]
  OBVIOUS
<1> HIDE DEF left, new
<1>7. y.tree = new /\ y.obj = left
  BY <1>4 DEF Both
<1>8. b \in [TimerObjs -> 0..now] /\ \A u \in DOMAIN left : b[u] = born[u]
  <2>1. \A u \in TimerObjs : IF u \notin DOMAIN left THEN b[u] = 0 ELSE b[u] = born[u]
    BY <1>6, <1>7 DEF Born
  <2>2. 0 \in 0..now
    BY ClockBounds
  <2>3. \A u \in TimerObjs : b[u] \in 0..now
    BY <1>2, <2>1, <2>2
  <2>4. b = [u \in TimerObjs |-> b[u]]
    BY DEF Born
  <2> QED
    BY <1>2, <1>6, <2>1, <2>3, <2>4
<1>9. /\ r \in [TimerObjs -> Nat] /\ \A u \in DOMAIN left : r[u] = runs[u]
      /\ \A u \in TimerObjs \ DOMAIN left : r[u] = 0
  BY <1>2, <1>6, <1>7 DEF Timers!Kept
<1> HIDE DEF b, r
<1>10. Timers!Nodes(new) = {u \in DOMAIN left : left[u].stop_flag = "run" \/ r[u] = 0}
  BY <1>3, <1>5, <1>6, <1>9
<1>11. Timers!Typed(Both(new, left), b, r)
  <2>1. Timers!Nodes(new) \subseteq DOMAIN left
    BY <1>10
  <2>2. new \in Seq(DOMAIN left)
    BY <1>5, <2>1, TimersRetyped
  <2>3. \A u \in DOMAIN left : left[u] \in Timers!Timer
    BY <1>2, <1>6
  <2> QED
    BY <1>2, <1>6, <1>8, <1>9, <2>2, <2>3 DEF Timers!Typed, Both
<1>12. Timers!Sorted(Both(new, left), r)
  <2>1. Timers!Ordered(new, Due(left))
    <3>1. \A u \in Timers!Nodes(new) : Due(left)[u] = Due(o)[u]
      BY <1>6, <1>10 DEF Due
    <3> QED
      BY <1>5, <3>1, TimersSameKeys
  <2> QED
    BY <1>5, <1>10, <2>1 DEF Timers!Sorted, Timers!Runs, Both, Due
<1>13. ASSUME NEW u \in DOMAIN left PROVE Timers!OnTime(Both(new, left), b, r, u)
  <2>1. u \in DOMAIN o /\ left[u] = o[u] /\ b[u] = born[u] /\ r[u] = runs[u]
    BY <1>6, <1>8, <1>9
  <2>2. Punctual(o[u].value, o[u].period, o[u].stop_flag, born[u], runs[u])
    BY <1>1, <2>1, OnTimeIs
  <2> QED
    BY <2>1, <2>2, OnTimeIs
<1>14. Timers!Sound(y, b, r)
  BY <1>4, <1>7, <1>11, <1>12, <1>13 DEF Timers!Sound, Timers!InTime
<1> QED
  BY <1>4, <1>5, <1>6, <1>7, <1>14 DEF b, r

\* What the code of a callback or of a task leaves of the timers, those of a
\* given timer included.
LEMMA CallSound ==
    ASSUME Timers!NeverWraps, Clock,
           NEW tree, NEW o, NEW born, NEW runs, Timers!Sound(Both(tree, o), born, runs),
           NEW t, NEW x \in Timers!OneCall(Both(tree, o), t)
    PROVE  /\ Timers!Sound(x, Born(o, x, born), Timers!Kept(x, runs)) /\ x = Both(x.tree, x.obj)
           /\ t \in Timers!Nodes(tree) => /\ t \in Timers!Nodes(x.tree) /\ t \in DOMAIN x.obj
                                          /\ x.obj[t] = o[t]
<1>1. Timers!Nodes(tree) \subseteq DOMAIN o
  <2>1. Timers!Sorted(Both(tree, o), runs)
    BY DEF Timers!Sound
  <2> QED
    BY <2>1, SortedIs
<1>2. Both(tree, o).tree = tree /\ Both(tree, o).obj = o
  BY DEF Both
<1>3. \/ \E u \in TimerObjs \ DOMAIN o : \E p \in Periods : \E f \in {"run", "stop"} :
            x = Timers!timer_create(Both(tree, o), u, p, f)
      \/ \E u \in Timers!Nodes(tree) \ {t} : x = Timers!timer_delete(Both(tree, o), u)
  <2> HIDE DEF Both
  <2> QED
    BY <1>2 DEF Timers!OneCall
<1>4. CASE \E u \in TimerObjs \ DOMAIN o : \E p \in Periods : \E f \in {"run", "stop"} :
             x = Timers!timer_create(Both(tree, o), u, p, f)
  <2>1. PICK u \in TimerObjs \ DOMAIN o, p \in Periods, f \in {"run", "stop"} :
             x = Timers!timer_create(Both(tree, o), u, p, f)
    BY <1>4
  <2>2. /\ Timers!Sound(x, Born(o, x, born), Timers!Kept(x, runs)) /\ x = Both(x.tree, x.obj)
        /\ \A w \in DOMAIN o : w \in DOMAIN x.obj /\ x.obj[w] = o[w]
        /\ Timers!Nodes(tree) \subseteq Timers!Nodes(x.tree)
    BY <2>1, CreateSound
  <2> QED
    BY <1>1, <2>2
<1>5. CASE \E u \in Timers!Nodes(tree) \ {t} : x = Timers!timer_delete(Both(tree, o), u)
  <2>1. PICK u \in Timers!Nodes(tree) \ {t} : x = Timers!timer_delete(Both(tree, o), u)
    BY <1>5
  <2>2. /\ Timers!Sound(x, Born(o, x, born), Timers!Kept(x, runs)) /\ x = Both(x.tree, x.obj)
        /\ \A w \in DOMAIN o : w # u => w \in DOMAIN x.obj /\ x.obj[w] = o[w]
        /\ Timers!Nodes(tree) \ {u} \subseteq Timers!Nodes(x.tree)
    BY <2>1, DeleteSound
  <2> QED
    BY <1>1, <2>1, <2>2
<1> QED
  BY <1>3, <1>4, <1>5

\* One turn of timer_tick, for a timer whose time is now.
LEMMA ServeSound ==
    ASSUME Timers!NeverWraps, Clock, serving,
           NEW tree, NEW o, NEW born, NEW runs, Timers!Sound(Both(tree, o), born, runs),
           NEW t \in Timers!Nodes(tree), o[t].value = now,
           NEW y, y = Timers!clock_tree_remove(Both(tree, o), t),
           NEW z, y.obj[t].stop_flag = "run" => z = Timers!clock_tree_add(y, t),
           y.obj[t].stop_flag = "stop" => z = y,
           NEW more \in [TimerObjs -> Nat], more[t] = runs[t] + 1,
           \A u \in TimerObjs : u # t => more[u] = runs[u]
    PROVE  Timers!Sound(z, born, more) /\ z = Both(z.tree, z.obj) /\ DOMAIN z.obj = DOMAIN o
<1> DEFINE new == Timers!rb_remove_node(tree, t)
<1>1. /\ Timers!Typed(Both(tree, o), born, runs) /\ Timers!Sorted(Both(tree, o), runs)
      /\ \A u \in DOMAIN o : Timers!OnTime(Both(tree, o), born, runs, u)
  BY DEF Timers!Sound, Timers!InTime, Both
<1>2. /\ DOMAIN o \subseteq TimerObjs /\ \A u \in DOMAIN o : o[u] \in Timers!Timer
      /\ tree \in Seq(DOMAIN o)
      /\ born \in [TimerObjs -> 0..now] /\ runs \in [TimerObjs -> Nat]
      /\ \A u \in TimerObjs \ DOMAIN o : runs[u] = 0
  BY <1>1, TypedIs
<1>3. /\ Timers!NoTwice(tree) /\ Timers!Ordered(tree, Due(o))
      /\ Timers!Nodes(tree) = {u \in DOMAIN o : o[u].stop_flag = "run" \/ runs[u] = 0}
  BY <1>1, SortedIs
<1>4. y = Both(new, o) /\ y.obj = o
  BY DEF Timers!clock_tree_remove, Both
<1>5. /\ new \in Seq(DOMAIN o) /\ Timers!NoTwice(new) /\ Timers!Ordered(new, Due(o))
      /\ Timers!Nodes(new) = Timers!Nodes(tree) \ {t}
  <2>1. tree \in Seq(DOMAIN o)
    BY <1>2
  <2>2. new = Timers!rb_remove_node(tree, t)
    OBVIOUS
  <2> HIDE DEF new
  <2> QED
    BY <1>3, <2>1, <2>2, TimerUnlinks
<1> HIDE DEF new
<1>6. t \in DOMAIN o /\ t \in TimerObjs /\ (o[t].stop_flag = "run" \/ runs[t] = 0)
  BY <1>2, <1>3
<1>7. /\ more \in [TimerObjs -> Nat] /\ more[t] = runs[t] + 1
      /\ \A u \in TimerObjs : u # t => more[u] = runs[u]
  BY <1>2, <1>6
<1>8. /\ o[t].period \in Nat /\ o[t].period > 0 /\ o[t].stop_flag \in {"run", "stop"}
  BY <1>2, <1>6, TimerConstants DEF Timers!Timer
<1>9. born[t] + o[t].period * more[t] = now /\ now <= Timers!Latest
  <2>1. Punctual(o[t].value, o[t].period, o[t].stop_flag, born[t], runs[t])
    BY <1>1, <1>6, OnTimeIs
  <2>2. now = born[t] + o[t].period * (runs[t] + 1)
    BY <1>6, <2>1 DEF Punctual
  <2> QED
    BY <1>7, <2>2, ClockBounds
<1>10. o[t].stop_flag = "stop" => more[t] <= 1
  BY <1>2, <1>6, <1>7
<1>11. Timers!Typed(Both(new, o), born, more)
  BY <1>2, <1>5, <1>6, <1>7 DEF Timers!Typed, Both
<1>12. ASSUME NEW u \in DOMAIN o, u # t PROVE Timers!OnTime(Both(new, o), born, more, u)
  <2>1. Punctual(o[u].value, o[u].period, o[u].stop_flag, born[u], runs[u])
    BY <1>1, OnTimeIs
  <2>2. more[u] = runs[u]
    BY <1>2, <1>7, <1>12
  <2> QED
    BY <2>1, <2>2 DEF Timers!OnTime, Timers!Runs, Punctual, Both
<1>13. t \notin Timers!Nodes(new)
  BY <1>5
<1>14. CASE o[t].stop_flag = "run"
  <2>1. Timers!Nodes(new) \cup {t} = {u \in DOMAIN o : o[u].stop_flag = "run" \/ more[u] = 0}
    BY <1>2, <1>3, <1>5, <1>6, <1>7, <1>14
  <2>2. z = Timers!clock_tree_add(Both(new, o), t)
    BY <1>4, <1>14
  <2>3. o[t].stop_flag = "stop" => more[t] <= 1
    BY <1>14
  <2>4. /\ Timers!Sound(z, born, more) /\ z = Both(z.tree, z.obj) /\ DOMAIN z.obj = DOMAIN o
    BY <2>3, <1>5, <1>6, <1>9, <1>10, <1>11, <1>12, <1>13, <2>1, <2>2, AddSound
  <2> QED
    BY <2>4
<1>15. CASE o[t].stop_flag = "stop"
  <2>1. z = Both(new, o)
    BY <1>4, <1>15
  <2>2. Timers!Nodes(new) = {u \in DOMAIN o : o[u].stop_flag = "run" \/ more[u] = 0}
    <3>1. more[t] # 0
      BY <1>2, <1>6, <1>7
    <3> QED
      BY <1>2, <1>3, <1>5, <1>6, <1>7, <1>15, <3>1
  <2>3. Timers!Sorted(Both(new, o), more)
    BY <1>5, <2>2 DEF Timers!Sorted, Timers!Runs, Both, Due
  <2>4. Timers!OnTime(Both(new, o), born, more, t)
    <3>1. more[t] # 0
      BY <1>2, <1>6, <1>7
    <3>2. Punctual(o[t].value, o[t].period, o[t].stop_flag, born[t], more[t])
      BY <1>9, <1>10, <1>15, <3>1 DEF Punctual
    <3> QED
      BY <3>2 DEF Timers!OnTime, Timers!Runs, Punctual, Both
  <2>5. \A u \in DOMAIN o : Timers!OnTime(Both(new, o), born, more, u)
    BY <1>12, <2>4
  <2>6. z.obj = o /\ z.tree = new
    BY <2>1 DEF Both
  <2> QED
    BY <1>11, <2>1, <2>3, <2>5, <2>6 DEF Timers!Sound, Timers!InTime
<1> QED
  BY <1>8, <1>14, <1>15

LEMMA InvariantIs ==
    Timers!IInv = ( /\ Clock /\ (serving /\ ~counts_first => now < TimerEnd)
                    /\ Timers!Sound(Both(clock_tree, obj), created, fired) )
BY DEF Timers!IInv, Clock, Timers!Current, Both

\* A step that leaves the clock alone, when what it leaves is sound.
LEMMA TimersBecome ==
    ASSUME Timers!IInv, UNCHANGED <<counts_first, now, serving>>,
           NEW x, NEW born, NEW runs, Timers!Sound(x, born, runs),
           clock_tree' = x.tree, obj' = x.obj, created' = born, fired' = runs
    PROVE  Timers!IInv'
<1>1. /\ Clock /\ (serving /\ ~counts_first => now < TimerEnd)
      /\ Timers!Typed(x, born, runs) /\ Timers!Sorted(x, runs) /\ Timers!InTime(x, born, runs)
  BY InvariantIs DEF Timers!Sound
<1>2. counts_first' \in BOOLEAN /\ serving' \in BOOLEAN /\ now' \in 0..TimerEnd
      /\ (serving' /\ ~counts_first' => now' < TimerEnd)
  BY <1>1 DEF Clock
<1>3. Timers!Typed(Timers!Current, created, fired)'
  BY <1>1 DEF Timers!Typed, Timers!Current
<1>4. Timers!Sorted(Timers!Current, fired)'
  BY <1>1 DEF Timers!Sorted, Timers!Runs, Timers!Current
<1>5. Timers!InTime(Timers!Current, created, fired)'
  BY <1>1 DEF Timers!InTime, Timers!OnTime, Timers!Runs, Timers!Current,
              Timers!Soonest, Timers!Latest
<1> QED
  BY <1>2, <1>3, <1>4, <1>5 DEF Timers!IInv, Timers!Sound

\* A step that moves the clock, when no timer is due before the new time.
LEMMA ClockMoves ==
    ASSUME Timers!IInv, UNCHANGED <<counts_first, clock_tree, obj, created, fired>>,
           counts_first' \in BOOLEAN, serving' \in BOOLEAN, now' \in 0..TimerEnd, now <= now',
           serving' /\ ~counts_first' => now' < TimerEnd,
           Timers!Latest <= Timers!Latest',
           \A t \in Timers!Nodes(clock_tree) : obj[t].value >= Timers!Soonest'
    PROVE  Timers!IInv'
<1>1. /\ Clock /\ Timers!Typed(Both(clock_tree, obj), created, fired)
      /\ Timers!Sorted(Both(clock_tree, obj), fired)
      /\ Timers!InTime(Both(clock_tree, obj), created, fired)
  BY InvariantIs DEF Timers!Sound
<1>2. /\ DOMAIN obj \subseteq TimerObjs /\ \A t \in DOMAIN obj : obj[t] \in Timers!Timer
      /\ clock_tree \in Seq(DOMAIN obj)
      /\ created \in [TimerObjs -> 0..now] /\ fired \in [TimerObjs -> Nat]
      /\ \A t \in TimerObjs \ DOMAIN obj : fired[t] = 0
  BY <1>1, TypedIs
<1>3. /\ Timers!NoTwice(clock_tree) /\ Timers!Ordered(clock_tree, Due(obj))
      /\ Timers!Nodes(clock_tree) =
           {t \in DOMAIN obj : obj[t].stop_flag = "run" \/ fired[t] = 0}
  BY <1>1, SortedIs
<1>4. Timers!Typed(Timers!Current, created, fired)'
  <2>1. created \in [TimerObjs -> 0..now']
    <3>1. \A n \in 0..now : n \in 0..now'
      BY <1>1 DEF Clock
    <3> QED
      BY <1>2, <3>1
  <2> QED
    BY <1>2, <2>1 DEF Timers!Typed, Timers!Current, Timers!Timer
<1>5. Timers!Sorted(Timers!Current, fired)'
  BY <1>3 DEF Timers!Sorted, Timers!Runs, Timers!Current, Due
<1>6. Timers!InTime(Timers!Current, created, fired)'
  <2>1. ASSUME NEW t \in DOMAIN obj
        PROVE  /\ Timers!Runs(Timers!Current, fired, t) =>
                    /\ obj[t].value = created[t] + obj[t].period * (fired[t] + 1)
                    /\ obj[t].value >= Timers!Soonest'
               /\ fired[t] > 0 => created[t] + obj[t].period * fired[t] <= Timers!Latest'
               /\ obj[t].stop_flag = "stop" => fired[t] <= 1
    <3>1. Punctual(obj[t].value, obj[t].period, obj[t].stop_flag, created[t], fired[t])
      <4>1. Timers!OnTime(Both(clock_tree, obj), created, fired, t)
        BY <1>1 DEF Timers!InTime, Both
      <4> QED
        BY <4>1, OnTimeIs
    <3>2. Timers!Runs(Timers!Current, fired, t) <=> obj[t].stop_flag = "run" \/ fired[t] = 0
      BY DEF Timers!Runs, Timers!Current
    <3>3. Timers!Runs(Timers!Current, fired, t) => obj[t].value >= Timers!Soonest'
      BY <1>3, <3>2
    <3>4. ASSUME fired[t] > 0
          PROVE  created[t] + obj[t].period * fired[t] <= Timers!Latest'
      <4>1. created[t] + obj[t].period * fired[t] <= Timers!Latest
        BY <3>1, <3>4 DEF Punctual
      <4>2. created[t] \in Int /\ obj[t].period \in Int /\ fired[t] \in Int
        <5>1. t \in TimerObjs /\ obj[t] \in Timers!Timer
          BY <1>2
        <5>2. created[t] \in 0..now /\ fired[t] \in Nat
          BY <1>2, <5>1
        <5>3. obj[t].period \in Periods
          BY <5>1 DEF Timers!Timer
        <5>4. now \in Nat
          BY <1>1, ClockBounds
        <5>5. created[t] \in Int
          BY <5>2, <5>4
        <5>6. obj[t].period \in Int
          <6>1. \A p \in Periods : p \in Int
            BY TimerConstants
          <6> QED
            BY <5>3, <6>1
        <5> QED
          BY <5>2, <5>5, <5>6
      <4>3. Timers!Latest \in Int /\ Timers!Latest' \in Int
        BY <1>1 DEF Clock, Timers!Latest
      <4> DEFINE a == created[t] + obj[t].period * fired[t]
      <4>4. a \in Int /\ a <= Timers!Latest
        BY <4>1, <4>2
      <4> HIDE DEF a
      <4>5. a <= Timers!Latest'
        BY <4>3, <4>4
      <4> QED
        BY <4>5 DEF a
    <3>5. obj[t].stop_flag = "stop" => fired[t] <= 1
      BY <3>1 DEF Punctual
    <3> QED
      BY <3>1, <3>2, <3>3, <3>4, <3>5 DEF Punctual
  <2> QED
    BY <2>1 DEF Timers!InTime, Timers!OnTime, Timers!Runs, Timers!Current
<1> QED
  BY <1>4, <1>5, <1>6 DEF Timers!IInv, Timers!Sound

\* While the tick is served nothing in the tree is overdue, and timer_tick goes on
\* exactly as long as the first timer is due now.
LEMMA HeadIsDue ==
    ASSUME Timers!NeverWraps, Timers!IInv, serving, clock_tree # <<>>,
           NEW t, t = Timers!first_node(clock_tree)
    PROVE  /\ t \in Timers!Nodes(clock_tree) /\ t \in DOMAIN obj
           /\ Timers!Expired <=> obj[t].value = now
           /\ ~Timers!Expired =>
                 \A u \in Timers!Nodes(clock_tree) : obj[u].value >= now + 1
<1>1. /\ Clock /\ Timers!Typed(Both(clock_tree, obj), created, fired)
      /\ Timers!Sorted(Both(clock_tree, obj), fired)
      /\ Timers!InTime(Both(clock_tree, obj), created, fired)
  BY InvariantIs DEF Timers!Sound
<1>2. /\ DOMAIN obj \subseteq TimerObjs /\ \A u \in DOMAIN obj : obj[u] \in Timers!Timer
      /\ clock_tree \in Seq(DOMAIN obj)
      /\ created \in [TimerObjs -> 0..now] /\ fired \in [TimerObjs -> Nat]
  BY <1>1, TypedIs
<1>3. /\ Timers!Ordered(clock_tree, Due(obj))
      /\ Timers!Nodes(clock_tree) =
           {u \in DOMAIN obj : obj[u].stop_flag = "run" \/ fired[u] = 0}
  BY <1>1, SortedIs
<1>4. \A u \in DOMAIN obj : obj[u].value \in Int
  BY <1>2, TimerConstants DEF Timers!Timer
<1>5. t \in Timers!Nodes(clock_tree) /\ t \in DOMAIN obj
  <2>1. t = first_node(clock_tree)
    BY DEF first_node, Timers!first_node
  <2>2. t \in Nodes(clock_tree) /\ t \in DOMAIN obj
    BY <1>2, <2>1, EndsAreNodes
  <2> QED
    BY <2>2 DEF Nodes, Timers!Nodes
<1>6. \A u \in Timers!Nodes(clock_tree) : obj[t].value <= obj[u].value
  <2>1. Due(obj) \in [DOMAIN obj -> Int]
    BY <1>4 DEF Due
  <2>2. Ordered(clock_tree, Due(obj)) /\ t = first_node(clock_tree)
    BY <1>3 DEF Ordered, Timers!Ordered, first_node, Timers!first_node
  <2>3. \A u \in Nodes(clock_tree) : Due(obj)[t] <= Due(obj)[u]
    BY <1>2, <2>1, <2>2, FirstIsLeast
  <2> QED
    BY <1>3, <1>5, <2>3 DEF Nodes, Timers!Nodes, Due
<1>7. PICK p \in Periods : obj[t].value \in now..(now + p)
  <2>1. /\ obj[t].period \in Periods /\ obj[t].period \in Nat
        /\ fired[t] \in Nat /\ created[t] \in 0..now
    BY <1>2, <1>5, TimerConstants DEF Timers!Timer
  <2>2. Punctual(obj[t].value, obj[t].period, obj[t].stop_flag, created[t], fired[t])
    <3>1. Timers!OnTime(Both(clock_tree, obj), created, fired, t)
      BY <1>1, <1>5 DEF Timers!InTime, Both
    <3> QED
      BY <3>1, OnTimeIs
  <2> DEFINE q == obj[t].period
             c == fired[t]
             b == created[t]
             v == obj[t].value
  <2>3. /\ v = b + q * (c + 1) /\ v >= now /\ (c > 0 => b + q * c <= now)
    BY <1>1, <1>3, <1>5, <2>2, ClockBounds DEF Punctual
  <2>4. v \in Int /\ now \in Nat
    BY <1>1, <1>4, <1>5, ClockBounds
  <2> HIDE DEF q, c, b, v
  <2>5. q \in Nat /\ c \in Nat /\ b \in 0..now
    BY <2>1 DEF q, c, b
  <2>6. q * (c + 1) = q * c + q
    BY <2>5
  <2>7. b + q * c <= now
    <3>1. CASE c = 0
      BY <2>4, <2>5, <3>1
    <3>2. CASE c > 0
      BY <2>3, <3>2
    <3> QED
      BY <2>5, <3>1, <3>2
  <2>8. v \in now..(now + q)
    BY <2>3, <2>4, <2>5, <2>6, <2>7
  <2> QED
    BY <2>1, <2>8 DEF v, q
<1>8. Timers!Expired <=> obj[t].value = now
  <2> DEFINE d == obj[t].value - now
  <2>1. d \in 0..p /\ p \in Nat /\ 2 * (TimerEnd + p) < TimerMod /\ now \in Nat
    BY <1>1, <1>4, <1>5, <1>7, ClockBounds, TimerConstants DEF Timers!NeverWraps
  <2> HIDE DEF d
  <2>2. d \in 0..(TimerMod - 1) /\ 2 * d < TimerMod
    BY <2>1, TimerConstants
  <2>3. d % TimerMod = d
    BY <2>2, SmallMod, TimerConstants
  <2>4. Timers!compare_before_eq(obj[t].value, now) <=> d = 0
    <3>1. Timers!compare_before_eq(obj[t].value, now) <=>
             d % TimerMod = 0 \/ 2 * (d % TimerMod) >= TimerMod
      BY DEF Timers!compare_before_eq, d
    <3>2. d \in Nat /\ ~(2 * d >= TimerMod)
      BY <2>1, <2>2, TimerConstants
    <3> QED
      BY <2>3, <3>1, <3>2
  <2>5. d = 0 <=> obj[t].value = now
    BY <1>4, <1>5, <2>1 DEF d
  <2> QED
    BY <2>4, <2>5 DEF Timers!Expired
<1>9. ASSUME ~Timers!Expired, NEW u \in Timers!Nodes(clock_tree)
      PROVE  obj[u].value >= now + 1
  <2>1. obj[u].value \in Int /\ obj[t].value \in Int /\ now \in Int
    BY <1>1, <1>3, <1>4, <1>5, ClockBounds
  <2>2. obj[t].value <= obj[u].value /\ obj[t].value >= now /\ obj[t].value # now
    BY <1>6, <1>7, <1>8, <1>9
  <2> QED
    BY <2>1, <2>2
<1> QED
  BY <1>5, <1>8, <1>9

\* A callback that leaves the timers alone.
LEMMA RestSound ==
    ASSUME Clock, NEW tree, NEW o, NEW born, NEW runs, Timers!Sound(Both(tree, o), born, runs),
           NEW y, y = Both(tree, o)
    PROVE  Timers!Sound(y, Born(o, y, born), Timers!Kept(y, runs))
<1> DEFINE b == Born(o, y, born)
           r == Timers!Kept(y, runs)
<1>1. /\ Timers!Typed(Both(tree, o), born, runs) /\ Timers!Sorted(Both(tree, o), runs)
      /\ \A u \in DOMAIN o : Timers!OnTime(Both(tree, o), born, runs, u)
  BY DEF Timers!Sound, Timers!InTime, Both
<1>2. /\ DOMAIN o \subseteq TimerObjs /\ \A u \in DOMAIN o : o[u] \in Timers!Timer
      /\ tree \in Seq(DOMAIN o)
      /\ born \in [TimerObjs -> 0..now] /\ runs \in [TimerObjs -> Nat]
      /\ \A u \in TimerObjs \ DOMAIN o : runs[u] = 0
  BY <1>1, TypedIs
<1>3. y.obj = o /\ y.tree = tree
  BY DEF Both
<1>4. r = runs
  <2>1. \A u \in TimerObjs : r[u] = runs[u]
    BY <1>2, <1>3 DEF Timers!Kept
  <2>2. r = [u \in TimerObjs |-> r[u]] /\ runs = [u \in TimerObjs |-> runs[u]]
    BY <1>2 DEF Timers!Kept
  <2> QED
    BY <2>1, <2>2
<1>5. b \in [TimerObjs -> 0..now] /\ \A u \in DOMAIN o : b[u] = born[u]
  <2>1. \A u \in TimerObjs : IF u \notin DOMAIN o THEN b[u] = 0 ELSE b[u] = born[u]
    BY <1>3 DEF Born
  <2>2. 0 \in 0..now
    BY ClockBounds
  <2>3. \A u \in TimerObjs : b[u] \in 0..now
    BY <1>2, <2>1, <2>2
  <2>4. b = [u \in TimerObjs |-> b[u]]
    BY DEF Born
  <2> QED
    BY <1>2, <2>1, <2>3, <2>4
<1> HIDE DEF b, r
<1>6. Timers!Typed(Both(tree, o), b, runs)
  BY <1>2, <1>5 DEF Timers!Typed, Both
<1>7. ASSUME NEW u \in DOMAIN o PROVE Timers!OnTime(Both(tree, o), b, runs, u)
  BY <1>1, <1>5 DEF Timers!OnTime
<1> QED
  BY <1>1, <1>3, <1>4, <1>6, <1>7 DEF Timers!Sound, Timers!InTime, b, r

LEMMA TimersInit == Timers!Init => Timers!IInv
<1> SUFFICES ASSUME Timers!Init
             PROVE  Timers!IInv
  OBVIOUS
<1>1. /\ counts_first \in BOOLEAN /\ serving = FALSE /\ now = 0 /\ now \in 0..TimerEnd
      /\ clock_tree = <<>> /\ obj = <<>> /\ DOMAIN obj = {}
      /\ created = [t \in TimerObjs |-> 0] /\ fired = [t \in TimerObjs |-> 0]
  BY TimerConstants DEF Timers!Init
<1>2. Clock
  BY <1>1 DEF Clock
<1>3. Timers!Typed(Both(clock_tree, obj), created, fired)
  BY <1>1 DEF Timers!Typed, Both
<1>4. Timers!Sorted(Both(clock_tree, obj), fired)
  BY <1>1 DEF Timers!Sorted, Timers!NoTwice, Timers!Ordered, Timers!Nodes, Both
<1>5. Timers!InTime(Both(clock_tree, obj), created, fired)
  BY <1>1 DEF Timers!InTime, Both
<1> QED
  BY <1>1, <1>2, <1>3, <1>4, <1>5, InvariantIs DEF Timers!Sound

LEMMA TaskCallStep ==
    ASSUME Timers!NeverWraps, Timers!IInv, Timers!task_call
    PROVE  Timers!IInv'
<1>1. Clock /\ Timers!Sound(Both(clock_tree, obj), created, fired)
  BY InvariantIs
<1>2. PICK x \in Timers!OneCall(Both(clock_tree, obj), "none") :
         Timers!Becomes(x) /\ fired' = Timers!Kept(x, fired)
  BY DEF Timers!task_call, Timers!Current, Both
<1>3. Timers!Sound(x, Born(obj, x, created), Timers!Kept(x, fired))
  BY <1>1, CallSound
<1>4. /\ clock_tree' = x.tree /\ obj' = x.obj /\ created' = Born(obj, x, created)
      /\ UNCHANGED <<counts_first, now, serving>>
  BY <1>2 DEF Timers!Becomes, Born, Timers!task_call
<1> QED
  BY <1>2, <1>3, <1>4, TimersBecome

LEMMA TimerTickStep ==
    ASSUME Timers!NeverWraps, Timers!IInv, Timers!timer_tick
    PROVE  Timers!IInv'
<1> DEFINE t == Timers!first_node(clock_tree)
<1>1. Clock /\ Timers!Sound(Both(clock_tree, obj), created, fired)
  BY InvariantIs
<1>2. /\ serving /\ clock_tree # <<>> /\ Timers!Expired
      /\ UNCHANGED <<counts_first, now, serving>>
  BY DEF Timers!timer_tick, Timers!Expired
<1>3. PICK x \in {Both(clock_tree, obj)} \cup Timers!OneCall(Both(clock_tree, obj), t) :
         LET y == Timers!clock_tree_remove(x, t)
             z == IF y.obj[t].stop_flag = "run" THEN Timers!clock_tree_add(y, t) ELSE y
         IN  /\ Timers!Becomes(z)
             /\ fired' = Timers!Kept(z, [fired EXCEPT ![t] = @ + 1])
  BY DEF Timers!timer_tick, Timers!Current, Both
<1> HIDE DEF t
<1>4. t \in Timers!Nodes(clock_tree) /\ t \in DOMAIN obj /\ obj[t].value = now
  BY <1>2, HeadIsDue DEF t
<1>5. /\ Timers!Sound(x, Born(obj, x, created), Timers!Kept(x, fired))
      /\ x = Both(x.tree, x.obj)
      /\ t \in Timers!Nodes(x.tree) /\ t \in DOMAIN x.obj /\ x.obj[t] = obj[t]
  <2>1. CASE x = Both(clock_tree, obj)
    <3>1. x.tree = clock_tree /\ x.obj = obj
      BY <2>1 DEF Both
    <3> QED
      BY <1>1, <1>4, <2>1, <3>1, RestSound
  <2>2. CASE x \in Timers!OneCall(Both(clock_tree, obj), t)
    BY <1>1, <1>4, <2>2, CallSound
  <2> QED
    BY <2>1, <2>2
<1> DEFINE y == Timers!clock_tree_remove(x, t)
           z == IF y.obj[t].stop_flag = "run" THEN Timers!clock_tree_add(y, t) ELSE y
           runs == Timers!Kept(x, fired)
           more == [runs EXCEPT ![t] = @ + 1]
<1>6. Timers!Becomes(z) /\ fired' = Timers!Kept(z, [fired EXCEPT ![t] = @ + 1])
  BY <1>3
<1>7. /\ y.obj[t].stop_flag = "run" => z = Timers!clock_tree_add(y, t)
      /\ y.obj[t].stop_flag = "stop" => z = y
  OBVIOUS
<1>8. y = Timers!clock_tree_remove(Both(x.tree, x.obj), t)
  BY <1>5
<1> HIDE DEF z, y
<1>9. Timers!Typed(Both(x.tree, x.obj), Born(obj, x, created), runs)
  BY <1>5 DEF Timers!Sound
<1>10. DOMAIN x.obj \subseteq TimerObjs /\ runs \in [TimerObjs -> Nat]
  <2> HIDE DEF runs
  <2> QED
    BY <1>9, TypedIs
<1>11. /\ more \in [TimerObjs -> Nat] /\ more[t] = runs[t] + 1
       /\ \A u \in TimerObjs : u # t => more[u] = runs[u]
  <2> HIDE DEF runs
  <2> QED
    BY <1>5, <1>10
<1>12. /\ Timers!Sound(z, Born(obj, x, created), more)
       /\ z = Both(z.tree, z.obj) /\ DOMAIN z.obj = DOMAIN x.obj
  <2>1. /\ Timers!Sound(Both(x.tree, x.obj), Born(obj, x, created), runs)
        /\ x.obj[t].value = now
    BY <1>4, <1>5
  <2> HIDE DEF more, runs
  <2> QED
    BY <1>1, <1>2, <1>5, <1>7, <1>8, <1>11, <2>1, ServeSound
<1>13. fired' = more
  <2>1. fired \in [TimerObjs -> Nat]
    <3>1. Timers!Typed(Both(clock_tree, obj), created, fired)
      BY <1>1 DEF Timers!Sound
    <3> QED
      BY <3>1, TypedIs
  <2>2. t \in TimerObjs /\ t \in DOMAIN x.obj
    BY <1>5, <1>10
  <2>3. \A u \in TimerObjs : fired'[u] = more[u]
    BY <1>6, <1>11, <1>12, <2>1, <2>2 DEF Timers!Kept
  <2>4. fired' = [u \in TimerObjs |-> fired'[u]] /\ more = [u \in TimerObjs |-> more[u]]
    <3>1. fired' = [u \in TimerObjs |-> fired'[u]]
      BY <1>6 DEF Timers!Kept
    <3> HIDE DEF more
    <3> QED
      BY <1>11, <3>1
  <2> QED
    BY <2>3, <2>4
<1>14. /\ clock_tree' = z.tree /\ obj' = z.obj /\ created' = Born(obj, x, created)
  BY <1>6, <1>12 DEF Timers!Becomes, Born
<1> QED
  BY <1>2, <1>12, <1>13, <1>14, TimersBecome

LEMMA ClockTicks ==
    ASSUME Timers!IInv, Timers!SysTick
    PROVE  Timers!IInv'
<1>1. /\ Clock /\ Timers!Sorted(Both(clock_tree, obj), fired)
      /\ Timers!InTime(Both(clock_tree, obj), created, fired)
  BY InvariantIs DEF Timers!Sound
<1>2. /\ serving = FALSE /\ serving' = TRUE /\ counts_first' = counts_first
      /\ now \in Nat /\ now < TimerEnd
      /\ now' = IF counts_first THEN (now + 1) % TimerMod ELSE now
      /\ UNCHANGED <<clock_tree, obj, created, fired>>
  BY <1>1, ClockBounds DEF Timers!SysTick, Clock
<1>3. (now + 1) % TimerMod = now + 1
  <2>1. now + 1 \in 0..(TimerMod - 1)
    BY <1>2, TimerConstants
  <2> QED
    BY <2>1, SmallMod, TimerConstants
<1>4. /\ now' \in 0..TimerEnd /\ now <= now' /\ counts_first' \in BOOLEAN
      /\ serving' /\ ~counts_first' => now' < TimerEnd
  BY <1>1, <1>2, <1>3, TimerConstants DEF Clock
<1>5. Timers!Latest <= Timers!Latest' /\ Timers!Soonest' = Timers!Soonest
  BY <1>1, <1>2, <1>3 DEF Timers!Latest, Timers!Soonest, Clock
<1>6. ASSUME NEW t \in Timers!Nodes(clock_tree) PROVE obj[t].value >= Timers!Soonest
  <2>1. t \in DOMAIN obj /\ (obj[t].stop_flag = "run" \/ fired[t] = 0)
    BY <1>1, SortedIs
  <2>2. Timers!OnTime(Both(clock_tree, obj), created, fired, t)
    BY <1>1, <2>1 DEF Timers!InTime, Both
  <2> QED
    BY <2>1, <2>2, OnTimeIs DEF Punctual
<1> QED
  BY <1>2, <1>4, <1>5, <1>6, ClockMoves

LEMMA TickOverStep ==
    ASSUME Timers!NeverWraps, Timers!IInv, Timers!tick_over
    PROVE  Timers!IInv'
<1>1. /\ Clock /\ (serving /\ ~counts_first => now < TimerEnd)
      /\ Timers!Sorted(Both(clock_tree, obj), fired)
  BY InvariantIs DEF Timers!Sound
<1>2. /\ serving = TRUE /\ ~Timers!Expired /\ serving' = FALSE
      /\ counts_first' = counts_first /\ now \in Nat
      /\ now' = IF counts_first THEN now ELSE (now + 1) % TimerMod
      /\ UNCHANGED <<clock_tree, obj, created, fired>>
  BY <1>1, ClockBounds DEF Timers!tick_over, Clock
<1>3. ~counts_first => (now + 1) % TimerMod = now + 1
  <2>1. ~counts_first => now + 1 \in 0..(TimerMod - 1)
    BY <1>1, <1>2, TimerConstants
  <2> QED
    BY <2>1, SmallMod, TimerConstants
<1>4. /\ now' \in 0..TimerEnd /\ now <= now' /\ counts_first' \in BOOLEAN /\ serving' \in BOOLEAN
      /\ serving' /\ ~counts_first' => now' < TimerEnd
  <2>1. now \in 0..TimerEnd /\ counts_first \in BOOLEAN /\ TimerEnd \in Nat
    BY <1>1, TimerConstants DEF Clock
  <2>2. now' = IF counts_first THEN now ELSE now + 1
    BY <1>2, <1>3
  <2>3. now' \in 0..TimerEnd /\ now <= now'
    BY <1>1, <1>2, <2>1, <2>2
  <2> QED
    BY <1>2, <2>1, <2>3
<1>5. Timers!Latest <= Timers!Latest' /\ Timers!Soonest' = now + 1
  BY <1>1, <1>2, <1>3 DEF Timers!Latest, Timers!Soonest, Clock
<1>6. ASSUME NEW t \in Timers!Nodes(clock_tree) PROVE obj[t].value >= now + 1
  <2>1. clock_tree # <<>>
    BY DEF Timers!Nodes
  <2> QED
    BY <1>2, <2>1, HeadIsDue
<1> QED
  BY <1>2, <1>4, <1>5, <1>6, ClockMoves

\* Every timer keeps its time, on both kinds of port and whatever its callbacks
\* create and delete, as long as no deadline reaches half the range of the tick
\* counter ahead.
THEOREM TimersInvariant ==
    ASSUME Timers!NeverWraps
    PROVE  Timers!Spec => []Timers!IInv
<1>1. ASSUME Timers!IInv, [Timers!Next]_(Timers!vars)
      PROVE  Timers!IInv'
  <2>1. CASE Timers!task_call
    BY <1>1, <2>1, TaskCallStep
  <2>2. CASE Timers!SysTick
    BY <1>1, <2>2, ClockTicks
  <2>3. CASE Timers!timer_tick
    BY <1>1, <2>3, TimerTickStep
  <2>4. CASE Timers!tick_over
    BY <1>1, <2>4, TickOverStep
  <2>5. CASE UNCHANGED Timers!vars
    <3>1. /\ UNCHANGED <<counts_first, now, serving>>
          /\ UNCHANGED <<clock_tree, obj, created, fired>>
      BY <2>5 DEF Timers!vars
    <3>2. Both(clock_tree, obj).tree = clock_tree /\ Both(clock_tree, obj).obj = obj
      BY DEF Both
    <3>3. Timers!Sound(Both(clock_tree, obj), created, fired)
      BY <1>1, InvariantIs
    <3> QED
      BY <1>1, <3>1, <3>2, <3>3, TimersBecome
  <2> QED
    BY <1>1, <2>1, <2>2, <2>3, <2>4, <2>5 DEF Timers!Next
<1> QED
  BY <1>1, TimersInit, PTL DEF Timers!Spec

LEMMA Quotient ==
    ASSUME NEW p \in Nat, p > 0, NEW a \in Nat
    PROVE  a \div p \in Int /\ a % p \in 0..(p - 1) /\ a = p * (a \div p) + (a % p)
OBVIOUS

\* The quotient is the number of whole periods.
LEMMA WholePeriods ==
    ASSUME NEW p \in Nat, p > 0, NEW a \in Nat, NEW c \in Nat, p * c <= a, a < p * (c + 1)
    PROVE  a \div p = c
<1> DEFINE q == a \div p
           r == a % p
<1>1. q \in Int /\ r \in 0..(p - 1) /\ a = p * q + r
  BY Quotient
<1> HIDE DEF q, r
<1> DEFINE s == a - p * c
<1>2. s \in 0..(p - 1) /\ p * c + s = p * q + r
  BY <1>1
<1> HIDE DEF s
<1>3. r = s
  BY <1>1, <1>2, DivisionUnique
<1>4. p * (c - q) = 0
  BY <1>1, <1>2, <1>3
<1>5. c - q >= 1 => p * (c - q) >= p
  BY <1>1
<1>6. c - q <= -1 => p * (q - c) >= p
  BY <1>1
<1>7. p * (q - c) = 0
  BY <1>1, <1>4
<1>8. c = q
  BY <1>1, <1>4, <1>5, <1>6, <1>7
<1> QED
  BY <1>8 DEF q

\* A timer that has kept its time has fired once per period of its age.
LEMMA PeriodsPassed ==
    ASSUME NEW p \in Nat, p > 0, NEW f \in {"run", "stop"}, NEW b \in Nat, NEW c \in Nat,
           NEW v, NEW age, Clock, ~serving, Punctual(v, p, f, b, c),
           age = IF Timers!Latest - b < 0 THEN 0 ELSE Timers!Latest - b
    PROVE  c = IF f = "run" \/ age \div p = 0 THEN age \div p ELSE 1
<1>1. Timers!Latest \in Int /\ Timers!Soonest = Timers!Latest + 1
  BY DEF Clock, Timers!Latest, Timers!Soonest
<1> DEFINE l == Timers!Latest
           m == p * c
<1>2. age = IF l - b < 0 THEN 0 ELSE l - b
  OBVIOUS
<1>3. /\ f = "run" \/ c = 0 => v = b + p * (c + 1) /\ v >= l + 1
      /\ c > 0 => b + p * c <= l
      /\ f = "stop" => c <= 1
  BY <1>1 DEF Punctual
<1>4. m \in Nat /\ p * (c + 1) = m + p /\ (c > 0 => m >= p) /\ (c = 0 => m = 0)
  <2>1. m \in Nat /\ p * (c + 1) = m + p
    OBVIOUS
  <2>2. c > 0 => m >= p
    <3>1. p * c = p * (c - 1) + p
      OBVIOUS
    <3>2. c > 0 => c - 1 \in Nat
      OBVIOUS
    <3>3. c > 0 => p * (c - 1) \in Nat
      BY <3>2
    <3> QED
      BY <3>1, <3>3
  <2>3. c = 0 => m = 0
    OBVIOUS
  <2> QED
    BY <2>1, <2>2, <2>3
<1>5. l \in Int
  BY <1>1
<1> HIDE DEF l
<1>6. age \in Nat
  BY <1>2, <1>5
<1>7. c > 0 => age >= m
  <2>1. c > 0 => b + m <= l
    BY <1>3
  <2> HIDE DEF m
  <2> QED
    BY <1>2, <1>4, <1>5, <2>1
<1>8. f = "run" \/ c = 0 => m <= age /\ age < m + p
  <2>1. f = "run" \/ c = 0 => b + (m + p) >= l + 1
    BY <1>3, <1>4
  <2> HIDE DEF m
  <2>2. f = "run" \/ c = 0 => age < m + p
    BY <1>2, <1>4, <1>5, <2>1
  <2>3. m <= age
    BY <1>4, <1>6, <1>7
  <2> QED
    BY <2>2, <2>3
<1>9. CASE f = "run" \/ c = 0
  <2>1. p * c <= age /\ age < p * (c + 1)
    BY <1>4, <1>8, <1>9
  <2>2. age \div p = c
    BY <1>6, <2>1, WholePeriods
  <2> QED
    BY <1>9, <2>2
<1>10. CASE f # "run" /\ c # 0
  <2>1. f = "stop" /\ c = 1
    BY <1>3, <1>10
  <2>2. age >= p
    BY <1>4, <1>6, <1>7, <2>1
  <2>3. age \div p # 0
    <3> DEFINE q == age \div p
               r == age % p
    <3>1. q \in Int /\ r \in 0..(p - 1) /\ age = p * q + r
      BY <1>6, Quotient
    <3> HIDE DEF q, r
    <3>2. q = 0 => p * q = 0
      OBVIOUS
    <3>3. q # 0
      BY <1>6, <2>2, <3>1, <3>2
    <3> QED
      BY <3>3 DEF q
  <2> QED
    BY <2>1, <2>3
<1> QED
  BY <1>9, <1>10

LEMMA NoneIsLost == Timers!IInv => Timers!FiresEveryPeriod
<1> SUFFICES ASSUME Timers!IInv, ~serving
             PROVE  /\ \A t \in DOMAIN obj :
                         fired[t] = IF obj[t].stop_flag = "run" \/ Timers!Age(t) \div obj[t].period = 0
                                    THEN Timers!Age(t) \div obj[t].period ELSE 1
                    /\ Timers!Nodes(clock_tree) =
                         {t \in DOMAIN obj : obj[t].stop_flag = "run" \/ fired[t] = 0}
  BY DEF Timers!FiresEveryPeriod
<1>1. /\ Clock /\ Timers!Typed(Both(clock_tree, obj), created, fired)
      /\ Timers!Sorted(Both(clock_tree, obj), fired)
      /\ Timers!InTime(Both(clock_tree, obj), created, fired)
  BY InvariantIs DEF Timers!Sound
<1>2. /\ DOMAIN obj \subseteq TimerObjs /\ \A t \in DOMAIN obj : obj[t] \in Timers!Timer
      /\ created \in [TimerObjs -> 0..now] /\ fired \in [TimerObjs -> Nat]
  BY <1>1, TypedIs
<1>3. ASSUME NEW t \in DOMAIN obj
      PROVE  fired[t] = IF obj[t].stop_flag = "run" \/ Timers!Age(t) \div obj[t].period = 0
                        THEN Timers!Age(t) \div obj[t].period ELSE 1
  <2> DEFINE p == obj[t].period
             f == obj[t].stop_flag
             b == created[t]
             c == fired[t]
             v == obj[t].value
             age == Timers!Age(t)
  <2>1. Punctual(v, p, f, b, c)
    <3>1. Timers!OnTime(Both(clock_tree, obj), created, fired, t)
      BY <1>1 DEF Timers!InTime, Both
    <3> QED
      BY <3>1, OnTimeIs
  <2>2. p \in Nat /\ p > 0 /\ f \in {"run", "stop"} /\ b \in Nat /\ c \in Nat
    <3>1. t \in TimerObjs /\ obj[t] \in Timers!Timer /\ now \in Nat
      BY <1>1, <1>2, ClockBounds
    <3>2. p \in Periods /\ f \in {"run", "stop"}
      BY <3>1 DEF Timers!Timer
    <3>3. b \in 0..now /\ c \in Nat
      BY <1>2, <3>1
    <3> HIDE DEF p, f, b, c
    <3>4. b \in Nat
      BY <3>1, <3>3
    <3> QED
      BY <3>2, <3>3, <3>4, TimerConstants
  <2>3. age = IF Timers!Latest - b < 0 THEN 0 ELSE Timers!Latest - b
    BY <1>1, <2>2 DEF Timers!Age, Timers!Latest, Clock
  <2> HIDE DEF p, f, b, c, v, age
  <2>4. c = IF f = "run" \/ age \div p = 0 THEN age \div p ELSE 1
    BY <1>1, <2>1, <2>2, <2>3, PeriodsPassed
  <2> QED
    BY <2>4 DEF p, f, c, age
<1> QED
  BY <1>1, <1>3, SortedIs

\* Every timer fires once per period: no firing is lost, doubled or late, however
\* many timers fall due in one tick and whatever the callbacks create and delete
\* there.
THEOREM TimersFireOnTime ==
    ASSUME Timers!NeverWraps
    PROVE  Timers!Spec => []FiresEveryPeriod
<1>1. Timers!IInv => FiresEveryPeriod
  BY NoneIsLost DEF FiresEveryPeriod
<1> QED
  BY <1>1, TimersInvariant, PTL
-----------------------------------------------------------------------------
(***************************************************************************)
(* The heap.  What heap_malloc and heap_free do to the list is taken apart *)
(* into removing, cutting, placing and merging blocks, each with what it   *)
(* does to the order of the blocks and to the words that are free.         *)
(***************************************************************************)
\* Two sequences, one behind the other.
LEMMA Joined ==
    ASSUME NEW S, NEW l \in Seq(S), NEW r \in Seq(S)
    PROVE  /\ l \o r \in Seq(S) /\ Len(l \o r) = Len(l) + Len(r)
           /\ \A p \in 1..Len(l) : (l \o r)[p] = l[p]
           /\ \A p \in 1..Len(r) : (l \o r)[Len(l) + p] = r[p]
OBVIOUS

\* Taking one element out of a sequence.
LEMMA Removed ==
    ASSUME NEW S, NEW l \in Seq(S), NEW i \in 1..Len(l), NEW r, r = Heap!RemoveAt(l, i)
    PROVE  /\ r \in Seq(S) /\ Len(r) = Len(l) - 1
           /\ \A p \in 1..Len(r) : r[p] = IF p < i THEN l[p] ELSE l[p + 1]
<1> DEFINE b == SubSeq(l, 1, i - 1)
           c == SubSeq(l, i + 1, Len(l))
<1>1. Len(l) \in Nat /\ i \in Nat /\ i >= 1 /\ i <= Len(l) /\ \A p \in 1..Len(l) : l[p] \in S
  OBVIOUS
<1>2. b \in Seq(S) /\ Len(b) = i - 1 /\ \A p \in 1..(i - 1) : b[p] = l[p]
  BY <1>1
<1>3. c \in Seq(S) /\ Len(c) = Len(l) - i /\ \A p \in 1..(Len(l) - i) : c[p] = l[i + p]
  BY <1>1
<1>4. r = b \o c
  BY DEF Heap!RemoveAt
<1> HIDE DEF b, c
<1>5. r \in Seq(S) /\ Len(r) = Len(l) - 1
  <2>1. r \in Seq(S) /\ Len(r) = Len(b) + Len(c)
    <3> b \in Seq(S) /\ c \in Seq(S)
      BY <1>2, <1>3
    <3> QED
      BY <1>4, Joined
  <2>2. (i - 1) + (Len(l) - i) = Len(l) - 1
    BY <1>1
  <2> QED
    BY <1>2, <1>3, <2>1, <2>2
<1>6. /\ \A p \in 1..(i - 1) : r[p] = b[p]
      /\ \A p \in 1..(Len(l) - i) : r[i - 1 + p] = c[p]
  <2> b \in Seq(S) /\ c \in Seq(S) /\ Len(b) = i - 1 /\ Len(c) = Len(l) - i
    BY <1>2, <1>3
  <2> QED
    BY <1>4, Joined
<1>7. ASSUME NEW p \in 1..Len(r)
      PROVE  r[p] = IF p < i THEN l[p] ELSE l[p + 1]
  <2>1. p \in Nat /\ p >= 1 /\ p <= Len(l) - 1
    BY <1>1, <1>5
  <2>2. CASE p < i
    <3>1. p \in 1..(i - 1)
      BY <1>1, <2>1, <2>2
    <3>2. r[p] = b[p] /\ b[p] = l[p]
      BY <1>2, <1>6, <3>1
    <3> QED
      BY <2>2, <3>2
  <2>3. CASE ~(p < i)
    <3> DEFINE q == p - (i - 1)
    <3>1. q \in 1..(Len(l) - i) /\ i - 1 + q = p /\ i + q = p + 1
      BY <1>1, <2>1, <2>3
    <3> HIDE DEF q
    <3>2. r[p] = c[q] /\ c[q] = l[p + 1]
      <4>1. r[i - 1 + q] = c[q] /\ c[q] = l[i + q]
        BY <1>3, <1>6, <3>1
      <4> QED
        BY <3>1, <4>1
    <3> QED
      BY <2>3, <3>2
  <2> QED
    BY <2>2, <2>3
<1> QED
  BY <1>5, <1>7

\* A sequence with one element more.
WithAt(l, i, e, p) == IF p < i THEN l[p] ELSE IF p = i THEN e ELSE l[p - 1]

\* Putting one in.
LEMMA Inserted ==
    ASSUME NEW S, NEW l \in Seq(S), NEW i \in 1..(Len(l) + 1), NEW e \in S,
           NEW r, r = Heap!InsertAt(l, i, e)
    PROVE  /\ r \in Seq(S) /\ Len(r) = Len(l) + 1
           /\ \A p \in 1..Len(r) : r[p] = WithAt(l, i, e, p)
<1> DEFINE b == SubSeq(l, 1, i - 1)
           c == SubSeq(l, i, Len(l))
<1>1. Len(l) \in Nat /\ i \in Nat /\ i >= 1 /\ i <= Len(l) + 1 /\ \A p \in 1..Len(l) : l[p] \in S
  OBVIOUS
<1>2. b \in Seq(S) /\ Len(b) = i - 1 /\ \A p \in 1..(i - 1) : b[p] = l[p]
  BY <1>1
<1>3. c \in Seq(S) /\ Len(c) = Len(l) - i + 1 /\ \A p \in 1..(Len(l) - i + 1) : c[p] = l[i + p - 1]
  BY <1>1
<1>4. r = (b \o <<e>>) \o c
  BY DEF Heap!InsertAt
<1> HIDE DEF b, c
<1> DEFINE d == b \o <<e>>
<1>5. d \in Seq(S) /\ Len(d) = i /\ d[i] = e /\ \A p \in 1..(i - 1) : d[p] = l[p]
  <2>1. d \in Seq(S) /\ Len(d) = i
    BY <1>1, <1>2
  <2>2. \A p \in 1..(i - 1) : d[p] = b[p]
    BY <1>1, <1>2
  <2>3. d[i] = e
    BY <1>1, <1>2
  <2> QED
    BY <1>2, <2>1, <2>2, <2>3
<1>6. r = d \o c
  BY <1>4
<1> HIDE DEF d
<1>7. r \in Seq(S) /\ Len(r) = Len(l) + 1
  BY <1>1, <1>3, <1>5, <1>6
<1>8. ASSUME NEW p \in 1..Len(r)
      PROVE  r[p] = IF p < i THEN l[p] ELSE IF p = i THEN e ELSE l[p - 1]
  <2>1. CASE p <= i
    <3>1. r[p] = d[p]
      BY <1>1, <1>3, <1>5, <1>6, <1>7, <2>1
    <3> QED
      BY <1>1, <1>5, <1>7, <2>1, <3>1
  <2>2. CASE ~(p <= i)
    <3>1. p - i \in 1..Len(c) /\ r[p] = c[p - i]
      BY <1>1, <1>3, <1>5, <1>6, <1>7, <2>2
    <3>2. i + (p - i) - 1 = p - 1 /\ ~(p < i) /\ p # i
      BY <1>1, <1>7, <2>2
    <3> QED
      BY <1>3, <3>1, <3>2
  <2> QED
    BY <1>1, <1>7, <2>1, <2>2
<1> QED
  BY <1>7, <1>8 DEF WithAt

\* The first element that passes a test, or none does.
LEMMA Selected ==
    ASSUME NEW n \in Nat, NEW T, T = {i \in 1..n : i \in T}, NEW f,
           f = IF T # {} THEN Heap!Min(T) ELSE 0
    PROVE  /\ f = 0 => T = {}
           /\ f # 0 => f \in T /\ \A j \in T : f <= j
<1>1. T \subseteq 1..n /\ T \subseteq Nat
  OBVIOUS
<1>2. CASE T # {}
  <2>1. \E x \in T : \A y \in T : x <= y
    BY <1>1, <1>2, LeastElement
  <2>2. f = CHOOSE x \in T : \A y \in T : x <= y
    BY <1>2 DEF Heap!Min
  <2>3. f \in T /\ \A y \in T : f <= y
    BY <2>1, <2>2
  <2>4. f # 0
    BY <1>1, <2>3
  <2> QED
    BY <2>3, <2>4
<1> QED
  BY <1>2

\* The blocks come in order of address, and only those at the places of S
\* may touch the next.
Loose(l, S) ==
    \A p, q \in DOMAIN l : p < q =>
        /\ Heap!Ends(l[p]) <= l[q].at
        /\ ~(p \in S /\ q = p + 1) => Heap!Ends(l[p]) < l[q].at

Merge(l, g) == Heap!RemoveAt([l EXCEPT ![g].size = @ + l[g + 1].size], g + 1)

\* A block is an address and a size of at least one word.
LEMMA BlockType ==
    ASSUME NEW l \in Seq(Heap!Block)
    PROVE  /\ Len(l) \in Nat /\ DOMAIN l = 1..Len(l)
           /\ \A p \in 1..Len(l) :
                  /\ l[p] \in Heap!Block
                  /\ l[p].at \in Nat /\ l[p].size \in Nat /\ l[p].size >= 1
                  /\ Heap!Ends(l[p]) \in Nat /\ l[p].at < Heap!Ends(l[p])
                  /\ Heap!Ends(l[p]) = l[p].at + l[p].size
<1>1. Len(l) \in Nat /\ DOMAIN l = 1..Len(l) /\ \A p \in 1..Len(l) : l[p] \in Heap!Block
  OBVIOUS
<1>2. ASSUME NEW p \in 1..Len(l)
      PROVE  /\ l[p].at \in Nat /\ l[p].size \in Nat /\ l[p].size >= 1
             /\ Heap!Ends(l[p]) \in Nat /\ l[p].at < Heap!Ends(l[p])
             /\ Heap!Ends(l[p]) = l[p].at + l[p].size
  <2>1. l[p].at \in Nat /\ l[p].size \in Nat \ {0}
    BY <1>1 DEF Heap!Block
  <2> QED
    BY <2>1 DEF Heap!Ends
<1> QED
  BY <1>1, <1>2

\* What the blocks are after two that touch have become one.
LEMMA MergedIs ==
    ASSUME NEW l \in Seq(Heap!Block), NEW g \in 1..(Len(l) - 1),
           Heap!Ends(l[g]) = l[g + 1].at, NEW r, r = Merge(l, g)
    PROVE  /\ r \in Seq(Heap!Block) /\ Len(r) = Len(l) - 1
           /\ \A p \in 1..Len(r) : p < g => r[p] = l[p]
           /\ \A p \in 1..Len(r) : p > g => r[p] = l[p + 1]
           /\ r[g].at = l[g].at /\ Heap!Ends(r[g]) = Heap!Ends(l[g + 1])
<1> DEFINE m == [l EXCEPT ![g].size = @ + l[g + 1].size]
           e == [l[g] EXCEPT !.size = @ + l[g + 1].size]
<1>1. /\ Len(l) \in Nat /\ g \in 1..Len(l) /\ g + 1 \in 1..Len(l) /\ g \in Nat
      /\ DOMAIN l = 1..Len(l)
  BY BlockType
<1>2. l[g] \in Heap!Block /\ l[g + 1] \in Heap!Block
  BY <1>1
<1>3. e \in Heap!Block /\ e.at = l[g].at /\ e.size = l[g].size + l[g + 1].size
  <2>1. /\ l[g].size \in Nat \ {0} /\ l[g + 1].size \in Nat \ {0} /\ l[g].at \in Nat
        /\ l[g] = [at |-> l[g].at, size |-> l[g].size]
    BY <1>2 DEF Heap!Block
  <2>2. e = [at |-> l[g].at, size |-> l[g].size + l[g + 1].size]
    BY <2>1
  <2>3. l[g].size + l[g + 1].size \in Nat \ {0}
    BY <2>1
  <2> QED
    BY <2>1, <2>2, <2>3 DEF Heap!Block
<1>4. m = [l EXCEPT ![g] = e]
  BY <1>1
<1> HIDE DEF e
<1>5. m \in Seq(Heap!Block) /\ Len(m) = Len(l) /\ m[g] = e
      /\ \A p \in 1..Len(l) : p # g => m[p] = l[p]
  BY <1>1, <1>3, <1>4
<1>6. r = Heap!RemoveAt(m, g + 1)
  BY DEF Merge
<1> HIDE DEF m
<1>7. /\ r \in Seq(Heap!Block) /\ Len(r) = Len(l) - 1
      /\ \A p \in 1..Len(r) : r[p] = IF p < g + 1 THEN m[p] ELSE m[p + 1]
  <2>1. m \in Seq(Heap!Block) /\ g + 1 \in 1..Len(m)
    BY <1>1, <1>5
  <2>2. /\ r \in Seq(Heap!Block) /\ Len(r) = Len(m) - 1
        /\ \A p \in 1..Len(r) : r[p] = IF p < g + 1 THEN m[p] ELSE m[p + 1]
    BY <1>6, <2>1, Removed
  <2> QED
    BY <1>5, <2>2
<1>8. ASSUME NEW p \in 1..Len(r), p < g
      PROVE  r[p] = l[p]
  BY <1>1, <1>5, <1>7, <1>8
<1>9. ASSUME NEW p \in 1..Len(r), p > g
      PROVE  r[p] = l[p + 1]
  <2>1. ~(p < g + 1) /\ p + 1 \in 1..Len(l) /\ p + 1 # g
    BY <1>1, <1>7, <1>9
  <2> QED
    BY <1>5, <1>7, <2>1
<1>10. r[g] = e
  <2>1. g \in 1..Len(r) /\ g < g + 1
    BY <1>1, <1>7
  <2> QED
    BY <1>5, <1>7, <2>1
<1>11. Heap!Ends(r[g]) = Heap!Ends(l[g + 1])
  <2>1. /\ l[g].at \in Nat /\ l[g].size \in Nat /\ l[g + 1].size \in Nat
        /\ Heap!Ends(l[g]) = l[g].at + l[g].size
        /\ Heap!Ends(l[g + 1]) = l[g + 1].at + l[g + 1].size
    BY <1>1, BlockType
  <2>2. Heap!Ends(e) = e.at + e.size
    BY DEF Heap!Ends
  <2>3. Heap!Ends(r[g]) = l[g].at + (l[g].size + l[g + 1].size)
    BY <1>3, <1>10, <2>2
  <2>4. \A a, b, c \in Nat : a + (b + c) = (a + b) + c
    OBVIOUS
  <2>5. l[g].at + (l[g].size + l[g + 1].size) = (l[g].at + l[g].size) + l[g + 1].size
    BY <2>1, <2>4
  <2>6. (l[g].at + l[g].size) + l[g + 1].size = l[g + 1].at + l[g + 1].size
    BY <2>1
  <2> QED
    BY <2>1, <2>3, <2>5, <2>6
<1>12. r[g].at = l[g].at
  BY <1>3, <1>10
<1> QED
  BY <1>7, <1>8, <1>9, <1>11, <1>12

\* It keeps the order and the gaps.
LEMMA MergedIsLoose ==
    ASSUME NEW l \in Seq(Heap!Block), NEW g \in 1..(Len(l) - 1),
           Heap!Ends(l[g]) = l[g + 1].at, NEW r, r = Merge(l, g),
           NEW S, \A x \in S : x < g, Loose(l, S \cup {g})
    PROVE  Loose(r, S)
<1> DEFINE hi(j) == IF j < g THEN j ELSE j + 1
           lo(j) == IF j <= g THEN j ELSE j + 1
<1>1. Len(l) \in Nat /\ g \in Nat /\ 1 <= g /\ g < Len(l) /\ DOMAIN l = 1..Len(l)
  BY BlockType
<1>2. r \in Seq(Heap!Block) /\ Len(r) = Len(l) - 1 /\ DOMAIN r = 1..Len(r)
  <2>1. r \in Seq(Heap!Block) /\ Len(r) = Len(l) - 1
    BY MergedIs
  <2> QED
    BY <2>1, BlockType
<1>3. ASSUME NEW p \in 1..Len(r)
      PROVE  /\ hi(p) \in 1..Len(l) /\ Heap!Ends(r[p]) = Heap!Ends(l[hi(p)])
             /\ lo(p) \in 1..Len(l) /\ r[p].at = l[lo(p)].at
  <2>1. CASE p < g
    <3>1. hi(p) = p /\ lo(p) = p /\ p \in 1..Len(l)
      BY <1>1, <1>2, <2>1
    <3>2. r[p] = l[p]
      BY <2>1, MergedIs
    <3> QED
      BY <3>1, <3>2
  <2>2. CASE p > g
    <3>1. hi(p) = p + 1 /\ lo(p) = p + 1 /\ p + 1 \in 1..Len(l)
      BY <1>1, <1>2, <2>2
    <3>2. r[p] = l[p + 1]
      BY <2>2, MergedIs
    <3> QED
      BY <3>1, <3>2
  <2>3. CASE p = g
    <3>1. hi(p) = g + 1 /\ lo(p) = g /\ g + 1 \in 1..Len(l) /\ g \in 1..Len(l)
      BY <1>1, <1>2, <2>3
    <3>2. r[g].at = l[g].at /\ Heap!Ends(r[g]) = Heap!Ends(l[g + 1])
      BY MergedIs
    <3> QED
      BY <2>3, <3>1, <3>2
  <2> QED
    BY <1>1, <1>2, <2>1, <2>2, <2>3
<1>4. ASSUME NEW p \in 1..Len(r), NEW q \in 1..Len(r), p < q
      PROVE  /\ Heap!Ends(r[p]) <= r[q].at
             /\ ~(p \in S /\ q = p + 1) => Heap!Ends(r[p]) < r[q].at
  <2>1. hi(p) < lo(q) /\ hi(p) # g
    BY <1>1, <1>2, <1>4
  <2>2. hi(p) \in S /\ lo(q) = hi(p) + 1 => p \in S /\ q = p + 1
    <3> SUFFICES ASSUME hi(p) \in S, lo(q) = hi(p) + 1
                 PROVE  p \in S /\ q = p + 1
      OBVIOUS
    <3>1. hi(p) < g
      BY <1>1
    <3>2. p < g /\ hi(p) = p
      BY <1>1, <1>2, <3>1
    <3>3. lo(q) = p + 1 /\ lo(q) <= g
      BY <1>1, <1>2, <3>2
    <3>4. q = p + 1
      BY <1>1, <1>2, <3>2, <3>3
    <3> QED
      BY <3>2, <3>4
  <2>3. hi(p) \in DOMAIN l /\ lo(q) \in DOMAIN l
    BY <1>1, <1>3
  <2> HIDE DEF hi, lo
  <2>4. /\ Heap!Ends(l[hi(p)]) <= l[lo(q)].at
        /\ ~(hi(p) \in S \cup {g} /\ lo(q) = hi(p) + 1)
               => Heap!Ends(l[hi(p)]) < l[lo(q)].at
    BY <2>1, <2>3 DEF Loose
  <2> QED
    BY <1>3, <2>1, <2>2, <2>4
<1> QED
  BY <1>2, <1>4 DEF Loose

\* The words of blocks, one by one.
LEMMA FreeIs ==
    ASSUME NEW l, NEW w
    PROVE  w \in Heap!Free(l) <=> \E p \in DOMAIN l : w \in Heap!WordsOf(l[p])
BY DEF Heap!Free

\* It loses no word and adds none.
LEMMA MergedIsFree ==
    ASSUME NEW l \in Seq(Heap!Block), NEW g \in 1..(Len(l) - 1),
           Heap!Ends(l[g]) = l[g + 1].at, NEW r, r = Merge(l, g)
    PROVE  Heap!Free(r) = Heap!Free(l)
<1>1. Len(l) \in Nat /\ g \in Nat /\ 1 <= g /\ g < Len(l) /\ DOMAIN l = 1..Len(l)
  BY BlockType
<1>2. r \in Seq(Heap!Block) /\ Len(r) = Len(l) - 1 /\ DOMAIN r = 1..Len(r)
  <2>1. r \in Seq(Heap!Block) /\ Len(r) = Len(l) - 1
    BY MergedIs
  <2> QED
    BY <2>1, BlockType
<1>3. Heap!WordsOf(r[g]) = Heap!WordsOf(l[g]) \cup Heap!WordsOf(l[g + 1])
  <2>1. r[g].at = l[g].at /\ Heap!Ends(r[g]) = Heap!Ends(l[g + 1])
    BY MergedIs
  <2>2. g \in 1..Len(l) /\ g + 1 \in 1..Len(l)
    BY <1>1
  <2>3. /\ l[g].at \in Nat /\ Heap!Ends(l[g]) \in Nat /\ Heap!Ends(l[g + 1]) \in Nat
        /\ l[g].at < Heap!Ends(l[g]) /\ l[g + 1].at < Heap!Ends(l[g + 1])
        /\ l[g + 1].at \in Nat
    BY <2>2, BlockType
  <2>4. ASSUME NEW a \in Nat, NEW b \in Nat, NEW c \in Nat, a < b, b < c
        PROVE  a..(c - 1) = (a..(b - 1)) \cup (b..(c - 1))
    BY <2>4
  <2> QED
    BY <2>1, <2>3, <2>4 DEF Heap!WordsOf
<1>4. ASSUME NEW w \in Heap!Free(r)
      PROVE  w \in Heap!Free(l)
  <2>1. PICK p \in 1..Len(r) : w \in Heap!WordsOf(r[p])
    BY <1>2, FreeIs
  <2>2. CASE p < g
    <3>1. p \in DOMAIN l
      BY <1>1, <1>2
    <3>2. \A q \in 1..Len(r) : q < g => r[q] = l[q]
      BY MergedIs
    <3> QED
      BY <2>1, <2>2, <3>1, <3>2, FreeIs
  <2>3. CASE p > g
    <3>1. p + 1 \in DOMAIN l /\ r[p] = l[p + 1]
      <4>1. r[p] = l[p + 1]
        BY <2>3, MergedIs
      <4> QED
        BY <1>1, <1>2, <4>1
    <3> QED
      BY <2>1, <3>1, FreeIs
  <2>4. CASE p = g
    <3>1. g \in DOMAIN l /\ g + 1 \in DOMAIN l
      BY <1>1
    <3> QED
      BY <1>3, <2>1, <2>4, <3>1, FreeIs
  <2> QED
    BY <1>1, <1>2, <2>2, <2>3, <2>4
<1>5. ASSUME NEW w \in Heap!Free(l)
      PROVE  w \in Heap!Free(r)
  <2>1. PICK p \in 1..Len(l) : w \in Heap!WordsOf(l[p])
    BY <1>1, FreeIs
  <2>2. CASE p < g
    <3>1. p \in 1..Len(r)
      BY <1>1, <1>2, <2>2
    <3>2. \A q \in 1..Len(r) : q < g => r[q] = l[q]
      BY MergedIs
    <3>3. r[p] = l[p]
      BY <2>2, <3>1, <3>2
    <3> QED
      BY <1>2, <2>1, <3>1, <3>3, FreeIs
  <2>3. CASE p > g + 1
    <3>1. p - 1 \in 1..Len(r) /\ p - 1 > g /\ (p - 1) + 1 = p
      BY <1>1, <1>2, <2>3
    <3>2. \A q \in 1..Len(r) : q > g => r[q] = l[q + 1]
      BY MergedIs
    <3>3. r[p - 1] = l[p]
      BY <3>1, <3>2
    <3> QED
      BY <1>2, <2>1, <3>1, <3>3, FreeIs
  <2>4. CASE p = g \/ p = g + 1
    <3>1. g \in DOMAIN r
      BY <1>1, <1>2
    <3>2. w \in Heap!WordsOf(r[g])
      BY <1>3, <2>1, <2>4
    <3> QED
      BY <3>1, <3>2, FreeIs
  <2> QED
    BY <1>1, <2>2, <2>3, <2>4
<1> QED
  BY <1>4, <1>5

\* Two blocks that do not touch leave a gap.
LEMMA ApartIsLoose ==
    ASSUME NEW l \in Seq(Heap!Block), NEW g, NEW S, Loose(l, S \cup {g}),
           g \in 1..(Len(l) - 1) => Heap!Ends(l[g]) # l[g + 1].at
    PROVE  Loose(l, S)
<1>1. Len(l) \in Nat /\ DOMAIN l = 1..Len(l)
  BY BlockType
<1>2. ASSUME NEW p \in DOMAIN l, NEW q \in DOMAIN l, p < q
      PROVE  /\ Heap!Ends(l[p]) <= l[q].at
             /\ ~(p \in S /\ q = p + 1) => Heap!Ends(l[p]) < l[q].at
  <2>1. /\ Heap!Ends(l[p]) <= l[q].at
        /\ ~(p \in S \cup {g} /\ q = p + 1) => Heap!Ends(l[p]) < l[q].at
    BY <1>2 DEF Loose
  <2>2. ASSUME p = g, q = p + 1
        PROVE  Heap!Ends(l[p]) < l[q].at
    <3>1. g \in 1..(Len(l) - 1)
      BY <1>1, <2>2
    <3>2. Heap!Ends(l[p]) # l[q].at
      BY <2>2, <3>1
    <3>3. Heap!Ends(l[p]) \in Nat /\ l[q].at \in Nat
      BY <1>1, BlockType
    <3> QED
      BY <2>1, <3>2, <3>3
  <2> QED
    BY <2>1, <2>2
<1> QED
  BY <1>2 DEF Loose

\* Joining a block with its neighbours leaves no two that touch, and the
\* same words.
LEMMA JoinIs ==
    ASSUME NEW l \in Seq(Heap!Block), NEW i \in 1..Len(l), Loose(l, {i - 1, i}),
           NEW r, r = Heap!join(l, i)
    PROVE  r \in Seq(Heap!Block) /\ Heap!Sparse(r) /\ Heap!Free(r) = Heap!Free(l)
<1> DEFINE m == IF i < Len(l) /\ Heap!Ends(l[i]) = l[i + 1].at THEN Merge(l, i) ELSE l
           n == IF i > 1 /\ Heap!Ends(m[i - 1]) = m[i].at THEN Merge(m, i - 1) ELSE m
<1>1. Len(l) \in Nat /\ i \in Nat /\ 1 <= i /\ i <= Len(l)
  OBVIOUS
<1>2. r = n
  <2>1. (i - 1) + 1 = i
    BY <1>1
  <2> QED
    BY <2>1 DEF Heap!join, Merge
<1>3. m \in Seq(Heap!Block) /\ Loose(m, {i - 1}) /\ Heap!Free(m) = Heap!Free(l)
      /\ i <= Len(m)
  <2>0. {i - 1, i} = {i - 1} \cup {i}
    OBVIOUS
  <2>1. CASE i < Len(l) /\ Heap!Ends(l[i]) = l[i + 1].at
    <3>1. i \in 1..(Len(l) - 1) /\ m = Merge(l, i) /\ \A x \in {i - 1} : x < i
      BY <1>1, <2>1
    <3>2. Loose(l, {i - 1} \cup {i}) /\ Heap!Ends(l[i]) = l[i + 1].at
      BY <2>0, <2>1
    <3> HIDE DEF m
    <3>3. m \in Seq(Heap!Block) /\ Len(m) = Len(l) - 1
      BY <3>1, <3>2, MergedIs
    <3>4. Heap!Free(m) = Heap!Free(l)
      BY <3>1, <3>2, MergedIsFree
    <3>5. Loose(m, {i - 1})
      BY <3>1, <3>2, MergedIsLoose
    <3> QED
      BY <1>1, <2>1, <3>3, <3>4, <3>5
  <2>2. CASE ~(i < Len(l) /\ Heap!Ends(l[i]) = l[i + 1].at)
    <3>1. m = l
      BY <2>2
    <3>2. i \in 1..(Len(l) - 1) => Heap!Ends(l[i]) # l[i + 1].at
      BY <1>1, <2>2
    <3>3. Loose(l, {i - 1} \cup {i})
      BY <2>0
    <3>4. Loose(l, {i - 1})
      BY <3>2, <3>3, ApartIsLoose
    <3> QED
      BY <1>1, <3>1, <3>4
  <2> QED
    BY <2>1, <2>2
<1> HIDE DEF m
<1>4. n \in Seq(Heap!Block) /\ Loose(n, {}) /\ Heap!Free(n) = Heap!Free(l)
  <2>0. Len(m) \in Nat /\ (i - 1) + 1 = i /\ {} \cup {i - 1} = {i - 1}
    BY <1>1, <1>3
  <2>3. Loose(m, {} \cup {i - 1})
    BY <1>3, <2>0
  <2>1. CASE i > 1 /\ Heap!Ends(m[i - 1]) = m[i].at
    <3>1. i - 1 \in 1..(Len(m) - 1) /\ n = Merge(m, i - 1) /\ \A x \in {} : x < i - 1
      BY <1>1, <1>3, <2>0, <2>1
    <3>2. Heap!Ends(m[i - 1]) = m[(i - 1) + 1].at
      BY <2>0, <2>1
    <3> HIDE DEF n
    <3>3. n \in Seq(Heap!Block)
      BY <1>3, <3>1, <3>2, MergedIs
    <3>4. Heap!Free(n) = Heap!Free(m)
      BY <1>3, <3>1, <3>2, MergedIsFree
    <3>5. Loose(n, {})
      BY <1>3, <2>3, <3>1, <3>2, MergedIsLoose
    <3> QED
      BY <1>3, <3>3, <3>4, <3>5
  <2>2. CASE ~(i > 1 /\ Heap!Ends(m[i - 1]) = m[i].at)
    <3>1. n = m
      BY <2>2
    <3>2. i - 1 \in 1..(Len(m) - 1) => Heap!Ends(m[i - 1]) # m[(i - 1) + 1].at
      BY <1>1, <2>0, <2>2
    <3>4. Loose(m, {})
      BY <1>3, <2>3, <3>2, ApartIsLoose
    <3> QED
      BY <1>3, <3>1, <3>4
  <2> QED
    BY <2>1, <2>2
<1> HIDE DEF n
<1> QED
  BY <1>2, <1>4 DEF Loose, Heap!Sparse

\* In a list in order no two blocks share a word.
LEMMA SparseIsApart ==
    ASSUME NEW l \in Seq(Heap!Block), Heap!Sparse(l), NEW p \in DOMAIN l, NEW q \in DOMAIN l,
           NEW w, w \in Heap!WordsOf(l[p]), w \in Heap!WordsOf(l[q])
    PROVE  p = q
<1>1. DOMAIN l = 1..Len(l) /\ Len(l) \in Nat
  BY BlockType
<1>2. p \in Nat /\ q \in Nat
  BY <1>1
<1>3. /\ l[p].at \in Nat /\ Heap!Ends(l[p]) \in Nat
      /\ l[q].at \in Nat /\ Heap!Ends(l[q]) \in Nat
  BY <1>1, BlockType
<1>4. /\ w \in Int /\ l[p].at <= w /\ w < Heap!Ends(l[p])
      /\ l[q].at <= w /\ w < Heap!Ends(l[q])
  BY <1>3 DEF Heap!WordsOf
<1>5. ~(p < q) /\ ~(q < p)
  <2>1. p < q => Heap!Ends(l[p]) < l[q].at
    BY DEF Heap!Sparse
  <2>2. q < p => Heap!Ends(l[q]) < l[p].at
    BY DEF Heap!Sparse
  <2> QED
    BY <1>3, <1>4, <2>1, <2>2
<1> QED
  BY <1>2, <1>5

\* Taking a block out takes its words.
LEMMA RemovedIsSparse ==
    ASSUME NEW l \in Seq(Heap!Block), Heap!Sparse(l), NEW i \in 1..Len(l),
           NEW r, r = Heap!RemoveAt(l, i)
    PROVE  /\ r \in Seq(Heap!Block) /\ Heap!Sparse(r)
           /\ Heap!Free(r) = Heap!Free(l) \ Heap!WordsOf(l[i])
<1>1. Len(l) \in Nat /\ i \in Nat /\ 1 <= i /\ i <= Len(l) /\ DOMAIN l = 1..Len(l)
  BY BlockType
<1>2. r \in Seq(Heap!Block) /\ Len(r) = Len(l) - 1
      /\ \A p \in 1..Len(r) : r[p] = IF p < i THEN l[p] ELSE l[p + 1]
  BY Removed
<1>3. DOMAIN r = 1..Len(r)
  BY <1>2, BlockType
<1> DEFINE old(p) == IF p < i THEN p ELSE p + 1
<1>4. \A p \in 1..Len(r) : old(p) \in 1..Len(l) /\ old(p) # i /\ r[p] = l[old(p)]
  <2>1. \A p \in 1..Len(r) : old(p) \in 1..Len(l) /\ old(p) # i
    BY <1>1, <1>2
  <2>2. \A p \in 1..Len(r) : r[p] = l[old(p)]
    BY <1>2
  <2> QED
    BY <2>1, <2>2
<1>5. \A p, q \in 1..Len(r) : p < q => old(p) < old(q)
  BY <1>1, <1>2
<1>6. \A j \in 1..Len(l) : j # i => \E p \in 1..Len(r) : old(p) = j
  <2> SUFFICES ASSUME NEW j \in 1..Len(l), j # i
               PROVE  \E p \in 1..Len(r) : old(p) = j
    OBVIOUS
  <2>1. CASE j < i
    <3>1. j \in 1..Len(r) /\ old(j) = j
      BY <1>1, <1>2, <2>1
    <3> QED
      BY <3>1
  <2>2. CASE j > i
    <3>1. j - 1 \in 1..Len(r) /\ old(j - 1) = j
      BY <1>1, <1>2, <2>2
    <3> QED
      BY <3>1
  <2> QED
    BY <1>1, <2>1, <2>2
<1> HIDE DEF old
<1>7. Heap!Sparse(r)
  BY <1>1, <1>3, <1>4, <1>5 DEF Heap!Sparse
<1>8. ASSUME NEW w
      PROVE  w \in Heap!Free(r) <=> w \in Heap!Free(l) /\ w \notin Heap!WordsOf(l[i])
  <2>1. ASSUME w \in Heap!Free(r)
        PROVE  w \in Heap!Free(l) /\ w \notin Heap!WordsOf(l[i])
    <3>1. PICK p \in 1..Len(r) : w \in Heap!WordsOf(r[p])
      BY <1>3, <2>1, FreeIs
    <3>2. old(p) \in DOMAIN l /\ w \in Heap!WordsOf(l[old(p)]) /\ old(p) # i
      BY <1>1, <1>4, <3>1
    <3>3. w \in Heap!Free(l)
      BY <3>2, FreeIs
    <3>4. w \notin Heap!WordsOf(l[i])
      BY <1>1, <3>2, SparseIsApart
    <3> QED
      BY <3>3, <3>4
  <2>2. ASSUME w \in Heap!Free(l), w \notin Heap!WordsOf(l[i])
        PROVE  w \in Heap!Free(r)
    <3>1. PICK j \in 1..Len(l) : w \in Heap!WordsOf(l[j])
      BY <1>1, <2>2, FreeIs
    <3>2. PICK p \in 1..Len(r) : old(p) = j
      BY <1>6, <2>2, <3>1
    <3>3. w \in Heap!WordsOf(r[p])
      BY <1>4, <3>1, <3>2
    <3> QED
      BY <1>3, <3>3, FreeIs
  <2> QED
    BY <2>1, <2>2
<1>9. Heap!Free(r) = Heap!Free(l) \ Heap!WordsOf(l[i])
  BY <1>8
<1> QED
  BY <1>2, <1>7, <1>9

\* A stretch of words.
Span(a, n) == a..(a + n - 1)

\* The instance counts as this module does.
LEMMA HeapCardinality ==
    ASSUME NEW S
    PROVE  Heap!Cardinality(S) = Cardinality(S)
BY DEF Cardinality, Heap!Cardinality

\* A block without its front.
CutAt(l, i, need) == [l EXCEPT ![i] = [at |-> l[i].at + need, size |-> l[i].size - need]]

\* Cutting the front off a block takes the words of the front.
LEMMA CutIsSparse ==
    ASSUME NEW l \in Seq(Heap!Block), Heap!Sparse(l), NEW i \in 1..Len(l),
           NEW need \in Nat, need < l[i].size,
           NEW r, r = CutAt(l, i, need)
    PROVE  /\ r \in Seq(Heap!Block) /\ Heap!Sparse(r)
           /\ Heap!Free(r) = Heap!Free(l) \ Span(l[i].at, need)
<1> DEFINE e == [at |-> l[i].at + need, size |-> l[i].size - need]
<1>1. Len(l) \in Nat /\ DOMAIN l = 1..Len(l)
  BY BlockType
<1>2. /\ l[i].at \in Nat /\ l[i].size \in Nat
      /\ Heap!Ends(l[i]) = l[i].at + l[i].size /\ Heap!Ends(l[i]) \in Nat
  BY BlockType
<1>3. e \in Heap!Block /\ e.at = l[i].at + need /\ Heap!Ends(e) = Heap!Ends(l[i])
  <2>1. l[i].at + need \in Nat /\ l[i].size - need \in Nat \ {0}
    BY <1>2
  <2>2. e.at = l[i].at + need /\ e.size = l[i].size - need
    OBVIOUS
  <2>3. e \in Heap!Block
    BY <2>1 DEF Heap!Block
  <2>6. \A a, b, c \in Nat : (a + c) + (b - c) = a + b
    OBVIOUS
  <2>4. (l[i].at + need) + (l[i].size - need) = l[i].at + l[i].size
    BY <1>2, <2>6, ZenonT(30)
  <2>5. Heap!Ends(e) = e.at + e.size
    BY DEF Heap!Ends
  <2> HIDE DEF e
  <2> QED
    BY <1>2, <2>2, <2>3, <2>4, <2>5
<1>4. r = [l EXCEPT ![i] = e]
  BY DEF CutAt
<1> HIDE DEF e
<1>5. /\ r \in Seq(Heap!Block) /\ DOMAIN r = DOMAIN l /\ r[i] = e
      /\ \A p \in DOMAIN l : p # i => r[p] = l[p]
  BY <1>1, <1>3, <1>4
<1>6. \A p \in DOMAIN l : Heap!Ends(r[p]) = Heap!Ends(l[p]) /\ l[p].at <= r[p].at
  <2> SUFFICES ASSUME NEW p \in DOMAIN l
               PROVE  Heap!Ends(r[p]) = Heap!Ends(l[p]) /\ l[p].at <= r[p].at
    OBVIOUS
  <2>1. l[p].at \in Nat
    BY <1>1, BlockType
  <2>2. CASE p = i
    <3>1. l[i].at <= l[i].at + need
      BY <1>2
    <3> QED
      BY <1>3, <1>5, <2>2, <3>1
  <2>3. CASE p # i
    BY <1>5, <2>1, <2>3
  <2> QED
    BY <2>2, <2>3
<1>7. Heap!Sparse(r)
  <2> SUFFICES ASSUME NEW p \in DOMAIN l, NEW q \in DOMAIN l, p < q
               PROVE  Heap!Ends(r[p]) < r[q].at
    BY <1>5 DEF Heap!Sparse
  <2>1. Heap!Ends(l[p]) < l[q].at
    BY DEF Heap!Sparse
  <2>2. Heap!Ends(l[p]) \in Nat /\ l[q].at \in Nat
    BY <1>1, BlockType
  <2>3. r[q].at \in Nat
    BY <1>1, <1>5, BlockType
  <2> QED
    BY <1>6, <2>1, <2>2, <2>3
<1>8. Heap!WordsOf(e) = Heap!WordsOf(l[i]) \ Span(l[i].at, need)
  BY <1>2, <1>3 DEF Heap!WordsOf, Span
<1>9. Span(l[i].at, need) \subseteq Heap!WordsOf(l[i])
  <2>1. Heap!WordsOf(l[i]) = l[i].at..(l[i].at + l[i].size - 1)
    BY <1>2 DEF Heap!WordsOf
  <2>2. \A a, b, c \in Nat : c < b => a..(a + c - 1) \subseteq a..(a + b - 1)
    OBVIOUS
  <2>3. l[i].at..(l[i].at + need - 1) \subseteq l[i].at..(l[i].at + l[i].size - 1)
    BY <1>2, <2>2
  <2> QED
    BY <2>1, <2>3 DEF Span
<1>10. ASSUME NEW w
       PROVE  w \in Heap!Free(r) <=>
                  w \in Heap!Free(l) /\ w \notin Span(l[i].at, need)
  <2>1. ASSUME w \in Heap!Free(r)
        PROVE  w \in Heap!Free(l) /\ w \notin Span(l[i].at, need)
    <3>1. PICK p \in DOMAIN l : w \in Heap!WordsOf(r[p])
      BY <1>5, <2>1, FreeIs
    <3>2. CASE p = i
      <4>1. w \in Heap!WordsOf(l[i]) /\ w \notin Span(l[i].at, need)
        BY <1>5, <1>8, <3>1, <3>2
      <4> QED
        BY <1>1, <4>1, FreeIs
    <3>3. CASE p # i
      <4>1. w \in Heap!WordsOf(l[p])
        BY <1>5, <3>1, <3>3
      <4>2. w \notin Heap!WordsOf(l[i])
        BY <1>1, <3>3, <4>1, SparseIsApart
      <4>3. w \in Heap!Free(l)
        BY <4>1, FreeIs
      <4> QED
        BY <1>9, <4>2, <4>3
    <3> QED
      BY <3>2, <3>3
  <2>2. ASSUME w \in Heap!Free(l), w \notin Span(l[i].at, need)
        PROVE  w \in Heap!Free(r)
    <3>1. PICK p \in DOMAIN l : w \in Heap!WordsOf(l[p])
      BY <2>2, FreeIs
    <3>2. w \in Heap!WordsOf(r[p])
      BY <1>5, <1>8, <2>2, <3>1
    <3> QED
      BY <1>5, <3>2, FreeIs
  <2> QED
    BY <2>1, <2>2
<1>11. Heap!Free(r) = Heap!Free(l) \ Span(l[i].at, need)
  BY <1>10
<1> QED
  BY <1>5, <1>7, <1>11

\* A block put in its place adds its words and may touch its neighbours.
LEMMA PlacedIsLoose ==
    ASSUME NEW l \in Seq(Heap!Block), Heap!Sparse(l), NEW e \in Heap!Block,
           Heap!WordsOf(e) \cap Heap!Free(l) = {}, NEW i \in 1..(Len(l) + 1),
           \A p \in 1..Len(l) : (p < i => l[p].at < e.at) /\ (p >= i => e.at <= l[p].at),
           NEW r, r = Heap!InsertAt(l, i, e)
    PROVE  /\ r \in Seq(Heap!Block) /\ i \in 1..Len(r) /\ Loose(r, {i - 1, i})
           /\ Heap!Free(r) = Heap!Free(l) \cup Heap!WordsOf(e)
<1>1. Len(l) \in Nat /\ i \in Nat /\ 1 <= i /\ i <= Len(l) + 1 /\ DOMAIN l = 1..Len(l)
  BY BlockType
<1>2. /\ r \in Seq(Heap!Block) /\ Len(r) = Len(l) + 1
      /\ \A p \in 1..Len(r) :
             r[p] = IF p < i THEN l[p] ELSE IF p = i THEN e ELSE l[p - 1]
  <2>1. /\ r \in Seq(Heap!Block) /\ Len(r) = Len(l) + 1
        /\ \A p \in 1..Len(r) : r[p] = WithAt(l, i, e, p)
    BY Inserted
  <2> QED
    BY <2>1 DEF WithAt
<1>3. DOMAIN r = 1..Len(r)
  BY <1>2, BlockType
<1>4. e.at \in Nat /\ Heap!Ends(e) \in Nat /\ e.at < Heap!Ends(e)
  <2>1. e.at \in Nat /\ e.size \in Nat \ {0}
    BY DEF Heap!Block
  <2> QED
    BY <2>1 DEF Heap!Ends
<1>5. \A p \in 1..Len(l) :
          /\ l[p].at \in Nat /\ Heap!Ends(l[p]) \in Nat
          /\ l[p].at < Heap!Ends(l[p])
  BY BlockType
<1>6. \A p \in 1..Len(l) : Heap!WordsOf(e) \cap Heap!WordsOf(l[p]) = {}
  BY <1>1, FreeIs
<1>7. ASSUME NEW p \in 1..Len(l)
      PROVE  /\ p < i => Heap!Ends(l[p]) <= e.at
             /\ p >= i => Heap!Ends(e) <= l[p].at
  <2>1. ASSUME p < i, ~(Heap!Ends(l[p]) <= e.at)
        PROVE  FALSE
    <3>1. l[p].at < e.at
      BY <2>1
    <3>2. e.at \in Heap!WordsOf(l[p]) /\ e.at \in Heap!WordsOf(e)
      BY <1>4, <1>5, <2>1, <3>1 DEF Heap!WordsOf
    <3> QED
      BY <1>6, <3>2
  <2>2. ASSUME p >= i, ~(Heap!Ends(e) <= l[p].at)
        PROVE  FALSE
    <3>1. e.at <= l[p].at
      BY <2>2
    <3>2. l[p].at \in Heap!WordsOf(l[p]) /\ l[p].at \in Heap!WordsOf(e)
      BY <1>4, <1>5, <2>2, <3>1 DEF Heap!WordsOf
    <3> QED
      BY <1>6, <3>2
  <2> QED
    BY <2>1, <2>2
<1>8. \A p, q \in 1..Len(l) : p < q => Heap!Ends(l[p]) < l[q].at
  BY <1>1 DEF Heap!Sparse
<1>9. ASSUME NEW p \in 1..Len(r), NEW q \in 1..Len(r), p < q
      PROVE  /\ Heap!Ends(r[p]) <= r[q].at
             /\ ~(p \in {i - 1, i} /\ q = p + 1) => Heap!Ends(r[p]) < r[q].at
  <2>1. CASE p # i /\ q # i
    <3> DEFINE o(j) == IF j < i THEN j ELSE j - 1
    <3>1. o(p) \in 1..Len(l) /\ o(q) \in 1..Len(l) /\ o(p) < o(q)
      BY <1>1, <1>2, <1>9, <2>1
    <3>2. r[p] = l[o(p)] /\ r[q] = l[o(q)]
      BY <1>2, <2>1
    <3> HIDE DEF o
    <3>3. Heap!Ends(l[o(p)]) < l[o(q)].at
      BY <1>8, <3>1
    <3>4. Heap!Ends(l[o(p)]) \in Nat /\ l[o(q)].at \in Nat
      BY <1>5, <3>1
    <3> QED
      BY <3>2, <3>3, <3>4
  <2>2. CASE q = i
    <3>1. p < i /\ p \in 1..Len(l) /\ r[p] = l[p] /\ r[q] = e
      BY <1>1, <1>2, <1>9, <2>2
    <3>2. Heap!Ends(l[p]) <= e.at
      BY <1>7, <3>1
    <3>3. ASSUME p # i - 1
          PROVE  Heap!Ends(l[p]) < e.at
      <4>1. p + 1 \in 1..Len(l) /\ p + 1 < i /\ p < p + 1
        BY <1>1, <3>1, <3>3
      <4>2. Heap!Ends(l[p]) < l[p + 1].at
        BY <1>8, <3>1, <4>1
      <4>3. Heap!Ends(l[p + 1]) <= e.at
        BY <1>7, <4>1
      <4>4. /\ Heap!Ends(l[p]) \in Nat
            /\ l[p + 1].at \in Nat /\ Heap!Ends(l[p + 1]) \in Nat
            /\ l[p + 1].at < Heap!Ends(l[p + 1])
        BY <1>5, <3>1, <4>1
      <4> QED
        BY <1>4, <4>2, <4>3, <4>4, SMTT(30)
    <3>4. p = i - 1 => p \in {i - 1, i} /\ q = p + 1
      BY <1>1, <2>2
    <3> QED
      BY <3>1, <3>2, <3>3, <3>4
  <2>3. CASE p = i
    <3>1. q > i /\ q - 1 >= i /\ q - 1 \in 1..Len(l) /\ r[p] = e /\ r[q] = l[q - 1]
      BY <1>1, <1>2, <1>9, <2>3
    <3>2. Heap!Ends(e) <= l[q - 1].at
      BY <1>7, <3>1
    <3>3. ASSUME q # i + 1
          PROVE  Heap!Ends(e) < l[q - 1].at
      <4>1. i \in 1..Len(l) /\ i >= i /\ i < q - 1
        BY <1>1, <3>1, <3>3
      <4>2. Heap!Ends(l[i]) < l[q - 1].at
        BY <1>8, <3>1, <4>1
      <4>3. Heap!Ends(e) <= l[i].at
        BY <1>7, <4>1
      <4>4. /\ l[q - 1].at \in Nat
            /\ l[i].at \in Nat /\ Heap!Ends(l[i]) \in Nat /\ l[i].at < Heap!Ends(l[i])
        BY <1>5, <3>1, <4>1
      <4> QED
        BY <1>4, <4>2, <4>3, <4>4, SMTT(30)
    <3>4. q = i + 1 => p \in {i - 1, i} /\ q = p + 1
      BY <2>3
    <3> QED
      BY <3>1, <3>2, <3>3, <3>4
  <2> QED
    BY <2>1, <2>2, <2>3
<1>10. Loose(r, {i - 1, i})
  BY <1>3, <1>9 DEF Loose
<1>11. ASSUME NEW w
       PROVE  w \in Heap!Free(r) <=> w \in Heap!Free(l) \/ w \in Heap!WordsOf(e)
  <2>1. ASSUME w \in Heap!Free(r)
        PROVE  w \in Heap!Free(l) \/ w \in Heap!WordsOf(e)
    <3>1. PICK p \in 1..Len(r) : w \in Heap!WordsOf(r[p])
      BY <1>3, <2>1, FreeIs
    <3>2. CASE p = i
      <4>1. r[p] = e
        BY <1>1, <1>2, <3>2
      <4> QED
        BY <3>1, <4>1
    <3>3. CASE p < i
      <4>1. r[p] = l[p] /\ p \in DOMAIN l
        BY <1>1, <1>2, <3>3
      <4> QED
        BY <3>1, <4>1, FreeIs
    <3>4. CASE p > i
      <4>1. r[p] = l[p - 1] /\ p - 1 \in DOMAIN l
        BY <1>1, <1>2, <3>4
      <4> QED
        BY <3>1, <4>1, FreeIs
    <3> QED
      BY <1>1, <1>2, <3>2, <3>3, <3>4
  <2>2. ASSUME w \in Heap!WordsOf(e)
        PROVE  w \in Heap!Free(r)
    <3>1. i \in DOMAIN r /\ r[i] = e
      BY <1>1, <1>2, <1>3
    <3> QED
      BY <2>2, <3>1, FreeIs
  <2>3. ASSUME w \in Heap!Free(l)
        PROVE  w \in Heap!Free(r)
    <3>1. PICK p \in 1..Len(l) : w \in Heap!WordsOf(l[p])
      BY <1>1, <2>3, FreeIs
    <3>2. CASE p < i
      <4>1. p \in DOMAIN r /\ r[p] = l[p]
        BY <1>1, <1>2, <1>3, <3>2
      <4> QED
        BY <3>1, <4>1, FreeIs
    <3>3. CASE p >= i
      <4>1. p + 1 \in DOMAIN r /\ (p + 1) - 1 = p /\ ~(p + 1 < i) /\ p + 1 # i
        BY <1>1, <1>2, <1>3, <3>3
      <4>2. r[p + 1] = l[p]
        BY <1>2, <1>3, <4>1
      <4> QED
        BY <3>1, <4>1, <4>2, FreeIs
    <3> QED
      BY <1>1, <3>2, <3>3
  <2> QED
    BY <2>1, <2>2, <2>3
<1>12. Heap!Free(r) = Heap!Free(l) \cup Heap!WordsOf(e)
  BY <1>11
<1>13. i \in 1..Len(r)
  BY <1>1, <1>2
<1> QED
  BY <1>2, <1>10, <1>12, <1>13

\* The block that is taken is large enough.
LEMMA FirstFitIs ==
    ASSUME NEW need, NEW i, i = Heap!FirstFit(need), i # 0, Len(list) \in Nat
    PROVE  i \in 1..Len(list) /\ list[i].size >= need
<1> DEFINE T == {j \in 1..Len(list) : list[j].size >= need}
<1>1. i = IF T # {} THEN Heap!Min(T) ELSE 0
  BY DEF Heap!FirstFit, Heap!SelectInSeq
<1>2. T = {j \in 1..Len(list) : j \in T}
  OBVIOUS
<1>3. i \in T
  <2> HIDE DEF T
  <2> QED
    BY <1>1, <1>2, Selected
<1> QED
  BY <1>3

\* The place found has the blocks that lie below in front of it, and no other.
LEMMA FirstAboveIs ==
    ASSUME NEW a \in Nat, NEW i, i = Heap!FirstAbove(a),
           list \in Seq(Heap!Block), Heap!Sparse(list)
    PROVE  /\ i \in 1..(Len(list) + 1)
           /\ \A p \in 1..Len(list) : /\ p < i => list[p].at < a
                                      /\ p >= i => a <= list[p].at
<1> DEFINE T == {j \in 1..Len(list) : list[j].at >= a}
           f == IF T # {} THEN Heap!Min(T) ELSE 0
<1>1. i = IF f = 0 THEN Len(list) + 1 ELSE f
  BY DEF Heap!FirstAbove, Heap!SelectInSeq
<1>2. T = {j \in 1..Len(list) : j \in T}
  OBVIOUS
<1>3. Len(list) \in Nat /\ DOMAIN list = 1..Len(list)
      /\ \A p \in 1..Len(list) : /\ list[p].at \in Nat /\ Heap!Ends(list[p]) \in Nat
                                 /\ list[p].at < Heap!Ends(list[p])
  BY BlockType
<1>4. (f = 0 => T = {}) /\ (f # 0 => f \in T /\ \A j \in T : f <= j)
  <2> HIDE DEF T
  <2> QED
    BY <1>2, <1>3, Selected
<1> HIDE DEF f
<1>5. CASE f = 0
  <2>1. i = Len(list) + 1 /\ T = {}
    BY <1>1, <1>4, <1>5
  <2> QED
    BY <1>3, <2>1
<1>6. CASE f # 0
  <2>1. i \in 1..Len(list) /\ list[i].at >= a /\ i = f
    BY <1>1, <1>4, <1>6
  <2>2. ASSUME NEW p \in 1..Len(list), p < i
        PROVE  list[p].at < a
    <3>1. ~(p >= i)
      BY <1>3, <2>1, <2>2
    <3>2. p \notin T
      BY <1>4, <1>6, <2>1, <3>1
    <3> QED
      BY <1>3, <3>2
  <2>3. ASSUME NEW p \in 1..Len(list), p >= i
        PROVE  a <= list[p].at
    <3>1. CASE p = i
      BY <1>3, <2>1, <3>1
    <3>2. CASE p # i
      <4>1. i < p
        BY <1>3, <2>1, <2>3, <3>2
      <4>2. Heap!Ends(list[i]) < list[p].at
        BY <1>3, <2>1, <4>1 DEF Heap!Sparse
      <4>3. /\ list[i].at \in Nat /\ Heap!Ends(list[i]) \in Nat
            /\ list[i].at < Heap!Ends(list[i]) /\ list[p].at \in Nat
        BY <1>3, <2>1
      <4> QED
        BY <2>1, <4>2, <4>3
    <3> QED
      BY <3>1, <3>2
  <2> QED
    BY <1>3, <2>1, <2>2, <2>3
<1> QED
  BY <1>5, <1>6

\* The words of a block are a stretch.
LEMMA WordsAre ==
    ASSUME NEW b, NEW a \in Nat, NEW n \in Nat, b.at = a, b.size = n
    PROVE  Heap!WordsOf(b) = Span(a, n)
BY DEF Heap!WordsOf, Heap!Ends, Span

\* Words taken out of a set, or put into one, are counted by their number.
LEMMA WordCounts ==
    ASSUME NEW F, IsFiniteSet(F), NEW a \in Nat, NEW s \in Nat
    PROVE  /\ Span(a, s) \subseteq F =>
                  Cardinality(F \ Span(a, s)) = Cardinality(F) - s
           /\ Span(a, s) \cap F = {} =>
                  Cardinality(F \cup Span(a, s)) = Cardinality(F) + s
<1> DEFINE W == a..(a + s - 1)
<1>1. a \in Int /\ a + s - 1 \in Int
  OBVIOUS
<1>2. IsFiniteSet(W) /\ Cardinality(W) = s
  <2>1. IsFiniteSet(W) /\ Cardinality(W) = IF a > a + s - 1 THEN 0 ELSE (a + s - 1) - a + 1
    BY <1>1, FS_Interval
  <2> QED
    BY <2>1
<1>3. Cardinality(F) \in Nat
  BY FS_CardinalityType
<1> HIDE DEF W
<1>4. Cardinality(F \ W) = Cardinality(F) - Cardinality(F \cap W)
  BY FS_Difference
<1>5. Cardinality(F \cup W) = Cardinality(F) + Cardinality(W) - Cardinality(F \cap W)
  BY <1>2, FS_Union
<1>6. W \subseteq F => F \cap W = W
  OBVIOUS
<1>7. W \cap F = {} => F \cap W = {}
  OBVIOUS
<1>8. Cardinality({}) = 0
  BY FS_EmptySet
<1>9. W \subseteq F => Cardinality(F \ W) = Cardinality(F) - s
  BY <1>2, <1>4, <1>6
<1>10. W \cap F = {} => Cardinality(F \cup W) = Cardinality(F) + s
  <2> SUFFICES ASSUME W \cap F = {}
               PROVE  Cardinality(F \cup W) = Cardinality(F) + s
    OBVIOUS
  <2>1. Cardinality(F \cap W) = 0
    BY <1>7, <1>8
  <2>2. \A c \in Nat : c + s - 0 = c + s
    OBVIOUS
  <2> QED
    BY <1>2, <1>3, <1>5, <2>1, <2>2
<1> QED
  BY <1>9, <1>10 DEF W, Span

\* The words in use, block by block.
LEMMA InUseIs ==
    ASSUME NEW u, NEW w
    PROVE  w \in Heap!InUse(u) <=> \E a \in DOMAIN u : w \in a..(a + u[a] - 1)
BY DEF Heap!InUse

\* A block more in use.
WithUsed(u, at_, size_) == [a \in DOMAIN u \cup {at_} |-> IF a = at_ THEN size_ ELSE u[a]]

\* It adds its words.
LEMMA UsedMore ==
    ASSUME NEW u, NEW at_, NEW size_, NEW v, Heap!Apart(u), v = WithUsed(u, at_, size_),
           at_ \notin DOMAIN u, Span(at_, size_) \cap Heap!InUse(u) = {}
    PROVE  Heap!InUse(v) = Heap!InUse(u) \cup Span(at_, size_) /\ Heap!Apart(v)
<1> DEFINE W == at_..(at_ + size_ - 1)
<1>0. Span(at_, size_) = W
  BY DEF Span
<1>1. DOMAIN v = DOMAIN u \cup {at_} /\ v[at_] = size_ /\ \A a \in DOMAIN u : v[a] = u[a]
  BY DEF WithUsed
<1>2. Heap!InUse(v) = Heap!InUse(u) \cup W
  <2>3. ASSUME NEW w
        PROVE  w \in Heap!InUse(v) <=> w \in Heap!InUse(u) \/ w \in W
    BY <1>1, InUseIs
  <2> QED
    BY <2>3
<1>3. \A a \in DOMAIN u : (a..(a + u[a] - 1)) \cap W = {}
  BY <1>0 DEF Heap!InUse
<1>4. Heap!Apart(v)
  <2> SUFFICES ASSUME NEW a \in DOMAIN v, NEW b \in DOMAIN v, a # b
               PROVE  (a..(a + v[a] - 1)) \cap (b..(b + v[b] - 1)) = {}
    BY DEF Heap!Apart
  <2>1. CASE a \in DOMAIN u /\ b \in DOMAIN u
    BY <1>1, <2>1 DEF Heap!Apart
  <2>2. CASE a = at_
    BY <1>1, <1>3, <2>2
  <2>3. CASE b = at_
    BY <1>1, <1>3, <2>3
  <2> QED
    BY <1>1, <2>1, <2>2, <2>3
<1> QED
  BY <1>0, <1>2, <1>4

\* A block less.
WithoutUsed(u, a) == [x \in DOMAIN u \ {a} |-> u[x]]

\* It takes its words.
LEMMA UsedLess ==
    ASSUME NEW u, NEW a \in DOMAIN u, NEW v, Heap!Apart(u),
           v = WithoutUsed(u, a)
    PROVE  /\ Heap!InUse(v) = Heap!InUse(u) \ Span(a, u[a]) /\ Heap!Apart(v)
           /\ Span(a, u[a]) \subseteq Heap!InUse(u)
<1> DEFINE W == a..(a + u[a] - 1)
<1>0. Span(a, u[a]) = W
  BY DEF Span
<1>1. DOMAIN v = DOMAIN u \ {a} /\ \A x \in DOMAIN v : v[x] = u[x]
  BY DEF WithoutUsed
<1>2. \A x \in DOMAIN v : (x..(x + u[x] - 1)) \cap W = {}
  BY <1>1 DEF Heap!Apart
<1>3. Heap!InUse(v) = Heap!InUse(u) \ W
  BY <1>1, <1>2 DEF Heap!InUse
<1>4. Heap!Apart(v)
  BY <1>1 DEF Heap!Apart
<1>5. W \subseteq Heap!InUse(u)
  BY DEF Heap!InUse
<1> QED
  BY <1>0, <1>3, <1>4, <1>5

\* The words of the arena are finitely many, so those that are free.
LEMMA FreeIsFinite ==
    ASSUME Heap!IInv, HeapWords \in Nat
    PROVE  IsFiniteSet(Heap!Free(list)) /\ Cardinality(Heap!Free(list)) \in Nat
<1>1. Heap!Free(list) \subseteq 0..(Heap!tail + covers - 1)
  BY DEF Heap!IInv
<1>2. Heap!tail + covers - 1 \in Int /\ 0 \in Int
  BY DEF Heap!IInv, Heap!TypeOK, Heap!tail, Heap!HeaderWords
<1>3. IsFiniteSet(0..(Heap!tail + covers - 1))
  BY <1>2, FS_Interval
<1>4. IsFiniteSet(Heap!Free(list))
  BY <1>1, <1>3, FS_Subset
<1> QED
  BY <1>4, FS_CardinalityType

\* One free block is the whole arena.
LEMMA HeapStarts ==
    ASSUME Heap!Assumption, Heap!Init
    PROVE  Heap!IInv
<1> DEFINE b == [at |-> 0, size |-> all_size]
<1>1. /\ covers \in {0, 1} /\ all_size = HeapWords - 1 + covers /\ list = <<b>>
      /\ used = <<>> /\ lost = FALSE /\ HeapWords \in Nat /\ HeapWords > 1
  BY DEF Heap!Init, Heap!tail, Heap!HeaderWords, Heap!Assumption
<1>2. all_size \in Nat /\ all_size > 0
  BY <1>1
<1>3. b \in Heap!Block /\ b.at = 0 /\ b.size = all_size
  BY <1>2 DEF Heap!Block
<1>4. Heap!WordsOf(b) = 0..(all_size - 1)
  <2>1. Heap!Ends(b) = 0 + all_size
    BY <1>3 DEF Heap!Ends
  <2>2. Heap!Ends(b) = all_size
    BY <1>2, <2>1
  <2> QED
    BY <1>3, <2>2 DEF Heap!WordsOf
<1> HIDE DEF b
<1>5. list \in Seq(Heap!Block) /\ Len(list) = 1 /\ list[1] = b /\ DOMAIN list = {1}
  BY <1>1, <1>3
<1>6. Heap!Free(list) = 0..(all_size - 1)
  <2>1. ASSUME NEW w
        PROVE  w \in Heap!Free(list) <=> w \in 0..(all_size - 1)
    BY <1>4, <1>5, FreeIs
  <2> QED
    BY <2>1
<1>7. DOMAIN used = {} /\ Heap!InUse(used) = {} /\ Heap!Apart(used)
  BY <1>1 DEF Heap!InUse, Heap!Apart
<1>8. Cardinality(0..(all_size - 1)) = all_size
  <2>1. all_size - 1 \in Int
    BY <1>2
  <2>2. Cardinality(0..(all_size - 1)) =
            IF 0 > all_size - 1 THEN 0 ELSE (all_size - 1) - 0 + 1
    BY <2>1, FS_Interval
  <2> QED
    BY <1>2, <2>2
<1>9. Heap!TypeOK
  <2>1. used \in [DOMAIN used -> Nat \ {0}] /\ DOMAIN used \subseteq Nat
    BY <1>1, <1>7
  <2> QED
    BY <1>1, <1>2, <1>5, <2>1 DEF Heap!TypeOK, Heap!HeaderWords
<1>10. Heap!Sparse(list)
  BY <1>5 DEF Heap!Sparse
<1>11. Heap!tail + covers - 1 = all_size - 1
  BY <1>1 DEF Heap!tail, Heap!HeaderWords
<1> QED
  <2>1. Heap!Free(list) \cup Heap!InUse(used) = 0..(Heap!tail + covers - 1)
    BY <1>6, <1>7, <1>11
  <2>2. Heap!Free(list) \cap Heap!InUse(used) = {}
    BY <1>7
  <2>3. all_size = Heap!Cardinality(Heap!Free(list))
    BY <1>6, <1>8, HeapCardinality
  <2> QED
    BY <1>7, <1>9, <1>10, <2>1, <2>2, <2>3 DEF Heap!IInv

\* Taking the front of a block, or all of it.
LEMMA MallocKeeps ==
    ASSUME Heap!Assumption, Heap!IInv, NEW request \in HeapRequests,
           Heap!heap_malloc(request)
    PROVE  Heap!IInv'
<1> DEFINE need == request + Heap!HeaderWords
           i == Heap!FirstFit(need)
           b == list[i]
           taken == IF Heap!splits(b.size, need) THEN need ELSE b.size
           W == Span(b.at, taken)
<1>1. HeapWords \in Nat /\ request \in Nat /\ need \in Nat /\ need >= 1
  BY DEF Heap!Assumption, Heap!HeaderWords
<1>2. /\ covers \in {0, 1} /\ list \in Seq(Heap!Block) /\ all_size \in Nat
      /\ DOMAIN used \subseteq Nat /\ used \in [DOMAIN used -> Nat \ {0}]
      /\ Heap!Sparse(list) /\ Heap!Apart(used)
      /\ Heap!Free(list) \cap Heap!InUse(used) = {}
      /\ all_size = Cardinality(Heap!Free(list))
  <2>1. Heap!TypeOK /\ covers \in {0, 1}
    BY DEF Heap!IInv, Heap!TypeOK, Heap!HeaderWords
  <2>2. /\ list \in Seq(Heap!Block) /\ all_size \in Nat /\ lost \in BOOLEAN
        /\ DOMAIN used \subseteq Nat /\ used \in [DOMAIN used -> Nat \ {0}]
    BY <2>1 DEF Heap!TypeOK
  <2>3. all_size = Cardinality(Heap!Free(list))
    BY HeapCardinality DEF Heap!IInv
  <2> QED
    BY <2>1, <2>2, <2>3 DEF Heap!IInv
<1>3. /\ i # 0 /\ covers' = covers /\ all_size' = all_size - taken
      /\ lost' = (b.at + taken > Heap!tail)
      /\ list' = IF Heap!splits(b.size, need)
                 THEN CutAt(list, i, need) ELSE Heap!RemoveAt(list, i)
      /\ used' = WithUsed(used, b.at, taken)
  BY DEF Heap!heap_malloc, CutAt, WithUsed
<1>4. Len(list) \in Nat /\ DOMAIN list = 1..Len(list)
  BY <1>2, BlockType
<1>5. i \in 1..Len(list) /\ b.size >= need
  <2> HIDE DEF need, i
  <2> QED
    BY <1>3, <1>4, FirstFitIs DEF i
<1> HIDE DEF i
<1>6. /\ b.at \in Nat /\ b.size \in Nat /\ b.size >= 1
      /\ Heap!Ends(b) = b.at + b.size
  BY <1>2, <1>5, BlockType
<1> HIDE DEF need
<1>7. taken \in Nat /\ taken >= 1 /\ taken <= b.size
  BY <1>1, <1>5, <1>6
<1>8. W \subseteq Heap!WordsOf(b)
  <2>1. Heap!WordsOf(b) = b.at..(b.at + b.size - 1)
    BY <1>6 DEF Heap!WordsOf
  <2>2. \A a, c, d \in Nat : c <= d => a..(a + c - 1) \subseteq a..(a + d - 1)
    OBVIOUS
  <2> HIDE DEF taken
  <2> QED
    BY <1>6, <1>7, <2>1, <2>2 DEF Span
<1>9. /\ list' \in Seq(Heap!Block) /\ Heap!Sparse(list')
      /\ Heap!Free(list') = Heap!Free(list) \ W
  <2>1. CASE Heap!splits(b.size, need)
    <3>1. /\ need < b.size /\ taken = need
          /\ list' = CutAt(list, i, need)
      BY <1>1, <1>3, <1>6, <2>1 DEF Heap!splits, Heap!MIN_SIZE, Heap!HeaderWords
    <3> HIDE DEF taken
    <3>2. /\ list' \in Seq(Heap!Block) /\ Heap!Sparse(list')
          /\ Heap!Free(list') = Heap!Free(list) \ Span(b.at, need)
      BY <1>1, <1>2, <1>5, <3>1, CutIsSparse
    <3> QED
      BY <3>1, <3>2
  <2>2. CASE ~Heap!splits(b.size, need)
    <3>1. taken = b.size /\ list' = Heap!RemoveAt(list, i)
      BY <1>3, <2>2
    <3>2. W = Heap!WordsOf(b)
      BY <1>6, <3>1 DEF Heap!WordsOf, Span
    <3> HIDE DEF W, b
    <3>3. /\ list' \in Seq(Heap!Block) /\ Heap!Sparse(list')
          /\ Heap!Free(list') = Heap!Free(list) \ Heap!WordsOf(b)
      BY <1>2, <1>5, <3>1, RemovedIsSparse DEF b
    <3> QED
      BY <3>2, <3>3
  <2> QED
    BY <2>1, <2>2
<1>10. W \subseteq Heap!Free(list)
  <2>1. Heap!WordsOf(b) \subseteq Heap!Free(list)
    BY <1>4, <1>5, FreeIs
  <2> QED
    BY <1>8, <2>1
<1>11. b.at \in W
  <2> HIDE DEF taken
  <2> QED
    BY <1>6, <1>7 DEF Span
<1>12. b.at \notin DOMAIN used
  <2> SUFFICES ASSUME b.at \in DOMAIN used
               PROVE  FALSE
    OBVIOUS
  <2>1. used[b.at] \in Nat /\ used[b.at] >= 1
    BY <1>2
  <2>2. b.at \in b.at..(b.at + used[b.at] - 1)
    BY <1>6, <2>1
  <2>3. b.at \in Heap!InUse(used)
    BY <2>2 DEF Heap!InUse
  <2> QED
    BY <1>2, <1>10, <1>11, <2>3
<1>13. W \cap Heap!InUse(used) = {}
  BY <1>2, <1>10
<1>14. Heap!InUse(used') = Heap!InUse(used) \cup W /\ Heap!Apart(used')
  <2> HIDE DEF taken, b
  <2> QED
    BY <1>2, <1>3, <1>12, <1>13, UsedMore
<1>15. all_size' = Cardinality(Heap!Free(list')) /\ all_size' \in Nat
  <2>1. IsFiniteSet(Heap!Free(list))
    BY <1>1, FreeIsFinite
  <2> HIDE DEF taken
  <2>2. Cardinality(Heap!Free(list) \ W) = Cardinality(Heap!Free(list)) - taken
    BY <1>6, <1>7, <1>10, <2>1, WordCounts
  <2>3. IsFiniteSet(Heap!Free(list) \ W)
    BY <2>1, FS_Difference
  <2>4. Cardinality(Heap!Free(list) \ W) \in Nat
    BY <2>3, FS_CardinalityType
  <2> QED
    BY <1>2, <1>3, <1>9, <2>2, <2>4
<1>16. Heap!Free(list') \cap Heap!InUse(used') = {}
  BY <1>2, <1>9, <1>14
<1>17. Heap!Free(list') \cup Heap!InUse(used') = 0..(Heap!tail + covers' - 1)
  <2>1. Heap!Free(list) \cup Heap!InUse(used) = 0..(Heap!tail + covers - 1)
    BY DEF Heap!IInv
  <2> QED
    BY <1>3, <1>9, <1>10, <1>14, <2>1
<1>18. Heap!TypeOK'
  <2> HIDE DEF taken
  <2>1. DOMAIN used' = DOMAIN used \cup {b.at}
    BY <1>3 DEF WithUsed
  <2>2. used' \in [DOMAIN used' -> Nat \ {0}]
    <3>1. \A a \in DOMAIN used : used[a] \in Nat \ {0}
      BY <1>2
    <3>2. taken \in Nat \ {0}
      BY <1>7
    <3> QED
      BY <1>3, <2>1, <3>1, <3>2 DEF WithUsed
  <2>3. DOMAIN used' \subseteq Nat
    BY <1>2, <1>6, <2>1
  <2>4. lost' \in BOOLEAN
    BY <1>3
  <2> QED
    BY <1>2, <1>3, <1>9, <1>15, <2>2, <2>3, <2>4 DEF Heap!TypeOK, Heap!HeaderWords
<1> QED
  BY <1>9, <1>14, <1>15, <1>16, <1>17, <1>18, HeapCardinality DEF Heap!IInv

\* Giving one back.
LEMMA FreeKeeps ==
    ASSUME Heap!Assumption, Heap!IInv, NEW a \in DOMAIN used, Heap!heap_free(a)
    PROVE  Heap!IInv'
<1> DEFINE i == Heap!FirstAbove(a)
           e == [at |-> a, size |-> used[a]]
           l == Heap!InsertAt(list, i, e)
           W == Span(a, used[a])
<1>1. HeapWords \in Nat
  BY DEF Heap!Assumption
<1>2. /\ covers \in {0, 1} /\ list \in Seq(Heap!Block) /\ all_size \in Nat
      /\ DOMAIN used \subseteq Nat /\ used \in [DOMAIN used -> Nat \ {0}]
      /\ Heap!Sparse(list) /\ Heap!Apart(used) /\ lost \in BOOLEAN
      /\ Heap!Free(list) \cap Heap!InUse(used) = {}
      /\ all_size = Cardinality(Heap!Free(list))
  <2>1. Heap!TypeOK /\ covers \in {0, 1}
    BY DEF Heap!IInv, Heap!TypeOK, Heap!HeaderWords
  <2>2. /\ list \in Seq(Heap!Block) /\ all_size \in Nat /\ lost \in BOOLEAN
        /\ DOMAIN used \subseteq Nat /\ used \in [DOMAIN used -> Nat \ {0}]
    BY <2>1 DEF Heap!TypeOK
  <2>3. all_size = Cardinality(Heap!Free(list))
    BY HeapCardinality DEF Heap!IInv
  <2> QED
    BY <2>1, <2>2, <2>3 DEF Heap!IInv
<1>3. /\ covers' = covers /\ lost' = lost /\ all_size' = all_size + used[a]
      /\ list' = Heap!join(l, i)
      /\ used' = WithoutUsed(used, a)
  BY DEF Heap!heap_free, WithoutUsed
<1>4. a \in Nat /\ used[a] \in Nat /\ used[a] \in Nat \ {0}
  BY <1>2
<1>5. e \in Heap!Block /\ e.at = a /\ Heap!WordsOf(e) = W
  <2>1. e.at = a /\ e.size = used[a]
    OBVIOUS
  <2>2. e \in Heap!Block
    BY <1>4 DEF Heap!Block
  <2> HIDE DEF e
  <2>3. Heap!WordsOf(e) = W
    BY <1>4, <2>1, WordsAre
  <2> QED
    BY <2>1, <2>2, <2>3
<1> HIDE DEF e
<1>6. /\ Heap!InUse(used') = Heap!InUse(used) \ W /\ Heap!Apart(used')
      /\ W \subseteq Heap!InUse(used)
  BY <1>2, <1>3, UsedLess
<1>7. W \cap Heap!Free(list) = {}
  BY <1>2, <1>6
<1>8. /\ i \in 1..(Len(list) + 1)
      /\ \A p \in 1..Len(list) : /\ p < i => list[p].at < a
                                 /\ p >= i => a <= list[p].at
  <2> HIDE DEF i
  <2> QED
    BY <1>2, <1>4, FirstAboveIs DEF i
<1> HIDE DEF i, l
<1>9. /\ l \in Seq(Heap!Block) /\ i \in 1..Len(l) /\ Loose(l, {i - 1, i})
      /\ Heap!Free(l) = Heap!Free(list) \cup W
  <2>1. Heap!WordsOf(e) \cap Heap!Free(list) = {}
    BY <1>5, <1>7
  <2>2. \A p \in 1..Len(list) : (p < i => list[p].at < e.at) /\ (p >= i => e.at <= list[p].at)
    BY <1>5, <1>8
  <2>3. l = Heap!InsertAt(list, i, e)
    BY DEF l
  <2>4. /\ l \in Seq(Heap!Block) /\ i \in 1..Len(l) /\ Loose(l, {i - 1, i})
        /\ Heap!Free(l) = Heap!Free(list) \cup Heap!WordsOf(e)
    BY <1>2, <1>5, <1>8, <2>1, <2>2, <2>3, PlacedIsLoose
  <2> QED
    BY <1>5, <2>4
<1>10. /\ list' \in Seq(Heap!Block) /\ Heap!Sparse(list')
       /\ Heap!Free(list') = Heap!Free(list) \cup W
  <2>1. /\ list' \in Seq(Heap!Block) /\ Heap!Sparse(list')
        /\ Heap!Free(list') = Heap!Free(l)
    BY <1>3, <1>9, JoinIs
  <2> QED
    BY <1>9, <2>1
<1>11. all_size' = Cardinality(Heap!Free(list')) /\ all_size' \in Nat
  <2>1. IsFiniteSet(Heap!Free(list))
    BY <1>1, FreeIsFinite
  <2>2. Cardinality(Heap!Free(list) \cup W) = Cardinality(Heap!Free(list)) + used[a]
    BY <1>4, <1>7, <2>1, WordCounts
  <2>3. all_size + used[a] \in Nat
    BY <1>2, <1>4
  <2> QED
    BY <1>2, <1>3, <1>10, <2>2, <2>3
<1>12. Heap!Free(list') \cap Heap!InUse(used') = {}
  BY <1>2, <1>6, <1>10
<1>13. Heap!Free(list') \cup Heap!InUse(used') = 0..(Heap!tail + covers' - 1)
  <2>1. Heap!Free(list) \cup Heap!InUse(used) = 0..(Heap!tail + covers - 1)
    BY DEF Heap!IInv
  <2> QED
    BY <1>3, <1>6, <1>10, <2>1
<1>14. Heap!TypeOK'
  <2>1. DOMAIN used' = DOMAIN used \ {a}
    BY <1>3 DEF WithoutUsed
  <2>2. used' \in [DOMAIN used' -> Nat \ {0}]
    <3>1. \A x \in DOMAIN used : used[x] \in Nat \ {0}
      BY <1>2
    <3> QED
      BY <1>3, <2>1, <3>1 DEF WithoutUsed
  <2>3. DOMAIN used' \subseteq Nat
    BY <1>2, <2>1
  <2> QED
    BY <1>2, <1>3, <1>10, <1>11, <2>2, <2>3 DEF Heap!TypeOK, Heap!HeaderWords
<1> QED
  BY <1>6, <1>10, <1>11, <1>12, <1>13, <1>14, HeapCardinality DEF Heap!IInv

\* The inductive invariant of heap.c: the blocks of the list and those in use
\* tile the arena, the list in order of address with a gap after every block.
THEOREM HeapInvariant == Heap!Spec => []Heap!IInv
<1>1. Heap!Init => Heap!IInv
  BY HeapAssumption, HeapStarts
<1>2. Heap!IInv /\ [Heap!Next]_Heap!vars => Heap!IInv'
  <2> SUFFICES ASSUME Heap!IInv, [Heap!Next]_Heap!vars
               PROVE  Heap!IInv'
    OBVIOUS
  <2>1. CASE Heap!Next
    <3>1. ASSUME NEW r \in HeapRequests, Heap!heap_malloc(r)
          PROVE  Heap!IInv'
      BY <3>1, HeapAssumption, MallocKeeps
    <3>2. ASSUME NEW a \in DOMAIN used, Heap!heap_free(a)
          PROVE  Heap!IInv'
      BY <3>2, HeapAssumption, FreeKeeps
    <3> QED
      BY <2>1, <3>1, <3>2 DEF Heap!Next
  <2>2. CASE UNCHANGED Heap!vars
    BY <2>2 DEF Heap!vars, Heap!IInv, Heap!TypeOK
  <2> QED
    BY <2>1, <2>2
<1> QED
  BY <1>1, <1>2, PTL DEF Heap!Spec

\* So heap_malloc hands no word out twice, heap_free loses none and leaves no
\* two free blocks side by side, and all_size is what is free.
THEOREM ArenaIsTiled == Heap!Spec => []BlocksTileArena
<1>1. Heap!IInv => BlocksTileArena
  <2> SUFFICES ASSUME Heap!IInv
               PROVE  Heap!BlocksTileArena
    BY DEF BlocksTileArena
  <2>1. list \in Seq(Heap!Block) /\ Heap!Sparse(list)
    BY DEF Heap!IInv, Heap!TypeOK
  <2>2. /\ Len(list) \in Nat /\ DOMAIN list = 1..Len(list)
        /\ \A i \in 1..Len(list) : list[i].size \in Nat /\ list[i].size >= 1
    BY <2>1, BlockType
  <2>3. \A i \in 1..(Len(list) - 1) : Heap!Ends(list[i]) < list[i + 1].at
    <3> SUFFICES ASSUME NEW i \in 1..(Len(list) - 1)
                 PROVE  Heap!Ends(list[i]) < list[i + 1].at
      OBVIOUS
    <3>1. i \in DOMAIN list /\ i + 1 \in DOMAIN list /\ i < i + 1
      BY <2>2
    <3> QED
      BY <2>1, <3>1 DEF Heap!Sparse
  <2>4. \A i \in DOMAIN list : list[i].size >= Heap!HeaderWords
    BY <2>2 DEF Heap!HeaderWords
  <2> QED
    BY <2>3, <2>4 DEF Heap!IInv, Heap!BlocksTileArena
<1> QED
  BY <1>1, HeapInvariant, PTL
=============================================================================
