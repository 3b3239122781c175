---------------------------- MODULE KernelProofs ----------------------------
(***************************************************************************)
(* What the functions of schedule.c do to the kernel's trees, for any      *)
(* number of tasks, any clock width and any timing.                        *)
(***************************************************************************)
EXTENDS Kernel, RbTreeProofs

\* The kernel's own trees are well formed.
TreesOK(k) ==
    /\ NoTwice(k.ready) /\ NoTwice(k.sleep) /\ NoTwice(k.dead)
    /\ Ordered(k.ready, k.rkey) /\ Ordered(k.sleep, k.wake)

\* Everything but the ready tree and the request for a switch.
SameButReady(k, n) ==
    /\ n.now = k.now /\ n.cur = k.cur /\ n.dl = k.dl
    /\ n.sleep = k.sleep /\ n.wake = k.wake /\ n.dead = k.dead
    /\ n.switches = k.switches /\ n.preempt = k.preempt /\ n.isr = k.isr
    /\ n.waits = k.waits /\ n.ikey = k.ikey

\* Sets of tasks can be counted.
LEMMA TasksCount ==
    ASSUME IsFiniteSet(Tasks), NEW S \in SUBSET Tasks
    PROVE  IsFiniteSet(S) /\ Cardinality(S) \in Nat
BY FS_Subset, FS_CardinalityType

LEMMA WordType ==
    ASSUME NEW x \in Int
    PROVE  x % TickMod \in Ticks
BY WidthAssumption DEF Ticks

LEMMA PrioType ==
    ASSUME NEW k \in KernelState, NEW t \in Tasks
    PROVE  rt_prio_value(k, t) \in Ticks
<1>1. k.dl[t] \in Int /\ k.now \in Int
  BY WidthAssumption DEF KernelState, Ticks, Runnable
<1>2. (k.dl[t] - k.now) % TickMod \in Ticks
  BY <1>1, WordType
<1> QED
  BY <1>2, WidthAssumption DEF rt_prio_value, Signed, Ticks

\* A request for a switch changes nothing but the two flags, and pends the
\* switch exactly when the scheduler is not locked.
LEMMA RequestSwitch ==
    ASSUME NEW k \in KernelState
    PROVE  LET n == scheduler_request_switch(k)
           IN  /\ n \in KernelState
               /\ SameButReady(k, n)
               /\ n.ready = k.ready /\ n.rkey = k.rkey
               /\ n.corrupt = k.corrupt
               /\ k.preempt = 0 => n.pend /\ n.resched = k.resched
               /\ k.preempt # 0 => n.pend = k.pend /\ n.resched
BY DEF scheduler_request_switch, schedule, KernelState, SameButReady

\* Linking a task into the ready tree.  If the processor idles, a switch is
\* requested.
LEMMA ReadyAdd ==
    ASSUME NEW k \in KernelState, NEW t \in Tasks, TreesOK(k)
    PROVE  LET n == rt_ready_add(k, t)
           IN  /\ n \in KernelState
               /\ TreesOK(n)
               /\ Nodes(n.ready) = Nodes(k.ready) \cup {t}
               /\ SameButReady(k, n)
               /\ n.corrupt = k.corrupt
               /\ k.preempt # 0 => n.pend = k.pend
               /\ k.pend => n.pend
               /\ k.resched => n.resched
               /\ k.preempt = 0 => n.resched = k.resched
               /\ k.cur = NoTask => n.pend = k.pend
               /\ k.preempt = 0 /\ k.cur = Idle /\ t \notin Nodes(k.ready) => n.pend
<1> DEFINE key == [k.rkey EXCEPT ![t] = rt_prio_value(k, t)]
           new == [k EXCEPT !.rkey = key,
                            !.ready = rb_insert_node(k.ready, key, t)]
           n == rt_ready_add(k, t)
<1>1. CASE t \in Nodes(k.ready)
  <2>1. n = k
    BY <1>1 DEF rt_ready_add
  <2> QED
    BY <1>1, <2>1 DEF SameButReady
<1>2. CASE t \notin Nodes(k.ready)
  <2>1. k.ready \in Seq(Tasks) /\ k.rkey \in [Tasks -> Ticks]
    BY DEF KernelState
  <2>2. key \in [Tasks -> Ticks] /\ key \in [Tasks -> Int]
    BY <2>1, PrioType, WidthAssumption DEF Ticks
  <2>3. /\ rb_insert_node(k.ready, key, t) \in Seq(Tasks)
        /\ Nodes(rb_insert_node(k.ready, key, t)) = Nodes(k.ready) \cup {t}
        /\ NoTwice(rb_insert_node(k.ready, key, t))
    BY <1>2, <2>1, InsertNodes DEF TreesOK
  <2>4. Ordered(k.ready, key)
    <3>1. \A m \in Nodes(k.ready) : key[m] = k.rkey[m]
      BY <1>2, <2>1 DEF Nodes
    <3>2. Ordered(k.ready, k.rkey)
      BY DEF TreesOK
    <3> HIDE DEF key
    <3> QED
      BY <3>1, <3>2, OrderedSameKeys
  <2>5. Ordered(rb_insert_node(k.ready, key, t), key)
    BY <2>1, <2>2, <2>4, InsertOrdered
  <2> HIDE DEF key
  <2>6. /\ new \in KernelState /\ SameButReady(k, new)
        /\ new.ready = rb_insert_node(k.ready, key, t) /\ new.rkey = key
        /\ new.pend = k.pend /\ new.resched = k.resched
        /\ new.corrupt = k.corrupt
    BY <2>2, <2>3 DEF KernelState, SameButReady
  <2>7. n = IF k.cur # NoTask /\ sched_should_preempt(k, t, k.cur)
            THEN scheduler_request_switch(new) ELSE new
    BY <1>2 DEF rt_ready_add, key
  <2> HIDE DEF new, n
  <2>8. CASE k.cur # NoTask /\ sched_should_preempt(k, t, k.cur)
    <3>1. n = scheduler_request_switch(new)
      BY <2>7, <2>8
    <3>2. /\ n \in KernelState /\ SameButReady(new, n)
          /\ n.ready = new.ready /\ n.rkey = new.rkey /\ n.corrupt = new.corrupt
          /\ new.preempt = 0 => n.pend /\ n.resched = new.resched
          /\ new.preempt # 0 => n.pend = new.pend /\ n.resched
      BY <2>6, <3>1, RequestSwitch
    <3> QED
      BY <2>3, <2>5, <2>6, <2>8, <3>2 DEF SameButReady, TreesOK, n
  <2>9. CASE ~(k.cur # NoTask /\ sched_should_preempt(k, t, k.cur))
    <3>1. n = new
      BY <2>7, <2>9
    <3>2. k.cur # Idle
      BY <2>9, NameAssumption DEF sched_should_preempt
    <3> QED
      BY <2>3, <2>5, <2>6, <3>1, <3>2 DEF SameButReady, TreesOK, n
  <2> QED
    BY <2>8, <2>9
<1> QED
  BY <1>1, <1>2

\* Unlinking a task that is ready.
LEMMA ReadyRemove ==
    ASSUME NEW k \in KernelState, NEW t \in Nodes(k.ready), TreesOK(k)
    PROVE  LET n == rt_ready_remove(k, t)
           IN  /\ n \in KernelState
               /\ TreesOK(n)
               /\ Nodes(n.ready) = Nodes(k.ready) \ {t}
               /\ SameButReady(k, n)
               /\ n.pend = k.pend /\ n.resched = k.resched
               /\ n.corrupt = k.corrupt
<1> DEFINE n == rt_ready_remove(k, t)
           key == [k.rkey EXCEPT ![t] = 0]
           tree == rb_remove_node(k.ready, t)
<1>1. k.ready \in Seq(Tasks) /\ k.rkey \in [Tasks -> Ticks] /\ 0 \in Ticks
  BY WidthAssumption DEF KernelState, Ticks
<1>2. key \in [Tasks -> Ticks]
  BY <1>1
<1>3. /\ tree \in Seq(Tasks)
      /\ Nodes(tree) = Nodes(k.ready) \ {t}
      /\ NoTwice(tree)
  BY <1>1, RemoveNodes DEF TreesOK
<1>4. Ordered(tree, k.rkey)
  BY <1>1, RemoveOrdered DEF TreesOK
<1>5. \A m \in Nodes(tree) : key[m] = k.rkey[m]
  BY <1>1, <1>3
<1> HIDE DEF key, tree
<1>6. Ordered(tree, key)
  BY <1>4, <1>5, OrderedSameKeys
<1>7. n = [k EXCEPT !.ready = tree, !.rkey = key]
  BY DEF rt_ready_remove, tree, key, KernelState
<1> HIDE DEF n
<1>8. n \in KernelState /\ n.ready = tree /\ n.rkey = key
  BY <1>2, <1>3, <1>7 DEF KernelState
<1>9. /\ SameButReady(k, n)
      /\ n.pend = k.pend /\ n.resched = k.resched /\ n.corrupt = k.corrupt
  BY <1>7 DEF SameButReady, KernelState
<1> QED
  BY <1>3, <1>6, <1>8, <1>9 DEF TreesOK, SameButReady, n

\* Putting a task to sleep that is not asleep.
LEMMA RecordWakeTime ==
    ASSUME NEW k \in KernelState, NEW t \in Tasks, NEW d \in Nat,
           TreesOK(k), t \notin Nodes(k.sleep)
    PROVE  LET n == record_wake_time(k, t, d)
           IN  /\ n \in KernelState
               /\ TreesOK(n)
               /\ Nodes(n.sleep) = Nodes(k.sleep) \cup {t}
               /\ n = [k EXCEPT !.sleep = n.sleep, !.wake = n.wake]
<1> DEFINE n == record_wake_time(k, t, d)
           key == [k.wake EXCEPT ![t] = (k.now + d) % TickMod]
           tree == rb_insert_node(k.sleep, key, t)
<1>1. k.sleep \in Seq(Tasks) /\ k.wake \in [Tasks -> Ticks] /\ k.now \in Nat
  BY WidthAssumption DEF KernelState, Ticks
<1>2. (k.now + d) % TickMod \in Ticks
  BY <1>1, WordType
<1>3. key \in [Tasks -> Ticks] /\ key \in [Tasks -> Int]
  BY <1>1, <1>2, WidthAssumption DEF Ticks
<1>4. \A m \in Nodes(k.sleep) : key[m] = k.wake[m]
  BY <1>1 DEF Nodes
<1>5. Ordered(k.sleep, k.wake)
  BY DEF TreesOK
<1>6. n = [k EXCEPT !.wake = key, !.sleep = tree]
  BY DEF record_wake_time
<1> HIDE DEF key, n
<1>7. Ordered(k.sleep, key)
  BY <1>4, <1>5, OrderedSameKeys
<1>8. Ordered(tree, key)
  BY <1>1, <1>3, <1>7, InsertOrdered
<1>9. /\ tree \in Seq(Tasks)
      /\ Nodes(tree) = Nodes(k.sleep) \cup {t}
      /\ NoTwice(tree)
  BY <1>1, InsertNodes DEF TreesOK
<1> HIDE DEF tree
<1>10. n \in KernelState /\ n.sleep = tree /\ n.wake = key
  BY <1>3, <1>6, <1>9 DEF KernelState
<1>11. n = [k EXCEPT !.sleep = n.sleep, !.wake = n.wake]
  BY <1>6, <1>10 DEF KernelState
<1>12. n.ready = k.ready /\ n.rkey = k.rkey /\ n.dead = k.dead
  BY <1>6 DEF KernelState
<1> QED
  BY <1>8, <1>9, <1>10, <1>11, <1>12 DEF TreesOK, n

\* Filling in a TCB sets its deadline and nothing else.
LEMMA NewTcb ==
    ASSUME NEW k \in KernelState, TreesOK(k), NEW t \in Tasks
    PROVE  LET n == new_tcb(k, t)
           IN  /\ n \in KernelState /\ TreesOK(n)
               /\ n = [k EXCEPT !.dl = n.dl]
               /\ \A u \in Tasks \ {t} : n.dl[u] = k.dl[u]
               /\ n.now = k.now /\ n.isr = k.isr
               /\ n.sleep = k.sleep /\ n.wake = k.wake
<1> DEFINE n == new_tcb(k, t)
<1>1. k.now \in Int /\ Deadline[t] \in Int
  BY WidthAssumption, TimingAssumption DEF KernelState, Ticks
<1>2. (k.now + Deadline[t]) % TickMod \in Ticks
  BY <1>1, WordType
<1>3. Never \in Ticks
  BY WidthAssumption DEF Never, Ticks
<1>4. /\ n \in KernelState /\ n = [k EXCEPT !.dl = n.dl]
      /\ \A u \in Tasks \ {t} : n.dl[u] = k.dl[u]
  BY <1>2, <1>3 DEF new_tcb, KernelState, Runnable
<1> HIDE DEF n
<1>5. /\ n.ready = k.ready /\ n.rkey = k.rkey /\ n.sleep = k.sleep
      /\ n.wake = k.wake /\ n.dead = k.dead
      /\ n.now = k.now /\ n.isr = k.isr
  BY <1>4 DEF KernelState
<1>6. TreesOK(n)
  BY <1>5 DEF TreesOK
<1> QED
  BY <1>4, <1>5, <1>6 DEF n

\* Taking a sleeper out of its tree.
LEMMA DelayRemove ==
    ASSUME NEW k \in KernelState, NEW t \in Nodes(k.sleep), TreesOK(k)
    PROVE  LET n == delay_adt_remove(k, t)
           IN  /\ n \in KernelState
               /\ TreesOK(n)
               /\ Nodes(n.sleep) = Nodes(k.sleep) \ {t}
               /\ n = [k EXCEPT !.sleep = n.sleep, !.wake = n.wake]
<1> DEFINE n == delay_adt_remove(k, t)
           key == [k.wake EXCEPT ![t] = 0]
           tree == rb_remove_node(k.sleep, t)
<1>1. k.sleep \in Seq(Tasks) /\ k.wake \in [Tasks -> Ticks] /\ 0 \in Ticks
  BY WidthAssumption DEF KernelState, Ticks
<1>2. key \in [Tasks -> Ticks]
  BY <1>1
<1>3. /\ tree \in Seq(Tasks)
      /\ Nodes(tree) = Nodes(k.sleep) \ {t}
      /\ NoTwice(tree)
  BY <1>1, RemoveNodes DEF TreesOK
<1>4. Ordered(tree, k.wake)
  BY <1>1, RemoveOrdered DEF TreesOK
<1>5. \A m \in Nodes(tree) : key[m] = k.wake[m]
  BY <1>1, <1>3
<1> HIDE DEF key, tree
<1>6. Ordered(tree, key)
  BY <1>4, <1>5, OrderedSameKeys
<1>7. n = [k EXCEPT !.sleep = tree, !.wake = key]
  BY DEF delay_adt_remove, tree, key, KernelState
<1> HIDE DEF n
<1>8. n \in KernelState /\ n.sleep = tree /\ n.wake = key
  BY <1>2, <1>3, <1>7 DEF KernelState
<1>9. n = [k EXCEPT !.sleep = n.sleep, !.wake = n.wake]
  BY <1>7, <1>8 DEF KernelState
<1>10. n.ready = k.ready /\ n.rkey = k.rkey /\ n.dead = k.dead
  BY <1>7 DEF KernelState
<1> QED
  BY <1>3, <1>6, <1>8, <1>9, <1>10 DEF TreesOK, n

\* Everything the trees of tasks do not hold.
SameButTrees(k, n) ==
    /\ n.now = k.now /\ n.cur = k.cur /\ n.switches = k.switches
    /\ n.preempt = k.preempt /\ n.isr = k.isr
    /\ n.waits = k.waits /\ n.ikey = k.ikey

\* task_delay of the running task, without the scheduler lock: either nothing,
\* or the task moves from the ready tree to the sleepers and a switch is pending.
LEMMA TaskDelay ==
    ASSUME NEW k \in KernelState, NEW d \in Nat, TreesOK(k), k.preempt = 0,
           k.cur \in Nodes(k.ready), k.cur \notin Nodes(k.sleep)
    PROVE  LET n == task_delay(k, d)
           IN  \/ n = k
               \/ /\ n \in KernelState
                  /\ TreesOK(n)
                  /\ Nodes(n.ready) = Nodes(k.ready) \ {k.cur}
                  /\ Nodes(n.sleep) = Nodes(k.sleep) \cup {k.cur}
                  /\ n.dead = k.dead
                  /\ SameButTrees(k, n)
                  /\ n.pend /\ n.resched = k.resched
                  /\ n.corrupt = k.corrupt
<1> DEFINE n == task_delay(k, d)
           self == k.cur
           k1 == rt_ready_remove(k, self)
           ticks == d % DelayMod
           k2 == record_wake_time(k1, self, ticks)
<1>1. CASE d % DelayMod = 0
  BY <1>1 DEF task_delay
<1>2. CASE d % DelayMod # 0
  <2>1. ticks \in Nat
    BY WidthAssumption
  <2>2. self \in Tasks
    BY DEF KernelState, Nodes
  <2>3. /\ k1 \in KernelState /\ TreesOK(k1) /\ SameButReady(k, k1)
        /\ Nodes(k1.ready) = Nodes(k.ready) \ {self}
        /\ k1.pend = k.pend /\ k1.resched = k.resched
        /\ k1.corrupt = k.corrupt
    BY ReadyRemove
  <2> HIDE DEF k1, ticks, self
  <2>4. k1.sleep = k.sleep /\ self \notin Nodes(k1.sleep)
    BY <2>3 DEF SameButReady, self
  <2>5. /\ k2 \in KernelState /\ TreesOK(k2)
        /\ Nodes(k2.sleep) = Nodes(k1.sleep) \cup {self}
        /\ k2 = [k1 EXCEPT !.sleep = k2.sleep, !.wake = k2.wake]
    BY <2>1, <2>2, <2>3, <2>4, RecordWakeTime, ZenonT(40)
  <2>6. n = scheduler_request_switch(k2)
    BY <1>2 DEF task_delay, k1, ticks, self
  <2> HIDE DEF k2, n
  <2>7. /\ k2.preempt = 0 /\ k2.ready = k1.ready /\ k2.rkey = k1.rkey
        /\ k2.dead = k1.dead /\ SameButTrees(k1, k2)
        /\ k2.pend = k1.pend /\ k2.resched = k1.resched
        /\ k2.corrupt = k1.corrupt
    BY <2>3, <2>5 DEF KernelState, SameButReady, SameButTrees
  <2>8. /\ n \in KernelState /\ SameButReady(k2, n)
        /\ n.ready = k2.ready /\ n.rkey = k2.rkey /\ n.corrupt = k2.corrupt
        /\ n.pend /\ n.resched = k2.resched
    BY <2>5, <2>6, <2>7, RequestSwitch
  <2>9. TreesOK(n)
    BY <2>5, <2>8 DEF TreesOK, SameButReady
  <2>10. SameButTrees(k, n)
    BY <2>3, <2>7, <2>8 DEF SameButReady, SameButTrees
  <2> QED
    BY <2>3, <2>4, <2>5, <2>7, <2>8, <2>9, <2>10 DEF SameButReady, n, self
<1> QED
  BY <1>1, <1>2

\* One turn of the loop of check_ticks: the first sleeper becomes ready.
LEMMA WakeFirst ==
    ASSUME NEW k \in KernelState, TreesOK(k), k.sleep # <<>>,
           Nodes(k.ready) \cap Nodes(k.sleep) = {}
    PROVE  LET n == wake_first(k)
               t == first_node(k.sleep)
           IN  /\ n \in KernelState
               /\ TreesOK(n)
               /\ t \in Nodes(k.sleep)
               /\ Nodes(n.ready) = Nodes(k.ready) \cup {t}
               /\ Nodes(n.sleep) = Nodes(k.sleep) \ {t}
               /\ n.dead = k.dead
               /\ SameButTrees(k, n)
               /\ n.corrupt = k.corrupt
               /\ k.preempt # 0 => n.pend = k.pend
               /\ k.pend => n.pend
               /\ k.resched => n.resched
               /\ k.preempt = 0 => n.resched = k.resched
               /\ k.preempt = 0 /\ k.cur = Idle => n.pend
               /\ k.cur = NoTask => n.pend = k.pend
<1> DEFINE n == wake_first(k)
           t == first_node(k.sleep)
           k1 == delay_adt_remove(k, t)
           k2 == IF Deadline[t] # 0 /\ Period[t] # 0
                 THEN [k1 EXCEPT !.dl[t] = (k.now + Deadline[t]) % TickMod]
                 ELSE k1
<1>1. k.sleep \in Seq(Tasks) /\ k.now \in Int
  BY WidthAssumption DEF KernelState, Ticks
<1>2. t \in Nodes(k.sleep) /\ t \in Tasks
  BY <1>1, EndsAreNodes
<1> HIDE DEF t
<1>3. /\ k1 \in KernelState /\ TreesOK(k1)
      /\ Nodes(k1.sleep) = Nodes(k.sleep) \ {t}
      /\ k1 = [k EXCEPT !.sleep = k1.sleep, !.wake = k1.wake]
  BY <1>2, DelayRemove
<1> HIDE DEF k1
<1>4. (k.now + Deadline[t]) % TickMod \in Ticks
  <2>1. Deadline[t] \in Int
    BY <1>2, TimingAssumption
  <2> QED
    BY <1>1, <2>1, WordType
<1>5. k2 \in KernelState /\ k2 = [k1 EXCEPT !.dl = k2.dl]
  <2>1. t \in Runnable
    BY <1>2 DEF Runnable
  <2> QED
    BY <1>3, <1>4, <2>1 DEF KernelState
<1>6. n = rt_ready_add(k2, t)
  BY DEF wake_first, task_adt_add, t, k1
<1> HIDE DEF k2, n
<1>7. /\ k2.ready = k.ready /\ k2.rkey = k.rkey /\ k2.dead = k.dead
      /\ k2.sleep = k1.sleep /\ k2.wake = k1.wake
      /\ k2.pend = k.pend /\ k2.resched = k.resched
      /\ k2.corrupt = k.corrupt /\ SameButTrees(k, k2)
  BY <1>3, <1>5, ZenonT(40) DEF KernelState, SameButTrees
<1>8. TreesOK(k2)
  BY <1>3, <1>5, <1>7 DEF TreesOK, KernelState
<1>9. t \notin Nodes(k2.ready)
  BY <1>2, <1>7
<1>10. /\ n \in KernelState /\ TreesOK(n)
       /\ Nodes(n.ready) = Nodes(k2.ready) \cup {t}
       /\ SameButReady(k2, n)
       /\ n.corrupt = k2.corrupt
       /\ k2.preempt # 0 => n.pend = k2.pend
       /\ k2.pend => n.pend
       /\ k2.resched => n.resched
       /\ k2.preempt = 0 => n.resched = k2.resched
       /\ k2.cur = NoTask => n.pend = k2.pend
       /\ k2.preempt = 0 /\ k2.cur = Idle => n.pend
  BY <1>2, <1>5, <1>6, <1>8, <1>9, ReadyAdd
<1> QED
  BY <1>2, <1>3, <1>7, <1>10 DEF SameButReady, SameButTrees, n, t

\* A ready task that is ahead of the running one by deadline and by ready key
\* has made a request for a switch.
Eager(k) ==
    \A t \in Nodes(k.ready) :
        k.cur \in Nodes(k.ready) /\ k.dl[t] < k.dl[k.cur]
                               /\ k.rkey[t] < k.rkey[k.cur]
            => k.pend \/ k.resched

\* Linking a task makes the request that its deadline calls for.
LEMMA AddEager ==
    ASSUME NEW k \in KernelState, NEW t \in Tasks, TreesOK(k), Eager(k),
           k.pend \/ t # k.cur
    PROVE  Eager(rt_ready_add(k, t))
<1> DEFINE n == rt_ready_add(k, t)
           key == [k.rkey EXCEPT ![t] = rt_prio_value(k, t)]
           new == [k EXCEPT !.rkey = key,
                            !.ready = rb_insert_node(k.ready, key, t)]
<1>1. CASE t \in Nodes(k.ready)
  BY <1>1 DEF rt_ready_add
<1>2. CASE t \notin Nodes(k.ready)
  <2>1. /\ n \in KernelState
        /\ Nodes(n.ready) = Nodes(k.ready) \cup {t}
        /\ SameButReady(k, n)
        /\ k.pend => n.pend
        /\ k.resched => n.resched
    BY ReadyAdd
  <2>2. CASE k.pend
    BY <2>1, <2>2 DEF Eager
  <2>3. CASE ~k.pend
    <3>1. t # k.cur
      BY <2>3
    <3>2. n = IF k.cur # NoTask /\ sched_should_preempt(k, t, k.cur)
              THEN scheduler_request_switch(new) ELSE new
      BY <1>2 DEF rt_ready_add
    <3>3. k.rkey \in [Tasks -> Ticks]
      BY DEF KernelState
    <3>4. \A u \in Tasks \ {t} : key[u] = k.rkey[u]
      BY <3>3
    <3> HIDE DEF key
    <3>5. /\ new.rkey = key
          /\ new.preempt = k.preempt /\ new.pend = k.pend
          /\ new.resched = k.resched
      BY DEF KernelState
    <3> HIDE DEF new
    <3>6. scheduler_request_switch(new).rkey = key
          \/ scheduler_request_switch(new).rkey = new.rkey
      BY DEF scheduler_request_switch, schedule
    <3>7. n.rkey = key
      BY <3>2, <3>5, <3>6
    <3>8. ASSUME k.cur \in Tasks, k.dl[t] < k.dl[k.cur]
          PROVE  n.pend \/ n.resched
      <4>1. n = scheduler_request_switch(new)
        BY <3>2, <3>8, NameAssumption DEF sched_should_preempt
      <4>2. n \in KernelState
        BY <2>1
      <4> HIDE DEF n
      <4> QED
        BY <4>1, <4>2 DEF scheduler_request_switch, schedule, KernelState
    <3> HIDE DEF n
    <3>9. Nodes(k.ready) \subseteq Tasks
      BY DEF KernelState, Nodes
    <3> SUFFICES ASSUME NEW u \in Nodes(n.ready), n.cur \in Nodes(n.ready),
                        n.dl[u] < n.dl[n.cur], n.rkey[u] < n.rkey[n.cur]
                 PROVE  n.pend \/ n.resched
      BY DEF Eager, n
    <3>10. n.cur = k.cur /\ n.dl = k.dl /\ k.cur \in Nodes(k.ready)
      BY <2>1, <3>1 DEF SameButReady
    <3>11. CASE u = t
      BY <3>8, <3>9, <3>10, <3>11
    <3>12. CASE u # t
      <4>1. u \in Nodes(k.ready) /\ n.rkey[u] = k.rkey[u]
                                 /\ n.rkey[k.cur] = k.rkey[k.cur]
        BY <2>1, <3>1, <3>4, <3>7, <3>9, <3>10, <3>12
      <4> QED
        BY <2>1, <3>10, <4>1 DEF Eager
    <3> QED
      BY <3>11, <3>12
  <2> QED
    BY <2>2, <2>3
<1> QED
  BY <1>1, <1>2

\* The loop of check_ticks resets the key of the task it wakes; the keys of
\* those it leaves asleep stay.
LEMMA WakeKeys ==
    ASSUME NEW k \in KernelState, TreesOK(k), k.sleep # <<>>,
           Nodes(k.ready) \cap Nodes(k.sleep) = {}
    PROVE  LET n == wake_first(k)
           IN  \A u \in Nodes(n.sleep) : n.wake[u] = k.wake[u]
<1> DEFINE n == wake_first(k)
           t == first_node(k.sleep)
           k1 == delay_adt_remove(k, t)
           k2 == IF Deadline[t] # 0 /\ Period[t] # 0
                 THEN [k1 EXCEPT !.dl[t] = (k.now + Deadline[t]) % TickMod]
                 ELSE k1
<1>1. k.sleep \in Seq(Tasks) /\ k.wake \in [Tasks -> Ticks]
  BY DEF KernelState
<1>2. t \in Nodes(k.sleep)
  BY <1>1, EndsAreNodes
<1>3. Nodes(n.sleep) = Nodes(k.sleep) \ {t}
  BY WakeFirst
<1>4. n = rt_ready_add(k2, t)
  BY DEF wake_first, task_adt_add
<1> HIDE DEF t, n
<1>5. k1.wake = [k.wake EXCEPT ![t] = 0]
  BY <1>2 DEF delay_adt_remove, KernelState
<1> HIDE DEF k1
<1>6. k2.wake = k1.wake
  OBVIOUS
<1> HIDE DEF k2
<1>7. n.wake = k2.wake
  BY <1>4 DEF rt_ready_add, scheduler_request_switch, schedule
<1>8. \A u \in Tasks \ {t} : n.wake[u] = k.wake[u]
  BY <1>1, <1>5, <1>6, <1>7
<1>9. Nodes(k.sleep) \subseteq Tasks
  BY <1>1 DEF Nodes
<1> QED
  BY <1>3, <1>8, <1>9 DEF n, t

\* So does the loop of check_ticks, also for a task whose deadline it renews.
LEMMA WakeEager ==
    ASSUME NEW k \in KernelState, TreesOK(k), k.sleep # <<>>, Eager(k),
           Nodes(k.ready) \cap Nodes(k.sleep) = {},
           k.pend \/ k.cur \notin Nodes(k.sleep)
    PROVE  Eager(wake_first(k))
<1> DEFINE n == wake_first(k)
           t == first_node(k.sleep)
           k1 == delay_adt_remove(k, t)
           k2 == IF Deadline[t] # 0 /\ Period[t] # 0
                 THEN [k1 EXCEPT !.dl[t] = (k.now + Deadline[t]) % TickMod]
                 ELSE k1
<1>1. k.sleep \in Seq(Tasks) /\ k.now \in Int
  BY WidthAssumption DEF KernelState, Ticks
<1>2. t \in Nodes(k.sleep) /\ t \in Tasks
  BY <1>1, EndsAreNodes
<1> HIDE DEF t
<1>3. /\ k1 \in KernelState /\ TreesOK(k1)
      /\ k1 = [k EXCEPT !.sleep = k1.sleep, !.wake = k1.wake]
  BY <1>2, DelayRemove
<1> HIDE DEF k1
<1>4. /\ k1.dl = k.dl /\ k1.ready = k.ready
      /\ k1.rkey = k.rkey /\ k1.cur = k.cur /\ k1.pend = k.pend
      /\ k1.resched = k.resched
  BY <1>3 DEF KernelState
<1>5. (k.now + Deadline[t]) % TickMod \in Ticks
  <2>1. Deadline[t] \in Int
    BY <1>2, TimingAssumption
  <2> QED
    BY <1>1, <2>1, WordType
<1>6. /\ k2 \in KernelState /\ k2 = [k1 EXCEPT !.dl = k2.dl]
      /\ \A u \in Runnable \ {t} : k2.dl[u] = k1.dl[u]
  <2>1. t \in Runnable
    BY <1>2 DEF Runnable
  <2> QED
    BY <1>3, <1>5, <2>1 DEF KernelState
<1>7. n = rt_ready_add(k2, t)
  BY DEF wake_first, task_adt_add, t, k1
<1> HIDE DEF k2, n
<1>8. /\ k2.ready = k1.ready /\ k2.rkey = k1.rkey /\ k2.cur = k1.cur
      /\ k2.sleep = k1.sleep /\ k2.wake = k1.wake /\ k2.dead = k1.dead
      /\ k2.pend = k1.pend /\ k2.resched = k1.resched
  BY <1>3, <1>6 DEF KernelState
<1>9. TreesOK(k2)
  BY <1>3, <1>8 DEF TreesOK
<1>10. Nodes(k.ready) \subseteq Runnable \ {t}
  <2>1. Nodes(k.ready) \subseteq Tasks
    BY DEF KernelState, Nodes
  <2> QED
    BY <1>2, <2>1 DEF Runnable
<1>11. Eager(k2)
  BY <1>4, <1>6, <1>8, <1>10 DEF Eager
<1>12. k2.pend \/ t # k2.cur
  BY <1>2, <1>4, <1>8
<1> QED
  BY <1>2, <1>6, <1>7, <1>9, <1>11, <1>12, AddEager DEF n

\* The key of a task that goes to sleep is the tick it asks for; the others'
\* keys stay.
LEMMA DelayKeys ==
    ASSUME NEW k \in KernelState, NEW d \in Nat, TreesOK(k),
           k.cur \in Nodes(k.ready), k.cur \notin Nodes(k.sleep),
           d % DelayMod # 0
    PROVE  LET n == task_delay(k, d)
           IN  n.wake = [k.wake EXCEPT
                            ![k.cur] = (k.now + (d % DelayMod)) % TickMod]
<1> DEFINE n == task_delay(k, d)
           self == k.cur
           k1 == rt_ready_remove(k, self)
           ticks == d % DelayMod
           k2 == record_wake_time(k1, self, ticks)
<1>1. n = scheduler_request_switch(k2)
  BY DEF task_delay
<1>2. k1 \in KernelState /\ SameButReady(k, k1)
  BY ReadyRemove
<1> HIDE DEF k1, ticks
<1>3. k2.wake = [k.wake EXCEPT ![self] = (k.now + ticks) % TickMod]
  BY <1>2 DEF record_wake_time, SameButReady, KernelState
<1> HIDE DEF k2, n
<1>4. n.wake = k2.wake
  BY <1>1 DEF scheduler_request_switch, schedule
<1> QED
  BY <1>3, <1>4 DEF n, ticks

\* The critical section of task_delete: the task moves to the deleted ones.
LEMMA MoveToDead ==
    ASSUME NEW k \in KernelState, NEW t \in Nodes(k.ready), TreesOK(k),
           t \notin Nodes(k.dead)
    PROVE  LET n == move_to_dead(k, t)
           IN  /\ n \in KernelState
               /\ TreesOK(n)
               /\ Nodes(n.ready) = Nodes(k.ready) \ {t}
               /\ Nodes(n.dead) = Nodes(k.dead) \cup {t}
               /\ n.sleep = k.sleep
               /\ SameButTrees(k, n)
               /\ n.pend = k.pend /\ n.resched = k.resched
               /\ n.corrupt = k.corrupt
<1> DEFINE n == move_to_dead(k, t)
           k1 == rt_ready_remove(k, t)
           tree == rb_insert_node(k1.dead, k1.rkey, t)
<1>1. /\ k1 \in KernelState /\ TreesOK(k1) /\ SameButReady(k, k1)
      /\ Nodes(k1.ready) = Nodes(k.ready) \ {t}
      /\ k1.pend = k.pend /\ k1.resched = k.resched /\ k1.corrupt = k.corrupt
  BY ReadyRemove
<1>2. n = [k1 EXCEPT !.dead = tree]
  BY DEF move_to_dead
<1> HIDE DEF k1, n
<1>3. t \in Tasks /\ k1.dead \in Seq(Tasks) /\ k1.dead = k.dead
  BY <1>1 DEF KernelState, SameButReady, Nodes
<1>4. /\ tree \in Seq(Tasks) /\ Nodes(tree) = Nodes(k.dead) \cup {t}
      /\ NoTwice(tree)
  BY <1>1, <1>3, InsertNodes DEF TreesOK
<1> HIDE DEF tree
<1>5. n \in KernelState /\ n.dead = tree /\ SameButTrees(k1, n)
  BY <1>1, <1>2, <1>4 DEF KernelState, SameButTrees
<1>6. /\ n.ready = k1.ready /\ n.rkey = k1.rkey
      /\ n.sleep = k1.sleep /\ n.wake = k1.wake
      /\ n.pend = k1.pend /\ n.resched = k1.resched /\ n.corrupt = k1.corrupt
  BY <1>1, <1>2 DEF KernelState
<1> QED
  BY <1>1, <1>4, <1>5, <1>6 DEF TreesOK, SameButReady, SameButTrees, n

\* The idle task frees the last of the deleted tasks.
LEMMA TaskFree ==
    ASSUME NEW k \in KernelState, TreesOK(k), k.dead # <<>>
    PROVE  LET n == task_free(k)
               t == rb_last(k.dead)
           IN  /\ n \in KernelState
               /\ TreesOK(n)
               /\ t \in Nodes(k.dead) /\ t \in Tasks
               /\ Nodes(n.dead) = Nodes(k.dead) \ {t}
               /\ n = [k EXCEPT !.dead = n.dead]
<1> DEFINE n == task_free(k)
           t == rb_last(k.dead)
           tree == rb_remove_node(k.dead, t)
<1>1. k.dead \in Seq(Tasks)
  BY DEF KernelState
<1>2. t \in Nodes(k.dead) /\ t \in Tasks
  BY <1>1, EndsAreNodes
<1>3. tree \in Seq(Tasks) /\ Nodes(tree) = Nodes(k.dead) \ {t} /\ NoTwice(tree)
  BY <1>1, <1>2, RemoveNodes DEF TreesOK
<1>4. n = [k EXCEPT !.dead = tree]
  BY DEF task_free
<1> HIDE DEF tree, n
<1>5. n \in KernelState /\ n.dead = tree
  BY <1>3, <1>4 DEF KernelState
<1>6. /\ n.ready = k.ready /\ n.rkey = k.rkey
      /\ n.sleep = k.sleep /\ n.wake = k.wake
  BY <1>4 DEF KernelState
<1> QED
  BY <1>2, <1>3, <1>4, <1>5, <1>6 DEF TreesOK, n

\* PendSV gives the processor to a ready task, or to the idle task when there
\* is none.
LEMMA SwitchContext ==
    ASSUME NEW k \in KernelState
    PROVE  LET n == task_switch_context(k)
           IN  /\ n \in KernelState
               /\ n = [k EXCEPT !.switches = n.switches, !.cur = n.cur,
                                !.pend = FALSE]
               /\ n.cur \in Runnable
               /\ n.cur \in Tasks => n.cur \in Nodes(k.ready)
               /\ n.cur = Idle => k.ready = <<>>
<1> DEFINE n == task_switch_context(k)
<1>1. k.ready \in Seq(Tasks) /\ k.switches \in Int
  BY DEF KernelState
<1>2. (k.switches + 1) % SwitchMod \in 0..(SwitchMod - 1)
  BY <1>1, WidthAssumption
<1>3. k.ready # <<>> => /\ first_node(k.ready) \in Nodes(k.ready)
                        /\ first_node(k.ready) \in Tasks
  BY <1>1, EndsAreNodes
<1> QED
  BY <1>2, <1>3, NameAssumption DEF task_switch_context, KernelState, Runnable

\* The switch takes the first of the ready tree: nobody is ahead of it by key.
LEMMA SwitchEager ==
    ASSUME NEW k \in KernelState, TreesOK(k)
    PROVE  Eager(task_switch_context(k))
<1> DEFINE n == task_switch_context(k)
<1>1. /\ n = [k EXCEPT !.switches = n.switches, !.cur = n.cur, !.pend = FALSE]
      /\ n.cur = IF k.ready # <<>> THEN first_node(k.ready) ELSE Idle
  <2>1. n.cur = IF k.ready # <<>> THEN first_node(k.ready) ELSE Idle
    BY DEF task_switch_context, KernelState
  <2> QED
    BY <2>1, SwitchContext
<1> HIDE DEF n
<1>2. n.ready = k.ready /\ n.rkey = k.rkey
  BY <1>1 DEF KernelState
<1>3. k.ready \in Seq(Tasks) /\ k.rkey \in [Tasks -> Int]
  BY WidthAssumption DEF KernelState, Ticks
<1>4. Nodes(k.ready) \subseteq Tasks /\ Ordered(k.ready, k.rkey)
  BY <1>3 DEF Nodes, TreesOK
<1> SUFFICES ASSUME NEW u \in Nodes(k.ready), n.cur \in Nodes(k.ready)
             PROVE  ~(k.rkey[u] < k.rkey[n.cur])
  BY <1>2 DEF Eager, n
<1>5. n.cur = first_node(k.ready)
  BY <1>1, <1>4, NameAssumption
<1>6. k.rkey[first_node(k.ready)] <= k.rkey[u]
  BY <1>3, <1>4, FirstIsLeast
<1>7. k.rkey[u] \in Int /\ k.rkey[n.cur] \in Int
  BY <1>3, <1>4
<1> QED
  BY <1>5, <1>6, <1>7
-----------------------------------------------------------------------------
(***************************************************************************)
(* What the kernel does to the tasks that wait for objects and to those    *)
(* that are ready or asleep, in any state of the right type: also one in   *)
(* which tasks are asleep and ready at once, as the objects' code allows.  *)
(***************************************************************************)

\* The tasks the scheduler will come back to.
Present(k) == Nodes(k.ready) \cup Nodes(k.sleep)

\* The step leaves the wait trees alone and loses no task.
Carries(k, n) ==
    /\ n \in KernelState
    /\ n.waits = k.waits
    /\ Present(k) \subseteq Present(n)

LEMMA CarriesTwice ==
    ASSUME NEW k, NEW m, NEW n, Carries(k, m), Carries(m, n)
    PROVE  Carries(k, n)
BY DEF Carries

\* Whatever a tree looks like, unlinking a node of it loses no other node.
LEMMA RemoveKeeps ==
    ASSUME NEW S, NEW tree \in Seq(S), NEW n \in Nodes(tree)
    PROVE  /\ rb_remove_node(tree, n) \in Seq(S)
           /\ Nodes(tree) \ {n} \subseteq Nodes(rb_remove_node(tree, n))
<1> DEFINE p == CHOOSE i \in DOMAIN tree : tree[i] = n
           new == rb_remove_node(tree, n)
           L == Len(tree)
<1>1. L \in Nat /\ DOMAIN tree = 1..L
  OBVIOUS
<1>2. p \in 1..L /\ tree[p] = n
  <2>1. \E i \in DOMAIN tree : tree[i] = n
    BY DEF Nodes
  <2> QED
    BY <1>1, <2>1
<1>3. new = [i \in 1..(L - 1) |-> IF i < p THEN tree[i] ELSE tree[i + 1]]
  BY DEF rb_remove_node
<1> HIDE DEF p, new
<1>4. L - 1 \in Nat /\ DOMAIN new = 1..(L - 1)
  BY <1>1, <1>2, <1>3
<1>5. new \in Seq(S)
  <2>1. \A i \in 1..(L - 1) : new[i] \in S
    BY <1>1, <1>2, <1>3
  <2> QED
    BY <1>3, <1>4, <2>1
<1>6. \A i \in 1..L : i # p => tree[i] \in Nodes(new)
  <2> SUFFICES ASSUME NEW i \in 1..L, i # p PROVE tree[i] \in Nodes(new)
    OBVIOUS
  <2> DEFINE j == IF i < p THEN i ELSE i - 1
  <2>1. j \in 1..(L - 1) /\ new[j] = tree[i]
    BY <1>1, <1>2, <1>3
  <2> QED
    BY <1>4, <2>1 DEF Nodes
<1>7. Nodes(tree) \ {n} \subseteq Nodes(new)
  BY <1>1, <1>2, <1>6 DEF Nodes
<1> QED
  BY <1>5, <1>7 DEF new

LEMMA CorruptedCarries ==
    ASSUME NEW k \in KernelState
    PROVE  /\ Carries(k, corrupted(k))
           /\ corrupted(k).cur = k.cur
           /\ corrupted(k).ready = k.ready /\ corrupted(k).sleep = k.sleep
BY DEF corrupted, KernelState, Carries, Present

LEMMA RequestCarries ==
    ASSUME NEW k \in KernelState
    PROVE  /\ Carries(k, scheduler_request_switch(k))
           /\ SameButReady(k, scheduler_request_switch(k))
BY DEF scheduler_request_switch, schedule, KernelState, Carries, Present,
       SameButReady

\* A task that is made ready is ready.
LEMMA AddCarries ==
    ASSUME NEW k \in KernelState, NEW t \in Tasks
    PROVE  /\ Carries(k, task_adt_add(k, t))
           /\ t \in Present(task_adt_add(k, t))
           /\ SameButReady(k, task_adt_add(k, t))
<1> DEFINE key == [k.rkey EXCEPT ![t] = rt_prio_value(k, t)]
           tree == rb_insert_node(k.ready, key, t)
           new == [k EXCEPT !.rkey = key, !.ready = tree]
           n == task_adt_add(k, t)
<1>1. CASE t \in Nodes(k.ready)
  <2>1. n = k
    BY <1>1 DEF task_adt_add, rt_ready_add
  <2> QED
    BY <1>1, <2>1 DEF Carries, Present, SameButReady
<1>2. CASE t \notin Nodes(k.ready)
  <2>1. k.ready \in Seq(Tasks) /\ k.rkey \in [Tasks -> Ticks]
    BY DEF KernelState
  <2>2. key \in [Tasks -> Ticks]
    BY <2>1, PrioType
  <2> HIDE DEF key
  <2>3. tree \in Seq(Tasks) /\ Nodes(tree) = Nodes(k.ready) \cup {t}
    BY <2>1, InsertNodes
  <2> HIDE DEF tree
  <2>4. new \in KernelState /\ Carries(k, new) /\ t \in Present(new)
        /\ SameButReady(k, new)
    BY <2>2, <2>3 DEF KernelState, Carries, Present, SameButReady
  <2>5. n = IF k.cur # NoTask /\ sched_should_preempt(k, t, k.cur)
            THEN scheduler_request_switch(new) ELSE new
    BY <1>2 DEF task_adt_add, rt_ready_add, key, tree
  <2> HIDE DEF new, n
  <2>6. (Carries(new, n) /\ SameButReady(new, n)) \/ n = new
    BY <2>4, <2>5, RequestCarries
  <2> QED
    BY <2>4, <2>6, CarriesTwice DEF Carries, SameButReady, n
<1> QED
  BY <1>1, <1>2

\* A task that leaves the sleepers and nothing else.
LEMMA RousedKeeps ==
    ASSUME NEW k \in KernelState, NEW t \in Tasks
    PROVE  LET n == delay_adt_remove(k, t)
           IN  /\ n \in KernelState
               /\ n.waits = k.waits /\ n.dl = k.dl /\ n.now = k.now
               /\ Present(k) \ {t} \subseteq Present(n)
<1> DEFINE n == delay_adt_remove(k, t)
           tree == rb_remove_node(k.sleep, t)
<1>1. CASE t \notin Nodes(k.sleep)
  BY <1>1 DEF delay_adt_remove
<1>2. CASE t \in Nodes(k.sleep)
  <2>1. k.sleep \in Seq(Tasks)
    BY DEF KernelState
  <2>2. tree \in Seq(Tasks) /\ Nodes(k.sleep) \ {t} \subseteq Nodes(tree)
    BY <1>2, <2>1, RemoveKeeps
  <2>3. n = [k EXCEPT !.sleep = tree, !.wake[t] = 0]
    BY <1>2 DEF delay_adt_remove
  <2>4. [k.wake EXCEPT ![t] = 0] \in [Tasks -> Ticks]
    <3>1. k.wake \in [Tasks -> Ticks] /\ 0 \in Ticks
      BY WidthAssumption DEF KernelState, Ticks
    <3> QED
      BY <3>1
  <2> HIDE DEF tree, n
  <2> QED
    BY <2>2, <2>3, <2>4 DEF KernelState, Present, n
<1> QED
  BY <1>1, <1>2

\* task_delay of a running task.
LEMMA DelayCarries ==
    ASSUME NEW k \in KernelState, k.cur \in Tasks, NEW d \in Nat
    PROVE  Carries(k, task_delay(k, d))
<1> DEFINE t == k.cur
           c == d % DelayMod
           k1 == rt_ready_remove(k, t)
           k2 == record_wake_time(k1, t, c)
<1>1. c \in Nat
  BY WidthAssumption
<1> HIDE DEF c
<1>2. /\ k1 \in KernelState /\ k1.waits = k.waits /\ k1.sleep = k.sleep
      /\ k1.cur = k.cur
      /\ Nodes(k.ready) \ {t} \subseteq Nodes(k1.ready)
  <2>1. CASE t \notin Nodes(k.ready)
    <3>1. k1 = corrupted(k)
      BY <2>1 DEF rt_ready_remove
    <3> QED
      BY <3>1 DEF corrupted, KernelState
  <2>2. CASE t \in Nodes(k.ready)
    <3> DEFINE tree == rb_remove_node(k.ready, t)
    <3>1. k.ready \in Seq(Tasks)
      BY DEF KernelState
    <3>2. tree \in Seq(Tasks) /\ Nodes(k.ready) \ {t} \subseteq Nodes(tree)
      BY <2>2, <3>1, RemoveKeeps
    <3>3. k1 = [k EXCEPT !.ready = tree, !.rkey[t] = 0]
      BY <2>2 DEF rt_ready_remove
    <3>4. [k.rkey EXCEPT ![t] = 0] \in [Tasks -> Ticks]
      BY WidthAssumption DEF KernelState, Ticks
    <3> HIDE DEF tree, k1
    <3> QED
      BY <3>2, <3>3, <3>4 DEF KernelState
  <2> QED
    BY <2>1, <2>2
<1> HIDE DEF k1
<1>3. /\ k2 \in KernelState /\ k2.waits = k1.waits /\ k2.ready = k1.ready
      /\ Nodes(k1.sleep) \cup {t} \subseteq Nodes(k2.sleep)
  <2>1. CASE t \in Nodes(k1.sleep)
    <3>1. k2 = corrupted(k1)
      BY <2>1 DEF record_wake_time
    <3> QED
      BY <1>2, <2>1, <3>1 DEF corrupted, KernelState
  <2>2. CASE t \notin Nodes(k1.sleep)
    <3> DEFINE key == [k1.wake EXCEPT ![t] = (k1.now + c) % TickMod]
               tree == rb_insert_node(k1.sleep, key, t)
    <3>1. k1.sleep \in Seq(Tasks) /\ k1.now \in Int /\ k1.wake \in [Tasks -> Ticks]
      BY <1>2, WidthAssumption DEF KernelState, Ticks
    <3>2. (k1.now + c) % TickMod \in Ticks
      BY <1>1, <3>1, WordType
    <3>3. key \in [Tasks -> Ticks]
      BY <3>1, <3>2
    <3>4. tree \in Seq(Tasks) /\ Nodes(tree) = Nodes(k1.sleep) \cup {t}
      BY <3>1, InsertNodes
    <3>5. k2 = [k1 EXCEPT !.wake = key, !.sleep = tree]
      BY <2>2 DEF record_wake_time
    <3> HIDE DEF key, tree, k2
    <3> QED
      BY <1>2, <3>3, <3>4, <3>5 DEF KernelState
  <2> QED
    BY <2>1, <2>2
<1> HIDE DEF k2
<1>4. Carries(k, k2)
  BY <1>2, <1>3 DEF Carries, Present
<1>5. task_delay(k, d) = IF c = 0 THEN k ELSE scheduler_request_switch(k2)
  BY DEF task_delay, c, k1, k2
<1>6. Carries(k2, scheduler_request_switch(k2))
  BY <1>3, RequestCarries
<1> QED
  BY <1>4, <1>5, <1>6, CarriesTwice DEF Carries

\* A task that becomes more or less urgent stays where it is.
LEMMA ChangePrioCarries ==
    ASSUME NEW k \in KernelState, NEW t \in Tasks, NEW prio \in Ticks
    PROVE  LET n == rtos_task_change_prio(k, t, prio)
           IN  /\ Carries(k, n)
               /\ n.dl = [k.dl EXCEPT ![t] = prio]
               /\ n.switches = k.switches
<1> DEFINE k1 == rt_ready_remove(k, t)
           k2 == [k1 EXCEPT !.dl[t] = prio]
           n == rtos_task_change_prio(k, t, prio)
<1>1. t \in Runnable /\ [k.dl EXCEPT ![t] = prio] \in [Runnable -> Ticks]
  BY DEF KernelState, Runnable
<1>2. CASE ~IsReadyState(k, t)
  <2>1. n = [k EXCEPT !.dl = [k.dl EXCEPT ![t] = prio]]
    BY <1>2 DEF rtos_task_change_prio, KernelState
  <2> HIDE DEF n
  <2> QED
    BY <1>1, <2>1 DEF KernelState, Carries, Present, n
<1>3. CASE IsReadyState(k, t)
  <2> DEFINE tree == rb_remove_node(k.ready, t)
  <2>1. t \in Nodes(k.ready) /\ k.ready \in Seq(Tasks)
    BY <1>3 DEF IsReadyState, KernelState
  <2>2. tree \in Seq(Tasks) /\ Nodes(k.ready) \ {t} \subseteq Nodes(tree)
    BY <2>1, RemoveKeeps
  <2>3. k1 = [k EXCEPT !.ready = tree, !.rkey = [k.rkey EXCEPT ![t] = 0]]
    BY <2>1 DEF rt_ready_remove, KernelState
  <2>4. [k.rkey EXCEPT ![t] = 0] \in [Tasks -> Ticks]
    BY WidthAssumption DEF KernelState, Ticks
  <2> HIDE DEF tree, k1
  <2>5. /\ k1 \in KernelState /\ k1.waits = k.waits /\ k1.dl = k.dl
        /\ Present(k) \ {t} \subseteq Present(k1) /\ k1.switches = k.switches
    BY <2>2, <2>3, <2>4 DEF KernelState, Present
  <2>6. /\ k2 \in KernelState /\ k2.waits = k.waits
        /\ k2.dl = [k.dl EXCEPT ![t] = prio] /\ k2.switches = k.switches
        /\ Present(k) \ {t} \subseteq Present(k2)
    BY <1>1, <2>5 DEF KernelState, Present
  <2>7. n = rt_ready_add(k2, t)
    BY <1>3 DEF rtos_task_change_prio, k1
  <2> HIDE DEF k2, n
  <2>8. Carries(k2, n) /\ t \in Present(n) /\ SameButReady(k2, n)
    BY <2>6, <2>7, AddCarries DEF task_adt_add
  <2> QED
    BY <2>6, <2>8 DEF Carries, SameButReady, n
<1> QED
  BY <1>2, <1>3

\* One turn of the loop of check_ticks.
LEMMA WakeCarries ==
    ASSUME NEW k \in KernelState, k.sleep # <<>>
    PROVE  Carries(k, wake_first(k))
<1> DEFINE t == first_node(k.sleep)
           k1 == delay_adt_remove(k, t)
           k2 == IF Deadline[t] # 0 /\ Period[t] # 0
                 THEN [k1 EXCEPT !.dl[t] = (k.now + Deadline[t]) % TickMod]
                 ELSE k1
           n == wake_first(k)
<1>1. k.sleep \in Seq(Tasks) /\ k.now \in Int
  BY WidthAssumption DEF KernelState, Ticks
<1>2. t \in Tasks
  BY <1>1, EndsAreNodes
<1> HIDE DEF t
<1>3. /\ k1 \in KernelState /\ k1.waits = k.waits
      /\ Present(k) \ {t} \subseteq Present(k1)
  BY <1>2, RousedKeeps
<1> HIDE DEF k1
<1>4. (k.now + Deadline[t]) % TickMod \in Ticks
  <2>1. Deadline[t] \in Int
    BY <1>2, TimingAssumption
  <2> QED
    BY <1>1, <2>1, WordType
<1>5. /\ k2 \in KernelState /\ k2.waits = k1.waits
      /\ k2.ready = k1.ready /\ k2.sleep = k1.sleep
  <2>1. t \in Runnable
    BY <1>2 DEF Runnable
  <2> QED
    BY <1>3, <1>4, <2>1 DEF KernelState
<1>6. n = task_adt_add(k2, t)
  BY DEF wake_first, t, k1
<1> HIDE DEF k2, n
<1>7. Carries(k2, n) /\ t \in Present(n)
  BY <1>2, <1>5, <1>6, AddCarries
<1> QED
  BY <1>3, <1>5, <1>7 DEF Carries, Present, n

LEMMA TickCarries ==
    ASSUME NEW k \in KernelState
    PROVE  Carries(k, tick(k)) /\ Carries(k, [k EXCEPT !.isr = FALSE])
<1>1. k.now \in Int
  BY WidthAssumption DEF KernelState, Ticks
<1>2. (k.now + 1) % TickMod \in Ticks
  BY <1>1, WordType
<1> QED
  BY <1>2 DEF tick, KernelState, Carries, Present

LEMMA SwitchCarries ==
    ASSUME NEW k \in KernelState
    PROVE  Carries(k, task_switch_context(k))
<1> DEFINE n == task_switch_context(k)
<1>1. /\ n \in KernelState
      /\ n = [k EXCEPT !.switches = n.switches, !.cur = n.cur, !.pend = FALSE]
  BY SwitchContext
<1> HIDE DEF n
<1> QED
  BY <1>1 DEF KernelState, Carries, Present, n
-----------------------------------------------------------------------------
(***************************************************************************)
(* The wait trees.                                                         *)
(***************************************************************************)
\* A wait tree has tasks for nodes, and none exactly when nobody waits.
LEMMA QueuedNodes ==
    ASSUME NEW q \in KernelState, NEW o \in Objects
    PROVE  /\ Nodes(q.waits[o]) \subseteq Tasks
           /\ q.waits[o] = <<>> <=> Nodes(q.waits[o]) = {}
<1>1. q.waits[o] \in Seq(Tasks)
  BY DEF KernelState
<1>2. Nodes(q.waits[o]) \subseteq Tasks
  BY <1>1 DEF Nodes
<1>3. q.waits[o] = <<>> <=> Nodes(q.waits[o]) = {}
  BY <1>1, EmptyNodes
<1> QED
  BY <1>2, <1>3

\* A task that waits for nothing joins the wait tree of o.
LEMMA JoinWaits ==
    ASSUME NEW k \in KernelState, NEW t \in Tasks, NEW o \in Objects,
           \A p \in Objects : NoTwice(k.waits[p]) /\ t \notin Nodes(k.waits[p])
    PROVE  LET n == insert_ipc(k, t, o)
           IN  /\ n \in KernelState
               /\ \A p \in Objects :
                      NoTwice(n.waits[p]) /\ (p # o => n.waits[p] = k.waits[p])
               /\ Nodes(n.waits[o]) = Nodes(k.waits[o]) \cup {t}
               /\ n.ready = k.ready /\ n.sleep = k.sleep
<1> DEFINE key == [k.ikey EXCEPT ![t] = k.dl[t]]
           tree == rb_insert_node(k.waits[o], key, t)
           n == insert_ipc(k, t, o)
<1>1. /\ k.waits \in [Objects -> Seq(Tasks)] /\ k.ikey \in [Tasks -> Ticks]
      /\ k.dl[t] \in Ticks
  BY DEF KernelState, Runnable
<1>2. key \in [Tasks -> Ticks]
  BY <1>1
<1>3. /\ tree \in Seq(Tasks) /\ NoTwice(tree)
      /\ Nodes(tree) = Nodes(k.waits[o]) \cup {t}
  BY <1>1, InsertNodes
<1>4. n = [k EXCEPT !.ikey = key, !.waits[o] = tree]
  BY DEF insert_ipc, check_ipc_state
<1> HIDE DEF key, tree, n
<1>5. n \in KernelState /\ n.waits = [k.waits EXCEPT ![o] = tree]
      /\ n.ready = k.ready /\ n.sleep = k.sleep
  BY <1>1, <1>2, <1>3, <1>4 DEF KernelState
<1> QED
  BY <1>1, <1>3, <1>5 DEF n

\* A task leaves whatever wait tree it is in.
LEMMA LeaveWaits ==
    ASSUME NEW k \in KernelState, NEW t,
           \A p \in Objects : NoTwice(k.waits[p])
    PROVE  LET n == remove_ipc(k, t)
           IN  /\ n \in KernelState
               /\ \A p \in Objects :
                      /\ NoTwice(n.waits[p])
                      /\ Nodes(n.waits[p]) = Nodes(k.waits[p]) \ {t}
               /\ n.ready = k.ready /\ n.sleep = k.sleep
<1> DEFINE n == remove_ipc(k, t)
           left(p) == IF t \in Nodes(k.waits[p])
                      THEN rb_remove_node(k.waits[p], t) ELSE k.waits[p]
<1>1. \A p \in Objects : /\ left(p) \in Seq(Tasks) /\ NoTwice(left(p))
                         /\ Nodes(left(p)) = Nodes(k.waits[p]) \ {t}
  <2> SUFFICES ASSUME NEW p \in Objects
               PROVE  /\ left(p) \in Seq(Tasks) /\ NoTwice(left(p))
                      /\ Nodes(left(p)) = Nodes(k.waits[p]) \ {t}
    OBVIOUS
  <2>1. k.waits[p] \in Seq(Tasks) /\ NoTwice(k.waits[p])
    BY DEF KernelState
  <2>2. CASE t \in Nodes(k.waits[p])
    BY <2>1, <2>2, RemoveNodes
  <2>3. CASE t \notin Nodes(k.waits[p])
    BY <2>1, <2>3
  <2> QED
    BY <2>2, <2>3
<1>2. n = [k EXCEPT !.waits = [p \in Objects |-> left(p)]]
  BY DEF remove_ipc
<1> HIDE DEF left, n
<1>3. /\ n \in KernelState /\ n.waits = [p \in Objects |-> left(p)]
      /\ n.ready = k.ready /\ n.sleep = k.sleep
  BY <1>1, <1>2 DEF KernelState
<1> QED
  BY <1>1, <1>3 DEF n

\* A waiter that is served leaves the sleepers and its wait tree.
LEMMA ServedLeaves ==
    ASSUME NEW k \in KernelState, NEW w \in Tasks,
           \A p \in Objects : NoTwice(k.waits[p])
    PROVE  LET n == remove_ipc(delay_adt_remove(k, w), w)
           IN  /\ n \in KernelState
               /\ \A p \in Objects : /\ NoTwice(n.waits[p])
                                     /\ Nodes(n.waits[p]) = Nodes(k.waits[p]) \ {w}
               /\ Present(k) \ {w} \subseteq Present(n)
<1> DEFINE k1 == delay_adt_remove(k, w)
           n == remove_ipc(k1, w)
<1>1. /\ k1 \in KernelState /\ k1.waits = k.waits
      /\ Present(k) \ {w} \subseteq Present(k1)
  BY RousedKeeps
<1> HIDE DEF k1
<1>2. /\ n \in KernelState
      /\ \A p \in Objects : /\ NoTwice(n.waits[p])
                            /\ Nodes(n.waits[p]) = Nodes(k1.waits[p]) \ {w}
      /\ n.ready = k1.ready /\ n.sleep = k1.sleep
  BY <1>1, LeaveWaits
<1> HIDE DEF n
<1>3. Present(k) \ {w} \subseteq Present(n)
  BY <1>1, <1>2 DEF Present
<1> QED
  BY <1>1, <1>2, <1>3 DEF n, k1

\* The waiter that is served is a task in that wait tree, if there is any.
LEMMA FirstWaits ==
    ASSUME NEW k \in KernelState, NEW o \in Objects
    PROVE  LET w == first_respond_ipc(k, o)
           IN  /\ w = NoTask <=> k.waits[o] = <<>>
               /\ w # NoTask => w \in Tasks /\ w \in Nodes(k.waits[o])
<1>1. k.waits[o] \in Seq(Tasks)
  BY DEF KernelState
<1>2. k.waits[o] # <<>> => /\ first_node(k.waits[o]) \in Nodes(k.waits[o])
                           /\ first_node(k.waits[o]) \in Tasks
  BY <1>1, EndsAreNodes
<1> QED
  BY <1>2, NameAssumption DEF first_respond_ipc
-----------------------------------------------------------------------------
(***************************************************************************)
(* The start.                                                              *)
(***************************************************************************)
\* When the scheduler starts, every task is ready and nobody waits.
LEMMA StartIsPresent ==
    ASSUME IsFiniteSet(Tasks), NEW order \in StartOrders
    PROVE  /\ Started(order) \in KernelState
           /\ Tasks \subseteq Present(Started(order))
           /\ \A o \in Objects : Started(order).waits[o] = <<>>
<1> DEFINE N == Cardinality(Tasks)
           new == [Created EXCEPT !.ready = order, !.rkey = CreatedKeys]
<1>1. N \in Nat /\ IsFiniteSet(1..N) /\ Cardinality(1..N) = N
  BY FS_CardinalityType, InitialInterval
<1> HIDE DEF N
<1>2. order \in [1..N -> Tasks] /\ NoTwice(order)
  BY DEF StartOrders, N
<1>3. order \in Seq(Tasks) /\ Nodes(order) = Tasks
  <2>1. order \in Injection(1..N, Tasks)
    BY <1>2 DEF NoTwice, Injection, IsInjective
  <2>2. order \in Surjection(1..N, Tasks)
    BY <1>1, <2>1, FS_Injection DEF N
  <2> QED
    BY <1>1, <1>2, <2>2 DEF Surjection, Nodes
<1>4. Created \in KernelState /\ Created.waits = [o \in Objects |-> <<>>]
  <2>1. /\ 0 \in Ticks /\ Never \in Ticks /\ 0 \in 0..(SwitchMod - 1)
        /\ \A t \in Tasks : Deadline[t] \in Ticks
    BY WidthAssumption, TimingAssumption DEF Ticks, Never
  <2>2. [t \in Runnable |-> IF t \in Tasks /\ Deadline[t] # 0
                            THEN Deadline[t] ELSE Never] \in [Runnable -> Ticks]
    BY <2>1
  <2>3. /\ scheduler_init \in KernelState
        /\ scheduler_init.waits = [o \in Objects |-> <<>>]
    BY <2>1 DEF scheduler_init, KernelState
  <2> QED
    BY <2>2, <2>3 DEF Created, KernelState
<1>5. CreatedKeys \in [Tasks -> Ticks]
  BY <1>4, PrioType DEF CreatedKeys
<1>6. /\ new \in KernelState /\ new.ready = order
      /\ new.waits = [o \in Objects |-> <<>>]
  BY <1>3, <1>4, <1>5 DEF KernelState
<1>7. Started(order) = task_switch_context(new)
  BY DEF Started
<1> HIDE DEF new
<1>8. Carries(new, Started(order))
  BY <1>6, <1>7, SwitchCarries
<1> QED
  BY <1>3, <1>6, <1>8 DEF Carries, Present
=============================================================================
