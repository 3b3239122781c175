---------------------------- MODULE MutexProofs ----------------------------
(***************************************************************************)
(* Safety of the mutexes, and of the inheritance of priorities along the   *)
(* chain of owners, for every finite set of tasks, any number of mutexes,  *)
(* any timing.                                                             *)
(***************************************************************************)
EXTENDS Mutex, KernelProofs

Calling(t) == pc[t] \in {"delaying", "waiting"}
-----------------------------------------------------------------------------
(***************************************************************************)
(* inherit_prio                                                            *)
(***************************************************************************)
Owners == [Objects -> Tasks \cup {NoTask}]
Waitings == [Tasks -> Objects \cup {NoMutex}]

\* No task is less urgent in n than in kk.
NoLessUrgent(kk, n) == \A x \in Runnable : n.dl[x] <= kk.dl[x]

LEMMA UrgencyTwice ==
    ASSUME NEW a \in KernelState, NEW b \in KernelState, NEW c \in KernelState,
           NoLessUrgent(a, b), NoLessUrgent(b, c)
    PROVE  NoLessUrgent(a, c)
<1> SUFFICES ASSUME NEW x \in Runnable PROVE c.dl[x] <= a.dl[x]
  BY DEF NoLessUrgent
<1>1. a.dl[x] \in Ticks /\ b.dl[x] \in Ticks /\ c.dl[x] \in Ticks
  BY DEF KernelState
<1>2. c.dl[x] <= b.dl[x] /\ b.dl[x] <= a.dl[x]
  BY DEF NoLessUrgent
<1> QED
  BY <1>1, <1>2, WidthAssumption DEF Ticks

\* The calls of inherit_prio that the kernel state kk can lead to.
Calls(kk) ==
    {p \in [k : KernelState, owner : Tasks \cup {NoTask}, waiter : Tasks] :
        Carries(kk, p.k) /\ NoLessUrgent(kk, p.k)}

\* One call is followed by one, and leaves its owner as urgent as its waiter.
LEMMA ClimbKeeps ==
    ASSUME NEW kk \in KernelState, NEW p \in Calls(kk),
           owner \in Owners, NEW wobj \in Waitings
    PROVE  LET n == climb(p, wobj)
           IN  /\ n \in Calls(kk)
               /\ NoLessUrgent(p.k, n.k)
               /\ p.owner # NoTask =>
                     /\ n.k.dl[p.owner] <= p.k.dl[p.waiter]
                     /\ n.waiter = p.owner
                     /\ n.owner = IF wobj[p.owner] = NoMutex THEN NoTask
                                  ELSE owner[wobj[p.owner]]
<1> DEFINE prio == p.k.dl[p.waiter]
           q == IF prio < p.k.dl[p.owner]
                THEN rtos_task_change_prio(p.k, p.owner, prio) ELSE p.k
           next == IF wobj[p.owner] = NoMutex THEN NoTask ELSE owner[wobj[p.owner]]
           n == climb(p, wobj)
<1>1. /\ p.k \in KernelState /\ p.owner \in Tasks \cup {NoTask} /\ p.waiter \in Tasks
      /\ Carries(kk, p.k) /\ NoLessUrgent(kk, p.k)
  BY DEF Calls
<1>2. p.k.dl \in [Runnable -> Ticks] /\ \A x \in Ticks : x <= x /\ x \in Int
  <2>1. p.k.dl \in [Runnable -> Ticks]
    BY <1>1 DEF KernelState
  <2> QED
    BY <2>1, WidthAssumption DEF Ticks
<1>3. CASE p.owner = NoTask
  <2>1. n = p
    BY <1>3 DEF climb
  <2>2. NoLessUrgent(p.k, p.k)
    BY <1>2 DEF NoLessUrgent
  <2> QED
    BY <1>3, <2>1, <2>2
<1>4. CASE p.owner # NoTask
  <2>1. p.owner \in Tasks /\ p.owner \in Runnable /\ p.waiter \in Runnable
    BY <1>1, <1>4 DEF Runnable
  <2>2. prio \in Ticks
    BY <1>2, <2>1
  <2>3. /\ q \in KernelState /\ Carries(kk, q) /\ NoLessUrgent(p.k, q)
        /\ q.dl[p.owner] <= prio
    <3>1. CASE prio < p.k.dl[p.owner]
      <4>1. q = rtos_task_change_prio(p.k, p.owner, prio)
        BY <3>1
      <4> HIDE DEF q, prio
      <4>2. Carries(p.k, q) /\ q.dl = [p.k.dl EXCEPT ![p.owner] = prio]
        BY <1>1, <2>1, <2>2, <4>1, ChangePrioCarries
      <4>3. NoLessUrgent(p.k, q) /\ q.dl[p.owner] <= prio
        BY <1>2, <2>1, <2>2, <3>1, <4>2, WidthAssumption DEF NoLessUrgent, Ticks
      <4> QED
        BY <1>1, <4>2, <4>3, CarriesTwice DEF Carries
    <3>2. CASE ~(prio < p.k.dl[p.owner])
      <4>1. q = p.k
        BY <3>2
      <4>2. p.k.dl[p.owner] <= prio
        BY <1>2, <2>1, <2>2, <3>2, WidthAssumption DEF Ticks
      <4> QED
        BY <1>1, <1>2, <4>1, <4>2 DEF NoLessUrgent
    <3> QED
      BY <3>1, <3>2
  <2>4. next \in Tasks \cup {NoTask}
    BY <2>1 DEF Owners, Waitings
  <2>5. n = [k |-> q, owner |-> next, waiter |-> p.owner]
    BY <1>4 DEF climb
  <2> HIDE DEF q, next, n
  <2>6. NoLessUrgent(kk, q)
    BY <1>1, <2>3, UrgencyTwice
  <2>7. n \in Calls(kk) /\ n.k = q /\ n.owner = next /\ n.waiter = p.owner
    BY <2>1, <2>3, <2>4, <2>5, <2>6 DEF Calls
  <2> QED
    BY <2>3, <2>7 DEF next, n
<1> QED
  BY <1>3, <1>4

\* The calls one after the other.
LEMMA ChainTurns ==
    ASSUME NEW kk \in KernelState, NEW o \in Objects, NEW t \in Tasks,
           owner \in Owners, NEW wobj \in Waitings
    PROVE  LET turn == chain(kk, wobj, o, t)
           IN  /\ turn \in [Nat -> Calls(kk)]
               /\ turn[0] = [k |-> kk, owner |-> owner[o], waiter |-> t]
               /\ \A n \in Nat : turn[n + 1] = climb(turn[n], wobj)
<1> DEFINE first == [k |-> kk, owner |-> owner[o], waiter |-> t]
           turn == chain(kk, wobj, o, t)
           step == [p \in Calls(kk) |-> climb(p, wobj)]
<1>1. first \in Calls(kk)
  <2>1. Carries(kk, kk)
    BY DEF Carries
  <2>2. NoLessUrgent(kk, kk)
    <3>1. kk.dl \in [Runnable -> Ticks]
      BY DEF KernelState
    <3> QED
      BY <3>1, WidthAssumption DEF NoLessUrgent, Ticks
  <2> QED
    BY <2>1, <2>2 DEF Calls, Owners
<1>2. step \in [Calls(kk) -> Calls(kk)]
  BY ClimbKeeps
<1> HIDE DEF first
<1>3. \E g : g = [i \in Nat |-> IF i = 0 THEN first ELSE climb(g[i - 1], wobj)]
  <2>1. PICK g \in [Nat -> Calls(kk)] :
            g[0] = first /\ \A n \in Nat : g[n + 1] = step[g[n]]
    <3> DEFINE S == Calls(kk)
    <3>1. first \in S /\ step \in [S -> S]
      BY <1>1, <1>2
    <3> HIDE DEF S, step
    <3>2. \E g \in [Nat -> S] : g[0] = first /\ \A n \in Nat : g[n + 1] = step[g[n]]
      BY <3>1, Recursion, SMTT(30)
    <3> QED
      BY <3>2 DEF S
  <2>2. ASSUME NEW i \in Nat
        PROVE  g[i] = IF i = 0 THEN first ELSE climb(g[i - 1], wobj)
    <3>1. CASE i = 0
      BY <2>1, <3>1
    <3>2. CASE i # 0
      <4>1. i - 1 \in Nat /\ (i - 1) + 1 = i
        BY <3>2
      <4>2. g[i] = step[g[i - 1]]
        BY <2>1, <4>1
      <4> QED
        BY <3>2, <4>1, <4>2
    <3> QED
      BY <3>1, <3>2
  <2>3. g = [i \in Nat |-> IF i = 0 THEN first ELSE climb(g[i - 1], wobj)]
    BY <2>2
  <2> QED
    BY <2>3
<1>4. turn = [i \in Nat |-> IF i = 0 THEN first ELSE climb(turn[i - 1], wobj)]
  BY <1>3 DEF chain, first
<1> HIDE DEF turn
<1>5. turn[0] = first /\ \A n \in Nat : turn[n + 1] = climb(turn[n], wobj)
  <2>1. turn[0] = first
    BY <1>4
  <2>2. ASSUME NEW n \in Nat PROVE turn[n + 1] = climb(turn[n], wobj)
    <3>1. n + 1 \in Nat /\ n + 1 # 0 /\ (n + 1) - 1 = n
      OBVIOUS
    <3> QED
      BY <1>4, <3>1
  <2> QED
    BY <2>1, <2>2
<1>6. turn \in [Nat -> Calls(kk)]
  <2> DEFINE T == {n \in Nat : turn[n] \in Calls(kk)}
  <2>1. 0 \in T
    BY <1>1, <1>5
  <2>2. \A n \in Nat : n \in T => n + 1 \in T
    BY <1>5, ClimbKeeps
  <2>3. Nat \subseteq T
    <3> HIDE DEF T
    <3> QED
      BY <2>1, <2>2, Induction
  <2> QED
    BY <1>4, <2>3
<1> QED
  BY <1>5, <1>6 DEF turn, first

\* What the whole chain of calls does: the owner of o becomes at least as urgent
\* as t, and so does the owner of the mutex which that one waits for.
LEMMA InheritKeeps ==
    ASSUME IsFiniteSet(Tasks),
           NEW kk \in KernelState, NEW o \in Objects, NEW t \in Tasks,
           owner \in Owners, NEW wobj \in Waitings
    PROVE  LET n == inherit_prio(kk, wobj, o, t)
               first == owner[o]
           IN  /\ Carries(kk, n)
               /\ first # NoTask =>
                     /\ n.dl[first] <= kk.dl[t]
                     /\ wobj[first] # NoMutex /\ owner[wobj[first]] # NoTask =>
                           n.dl[owner[wobj[first]]] <= kk.dl[t]
<1> DEFINE turn == chain(kk, wobj, o, t)
           N == Cardinality(Tasks) + 1
           last == turn[N]
           n == inherit_prio(kk, wobj, o, t)
           a == owner[o]
           b == IF wobj[a] = NoMutex THEN NoTask ELSE owner[wobj[a]]
<1>1. /\ turn \in [Nat -> Calls(kk)]
      /\ turn[0].k = kk /\ turn[0].owner = a /\ turn[0].waiter = t
      /\ \A i \in Nat : turn[i + 1] = climb(turn[i], wobj)
  <2>1. /\ turn \in [Nat -> Calls(kk)]
        /\ turn[0] = [k |-> kk, owner |-> a, waiter |-> t]
        /\ \A i \in Nat : turn[i + 1] = climb(turn[i], wobj)
    BY ChainTurns
  <2> HIDE DEF turn
  <2> QED
    BY <2>1
<1>2. Cardinality(Tasks) \in Nat /\ Cardinality(Tasks) >= 1
  BY FS_CardinalityType, FS_EmptySet
<1>3. N \in Nat /\ N - 1 \in Nat /\ N - 2 \in Nat
      /\ 1 + (N - 1) = N /\ 2 + (N - 2) = N
  BY <1>2
<1>4. n = IF last.owner = NoTask THEN last.k ELSE corrupted(last.k)
  BY DEF inherit_prio
<1> HIDE DEF turn, N, n
<1>5. ASSUME NEW m \in Nat, NEW i \in Nat
      PROVE  NoLessUrgent(turn[m].k, turn[m + i].k)
  <2> DEFINE T == {j \in Nat : NoLessUrgent(turn[m].k, turn[m + j].k)}
  <2>1. \A j \in Nat : turn[j].k \in KernelState
    BY <1>1 DEF Calls
  <2>2. 0 \in T
    <3> DEFINE q == turn[m].k
    <3>1. q \in KernelState /\ m + 0 = m
      BY <2>1
    <3>2. q.dl \in [Runnable -> Ticks]
      <4> HIDE DEF q
      <4> QED
        BY <3>1, Zenon DEF KernelState
    <3>3. NoLessUrgent(q, q)
      <4> HIDE DEF q
      <4> QED
        BY <3>2, WidthAssumption DEF NoLessUrgent, Ticks
    <3> QED
      BY <3>1, <3>3
  <2>3. ASSUME NEW j \in Nat, j \in T PROVE j + 1 \in T
    <3>1. m + j \in Nat /\ m + (j + 1) \in Nat /\ m + (j + 1) = (m + j) + 1
      OBVIOUS
    <3>2. turn[m + (j + 1)] = climb(turn[m + j], wobj)
      BY <1>1, <3>1
    <3>3. NoLessUrgent(turn[m + j].k, turn[m + (j + 1)].k)
      BY <1>1, <3>1, <3>2, ClimbKeeps
    <3>4. NoLessUrgent(turn[m].k, turn[m + (j + 1)].k)
      BY <2>1, <2>3, <3>1, <3>3, UrgencyTwice
    <3> QED
      BY <3>4
  <2>4. Nat \subseteq T
    <3> HIDE DEF T
    <3> QED
      BY <2>2, <2>3, Induction
  <2> QED
    BY <2>4
<1>6. last \in Calls(kk)
  BY <1>1, <1>3
<1>7. /\ n \in KernelState /\ Carries(kk, n) /\ n.dl = last.k.dl
  <2>1. last.k \in KernelState /\ Carries(kk, last.k)
    BY <1>6 DEF Calls
  <2>2. CASE last.owner = NoTask
    BY <1>4, <2>1, <2>2
  <2>3. CASE last.owner # NoTask
    <3>1. n = corrupted(last.k)
      BY <1>4, <2>3
    <3>2. Carries(last.k, n) /\ n.dl = last.k.dl
      BY <2>1, <3>1, CorruptedCarries DEF corrupted, KernelState
    <3> QED
      BY <2>1, <3>2, CarriesTwice DEF Carries
  <2> QED
    BY <2>2, <2>3
<1> HIDE DEF last
<1>8. ASSUME a # NoTask
      PROVE  /\ n.dl[a] <= kk.dl[t]
             /\ b # NoTask => n.dl[b] <= kk.dl[t]
  <2>1. /\ turn[1].k.dl[a] <= kk.dl[t] /\ turn[1].waiter = a /\ turn[1].owner = b
    <3>1. 0 + 1 = 1 /\ turn[0] \in Calls(kk)
      BY <1>1
    <3>2. turn[1] = climb(turn[0], wobj)
      BY <1>1, <3>1
    <3> QED
      BY <1>1, <1>8, <3>1, <3>2, ClimbKeeps
  <2>2. a \in Runnable /\ t \in Runnable
    BY <1>8 DEF Owners, Runnable
  <2>3. /\ turn[1] \in Calls(kk) /\ turn[2] \in Calls(kk) /\ turn[N] \in Calls(kk)
        /\ turn[1].k \in KernelState /\ turn[2].k \in KernelState
        /\ turn[N].k \in KernelState
    BY <1>1, <1>3 DEF Calls
  <2>4. NoLessUrgent(turn[1].k, turn[N].k)
    BY <1>3, <1>5
  <2>5. n.dl[a] <= kk.dl[t]
    <3>1. /\ n.dl[a] \in Ticks /\ turn[1].k.dl[a] \in Ticks /\ kk.dl[t] \in Ticks
      BY <1>7, <2>2, <2>3 DEF KernelState
    <3>2. n.dl[a] <= turn[1].k.dl[a]
      BY <1>7, <2>2, <2>4 DEF NoLessUrgent, last
    <3> QED
      BY <2>1, <3>1, <3>2, WidthAssumption DEF Ticks
  <2>6. ASSUME b # NoTask PROVE n.dl[b] <= kk.dl[t]
    <3>1. b \in Runnable
      BY <1>8, <2>6 DEF Owners, Waitings, Runnable
    <3>2. turn[2].k.dl[b] <= turn[1].k.dl[a]
      <4>1. 1 + 1 = 2 /\ turn[2] = climb(turn[1], wobj)
        BY <1>1
      <4> QED
        BY <2>1, <2>3, <2>6, <4>1, ClimbKeeps
    <3>3. NoLessUrgent(turn[2].k, turn[N].k)
      BY <1>3, <1>5
    <3>4. n.dl[b] <= turn[2].k.dl[b]
      BY <1>7, <3>1, <3>3 DEF NoLessUrgent, last
    <3>5. /\ n.dl[b] \in Ticks /\ turn[2].k.dl[b] \in Ticks
          /\ turn[1].k.dl[a] \in Ticks /\ kk.dl[t] \in Ticks
      BY <1>7, <2>2, <2>3, <3>1 DEF KernelState
    <3> QED
      BY <2>1, <3>2, <3>4, <3>5, WidthAssumption DEF Ticks
  <2> QED
    BY <2>5, <2>6
<1> QED
  BY <1>7, <1>8 DEF n
-----------------------------------------------------------------------------
(***************************************************************************)
(* Values and owners.                                                      *)
(***************************************************************************)
\* The ownership passes to a task that does not hold the mutex; the value goes
\* down, at zero around the width of its word.
LEMMA OwnCounts ==
    ASSUME IsFiniteSet(Tasks), TypeOK, ValueCountsHolders, OwnersHold,
           NEW t \in Tasks, NEW o \in Objects, t \notin holders[o], own(t, o)
    PROVE  /\ value' \in [Objects -> 0..(ValueMod - 1)]
           /\ owner' \in [Objects -> Tasks \cup {NoTask}]
           /\ orig' \in [Objects -> Ticks]
           /\ waiting' \in [Tasks -> Objects \cup {NoMutex}]
           /\ holders' \in [Objects -> SUBSET Tasks]
           /\ ValueCountsHolders' /\ OwnersHold'
<1> DEFINE c == Cardinality(holders[o])
<1>1. /\ value \in [Objects -> 0..(ValueMod - 1)]
      /\ owner \in [Objects -> Tasks \cup {NoTask}] /\ orig \in [Objects -> Ticks]
      /\ waiting \in [Tasks -> Objects \cup {NoMutex}]
      /\ holders \in [Objects -> SUBSET Tasks] /\ k \in KernelState
      /\ ValueMod \in Nat /\ ValueMod > 0
  BY MutexAssumption DEF TypeOK
<1>2. /\ value' = [value EXCEPT ![o] = (value[o] - 1) % ValueMod]
      /\ owner' = [owner EXCEPT ![o] = t] /\ orig' = [orig EXCEPT ![o] = k.dl[t]]
      /\ waiting' = [waiting EXCEPT ![t] = NoMutex]
      /\ holders' = [holders EXCEPT ![o] = holders[o] \cup {t}]
  BY DEF own
<1>3. k.dl[t] \in Ticks
  BY <1>1 DEF KernelState, Runnable
<1>4. IsFiniteSet(holders[o]) /\ c \in Nat /\ Cardinality(holders[o] \cup {t}) = c + 1
  BY <1>1, TasksCount, FS_AddElement
<1> HIDE DEF c
<1>5. /\ (value[o] - 1) % ValueMod \in 0..(ValueMod - 1)
      /\ (((value[o] - 1) % ValueMod) + (c + 1)) % ValueMod = (value[o] + c) % ValueMod
  <2> DEFINE v == value[o]
  <2>1. v \in 0..(ValueMod - 1) /\ c \in Int
    BY <1>1, <1>4
  <2> HIDE DEF v
  <2>2. /\ (v - 1) % ValueMod \in 0..(ValueMod - 1)
        /\ (((v - 1) % ValueMod) + (c + 1)) % ValueMod = (v + c) % ValueMod
    BY <1>1, <2>1, DownMod
  <2> QED
    BY <2>2 DEF v
<1>6. ValueCountsHolders'
  <2> SUFFICES ASSUME NEW p \in Objects
               PROVE  (value'[p] + Cardinality(holders'[p])) % ValueMod = 1
    BY DEF ValueCountsHolders
  <2>1. (value[p] + Cardinality(holders[p])) % ValueMod = 1
    BY DEF ValueCountsHolders
  <2>2. CASE p = o
    <3>1. /\ value'[p] = (value[o] - 1) % ValueMod
          /\ Cardinality(holders'[p]) = c + 1
      BY <1>1, <1>2, <1>4, <2>2
    <3> QED
      BY <1>5, <2>1, <2>2, <3>1 DEF c
  <2>3. CASE p # o
    BY <1>1, <1>2, <2>1, <2>3
  <2> QED
    BY <2>2, <2>3
<1>7. OwnersHold'
  BY <1>1, <1>2 DEF OwnersHold
<1> QED
  BY <1>1, <1>2, <1>3, <1>5, <1>6, <1>7

\* A holder gives the mutex back, whoever its owner is by then.
LEMMA UnlockCounts ==
    ASSUME IsFiniteSet(Tasks), TypeOK, ValueCountsHolders, OwnersHold,
           NEW o \in Objects, NEW t \in holders[o],
           value' = [value EXCEPT ![o] = (@ + 1) % ValueMod],
           owner' = [owner EXCEPT ![o] = NoTask],
           holders' = [holders EXCEPT ![o] = @ \ {t}]
    PROVE  /\ value' \in [Objects -> 0..(ValueMod - 1)]
           /\ owner' \in [Objects -> Tasks \cup {NoTask}]
           /\ holders' \in [Objects -> SUBSET Tasks]
           /\ ValueCountsHolders' /\ OwnersHold'
<1> DEFINE c == Cardinality(holders[o])
<1>1. /\ value \in [Objects -> 0..(ValueMod - 1)]
      /\ owner \in [Objects -> Tasks \cup {NoTask}]
      /\ holders \in [Objects -> SUBSET Tasks]
      /\ ValueMod \in Nat /\ ValueMod > 0
  BY MutexAssumption DEF TypeOK
<1>2. c \in Nat /\ Cardinality(holders[o] \ {t}) = c - 1
  BY <1>1, TasksCount, FS_RemoveElement
<1> HIDE DEF c
<1>3. /\ (value[o] + 1) % ValueMod \in 0..(ValueMod - 1)
      /\ (((value[o] + 1) % ValueMod) + (c - 1)) % ValueMod = (value[o] + c) % ValueMod
  <2> DEFINE v == value[o]
  <2>1. v \in 0..(ValueMod - 1) /\ c \in Int
    BY <1>1, <1>2
  <2> HIDE DEF v
  <2>2. /\ (v + 1) % ValueMod \in 0..(ValueMod - 1)
        /\ (((v + 1) % ValueMod) + (c - 1)) % ValueMod = (v + c) % ValueMod
    BY <1>1, <2>1, UpMod
  <2> QED
    BY <2>2 DEF v
<1>4. ValueCountsHolders'
  <2> SUFFICES ASSUME NEW p \in Objects
               PROVE  (value'[p] + Cardinality(holders'[p])) % ValueMod = 1
    BY DEF ValueCountsHolders
  <2>1. (value[p] + Cardinality(holders[p])) % ValueMod = 1
    BY DEF ValueCountsHolders
  <2>2. CASE p = o
    <3>1. /\ value'[p] = (value[o] + 1) % ValueMod
          /\ Cardinality(holders'[p]) = c - 1
      BY <1>1, <1>2, <2>2
    <3> QED
      BY <1>3, <2>1, <2>2, <3>1 DEF c
  <2>3. CASE p # o
    BY <1>1, <2>1, <2>3
  <2> QED
    BY <2>2, <2>3
<1>5. OwnersHold'
  BY <1>1 DEF OwnersHold
<1> QED
  BY <1>1, <1>3, <1>4, <1>5
-----------------------------------------------------------------------------
(***************************************************************************)
(* The actions.                                                            *)
(***************************************************************************)
LEMMA StutterKeeps ==
    ASSUME IInv, UNCHANGED vars
    PROVE  IInv'
BY DEF IInv, vars, mutexes, locals, TypeOK, ValueCountsHolders, CallersHoldNone,
       OwnersHold, WaitersAreCallers, WaitingObjIsQueue, NobodyLost, WakersKnowWhom

\* A step that moves nobody into or out of a wait tree, a call or an unlock.
Quiet ==
    /\ Carries(k, k')
    /\ UNCHANGED <<mutexes, waiting, on, wake, holders>>
    /\ pc' \in [Tasks -> Labels]
    /\ \A t \in Tasks : /\ Calling(t)' = Calling(t)
                        /\ (pc'[t] = "waking") = (pc[t] = "waking")
    /\ ticks' \in [Tasks -> Nat]
    /\ pend' \in [Tasks -> 0..(SwitchMod - 1)]

LEMMA QuietKeeps ==
    ASSUME IInv, Quiet
    PROVE  IInv'
<1>1. k' \in KernelState /\ k'.waits = k.waits /\ Present(k) \subseteq Present(k')
  BY DEF Quiet, Carries
<1>2. TypeOK'
  BY <1>1 DEF IInv, TypeOK, Quiet, mutexes
<1>3. ValueCountsHolders' /\ OwnersHold'
  BY DEF IInv, ValueCountsHolders, OwnersHold, Quiet, mutexes
<1>4. \A t \in Tasks : Calling(t)' <=> Calling(t)
  BY DEF Quiet
<1>5. CallersHoldNone'
  BY <1>4 DEF IInv, CallersHoldNone, Quiet, Calling
<1>6. WaitersAreCallers' /\ WaitingObjIsQueue'
  <2>1. \A o \in Objects : Nodes(k.waits[o]) \subseteq Tasks
    BY QueuedNodes DEF IInv, TypeOK
  <2>2. UNCHANGED <<on, waiting>>
    BY DEF Quiet
  <2> QED
    BY <1>1, <1>4, <2>1, <2>2 DEF IInv, WaitersAreCallers, WaitingObjIsQueue, Calling
<1>7. NobodyLost'
  BY <1>1 DEF IInv, NobodyLost, Quiet, Present
<1>8. WakersKnowWhom'
  BY DEF IInv, WakersKnowWhom, Quiet
<1> QED
  BY <1>2, <1>3, <1>5, <1>6, <1>7, <1>8 DEF IInv

\* What a task between two calls is not.
LEMMA FreeTask ==
    ASSUME IInv, NEW t \in Tasks, At(t, "run")
    PROVE  /\ k \in KernelState /\ k.cur = t /\ k.cur \in Tasks
           /\ pc[t] = "run" /\ ~Calling(t)
           /\ \A o \in Objects : NoTwice(k.waits[o]) /\ t \notin Nodes(k.waits[o])
BY DEF IInv, TypeOK, WaitersAreCallers, At, Running, Calling

\* The mutex is free: the task takes it without leaving its critical section.
LEMMA EnterOwns ==
    ASSUME IsFiniteSet(Tasks), IInv, NEW t \in Tasks, NEW o \in Objects,
           At(t, "run"), t \notin holders[o], own(t, o),
           UNCHANGED <<k, pc, locals>>
    PROVE  IInv'
<1>1. /\ pc[t] = "run" /\ \A p \in Objects : t \notin Nodes(k.waits[p])
  BY FreeTask
<1>2. /\ value' \in [Objects -> 0..(ValueMod - 1)]
      /\ owner' \in [Objects -> Tasks \cup {NoTask}]
      /\ orig' \in [Objects -> Ticks]
      /\ waiting' \in [Tasks -> Objects \cup {NoMutex}]
      /\ holders' \in [Objects -> SUBSET Tasks]
      /\ ValueCountsHolders' /\ OwnersHold'
  BY OwnCounts DEF IInv
<1>3. TypeOK'
  BY <1>2 DEF IInv, TypeOK, locals
<1>4. CallersHoldNone'
  BY <1>1 DEF IInv, TypeOK, CallersHoldNone, own, locals
<1>5. WaitersAreCallers' /\ NobodyLost' /\ WakersKnowWhom'
  BY DEF IInv, WaitersAreCallers, NobodyLost, WakersKnowWhom, locals
<1>6. WaitingObjIsQueue'
  BY <1>1, MutexAssumption DEF IInv, TypeOK, WaitingObjIsQueue, own
<1> QED
  BY <1>2, <1>3, <1>4, <1>5, <1>6 DEF IInv

\* The task joins the wait tree, whatever its wait makes of the urgencies.
LEMMA JoinKeeps ==
    ASSUME IInv, NEW t \in Tasks, NEW o \in Objects, NEW n \in Nat,
           At(t, "run"), t \notin holders[o],
           k' \in KernelState, Present(k) \subseteq Present(k'),
           \A p \in Objects :
               NoTwice(k'.waits[p]) /\ (p # o => k'.waits[p] = k.waits[p]),
           Nodes(k'.waits[o]) = Nodes(k.waits[o]) \cup {t},
           waiting' = [waiting EXCEPT ![t] = o],
           pc' = [pc EXCEPT ![t] = "delaying"],
           on' = [on EXCEPT ![t] = o],
           ticks' = [ticks EXCEPT ![t] = n],
           pend' = [pend EXCEPT ![t] = k.switches],
           UNCHANGED <<mutexes, wake, holders>>
    PROVE  IInv'
<1>1. /\ k \in KernelState /\ pc[t] = "run" /\ ~Calling(t)
      /\ \A p \in Objects : NoTwice(k.waits[p]) /\ t \notin Nodes(k.waits[p])
  BY FreeTask
<1>2. TypeOK'
  <2>1. k.switches \in 0..(SwitchMod - 1)
    BY <1>1 DEF KernelState
  <2> QED
    BY <2>1 DEF IInv, TypeOK, Labels, mutexes
<1>3. ValueCountsHolders' /\ OwnersHold'
  BY DEF IInv, ValueCountsHolders, OwnersHold, mutexes
<1>4. \A u \in Tasks : u # t => pc'[u] = pc[u] /\ on'[u] = on[u] /\ waiting'[u] = waiting[u]
  BY DEF IInv, TypeOK
<1>5. pc'[t] = "delaying" /\ on'[t] = o /\ waiting'[t] = o
  BY DEF IInv, TypeOK
<1>6. CallersHoldNone'
  BY <1>4, <1>5 DEF IInv, CallersHoldNone
<1>7. WaitersAreCallers'
  <2>1. \A p \in Objects : Nodes(k.waits[p]) \subseteq Tasks
    BY <1>1, QueuedNodes
  <2> QED
    BY <1>1, <1>4, <1>5, <2>1 DEF IInv, WaitersAreCallers
<1>8. WaitingObjIsQueue'
  BY <1>1, <1>4, <1>5 DEF IInv, WaitingObjIsQueue
<1>9. NobodyLost'
  BY <1>1, <1>4 DEF IInv, NobodyLost, Present
<1>10. WakersKnowWhom'
  BY <1>4, <1>5 DEF IInv, WakersKnowWhom
<1> QED
  BY <1>2, <1>3, <1>6, <1>7, <1>8, <1>9, <1>10 DEF IInv

\* The mutex is taken: the owners along the chain become as urgent as the task
\* that joins the wait tree.
LEMMA EnterWaits ==
    ASSUME IsFiniteSet(Tasks), IInv, NEW t \in Tasks, NEW o \in Objects,
           At(t, "run"), waiting' = [waiting EXCEPT ![t] = o],
           k' = inherit_prio(insert_ipc(k, t, o), waiting', o, t)
    PROVE  /\ k' \in KernelState /\ Present(k) \subseteq Present(k')
           /\ \A p \in Objects :
                  NoTwice(k'.waits[p]) /\ (p # o => k'.waits[p] = k.waits[p])
           /\ Nodes(k'.waits[o]) = Nodes(k.waits[o]) \cup {t}
           /\ owner[o] # NoTask =>
                 /\ k'.dl[owner[o]] <= k.dl[t]
                 /\ waiting'[owner[o]] # NoMutex /\ owner[waiting'[owner[o]]] # NoTask =>
                       k'.dl[owner[waiting'[owner[o]]]] <= k.dl[t]
<1> DEFINE q == insert_ipc(k, t, o)
           wobj == waiting'
           m == inherit_prio(q, wobj, o, t)
<1>1. /\ k \in KernelState
      /\ \A p \in Objects : NoTwice(k.waits[p]) /\ t \notin Nodes(k.waits[p])
  BY FreeTask
<1>2. /\ q \in KernelState
      /\ \A p \in Objects :
             NoTwice(q.waits[p]) /\ (p # o => q.waits[p] = k.waits[p])
      /\ Nodes(q.waits[o]) = Nodes(k.waits[o]) \cup {t}
      /\ q.ready = k.ready /\ q.sleep = k.sleep
  BY <1>1, JoinWaits
<1>3. q.dl = k.dl
  BY <1>1 DEF insert_ipc, corrupted, KernelState
<1>4. owner \in Owners /\ wobj \in Waitings /\ k' = m
  BY DEF IInv, TypeOK, Owners, Waitings
<1> HIDE DEF q, wobj
<1>5. /\ Carries(q, m)
      /\ owner[o] # NoTask =>
            /\ m.dl[owner[o]] <= q.dl[t]
            /\ wobj[owner[o]] # NoMutex /\ owner[wobj[owner[o]]] # NoTask =>
                  m.dl[owner[wobj[owner[o]]]] <= q.dl[t]
  BY <1>2, <1>4, InheritKeeps
<1> HIDE DEF m
<1>6. /\ k' \in KernelState /\ Present(k) \subseteq Present(k')
      /\ k'.waits = q.waits
  BY <1>2, <1>4, <1>5 DEF Carries, Present
<1> QED
  BY <1>2, <1>3, <1>4, <1>5, <1>6 DEF wobj

LEMMA LockEnterKeeps ==
    ASSUME IsFiniteSet(Tasks), IInv, NEW t \in Tasks, NEW o \in Objects,
           NEW n \in Timeouts, lock_enter(t, o, n)
    PROVE  IInv'
<1>1. CASE /\ value[o] > 0 /\ own(t, o)
           /\ UNCHANGED <<k, pc, locals>>
  BY <1>1, EnterOwns DEF lock_enter
<1>2. CASE UNCHANGED vars
  BY <1>2, StutterKeeps
<1>3. CASE /\ waiting' = [waiting EXCEPT ![t] = o]
           /\ k' = inherit_prio(insert_ipc(k, t, o), waiting', o, t)
           /\ pc' = [pc EXCEPT ![t] = "delaying"]
           /\ on' = [on EXCEPT ![t] = o]
           /\ ticks' = [ticks EXCEPT ![t] = n]
           /\ pend' = [pend EXCEPT ![t] = k.switches]
           /\ UNCHANGED <<mutexes, wake, holders>>
  <2>1. At(t, "run") /\ t \notin holders[o] /\ n \in Nat
    BY MutexAssumption DEF lock_enter
  <2>2. /\ k' \in KernelState /\ Present(k) \subseteq Present(k')
        /\ \A p \in Objects :
               NoTwice(k'.waits[p]) /\ (p # o => k'.waits[p] = k.waits[p])
        /\ Nodes(k'.waits[o]) = Nodes(k.waits[o]) \cup {t}
    BY <1>3, <2>1, EnterWaits
  <2> QED
    BY <1>3, <2>1, <2>2, JoinKeeps
<1> QED
  BY <1>1, <1>2, <1>3 DEF lock_enter

LEMMA LockDelayKeeps ==
    ASSUME IInv, NEW t \in Tasks, lock_delay(t)
    PROVE  IInv'
<1>1. /\ k \in KernelState /\ k.cur \in Tasks /\ ticks[t] \in Nat
      /\ pc[t] = "delaying" /\ pc \in [Tasks -> Labels]
      /\ pend \in [Tasks -> 0..(SwitchMod - 1)] /\ ticks \in [Tasks -> Nat]
  BY DEF IInv, TypeOK, lock_delay, At, Running
<1>2. Carries(k, k')
  BY <1>1, DelayCarries DEF lock_delay
<1>3. /\ pc' = [pc EXCEPT ![t] = "waiting"] /\ ticks' = [ticks EXCEPT ![t] = 0]
      /\ UNCHANGED <<mutexes, waiting, on, pend, wake, holders>>
  BY DEF lock_delay
<1>4. Quiet
  BY <1>1, <1>2, <1>3 DEF Quiet, Calling, Labels
<1> QED
  BY <1>4, QuietKeeps

\* task_delay outside the calls, and the interrupts.
LEMMA KernelStepKeeps ==
    ASSUME IInv, Carries(k, k'), UNCHANGED <<mutexes, waiting, pc, locals, holders>>
    PROVE  IInv'
<1>1. Quiet
  BY DEF IInv, TypeOK, Quiet, Calling, locals
<1> QED
  BY <1>1, QuietKeeps

LEMMA NapKeeps ==
    ASSUME IInv, NEW t \in Tasks, nap(t)
    PROVE  IInv'
<1>1. k \in KernelState /\ k.cur \in Tasks
  BY FreeTask DEF nap
<1>2. Carries(k, k')
  BY <1>1, DelayCarries, MutexAssumption DEF nap
<1> QED
  BY <1>2, KernelStepKeeps DEF nap

LEMMA InterruptKeeps ==
    ASSUME IInv, PendSV \/ SysTick \/ check_ticks
    PROVE  IInv'
<1>1. k \in KernelState
  BY DEF IInv, TypeOK
<1>2. ASSUME PendSV PROVE Carries(k, k')
  BY <1>1, <1>2, SwitchCarries DEF PendSV
<1>3. ASSUME SysTick PROVE Carries(k, k')
  BY <1>1, <1>3, TickCarries DEF SysTick
<1>4. ASSUME check_ticks PROVE Carries(k, k')
  BY <1>1, <1>4, TickCarries, WakeCarries DEF check_ticks, Expired
<1> QED
  BY <1>2, <1>3, <1>4, KernelStepKeeps DEF PendSV, SysTick, check_ticks

\* The call ends with or without the mutex; the caller waits no more.
LEMMA LockReturnKeeps ==
    ASSUME IsFiniteSet(Tasks), IInv, NEW t \in Tasks, lock_return(t)
    PROVE  IInv'
<1> DEFINE o == on[t]
<1>1. /\ k \in KernelState /\ o \in Objects /\ pc[t] = "waiting"
      /\ \A p \in Objects : NoTwice(k.waits[p]) /\ Nodes(k.waits[p]) \subseteq Tasks
      /\ t \notin holders[o]
  <2>1. k \in KernelState /\ pc[t] = "waiting"
    BY DEF IInv, TypeOK, lock_return, At
  <2>2. \A p \in Objects : Nodes(k.waits[p]) \subseteq Tasks
    BY <2>1, QueuedNodes
  <2> QED
    BY <2>1, <2>2 DEF IInv, WaitersAreCallers, CallersHoldNone
<1>2. /\ \A u \in Tasks : u # t => pc'[u] = pc[u] /\ on'[u] = on[u]
      /\ pc'[t] = "run" /\ pc' \in [Tasks -> Labels]
      /\ on' \in [Tasks -> Objects \cup {NoMutex}]
      /\ pend' \in [Tasks -> 0..(SwitchMod - 1)]
      /\ UNCHANGED <<ticks, wake>>
  BY WidthAssumption DEF IInv, TypeOK, lock_return, Labels
<1> HIDE DEF o
<1>3. \/ /\ k' = remove_ipc(k, t) /\ UNCHANGED <<mutexes, holders>>
         /\ waiting' = [waiting EXCEPT ![t] = NoMutex]
      \/ /\ \A p \in Objects : t \notin Nodes(k.waits[p])
         /\ own(t, o) /\ UNCHANGED k
  BY DEF lock_return, check_ipc_state, o
<1>4. /\ k' \in KernelState /\ k'.ready = k.ready /\ k'.sleep = k.sleep
      /\ \A p \in Objects : /\ NoTwice(k'.waits[p])
                            /\ Nodes(k'.waits[p]) = Nodes(k.waits[p]) \ {t}
  <2>1. CASE k' = remove_ipc(k, t)
    BY <1>1, <2>1, LeaveWaits
  <2>2. CASE UNCHANGED k /\ \A p \in Objects : t \notin Nodes(k.waits[p])
    BY <1>1, <2>2
  <2> QED
    BY <1>3, <2>1, <2>2
<1>5. waiting' = [waiting EXCEPT ![t] = NoMutex]
  BY <1>3 DEF own
<1>6. /\ value' \in [Objects -> 0..(ValueMod - 1)]
      /\ owner' \in [Objects -> Tasks \cup {NoTask}]
      /\ orig' \in [Objects -> Ticks]
      /\ holders' \in [Objects -> SUBSET Tasks]
      /\ ValueCountsHolders' /\ OwnersHold'
  <2>1. CASE UNCHANGED <<mutexes, holders>>
    BY <2>1 DEF IInv, TypeOK, ValueCountsHolders, OwnersHold, mutexes
  <2>2. CASE own(t, o)
    BY <1>1, <2>2, OwnCounts DEF IInv
  <2> QED
    BY <1>3, <2>1, <2>2
<1>7. TypeOK'
  <2>1. waiting' \in [Tasks -> Objects \cup {NoMutex}]
    BY <1>5 DEF IInv, TypeOK
  <2> QED
    BY <1>2, <1>4, <1>6, <2>1 DEF IInv, TypeOK
<1>8. CallersHoldNone'
  <2>1. \A p \in Objects : \A u \in Tasks : u # t => (u \in holders'[p] <=> u \in holders[p])
    BY <1>1, <1>3 DEF own, IInv, TypeOK
  <2> QED
    BY <1>2, <2>1 DEF IInv, TypeOK, CallersHoldNone
<1>9. WaitersAreCallers'
  BY <1>1, <1>2, <1>4 DEF IInv, WaitersAreCallers
<1>10. WaitingObjIsQueue'
  <2> SUFFICES ASSUME NEW u \in Tasks, NEW p \in Objects
               PROVE  waiting'[u] = p <=> u \in Nodes(k'.waits[p])
    BY DEF WaitingObjIsQueue
  <2>1. waiting[u] = p <=> u \in Nodes(k.waits[p])
    BY DEF IInv, WaitingObjIsQueue
  <2>2. waiting'[u] = IF u = t THEN NoMutex ELSE waiting[u]
    BY <1>5 DEF IInv, TypeOK
  <2>3. u \in Nodes(k'.waits[p]) <=> u \in Nodes(k.waits[p]) /\ u # t
    BY <1>4
  <2> QED
    BY <2>1, <2>2, <2>3, MutexAssumption
<1>11. NobodyLost' /\ WakersKnowWhom'
  BY <1>1, <1>2, <1>4 DEF IInv, NobodyLost, WakersKnowWhom
<1> QED
  BY <1>6, <1>7, <1>8, <1>9, <1>10, <1>11 DEF IInv

\* The most urgent waiter, or nobody, leaves the wait trees and the sleepers,
\* and the owner gets its priority back.
LEMMA UnlockLeaves ==
    ASSUME IInv, NEW o \in Objects, NEW w, w = first_respond_ipc(k, o),
           k' = IF owner[o] = NoTask THEN unblock(w)
                ELSE rtos_task_change_prio(unblock(w), owner[o], orig[o])
    PROVE  /\ k' \in KernelState
           /\ \A p \in Objects : /\ NoTwice(k'.waits[p])
                                 /\ Nodes(k'.waits[p]) = Nodes(k.waits[p]) \ {w}
           /\ Present(k) \ {w} \subseteq Present(k')
<1> DEFINE n == unblock(w)
<1>1. k \in KernelState /\ \A p \in Objects : NoTwice(k.waits[p])
  BY DEF IInv, TypeOK, WaitersAreCallers
<1>2. /\ n \in KernelState
      /\ \A p \in Objects : /\ NoTwice(n.waits[p])
                            /\ Nodes(n.waits[p]) = Nodes(k.waits[p]) \ {w}
      /\ Present(k) \ {w} \subseteq Present(n)
  <2>1. CASE w = NoTask
    <3>1. n = k
      BY <2>1 DEF unblock
    <3>2. \A p \in Objects : NoTask \notin Nodes(k.waits[p])
      BY <1>1, NameAssumption DEF KernelState, Nodes
    <3> QED
      BY <1>1, <2>1, <3>1, <3>2
  <2>2. CASE w # NoTask
    <3>1. w \in Tasks
      BY <1>1, <2>2, FirstWaits
    <3>2. n = remove_ipc(delay_adt_remove(k, w), w)
      BY <2>2 DEF unblock
    <3> QED
      BY <1>1, <3>1, <3>2, ServedLeaves
  <2> QED
    BY <2>1, <2>2
<1> HIDE DEF n
<1>3. Carries(n, k')
  <2>1. CASE owner[o] = NoTask
    <3>1. k' = n
      BY <2>1 DEF n
    <3> QED
      BY <1>2, <3>1 DEF Carries
  <2>2. CASE owner[o] # NoTask
    <3>1. owner[o] \in Tasks /\ orig[o] \in Ticks
      BY <2>2 DEF IInv, TypeOK
    <3>2. k' = rtos_task_change_prio(n, owner[o], orig[o])
      BY <2>2 DEF n
    <3>3. Carries(n, rtos_task_change_prio(n, owner[o], orig[o]))
      <4> DEFINE a == owner[o]
                 b == orig[o]
      <4>1. a \in Tasks /\ b \in Ticks
        BY <3>1
      <4> HIDE DEF a, b
      <4>2. Carries(n, rtos_task_change_prio(n, a, b))
        BY <1>2, <4>1, ChangePrioCarries
      <4> QED
        BY <4>2 DEF a, b
    <3> QED
      BY <3>2, <3>3
  <2> QED
    BY <2>1, <2>2
<1> QED
  BY <1>2, <1>3 DEF Carries

\* The first half of mutex_unlock: whom it takes from the sleepers it has still
\* to wake.
LEMMA UnlockEnterKeeps ==
    ASSUME IsFiniteSet(Tasks), IInv, NEW t \in Tasks, NEW o \in Objects,
           unlock_enter(t, o)
    PROVE  IInv'
<1> DEFINE w == first_respond_ipc(k, o)
<1>1. /\ k \in KernelState /\ pc[t] = "run" /\ TypeOK
  BY FreeTask DEF unlock_enter, IInv
<1>2. /\ t \in holders[o] /\ wake' = [wake EXCEPT ![t] = w]
      /\ waiting' = [x \in Tasks |-> IF x = w THEN NoMutex ELSE waiting[x]]
      /\ pc' = [pc EXCEPT ![t] = IF w = NoTask THEN "run" ELSE "waking"]
      /\ value' = [value EXCEPT ![o] = (@ + 1) % ValueMod]
      /\ owner' = [owner EXCEPT ![o] = NoTask]
      /\ holders' = [holders EXCEPT ![o] = @ \ {t}]
      /\ UNCHANGED <<orig, on, ticks, pend>>
  BY DEF unlock_enter
<1>3. w = NoTask \/ w \in Tasks
  BY <1>1, FirstWaits
<1>4. /\ k' \in KernelState
      /\ \A p \in Objects : /\ NoTwice(k'.waits[p])
                            /\ Nodes(k'.waits[p]) = Nodes(k.waits[p]) \ {w}
      /\ Present(k) \ {w} \subseteq Present(k')
  BY UnlockLeaves DEF unlock_enter
<1> HIDE DEF w
<1>5. /\ value' \in [Objects -> 0..(ValueMod - 1)]
      /\ owner' \in [Objects -> Tasks \cup {NoTask}]
      /\ holders' \in [Objects -> SUBSET Tasks]
      /\ ValueCountsHolders' /\ OwnersHold'
  BY <1>2, UnlockCounts DEF IInv
<1>6. /\ \A u \in Tasks : u # t => pc'[u] = pc[u] /\ wake'[u] = wake[u]
      /\ pc'[t] = IF w = NoTask THEN "run" ELSE "waking"
      /\ wake'[t] = w
      /\ pc' \in [Tasks -> Labels] /\ wake' \in [Tasks -> Tasks \cup {NoTask}]
  BY <1>1, <1>2, <1>3 DEF TypeOK, Labels
<1>7. \A u \in Tasks : Calling(u)' <=> Calling(u)
  BY <1>1, <1>6 DEF Calling
<1>8. TypeOK'
  <2>1. waiting' \in [Tasks -> Objects \cup {NoMutex}]
    BY <1>2 DEF IInv, TypeOK
  <2> QED
    BY <1>1, <1>2, <1>4, <1>5, <1>6, <2>1 DEF TypeOK
<1>9. CallersHoldNone'
  <2>1. \A p \in Objects : holders'[p] \subseteq holders[p]
    BY <1>1, <1>2 DEF TypeOK
  <2> QED
    BY <1>1, <1>2, <1>7, <2>1 DEF IInv, CallersHoldNone, Calling, TypeOK
<1>10. WaitersAreCallers'
  <2>1. \A p \in Objects : Nodes(k.waits[p]) \subseteq Tasks
    BY <1>1, QueuedNodes
  <2> QED
    BY <1>2, <1>4, <1>7, <2>1, SMTT(30) DEF IInv, WaitersAreCallers, Calling
<1>11. WaitingObjIsQueue'
  BY <1>2, <1>4, MutexAssumption, SMTT(30) DEF IInv, WaitingObjIsQueue
<1>12. NobodyLost'
  <2> SUFFICES ASSUME NEW u \in Tasks, u \notin Present(k')
               PROVE  \E v \in Tasks : pc'[v] = "waking" /\ wake'[v] = u
    BY DEF NobodyLost, Present
  <2>1. CASE u = w
    BY <1>6, <2>1, NameAssumption
  <2>2. CASE u # w
    <3>1. u \notin Present(k)
      BY <1>4, <2>2
    <3>2. PICK v \in Tasks : pc[v] = "waking" /\ wake[v] = u
      BY <3>1 DEF IInv, NobodyLost, Present
    <3> QED
      BY <1>1, <1>6, <3>2
  <2> QED
    BY <2>1, <2>2
<1>13. WakersKnowWhom'
  BY <1>3, <1>6 DEF IInv, WakersKnowWhom
<1> QED
  BY <1>5, <1>8, <1>9, <1>10, <1>11, <1>12, <1>13 DEF IInv

\* The second half: the task it took from the sleepers is made ready.
LEMMA UnlockWakeKeeps ==
    ASSUME IInv, NEW t \in Tasks, unlock_wake(t)
    PROVE  IInv'
<1>1. /\ k \in KernelState /\ pc[t] = "waking" /\ wake[t] \in Tasks
      /\ k' = task_adt_add(k, wake[t])
      /\ pc' = [pc EXCEPT ![t] = "run"] /\ wake' = [wake EXCEPT ![t] = NoTask]
      /\ UNCHANGED <<mutexes, waiting, on, ticks, pend, holders>>
  BY DEF IInv, TypeOK, WakersKnowWhom, unlock_wake, At
<1>2. Carries(k, k') /\ wake[t] \in Present(k')
  BY <1>1, AddCarries
<1>3. k' \in KernelState /\ k'.waits = k.waits /\ Present(k) \subseteq Present(k')
  BY <1>2 DEF Carries
<1>4. /\ \A u \in Tasks : u # t => pc'[u] = pc[u] /\ wake'[u] = wake[u]
      /\ pc'[t] = "run"
      /\ pc' \in [Tasks -> Labels] /\ wake' \in [Tasks -> Tasks \cup {NoTask}]
  BY <1>1 DEF IInv, TypeOK, Labels
<1>5. \A u \in Tasks : Calling(u)' <=> Calling(u)
  BY <1>1, <1>4 DEF Calling
<1>6. TypeOK' /\ ValueCountsHolders' /\ OwnersHold'
  BY <1>1, <1>3, <1>4 DEF IInv, TypeOK, ValueCountsHolders, OwnersHold, mutexes
<1>7. CallersHoldNone' /\ WakersKnowWhom'
  BY <1>1, <1>4, <1>5 DEF IInv, CallersHoldNone, WakersKnowWhom, Calling
<1>8. WaitersAreCallers' /\ WaitingObjIsQueue'
  <2>1. \A o \in Objects : Nodes(k.waits[o]) \subseteq Tasks
    BY <1>1, QueuedNodes
  <2> QED
    BY <1>1, <1>3, <1>5, <2>1 DEF IInv, WaitersAreCallers, WaitingObjIsQueue, Calling
<1>9. NobodyLost'
  <2> SUFFICES ASSUME NEW u \in Tasks, u \notin Present(k')
               PROVE  \E v \in Tasks : pc'[v] = "waking" /\ wake'[v] = u
    BY DEF NobodyLost, Present
  <2>1. u \notin Present(k) /\ u # wake[t]
    BY <1>2, <1>3
  <2>2. PICK v \in Tasks : pc[v] = "waking" /\ wake[v] = u
    BY <2>1 DEF IInv, NobodyLost, Present
  <2> QED
    BY <1>4, <2>1, <2>2
<1> QED
  BY <1>6, <1>7, <1>8, <1>9 DEF IInv

LEMMA InitIInv ==
    ASSUME IsFiniteSet(Tasks), Init
    PROVE  IInv
<1>1. /\ k \in KernelState /\ Tasks \subseteq Present(k)
      /\ \A o \in Objects : k.waits[o] = <<>>
  <2>1. PICK order \in StartOrders : k = Started(order)
    BY DEF Init
  <2> QED
    BY <2>1, StartIsPresent
<1>2. TypeOK
  <2>1. /\ 0 \in 0..(SwitchMod - 1) /\ 0 \in Nat /\ 0 \in Ticks
        /\ 1 \in 0..(ValueMod - 1)
    BY WidthAssumption, MutexAssumption DEF Ticks
  <2> QED
    BY <1>1, <2>1 DEF Init, TypeOK, Labels
<1>3. ValueCountsHolders
  <2>1. Cardinality({}) = 0 /\ 1 + 0 = 1 /\ 1 % ValueMod = 1
    BY FS_EmptySet, MutexAssumption, SmallMod
  <2> QED
    BY <2>1 DEF Init, ValueCountsHolders
<1>4. CallersHoldNone /\ WakersKnowWhom /\ OwnersHold
  BY DEF Init, CallersHoldNone, WakersKnowWhom, OwnersHold
<1>5. WaitersAreCallers /\ WaitingObjIsQueue
  BY <1>1, MutexAssumption DEF Init, WaitersAreCallers, WaitingObjIsQueue, NoTwice, Nodes
<1>6. NobodyLost
  BY <1>1 DEF NobodyLost, Present
<1> QED
  BY <1>2, <1>3, <1>4, <1>5, <1>6 DEF IInv

LEMMA NextKeeps ==
    ASSUME IsFiniteSet(Tasks), IInv, [Next]_vars
    PROVE  IInv'
<1>1. ASSUME NEW t \in Tasks, Step(t) PROVE IInv'
  <2>1. ASSUME NEW o \in Objects, NEW n \in Timeouts, lock_enter(t, o, n)
        PROVE  IInv'
    BY <2>1, LockEnterKeeps
  <2>2. ASSUME NEW o \in Objects, unlock_enter(t, o) PROVE IInv'
    BY <2>2, UnlockEnterKeeps
  <2>3. CASE lock_delay(t)
    BY <2>3, LockDelayKeeps
  <2>4. CASE lock_spin(t)
    BY <2>4, StutterKeeps DEF lock_spin
  <2>5. CASE lock_return(t)
    BY <2>5, LockReturnKeeps
  <2>6. CASE unlock_wake(t)
    BY <2>6, UnlockWakeKeeps
  <2>7. CASE nap(t)
    BY <2>7, NapKeeps
  <2> QED
    BY <1>1, <2>1, <2>2, <2>3, <2>4, <2>5, <2>6, <2>7 DEF Step
<1>2. CASE leisure_task \/ undefined \/ UNCHANGED vars
  BY <1>2, StutterKeeps DEF leisure_task, undefined
<1>3. CASE PendSV \/ SysTick \/ check_ticks
  BY <1>3, InterruptKeeps
<1> QED
  BY <1>1, <1>2, <1>3 DEF Next
-----------------------------------------------------------------------------
(***************************************************************************)
(* The theorems.                                                           *)
(***************************************************************************)
\* The inductive invariant.
THEOREM MutexInvariant ==
    ASSUME IsFiniteSet(Tasks)
    PROVE  Spec => []IInv
<1>1. Init => IInv
  BY InitIInv
<1>2. IInv /\ [Next]_vars => IInv'
  BY NextKeeps
<1> QED
  BY <1>1, <1>2, PTL DEF Spec

\* mutex_lock counts down and mutex_unlock up, modulo 2^w: the value always says
\* how many tasks believe that they hold the mutex.
THEOREM ValueAlwaysCounts ==
    ASSUME IsFiniteSet(Tasks)
    PROVE  Spec => []ValueCountsHolders
<1>1. IInv => ValueCountsHolders
  BY DEF IInv
<1> QED
  BY <1>1, MutexInvariant, PTL

\* inherit_prio never follows a stale waiting_obj.
THEOREM WaitingObjStaysQueue ==
    ASSUME IsFiniteSet(Tasks)
    PROVE  Spec => []WaitingObjIsQueue
<1>1. IInv => WaitingObjIsQueue
  BY DEF IInv
<1> QED
  BY <1>1, MutexInvariant, PTL

\* The two halves of mutex_unlock: no task drops out between them.
THEOREM NobodyIsLost ==
    ASSUME IsFiniteSet(Tasks)
    PROVE  Spec => []NobodyLost
<1>1. IInv => NobodyLost
  BY DEF IInv
<1> QED
  BY <1>1, MutexInvariant, PTL

\* A step after which t waits for o is the first half of mutex_lock(o) by t.
LEMMA WaitBegins ==
    ASSUME IInv, Next, NEW t \in Tasks, NEW o \in Objects,
           waiting[t] # o, waiting'[t] = o
    PROVE  /\ At(t, "run") /\ t \notin holders[o]
           /\ waiting' = [waiting EXCEPT ![t] = o]
           /\ k' = inherit_prio(insert_ipc(k, t, o), waiting', o, t)
<1>1. o # NoMutex /\ waiting \in [Tasks -> Objects \cup {NoMutex}]
  BY MutexAssumption DEF IInv, TypeOK
<1>2. ASSUME NEW u \in Tasks, NEW p \in Objects, own(u, p) PROVE FALSE
  BY <1>1, <1>2 DEF own
<1>3. ~UNCHANGED waiting
  OBVIOUS
<1>4. PICK u \in Tasks : Step(u)
  BY <1>3 DEF Next, leisure_task, undefined, PendSV, SysTick, check_ticks, vars
<1>5. ASSUME NEW p \in Objects, NEW n \in Timeouts, lock_enter(u, p, n)
      PROVE  /\ At(u, "run") /\ u \notin holders[p]
             /\ waiting' = [waiting EXCEPT ![u] = p]
             /\ k' = inherit_prio(insert_ipc(k, u, p), waiting', p, u)
             /\ u = t /\ p = o
  <2>1. /\ At(u, "run") /\ u \notin holders[p]
        /\ waiting' = [waiting EXCEPT ![u] = p]
        /\ k' = inherit_prio(insert_ipc(k, u, p), waiting', p, u)
    BY <1>2, <1>3, <1>5 DEF lock_enter, vars
  <2> QED
    BY <1>1, <2>1
<1>6. ASSUME NEW p \in Objects, unlock_enter(u, p) PROVE FALSE
  BY <1>1, <1>6 DEF unlock_enter
<1>7. ~lock_return(u)
  <2>1. ASSUME lock_return(u) PROVE FALSE
    <3>1. waiting' = [waiting EXCEPT ![u] = NoMutex]
      BY <2>1 DEF lock_return, own
    <3> QED
      BY <1>1, <3>1
  <2> QED
    BY <2>1
<1> QED
  BY <1>3, <1>4, <1>5, <1>6, <1>7
     DEF Step, lock_delay, lock_spin, unlock_wake, nap, vars

\* inherit_prio: at the end of the critical section in which t begins to wait,
\* the owner is no less urgent than t, and so is the owner that one waits for.
THEOREM ChainInherits ==
    ASSUME IsFiniteSet(Tasks)
    PROVE  Spec => InheritanceReachesChain
<1>1. ASSUME IInv, Next, NEW t \in Tasks, NEW o \in Objects,
             waiting[t] # o, waiting'[t] = o, owner[o] # NoTask, ~k'.corrupt
      PROVE  /\ k'.dl[owner[o]] <= k.dl[t]
             /\ LET next == waiting[owner[o]]
                IN  next # NoMutex /\ owner[next] # NoTask
                        => k'.dl[owner[next]] <= k.dl[t]
  <2>1. /\ At(t, "run") /\ t \notin holders[o]
        /\ waiting' = [waiting EXCEPT ![t] = o]
        /\ k' = inherit_prio(insert_ipc(k, t, o), waiting', o, t)
    BY <1>1, WaitBegins
  <2>2. owner[o] \in Tasks /\ owner[o] # t
    BY <1>1, <2>1 DEF IInv, TypeOK, OwnersHold
  <2>3. waiting'[owner[o]] = waiting[owner[o]]
    BY <1>1, <2>1, <2>2 DEF IInv, TypeOK
  <2>4. /\ k'.dl[owner[o]] <= k.dl[t]
        /\ waiting'[owner[o]] # NoMutex /\ owner[waiting'[owner[o]]] # NoTask =>
              k'.dl[owner[waiting'[owner[o]]]] <= k.dl[t]
    BY <1>1, <2>1, EnterWaits
  <2> QED
    BY <2>3, <2>4
<1>2. IInv /\ [Next]_vars =>
        [\A t \in Tasks, o \in Objects :
          waiting[t] # o /\ waiting'[t] = o /\ owner[o] # NoTask /\ ~k'.corrupt
              => /\ k'.dl[owner[o]] <= k.dl[t]
                 /\ LET next == waiting[owner[o]]
                    IN  next # NoMutex /\ owner[next] # NoTask
                            => k'.dl[owner[next]] <= k.dl[t]]_vars
  BY <1>1
<1> QED
  BY <1>2, MutexInvariant, PTL DEF Spec, InheritanceReachesChain
=============================================================================
