-------------------------- MODULE SemaphoreProofs --------------------------
(***************************************************************************)
(* Safety of the semaphores for every finite set of tasks, any number of   *)
(* semaphores, any timing, and that they implement CountingSemaphore.      *)
(***************************************************************************)
EXTENDS Semaphore, KernelProofs

Calling(t) == pc[t] \in {"delaying", "waiting"}

-----------------------------------------------------------------------------
(***************************************************************************)
(* Tokens.                                                                 *)
(***************************************************************************)
\* A token that is there goes to a task that has none.
LEMMA ObtainCounts ==
    ASSUME IsFiniteSet(Tasks), TypeOK, TokensConserved,
           NEW t \in Tasks, NEW o \in Objects,
           value[o] > 0, t \notin holders[o], obtain(t, o), UNCHANGED given
    PROVE  /\ value' \in [Objects -> 0..(ValueMod - 1)]
           /\ holders' \in [Objects -> SUBSET Tasks]
           /\ value' = [value EXCEPT ![o] = value[o] - 1]
           /\ TokensConserved'
<1>1. /\ value \in [Objects -> 0..(ValueMod - 1)] /\ ValueMod \in Nat
      /\ holders \in [Objects -> SUBSET Tasks] /\ given \in [Objects -> 0..MaxGiven]
  BY SemaphoreAssumption DEF TypeOK
<1>2. value[o] - 1 \in 0..(ValueMod - 1) /\ (value[o] - 1) % ValueMod = value[o] - 1
  BY <1>1, SmallMod
<1>3. /\ value' = [value EXCEPT ![o] = value[o] - 1]
      /\ holders' = [holders EXCEPT ![o] = holders[o] \cup {t}]
  BY <1>1, <1>2 DEF obtain
<1>4. /\ Cardinality(holders[o]) \in Nat
      /\ Cardinality(holders[o] \cup {t}) = Cardinality(holders[o]) + 1
  BY <1>1, TasksCount, FS_AddElement
<1>5. TokensConserved'
  <2> SUFFICES ASSUME NEW p \in Objects
               PROVE  value'[p] + Cardinality(holders'[p]) = InitValue[p] + given'[p]
    BY DEF TokensConserved
  <2>1. value[p] + Cardinality(holders[p]) = InitValue[p] + given[p]
    BY DEF TokensConserved
  <2>2. CASE p = o
    BY <1>1, <1>3, <1>4, <2>1, <2>2
  <2>3. CASE p # o
    BY <1>1, <1>3, <2>1, <2>3
  <2> QED
    BY <2>2, <2>3
<1> QED
  BY <1>1, <1>2, <1>3, <1>5

\* A release by a task or by an interrupt handler counts up, and the 8-bit
\* value does not wrap.
LEMMA ReleaseCounts ==
    ASSUME IsFiniteSet(Tasks), TypeOK, TokensConserved,
           NEW o \in Objects, increment(o),
           \/ /\ UNCHANGED given
              /\ \E t \in holders[o] :
                    holders' = [holders EXCEPT ![o] = holders[o] \ {t}]
           \/ /\ UNCHANGED holders /\ given[o] < MaxGiven
              /\ given' = [given EXCEPT ![o] = given[o] + 1]
    PROVE  /\ value' \in [Objects -> 0..(ValueMod - 1)]
           /\ holders' \in [Objects -> SUBSET Tasks]
           /\ given' \in [Objects -> 0..MaxGiven]
           /\ value' = [value EXCEPT ![o] = value[o] + 1]
           /\ TokensConserved'
<1>1. /\ value \in [Objects -> 0..(ValueMod - 1)] /\ ValueMod \in Nat
      /\ holders \in [Objects -> SUBSET Tasks] /\ given \in [Objects -> 0..MaxGiven]
      /\ MaxGiven \in Nat /\ InitValue[o] \in Nat
      /\ InitValue[o] + MaxGiven < ValueMod
  BY SemaphoreAssumption DEF TypeOK
<1>2. value[o] + Cardinality(holders[o]) = InitValue[o] + given[o]
  BY DEF TokensConserved
<1>3. Cardinality(holders[o]) \in Nat
  BY <1>1, TasksCount
<1>4. CASE UNCHANGED given
  <2>1. PICK t \in holders[o] :
            holders' = [holders EXCEPT ![o] = holders[o] \ {t}]
    BY <1>1, <1>4
  <2>2. IsFiniteSet(holders[o])
    BY <1>1, TasksCount
  <2>3. Cardinality(holders[o] \ {t}) = Cardinality(holders[o]) - 1
    BY <2>2, FS_RemoveElement
  <2>4. Cardinality(holders[o] \ {t}) \in Nat
    BY <1>1, TasksCount
  <2>5. value[o] + 1 \in 0..(ValueMod - 1)
    BY <1>1, <1>2, <1>3, <2>3, <2>4
  <2>6. (value[o] + 1) % ValueMod = value[o] + 1
    BY <1>1, <2>5, SmallMod
  <2>7. value' = [value EXCEPT ![o] = value[o] + 1]
    BY <2>6 DEF increment
  <2>8. TokensConserved'
    <3> SUFFICES ASSUME NEW p \in Objects
                 PROVE  value'[p] + Cardinality(holders'[p]) = InitValue[p] + given'[p]
      BY DEF TokensConserved
    <3>1. value[p] + Cardinality(holders[p]) = InitValue[p] + given[p]
      BY DEF TokensConserved
    <3>2. CASE p = o
      BY <1>1, <1>3, <1>4, <2>1, <2>3, <2>7, <3>1, <3>2
    <3>3. CASE p # o
      BY <1>1, <1>4, <2>1, <2>7, <3>1, <3>3
    <3> QED
      BY <3>2, <3>3
  <2> QED
    BY <1>1, <1>4, <2>1, <2>5, <2>7, <2>8
<1>5. CASE /\ UNCHANGED holders /\ given[o] < MaxGiven
           /\ given' = [given EXCEPT ![o] = given[o] + 1]
  <2>1. value[o] + 1 \in 0..(ValueMod - 1) /\ given[o] + 1 \in 0..MaxGiven
    BY <1>1, <1>2, <1>3, <1>5
  <2>2. (value[o] + 1) % ValueMod = value[o] + 1
    BY <1>1, <2>1, SmallMod
  <2>3. value' = [value EXCEPT ![o] = value[o] + 1]
    BY <2>2 DEF increment
  <2>4. TokensConserved'
    <3> SUFFICES ASSUME NEW p \in Objects
                 PROVE  value'[p] + Cardinality(holders'[p]) = InitValue[p] + given'[p]
      BY DEF TokensConserved
    <3>1. value[p] + Cardinality(holders[p]) = InitValue[p] + given[p]
      BY DEF TokensConserved
    <3>2. CASE p = o
      BY <1>1, <1>3, <1>5, <2>3, <3>1, <3>2
    <3>3. CASE p # o
      BY <1>1, <1>5, <2>3, <3>1, <3>3
    <3> QED
      BY <3>2, <3>3
  <2> QED
    BY <1>1, <1>5, <2>1, <2>3, <2>4
<1>6. UNCHANGED given \/ (/\ UNCHANGED holders /\ given[o] < MaxGiven
                          /\ given' = [given EXCEPT ![o] = given[o] + 1])
  OBVIOUS
<1> QED
  BY <1>4, <1>5, <1>6
-----------------------------------------------------------------------------
(***************************************************************************)
(* Waiting.                                                                *)
(***************************************************************************)
Unqueued == \A o \in Objects : NoTwice(k.waits[o])

\* A step that moves nobody into or out of a wait tree, a call or a release.
Quiet ==
    /\ Carries(k, k')
    /\ UNCHANGED <<value, on, wake, holders, given>>
    /\ pc' \in [Tasks -> Labels]
    /\ \A t \in Tasks : /\ Calling(t)' = Calling(t)
                        /\ (pc'[t] = "waking") = (pc[t] = "waking")
    /\ ticks' \in [Tasks -> Nat]
    /\ pend' \in [Tasks -> 0..(SwitchMod - 1)]

LEMMA QuietKeeps ==
    ASSUME IInv, Quiet
    PROVE  IInv'
<1>1. k' \in KernelState /\ k'.waits = k.waits /\ Present(k) \subseteq Present(k')
  BY DEF Quiet, Carries
<1>2. TypeOK'
  BY <1>1 DEF IInv, TypeOK, Quiet
<1>3. TokensConserved'
  BY DEF IInv, TokensConserved, Quiet
<1>4. \A t \in Tasks : Calling(t)' <=> Calling(t)
  BY DEF Quiet
<1>5. CallersHoldNone'
  BY <1>4 DEF IInv, CallersHoldNone, Quiet, Calling
<1>6. WaitersAreCallers'
  <2>1. \A o \in Objects : Nodes(k.waits[o]) \subseteq Tasks
    BY QueuedNodes DEF IInv, TypeOK
  <2>2. UNCHANGED on
    BY DEF Quiet
  <2> QED
    BY <1>1, <1>4, <2>1, <2>2 DEF IInv, WaitersAreCallers, Calling
<1>7. NoTokenBesideWaiters'
  <2>1. \A o \in Objects : Woken(o)' = Woken(o)
    BY <1>1, <1>4 DEF Woken, Calling, Quiet
  <2> QED
    BY <1>1, <2>1 DEF IInv, NoTokenBesideWaiters, Quiet
<1>8. NobodyLost'
  BY <1>1 DEF IInv, NobodyLost, Quiet, Present
<1>9. WakersKnowWhom'
  BY DEF IInv, WakersKnowWhom, Quiet
<1> QED
  BY <1>2, <1>3, <1>5, <1>6, <1>7, <1>8, <1>9 DEF IInv

\* The most urgent waiter, or nobody, leaves the wait trees and the sleepers.
LEMMA UnblockLeaves ==
    ASSUME TypeOK, Unqueued, NEW o \in Objects
    PROVE  LET w == first_respond_ipc(k, o)
               n == unblock(w)
           IN  /\ n \in KernelState
               /\ \A p \in Objects : /\ NoTwice(n.waits[p])
                                     /\ Nodes(n.waits[p]) = Nodes(k.waits[p]) \ {w}
               /\ Present(k) \ {w} \subseteq Present(n)
<1> DEFINE w == first_respond_ipc(k, o)
           n == unblock(w)
<1>1. k \in KernelState
  BY DEF TypeOK
<1>2. CASE w = NoTask
  <2>1. n = k
    BY <1>2 DEF unblock
  <2>2. \A p \in Objects : NoTask \notin Nodes(k.waits[p])
    BY <1>1, NameAssumption DEF KernelState, Nodes
  <2> QED
    BY <1>1, <1>2, <2>1, <2>2 DEF Unqueued
<1>3. CASE w # NoTask
  <2>1. w \in Tasks
    BY <1>1, <1>3, FirstWaits
  <2>2. n = remove_ipc(delay_adt_remove(k, w), w)
    BY <1>3 DEF unblock
  <2> QED
    BY <1>1, <2>1, <2>2, ServedLeaves DEF Unqueued
<1> QED
  BY <1>2, <1>3

\* One token more, one waiter less: the waiter is now a woken task.
LEMMA ReleaseServes ==
    ASSUME IsFiniteSet(Tasks), TypeOK, WaitersAreCallers, NoTokenBesideWaiters,
           NEW o \in Objects, NEW w, w = first_respond_ipc(k, o),
           k' \in KernelState,
           \A p \in Objects : /\ NoTwice(k'.waits[p])
                             /\ Nodes(k'.waits[p]) = Nodes(k.waits[p]) \ {w},
           value' = [value EXCEPT ![o] = value[o] + 1], UNCHANGED on,
           \A t \in Tasks : Calling(t)' <=> Calling(t)
    PROVE  WaitersAreCallers' /\ NoTokenBesideWaiters'
<1>1. /\ k \in KernelState /\ value \in [Objects -> 0..(ValueMod - 1)]
      /\ ValueMod \in Nat
  BY SemaphoreAssumption DEF TypeOK
<1>2. WaitersAreCallers'
  <2>1. \A p \in Objects : Nodes(k.waits[p]) \subseteq Tasks
    BY <1>1, QueuedNodes
  <2> QED
    BY <2>1 DEF WaitersAreCallers, Calling
<1>3. ASSUME NEW p \in Objects, k'.waits[p] # <<>>
      PROVE  value'[p] <= Cardinality(Woken(p)')
  <2>1. k.waits[p] # <<>>
    BY <1>1, <1>3, QueuedNodes
  <2>2. value[p] <= Cardinality(Woken(p))
    BY <2>1 DEF NoTokenBesideWaiters
  <2>3. Woken(p) \in SUBSET Tasks
    BY DEF Woken
  <2>4. IsFiniteSet(Woken(p)) /\ Cardinality(Woken(p)) \in Nat
    BY <2>3, TasksCount
  <2>5. CASE p = o
    <3>1. w \in Nodes(k.waits[o]) /\ w \in Tasks
      BY <1>1, <2>1, <2>5, FirstWaits
    <3>2. Calling(w) /\ on[w] = o
      BY <3>1 DEF WaitersAreCallers, Calling
    <3>3. Woken(p)' = Woken(p) \cup {w} /\ w \notin Woken(p)
      BY <2>5, <3>1, <3>2 DEF Woken, Calling
    <3>4. Cardinality(Woken(p)') = Cardinality(Woken(p)) + 1
      BY <2>4, <3>3, FS_AddElement
    <3> QED
      BY <1>1, <2>2, <2>4, <2>5, <3>4
  <2>6. CASE p # o
    <3>1. w \in Tasks => ~(Calling(w) /\ on[w] = p)
      <4>1. CASE w = NoTask
        BY <4>1, NameAssumption
      <4>2. CASE w # NoTask
        <5>1. w \in Nodes(k.waits[o])
          BY <1>1, <4>2, FirstWaits
        <5> QED
          BY <2>6, <5>1 DEF WaitersAreCallers
      <4> QED
        BY <4>1, <4>2
    <3>2. Woken(p)' = Woken(p)
      BY <3>1 DEF Woken, Calling
    <3> QED
      BY <1>1, <2>2, <2>6, <3>2
  <2> QED
    BY <2>5, <2>6
<1> QED
  BY <1>2, <1>3 DEF NoTokenBesideWaiters
-----------------------------------------------------------------------------
(***************************************************************************)
(* The actions.                                                            *)
(***************************************************************************)
\* What a task between two calls is not.
LEMMA FreeTask ==
    ASSUME IInv, NEW t \in Tasks, At(t, "run")
    PROVE  /\ k \in KernelState /\ k.cur = t /\ k.cur \in Tasks
           /\ pc[t] = "run" /\ ~Calling(t)
           /\ \A o \in Objects : NoTwice(k.waits[o]) /\ t \notin Nodes(k.waits[o])
BY DEF IInv, TypeOK, WaitersAreCallers, At, Running, Calling

LEMMA EnterTakes ==
    ASSUME IsFiniteSet(Tasks), IInv, NEW t \in Tasks, NEW o \in Objects,
           At(t, "run"), t \notin holders[o], value[o] > 0, obtain(t, o),
           UNCHANGED <<k, pc, locals, given>>
    PROVE  IInv'
<1>1. pc[t] = "run"
  BY FreeTask
<1>2. /\ value' \in [Objects -> 0..(ValueMod - 1)]
      /\ holders' \in [Objects -> SUBSET Tasks]
      /\ value' = [value EXCEPT ![o] = value[o] - 1]
      /\ TokensConserved'
  BY ObtainCounts DEF IInv
<1>3. TypeOK'
  BY <1>2 DEF IInv, TypeOK, locals
<1>4. CallersHoldNone'
  BY <1>1 DEF IInv, TypeOK, CallersHoldNone, obtain, locals
<1>5. WaitersAreCallers' /\ NobodyLost' /\ WakersKnowWhom'
  BY DEF IInv, WaitersAreCallers, NobodyLost, WakersKnowWhom, locals
<1>6. NoTokenBesideWaiters'
  <2> SUFFICES ASSUME NEW p \in Objects, k.waits[p] # <<>>
               PROVE  value'[p] <= Cardinality(Woken(p))
    BY DEF NoTokenBesideWaiters, Woken, locals
  <2>1. value[p] <= Cardinality(Woken(p)) /\ value[p] \in Nat
    BY SemaphoreAssumption, SMTT(30) DEF IInv, TypeOK, NoTokenBesideWaiters
  <2>2. Cardinality(Woken(p)) \in Nat
    BY TasksCount DEF Woken
  <2>3. value'[p] <= value[p] /\ value'[p] \in Int
    BY <1>2, <2>1 DEF IInv, TypeOK
  <2> QED
    BY <2>1, <2>2, <2>3
<1> QED
  BY <1>2, <1>3, <1>4, <1>5, <1>6 DEF IInv

LEMMA EnterWaits ==
    ASSUME IsFiniteSet(Tasks), IInv, NEW t \in Tasks, NEW o \in Objects,
           NEW n \in Timeouts,
           At(t, "run"), t \notin holders[o], value[o] = 0,
           k' = insert_ipc(k, t, o),
           pc' = [pc EXCEPT ![t] = "delaying"],
           on' = [on EXCEPT ![t] = o],
           ticks' = [ticks EXCEPT ![t] = n],
           pend' = [pend EXCEPT ![t] = k.switches],
           UNCHANGED <<value, wake, holders, given>>
    PROVE  IInv'
<1>1. /\ k \in KernelState /\ pc[t] = "run" /\ ~Calling(t)
      /\ \A p \in Objects : NoTwice(k.waits[p]) /\ t \notin Nodes(k.waits[p])
  BY FreeTask
<1>2. /\ k' \in KernelState
      /\ \A p \in Objects :
             NoTwice(k'.waits[p]) /\ (p # o => k'.waits[p] = k.waits[p])
      /\ Nodes(k'.waits[o]) = Nodes(k.waits[o]) \cup {t}
      /\ k'.ready = k.ready /\ k'.sleep = k.sleep
  BY <1>1, JoinWaits, SMTT(30)
<1>3. TypeOK'
  <2>1. n \in Nat /\ k.switches \in 0..(SwitchMod - 1)
    BY <1>1, SemaphoreAssumption DEF KernelState
  <2> QED
    BY <1>2, <2>1 DEF IInv, TypeOK, Labels
<1>4. TokensConserved'
  BY DEF IInv, TokensConserved
<1>5. \A u \in Tasks : u # t => pc'[u] = pc[u] /\ on'[u] = on[u]
  BY DEF IInv, TypeOK
<1>6. pc'[t] = "delaying" /\ on'[t] = o
  BY DEF IInv, TypeOK
<1>7. CallersHoldNone'
  BY <1>5, <1>6 DEF IInv, CallersHoldNone
<1>8. WaitersAreCallers'
  <2>1. \A p \in Objects : Nodes(k.waits[p]) \subseteq Tasks
    BY <1>1, QueuedNodes
  <2> QED
    BY <1>1, <1>2, <1>5, <1>6, <2>1 DEF IInv, WaitersAreCallers
<1>9. NoTokenBesideWaiters'
  <2> SUFFICES ASSUME NEW p \in Objects, k'.waits[p] # <<>>
               PROVE  value[p] <= Cardinality(Woken(p)')
    BY DEF NoTokenBesideWaiters
  <2>1. Woken(p)' = Woken(p)
    BY <1>1, <1>2, <1>5, <1>6 DEF Woken, Calling
  <2>2. Cardinality(Woken(p)) \in Nat
    BY TasksCount DEF Woken
  <2>3. CASE p = o
    BY <2>1, <2>2, <2>3
  <2>4. CASE p # o
    <3>1. k.waits[p] # <<>>
      BY <1>2, <2>4
    <3> QED
      BY <2>1, <3>1 DEF IInv, NoTokenBesideWaiters
  <2> QED
    BY <2>3, <2>4
<1>10. NobodyLost'
  BY <1>1, <1>2, <1>5 DEF IInv, NobodyLost
<1>11. WakersKnowWhom'
  BY <1>5, <1>6 DEF IInv, WakersKnowWhom
<1> QED
  BY <1>3, <1>4, <1>7, <1>8, <1>9, <1>10, <1>11 DEF IInv

LEMMA TakeEnterKeeps ==
    ASSUME IsFiniteSet(Tasks), IInv, NEW t \in Tasks, NEW o \in Objects,
           NEW n \in Timeouts, take_enter(t, o, n)
    PROVE  IInv'
<1>1. CASE /\ value[o] > 0 /\ obtain(t, o)
           /\ UNCHANGED <<k, pc, locals, given>>
  BY <1>1, EnterTakes DEF take_enter
<1>2. CASE UNCHANGED vars
  BY <1>2 DEF IInv, vars, TypeOK, TokensConserved, CallersHoldNone,
              WaitersAreCallers, NoTokenBesideWaiters, Woken, NobodyLost,
              WakersKnowWhom
<1>3. CASE /\ value[o] = 0
           /\ k' = insert_ipc(k, t, o)
           /\ pc' = [pc EXCEPT ![t] = "delaying"]
           /\ on' = [on EXCEPT ![t] = o]
           /\ ticks' = [ticks EXCEPT ![t] = n]
           /\ pend' = [pend EXCEPT ![t] = k.switches]
           /\ UNCHANGED <<value, wake, holders, given>>
  BY <1>3, EnterWaits DEF take_enter
<1> QED
  BY <1>1, <1>2, <1>3 DEF take_enter

LEMMA TakeDelayKeeps ==
    ASSUME IInv, NEW t \in Tasks, take_delay(t)
    PROVE  IInv'
<1>1. /\ k \in KernelState /\ k.cur \in Tasks /\ ticks[t] \in Nat
      /\ pc[t] = "delaying" /\ pc \in [Tasks -> Labels]
      /\ pend \in [Tasks -> 0..(SwitchMod - 1)] /\ ticks \in [Tasks -> Nat]
  BY DEF IInv, TypeOK, take_delay, At, Running
<1>2. Carries(k, k')
  BY <1>1, DelayCarries DEF take_delay
<1>3. /\ pc' = [pc EXCEPT ![t] = "waiting"] /\ ticks' = [ticks EXCEPT ![t] = 0]
      /\ UNCHANGED <<value, on, pend, wake, holders, given>>
  BY DEF take_delay
<1>4. Quiet
  BY <1>1, <1>2, <1>3 DEF Quiet, Calling, Labels
<1> QED
  BY <1>4, QuietKeeps

\* task_delay outside the calls, and the interrupts.
LEMMA KernelStepKeeps ==
    ASSUME IInv, Carries(k, k'), UNCHANGED <<value, pc, locals, holders, given>>
    PROVE  IInv'
<1>1. Quiet
  BY DEF IInv, TypeOK, Quiet, Calling, locals
<1> QED
  BY <1>1, QuietKeeps

LEMMA NapKeeps ==
    ASSUME IInv, NEW t \in Tasks, nap(t)
    PROVE  IInv'
<1>1. k \in KernelState /\ k.cur \in Tasks
  BY FreeTask DEF nap
<1>2. Carries(k, k')
  BY <1>1, DelayCarries, SemaphoreAssumption DEF nap
<1> QED
  BY <1>2, KernelStepKeeps DEF nap

LEMMA InterruptKeeps ==
    ASSUME IInv, PendSV \/ SysTick \/ check_ticks
    PROVE  IInv'
<1>1. k \in KernelState
  BY DEF IInv, TypeOK
<1>2. ASSUME PendSV PROVE Carries(k, k')
  BY <1>1, <1>2, SwitchCarries DEF PendSV
<1>3. ASSUME SysTick PROVE Carries(k, k')
  BY <1>1, <1>3, TickCarries DEF SysTick
<1>4. ASSUME check_ticks PROVE Carries(k, k')
  BY <1>1, <1>4, TickCarries, WakeCarries DEF check_ticks, Expired
<1> QED
  BY <1>2, <1>3, <1>4, KernelStepKeeps DEF PendSV, SysTick, check_ticks

LEMMA StutterKeeps ==
    ASSUME IInv, UNCHANGED vars
    PROVE  IInv'
BY DEF IInv, vars, TypeOK, TokensConserved, CallersHoldNone, WaitersAreCallers,
       NoTokenBesideWaiters, Woken, NobodyLost, WakersKnowWhom

\* The call ends with or without a token; the caller waits no more.
LEMMA TakeReturnKeeps ==
    ASSUME IsFiniteSet(Tasks), IInv, NEW t \in Tasks, take_return(t)
    PROVE  IInv'
<1> DEFINE o == on[t]
<1>1. /\ k \in KernelState /\ o \in Objects /\ pc[t] = "waiting"
      /\ \A p \in Objects : NoTwice(k.waits[p]) /\ Nodes(k.waits[p]) \subseteq Tasks
      /\ value \in [Objects -> 0..(ValueMod - 1)] /\ ValueMod \in Nat
      /\ t \notin holders[o]
  <2>1. k \in KernelState /\ pc[t] = "waiting"
    BY DEF IInv, TypeOK, take_return, At
  <2>2. \A p \in Objects : Nodes(k.waits[p]) \subseteq Tasks
    BY <2>1, QueuedNodes
  <2> QED
    BY <2>1, <2>2, SemaphoreAssumption
       DEF IInv, TypeOK, WaitersAreCallers, CallersHoldNone
<1>2. /\ \A u \in Tasks : u # t => pc'[u] = pc[u]
      /\ pc'[t] = "run" /\ pc' \in [Tasks -> Labels]
      /\ pend' \in [Tasks -> 0..(SwitchMod - 1)]
      /\ UNCHANGED <<on, ticks, wake, given>>
  BY WidthAssumption DEF IInv, TypeOK, take_return, Labels
<1>3. \A p \in Objects : t \in Nodes(k.waits[p]) => p = o
  BY DEF IInv, WaitersAreCallers
<1> HIDE DEF o
<1>4. \/ /\ t \in Nodes(k.waits[o])
         /\ k' = remove_ipc(k, t) /\ UNCHANGED <<value, holders>>
      \/ /\ t \notin Nodes(k.waits[o])
         /\ value[o] > 0 /\ obtain(t, o) /\ UNCHANGED k
      \/ /\ t \notin Nodes(k.waits[o])
         /\ value[o] = 0 /\ UNCHANGED <<k, value, holders>>
  BY <1>1, <1>3 DEF take_return, check_ipc_state, o
<1>5. /\ k' \in KernelState /\ k'.ready = k.ready /\ k'.sleep = k.sleep
      /\ \A p \in Objects : /\ NoTwice(k'.waits[p])
                            /\ Nodes(k'.waits[p]) = Nodes(k.waits[p]) \ {t}
  <2>1. CASE k' = remove_ipc(k, t)
    BY <1>1, <2>1, LeaveWaits
  <2>2. CASE UNCHANGED k /\ t \notin Nodes(k.waits[o])
    <3>1. \A p \in Objects : Nodes(k.waits[p]) = Nodes(k.waits[p]) \ {t}
      BY <1>3, <2>2
    <3> QED
      BY <1>1, <2>2, <3>1
  <2> QED
    BY <1>4, <2>1, <2>2
<1>6. /\ value' \in [Objects -> 0..(ValueMod - 1)]
      /\ holders' \in [Objects -> SUBSET Tasks]
      /\ TokensConserved'
  <2>1. CASE UNCHANGED <<value, holders>>
    BY <1>2, <2>1 DEF IInv, TypeOK, TokensConserved
  <2>2. CASE value[o] > 0 /\ obtain(t, o)
    BY <1>1, <1>2, <2>2, ObtainCounts DEF IInv
  <2> QED
    BY <1>4, <2>1, <2>2
<1>7. TypeOK'
  BY <1>2, <1>5, <1>6 DEF IInv, TypeOK
<1>8. CallersHoldNone'
  <2>1. \A p \in Objects : \A u \in Tasks : u # t => (u \in holders'[p] <=> u \in holders[p])
    BY <1>1, <1>4 DEF obtain, IInv, TypeOK
  <2> QED
    BY <1>2, <2>1 DEF IInv, TypeOK, CallersHoldNone
<1>9. WaitersAreCallers'
  BY <1>1, <1>2, <1>5 DEF IInv, WaitersAreCallers
<1>10. NoTokenBesideWaiters'
  <2> SUFFICES ASSUME NEW p \in Objects, k'.waits[p] # <<>>
               PROVE  value'[p] <= Cardinality(Woken(p)')
    BY DEF NoTokenBesideWaiters
  <2>1. k.waits[p] # <<>>
    <3>1. Nodes(k'.waits[p]) # {}
      BY <1>5, QueuedNodes
    <3>2. Nodes(k.waits[p]) # {}
      BY <1>5, <3>1
    <3> QED
      BY <1>1, <3>2, QueuedNodes
  <2>2. value[p] <= Cardinality(Woken(p))
    BY <2>1 DEF IInv, NoTokenBesideWaiters
  <2>3. Woken(p)' = Woken(p) \ {t}
    BY <1>2, <1>5 DEF Woken
  <2>4. /\ IsFiniteSet(Woken(p)) /\ Cardinality(Woken(p)) \in Nat
        /\ Cardinality(Woken(p) \ {t}) \in Nat
    BY TasksCount DEF Woken
  <2>5. CASE t \notin Woken(p)
    <3>1. Woken(p)' = Woken(p)
      BY <2>3, <2>5
    <3>2. value'[p] <= value[p]
      BY <1>1, <1>4, ObtainCounts, <1>2 DEF IInv
    <3> QED
      BY <1>1, <1>6, <2>2, <2>4, <3>1, <3>2
  <2>6. CASE t \in Woken(p)
    <3>1. p = o /\ t \notin Nodes(k.waits[o])
      BY <2>6 DEF Woken, o
    <3>2. Cardinality(Woken(p)') = Cardinality(Woken(p)) - 1
      BY <2>3, <2>4, <2>6, FS_RemoveElement
    <3>3. CASE value[o] > 0 /\ obtain(t, o)
      <4>1. value' = [value EXCEPT ![o] = value[o] - 1]
        BY <1>1, <1>2, <3>3, ObtainCounts DEF IInv
      <4> QED
        BY <1>1, <2>2, <2>4, <3>1, <3>2, <4>1
    <3>4. CASE value[o] = 0 /\ UNCHANGED value
      BY <1>1, <2>3, <2>4, <3>1, <3>4
    <3> QED
      BY <1>4, <3>1, <3>3, <3>4
  <2> QED
    BY <2>5, <2>6
<1>11. NobodyLost' /\ WakersKnowWhom'
  BY <1>1, <1>2, <1>5 DEF IInv, NobodyLost, WakersKnowWhom
<1> QED
  BY <1>6, <1>7, <1>8, <1>9, <1>10, <1>11 DEF IInv

\* The first half of semaphore_release: whom it takes from the sleepers it
\* has still to wake.
LEMMA ReleaseEnterKeeps ==
    ASSUME IsFiniteSet(Tasks), IInv, NEW t \in Tasks, NEW o \in Objects,
           release_enter(t, o)
    PROVE  IInv'
<1> DEFINE w == first_respond_ipc(k, o)
<1>1. /\ k \in KernelState /\ pc[t] = "run" /\ Unqueued /\ TypeOK
  BY FreeTask DEF release_enter, Unqueued, IInv
<1>2. /\ t \in holders[o] /\ k' = unblock(w) /\ wake' = [wake EXCEPT ![t] = w]
      /\ pc' = [pc EXCEPT ![t] = IF w = NoTask THEN "run" ELSE "waking"]
      /\ increment(o) /\ holders' = [holders EXCEPT ![o] = holders[o] \ {t}]
      /\ UNCHANGED <<on, ticks, pend, given>>
  BY DEF release_enter
<1>3. w = NoTask \/ w \in Tasks
  BY <1>1, FirstWaits
<1>4. /\ k' \in KernelState
      /\ \A p \in Objects : /\ NoTwice(k'.waits[p])
                            /\ Nodes(k'.waits[p]) = Nodes(k.waits[p]) \ {w}
      /\ Present(k) \ {w} \subseteq Present(k')
  BY <1>1, <1>2, UnblockLeaves
<1> HIDE DEF w
<1>5. /\ value' \in [Objects -> 0..(ValueMod - 1)]
      /\ holders' \in [Objects -> SUBSET Tasks]
      /\ value' = [value EXCEPT ![o] = value[o] + 1]
      /\ TokensConserved'
  BY <1>2, ReleaseCounts DEF IInv
<1>6. /\ \A u \in Tasks : u # t => pc'[u] = pc[u] /\ wake'[u] = wake[u]
      /\ pc'[t] = IF w = NoTask THEN "run" ELSE "waking"
      /\ wake'[t] = w
      /\ pc' \in [Tasks -> Labels] /\ wake' \in [Tasks -> Tasks \cup {NoTask}]
  BY <1>1, <1>2, <1>3 DEF TypeOK, Labels
<1>7. \A u \in Tasks : Calling(u)' <=> Calling(u)
  BY <1>1, <1>6 DEF Calling
<1>8. TypeOK'
  BY <1>1, <1>2, <1>4, <1>5, <1>6 DEF TypeOK
<1>9. CallersHoldNone'
  <2>1. \A p \in Objects : holders'[p] \subseteq holders[p]
    BY <1>1, <1>2 DEF TypeOK
  <2> QED
    BY <1>1, <1>2, <1>7, <2>1 DEF IInv, CallersHoldNone, Calling, TypeOK
<1>10. WaitersAreCallers' /\ NoTokenBesideWaiters'
  BY <1>2, <1>4, <1>5, <1>7, ReleaseServes DEF IInv, w
<1>11. NobodyLost'
  <2> SUFFICES ASSUME NEW u \in Tasks, u \notin Present(k')
               PROVE  \E v \in Tasks : pc'[v] = "waking" /\ wake'[v] = u
    BY DEF NobodyLost, Present
  <2>1. CASE u = w
    BY <1>6, <2>1, NameAssumption
  <2>2. CASE u # w
    <3>1. u \notin Present(k)
      BY <1>4, <2>2
    <3>2. PICK v \in Tasks : pc[v] = "waking" /\ wake[v] = u
      BY <3>1 DEF IInv, NobodyLost, Present
    <3> QED
      BY <1>1, <1>6, <3>2
  <2> QED
    BY <2>1, <2>2
<1>12. WakersKnowWhom'
  BY <1>3, <1>6 DEF IInv, WakersKnowWhom
<1> QED
  BY <1>5, <1>8, <1>9, <1>10, <1>11, <1>12 DEF IInv

\* The second half: the task it took from the sleepers is made ready.
LEMMA ReleaseWakeKeeps ==
    ASSUME IInv, NEW t \in Tasks, release_wake(t)
    PROVE  IInv'
<1>1. /\ k \in KernelState /\ pc[t] = "waking" /\ wake[t] \in Tasks
      /\ k' = task_adt_add(k, wake[t])
      /\ pc' = [pc EXCEPT ![t] = "run"] /\ wake' = [wake EXCEPT ![t] = NoTask]
      /\ UNCHANGED <<value, on, ticks, pend, holders, given>>
  BY DEF IInv, TypeOK, WakersKnowWhom, release_wake, At
<1>2. Carries(k, k') /\ wake[t] \in Present(k')
  BY <1>1, AddCarries
<1>3. k' \in KernelState /\ k'.waits = k.waits /\ Present(k) \subseteq Present(k')
  BY <1>2 DEF Carries
<1>4. /\ \A u \in Tasks : u # t => pc'[u] = pc[u] /\ wake'[u] = wake[u]
      /\ pc'[t] = "run"
      /\ pc' \in [Tasks -> Labels] /\ wake' \in [Tasks -> Tasks \cup {NoTask}]
  BY <1>1 DEF IInv, TypeOK, Labels
<1>5. \A u \in Tasks : Calling(u)' <=> Calling(u)
  BY <1>1, <1>4 DEF Calling
<1>6. TypeOK' /\ TokensConserved'
  BY <1>1, <1>3, <1>4 DEF IInv, TypeOK, TokensConserved
<1>7. CallersHoldNone' /\ WakersKnowWhom'
  BY <1>1, <1>4, <1>5 DEF IInv, CallersHoldNone, WakersKnowWhom, Calling
<1>8. WaitersAreCallers' /\ NoTokenBesideWaiters'
  <2>1. \A o \in Objects : Nodes(k.waits[o]) \subseteq Tasks
    BY <1>1, QueuedNodes
  <2>2. \A o \in Objects : Woken(o)' = Woken(o)
    BY <1>1, <1>3, <1>5 DEF Woken, Calling
  <2> QED
    BY <1>1, <1>3, <1>5, <2>1, <2>2
       DEF IInv, WaitersAreCallers, NoTokenBesideWaiters, Calling
<1>9. NobodyLost'
  <2> SUFFICES ASSUME NEW u \in Tasks, u \notin Present(k')
               PROVE  \E v \in Tasks : pc'[v] = "waking" /\ wake'[v] = u
    BY DEF NobodyLost, Present
  <2>1. u \notin Present(k) /\ u # wake[t]
    BY <1>2, <1>3
  <2>2. PICK v \in Tasks : pc[v] = "waking" /\ wake[v] = u
    BY <2>1 DEF IInv, NobodyLost, Present
  <2> QED
    BY <1>4, <2>1, <2>2
<1> QED
  BY <1>6, <1>7, <1>8, <1>9 DEF IInv

LEMMA IrqReleaseKeeps ==
    ASSUME IsFiniteSet(Tasks), IInv, NEW o \in Objects, irq_release(o)
    PROVE  IInv'
<1> DEFINE w == first_respond_ipc(k, o)
           m == unblock(w)
<1>1. k \in KernelState /\ Unqueued /\ TypeOK
  BY DEF IInv, TypeOK, WaitersAreCallers, Unqueued
<1>2. /\ k' = IF w = NoTask THEN k ELSE task_adt_add(m, w)
      /\ given[o] < MaxGiven /\ increment(o)
      /\ given' = [given EXCEPT ![o] = given[o] + 1]
      /\ UNCHANGED <<pc, on, ticks, pend, wake, holders>>
  BY DEF irq_release, locals
<1>3. w = NoTask \/ w \in Tasks
  BY <1>1, FirstWaits
<1>4. /\ m \in KernelState
      /\ \A p \in Objects : /\ NoTwice(m.waits[p])
                            /\ Nodes(m.waits[p]) = Nodes(k.waits[p]) \ {w}
      /\ Present(k) \ {w} \subseteq Present(m)
  BY <1>1, UnblockLeaves
<1>5. w = NoTask => m = k
  BY DEF unblock
<1> HIDE DEF w, m
<1>6. /\ k' \in KernelState
      /\ \A p \in Objects : /\ NoTwice(k'.waits[p])
                            /\ Nodes(k'.waits[p]) = Nodes(k.waits[p]) \ {w}
      /\ Tasks \cap Present(k) \subseteq Present(k')
  <2>1. CASE w = NoTask
    BY <1>2, <1>4, <1>5, <2>1
  <2>2. CASE w # NoTask
    <3>1. Carries(m, k') /\ w \in Present(k')
      BY <1>2, <1>3, <1>4, <2>2, AddCarries
    <3> QED
      BY <1>4, <3>1 DEF Carries
  <2> QED
    BY <2>1, <2>2
<1>7. /\ value' \in [Objects -> 0..(ValueMod - 1)]
      /\ given' \in [Objects -> 0..MaxGiven]
      /\ value' = [value EXCEPT ![o] = value[o] + 1]
      /\ TokensConserved'
  BY <1>2, ReleaseCounts DEF IInv
<1>8. TypeOK'
  BY <1>1, <1>2, <1>6, <1>7 DEF TypeOK
<1>9. CallersHoldNone' /\ WakersKnowWhom'
  BY <1>2 DEF IInv, CallersHoldNone, WakersKnowWhom
<1>10. \A u \in Tasks : Calling(u)' <=> Calling(u)
  BY <1>2 DEF Calling
<1>11. WaitersAreCallers' /\ NoTokenBesideWaiters'
  BY <1>2, <1>6, <1>7, <1>10, ReleaseServes DEF IInv, w
<1>12. NobodyLost'
  BY <1>2, <1>6 DEF IInv, NobodyLost, Present
<1> QED
  BY <1>7, <1>8, <1>9, <1>11, <1>12 DEF IInv

LEMMA InitIInv ==
    ASSUME IsFiniteSet(Tasks), Init
    PROVE  IInv
<1>1. /\ k \in KernelState /\ Tasks \subseteq Present(k)
      /\ \A o \in Objects : k.waits[o] = <<>>
  <2>1. PICK order \in StartOrders : k = Started(order)
    BY DEF Init
  <2> QED
    BY <2>1, StartIsPresent
<1>2. \A o \in Objects : /\ InitValue[o] \in 0..(ValueMod - 1)
                         /\ InitValue[o] + 0 = InitValue[o]
  BY SemaphoreAssumption
<1>3. TypeOK
  <2>1. 0 \in 0..(SwitchMod - 1) /\ 0 \in 0..MaxGiven /\ 0 \in Nat
    BY WidthAssumption, SemaphoreAssumption
  <2>2. value \in [Objects -> 0..(ValueMod - 1)]
    BY <1>2, SemaphoreAssumption DEF Init
  <2> QED
    BY <1>1, <2>1, <2>2 DEF Init, TypeOK, Labels
<1>4. TokensConserved
  BY <1>2, FS_EmptySet DEF Init, TokensConserved
<1>5. CallersHoldNone /\ WakersKnowWhom
  BY DEF Init, CallersHoldNone, WakersKnowWhom
<1>6. WaitersAreCallers
  BY <1>1 DEF WaitersAreCallers, NoTwice, Nodes
<1>7. NoTokenBesideWaiters /\ NobodyLost
  BY <1>1 DEF NoTokenBesideWaiters, NobodyLost, Present
<1> QED
  BY <1>3, <1>4, <1>5, <1>6, <1>7 DEF IInv

LEMMA NextKeeps ==
    ASSUME IsFiniteSet(Tasks), IInv, [Next]_vars
    PROVE  IInv'
<1>1. ASSUME NEW t \in Tasks, Step(t) PROVE IInv'
  <2>1. ASSUME NEW o \in Objects, NEW n \in Timeouts, take_enter(t, o, n)
        PROVE  IInv'
    BY <2>1, TakeEnterKeeps
  <2>2. ASSUME NEW o \in Objects, release_enter(t, o) PROVE IInv'
    BY <2>2, ReleaseEnterKeeps
  <2>3. CASE take_delay(t)
    BY <2>3, TakeDelayKeeps
  <2>4. CASE take_spin(t)
    BY <2>4, StutterKeeps DEF take_spin
  <2>5. CASE take_return(t)
    BY <2>5, TakeReturnKeeps
  <2>6. CASE release_wake(t)
    BY <2>6, ReleaseWakeKeeps
  <2>7. CASE nap(t)
    BY <2>7, NapKeeps
  <2> QED
    BY <1>1, <2>1, <2>2, <2>3, <2>4, <2>5, <2>6, <2>7 DEF Step
<1>2. ASSUME NEW o \in Objects, irq_release(o) PROVE IInv'
  BY <1>2, IrqReleaseKeeps
<1>3. CASE leisure_task \/ undefined \/ UNCHANGED vars
  BY <1>3, StutterKeeps DEF leisure_task, undefined
<1>4. CASE PendSV \/ SysTick \/ check_ticks
  BY <1>4, InterruptKeeps
<1> QED
  BY <1>1, <1>2, <1>3, <1>4 DEF Next
-----------------------------------------------------------------------------
(***************************************************************************)
(* The theorems.                                                           *)
(***************************************************************************)
\* The inductive invariant.
THEOREM SemaphoreInvariant ==
    ASSUME IsFiniteSet(Tasks)
    PROVE  Spec => []IInv
<1>1. Init => IInv
  BY InitIInv
<1>2. IInv /\ [Next]_vars => IInv'
  BY NextKeeps
<1> QED
  BY <1>1, <1>2, PTL DEF Spec

\* semaphore_take, semaphore_release: no token is made or lost.
THEOREM TokensStayConserved ==
    ASSUME IsFiniteSet(Tasks)
    PROVE  Spec => []TokensConserved
<1>1. IInv => TokensConserved
  BY DEF IInv
<1> QED
  BY <1>1, SemaphoreInvariant, PTL

\* A semaphore created with 1 has one holder at most, among any number of tasks.
THEOREM ExclusionHolds ==
    ASSUME IsFiniteSet(Tasks)
    PROVE  Spec => []MutualExclusion
<1>1. IInv => MutualExclusion
  <2> SUFFICES ASSUME IInv, NEW o \in Objects, InitValue[o] = 1, given[o] = 0,
                      NEW t \in holders[o], NEW u \in holders[o], t # u
               PROVE  FALSE
    BY DEF MutualExclusion
  <2>1. /\ holders[o] \in SUBSET Tasks
        /\ value[o] + Cardinality(holders[o]) = 1 /\ value[o] \in Nat
    BY SemaphoreAssumption DEF IInv, TypeOK, TokensConserved
  <2>2. IsFiniteSet(holders[o]) /\ Cardinality(holders[o]) \in Nat
    BY <2>1, TasksCount
  <2>3. Cardinality({t, u}) = 2
    <3>1. IsFiniteSet({t}) /\ Cardinality({t}) = 1
      BY FS_Singleton
    <3>2. Cardinality({t} \cup {u}) = Cardinality({t}) + 1
      BY <3>1, FS_AddElement
    <3> QED
      BY <3>1, <3>2
  <2>4. Cardinality({t, u}) <= Cardinality(holders[o])
    BY <2>2, FS_Subset
  <2> QED
    BY <2>1, <2>2, <2>3, <2>4
<1> QED
  BY <1>1, SemaphoreInvariant, PTL

\* semaphore_release: no wake-up is lost, whoever takes the token before the
\* woken task returns.
THEOREM NoTokenIdles ==
    ASSUME IsFiniteSet(Tasks)
    PROVE  Spec => []NoTokenBesideWaiters
<1>1. IInv => NoTokenBesideWaiters
  BY DEF IInv
<1> QED
  BY <1>1, SemaphoreInvariant, PTL

\* semaphore_take: no return leaves a node in the wait tree.
THEOREM WaitersStayCallers ==
    ASSUME IsFiniteSet(Tasks)
    PROVE  Spec => []WaitersAreCallers
<1>1. IInv => WaitersAreCallers
  BY DEF IInv
<1> QED
  BY <1>1, SemaphoreInvariant, PTL

\* The two halves of semaphore_release: no task drops out between them.
THEOREM NobodyIsLost ==
    ASSUME IsFiniteSet(Tasks)
    PROVE  Spec => []NobodyLost
<1>1. IInv => NobodyLost
  BY DEF IInv
<1> QED
  BY <1>1, SemaphoreInvariant, PTL

\* The semaphores of sem.c do what CountingSemaphore promises: every step takes
\* a token, gives one back, brings a new one, or leaves the tokens alone.
THEOREM ImplementsCountingSemaphore ==
    ASSUME IsFiniteSet(Tasks)
    PROVE  Spec => ImplementsCounting
<1>1. Init => Abstract!Init
  BY DEF Init, Abstract!Init
<1>2. IInv /\ [Next]_vars => [Abstract!Next]_<<value, holders>>
  <2> SUFFICES ASSUME IInv, Next
               PROVE  [Abstract!Next]_<<value, holders>>
    BY DEF vars
  <2>1. TypeOK /\ TokensConserved
    BY DEF IInv
  <2>2. ASSUME NEW t \in Tasks, NEW o \in Objects,
               value[o] > 0, t \notin holders[o], obtain(t, o), UNCHANGED given
        PROVE  Abstract!Take(t, o)
    BY <2>1, <2>2, ObtainCounts DEF Abstract!Take, obtain
  <2>3. ASSUME NEW t \in Tasks, NEW o \in Objects, release_enter(t, o)
        PROVE  Abstract!Release(t, o)
    <3>1. /\ increment(o) /\ UNCHANGED given /\ t \in holders[o]
          /\ holders' = [holders EXCEPT ![o] = holders[o] \ {t}]
      BY <2>3 DEF release_enter
    <3>2. value' = [value EXCEPT ![o] = value[o] + 1]
      BY <2>1, <3>1, ReleaseCounts
    <3> QED
      BY <3>1, <3>2 DEF Abstract!Release
  <2>4. ASSUME NEW o \in Objects, irq_release(o)
        PROVE  Abstract!Give(o)
    <3>1. /\ increment(o) /\ UNCHANGED holders /\ given[o] < MaxGiven
          /\ given' = [given EXCEPT ![o] = given[o] + 1]
      BY <2>4 DEF irq_release
    <3>2. value' = [value EXCEPT ![o] = value[o] + 1]
      BY <2>1, <3>1, ReleaseCounts
    <3> QED
      BY <3>1, <3>2 DEF Abstract!Give
  <2>5. ASSUME NEW t \in Tasks, NEW o \in Objects, NEW n \in Timeouts,
               take_enter(t, o, n)
        PROVE  Abstract!Take(t, o) \/ UNCHANGED <<value, holders>>
    BY <2>2, <2>5 DEF take_enter, vars
  <2>6. ASSUME NEW t \in Tasks, take_return(t)
        PROVE  \/ \E o \in Objects : Abstract!Take(t, o)
               \/ UNCHANGED <<value, holders>>
    <3>1. CASE /\ check_ipc_state(k, t) /\ value[on[t]] > 0 /\ obtain(t, on[t])
      <4>1. on[t] \in Objects /\ t \notin holders[on[t]] /\ UNCHANGED given
        BY <2>6 DEF IInv, TypeOK, CallersHoldNone, take_return, At
      <4> QED
        BY <2>2, <3>1, <4>1
    <3> QED
      BY <2>6, <3>1 DEF take_return
  <2>7. CASE \E t \in Tasks : Step(t)
    <3>1. PICK t \in Tasks : Step(t)
      BY <2>7
    <3>2. CASE \E o \in Objects : \E n \in Timeouts : take_enter(t, o, n)
      BY <2>5, <3>2 DEF Abstract!Next
    <3>3. CASE \E o \in Objects : release_enter(t, o)
      BY <2>3, <3>3 DEF Abstract!Next
    <3>4. CASE take_return(t)
      BY <2>6, <3>4 DEF Abstract!Next
    <3>5. CASE take_delay(t) \/ take_spin(t) \/ release_wake(t) \/ nap(t)
      BY <3>5 DEF take_delay, take_spin, release_wake, nap, vars
    <3> QED
      BY <3>1, <3>2, <3>3, <3>4, <3>5 DEF Step
  <2>8. CASE \E o \in Objects : irq_release(o)
    BY <2>4, <2>8 DEF Abstract!Next
  <2>9. CASE leisure_task \/ PendSV \/ SysTick \/ check_ticks \/ undefined
    BY <2>9 DEF leisure_task, PendSV, SysTick, check_ticks, undefined, vars
  <2> QED
    BY <2>7, <2>8, <2>9 DEF Next
<1> QED
  BY <1>1, <1>2, SemaphoreInvariant, PTL
     DEF Spec, ImplementsCounting, Abstract!Spec
=============================================================================
