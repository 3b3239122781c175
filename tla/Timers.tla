------------------------------- MODULE Timers -------------------------------
(***************************************************************************)
(* The software timers of lttit/RTOS/source/timer.c: a tree of deadlines,  *)
(* served inside the tick interrupt, whose callbacks may create and delete *)
(* other timers.                                                           *)
(*                                                                         *)
(* Callers keep to what the code can bear: a period is not 0 (the tick     *)
(* would not end), a callback does not delete its own timer (timer_tick    *)
(* unlinks it next), and nobody deletes a timer that has run out, since    *)
(* timer_delete unlinks without a test.  So a timer that runs once is      *)
(* either deleted before it ran or stays allocated.                        *)
(***************************************************************************)
EXTENDS Integers, RbTree

CONSTANTS
    Timers,     \* struct timer_obj: what heap_malloc hands out
    Periods,    \* arguments of timer_create
    CountsFirst,\* whether SysTick_Handler counts the tick before it serves the
                \* timers (src/arch/stm32f103c8t6) or after it (pico2w): a set
    TickMod,    \* 2^w of NowTickCount and of node.value (w = 32)
    LastTick    \* bound on the clock

Assumption ==
    /\ Periods \subseteq Nat \ {0} /\ CountsFirst \subseteq BOOLEAN
    /\ TickMod \in Nat /\ LastTick \in Nat /\ LastTick < TickMod

VARIABLES
    counts_first,   \* which port this is
    now,            \* NowTickCount
    clock_tree,     \* the timers that are linked, in the order of the tree
    obj,            \* the timers that are allocated: [value, period, stop_flag]
    serving,        \* SysTick_Handler is in the loop of timer_tick
    created,        \* the tick each of them was created at
    fired           \* how often its callback ran since

vars == <<counts_first, now, clock_tree, obj, serving, created, fired>>

Init ==
    /\ counts_first \in CountsFirst
    /\ now = 0 /\ serving = FALSE
    /\ clock_tree = <<>> /\ obj = <<>>
    /\ created = [t \in Timers |-> 0]
    /\ fired = [t \in Timers |-> 0]

\* (int)(a - b) <= 0
compare_before_eq(a, b) == LET d == (a - b) % TickMod IN d = 0 \/ 2 * d >= TickMod
-----------------------------------------------------------------------------
(***************************************************************************)
(* What a call leaves of the tree and the timers, x = [tree, obj].         *)
(***************************************************************************)
clock_tree_add(x, t) ==
    LET due == [x.obj EXCEPT ![t].value = (now + x.obj[t].period) % TickMod]
    IN  [tree |-> rb_insert_node(x.tree, [u \in DOMAIN due |-> due[u].value], t),
         obj |-> due]

clock_tree_remove(x, t) == [x EXCEPT !.tree = rb_remove_node(@, t)]

timer_create(x, t, period, flag) ==
    LET new == [value |-> 0, period |-> period, stop_flag |-> flag]
        all == [u \in DOMAIN x.obj \cup {t} |-> IF u = t THEN new ELSE x.obj[u]]
    IN  clock_tree_add([x EXCEPT !.obj = all], t)

timer_delete(x, t) ==
    LET y == clock_tree_remove(x, t)
    IN  [y EXCEPT !.obj = [u \in DOMAIN @ \ {t} |-> @[u]]]

\* What code that may create or delete a timer other than t leaves.
OneCall(x, t) ==
    {timer_create(x, u, p, f) : u \in Timers \ DOMAIN x.obj, p \in Periods,
                                f \in {"run", "stop"}}
    \cup {timer_delete(x, u) : u \in Nodes(x.tree) \ {t}}

Becomes(x) ==
    /\ clock_tree' = x.tree
    /\ obj' = x.obj
    /\ created' = [u \in Timers |-> IF u \notin DOMAIN x.obj THEN 0
                                    ELSE IF u \in DOMAIN obj THEN created[u] ELSE now]

Current == [tree |-> clock_tree, obj |-> obj]
Kept(x, f) == [u \in Timers |-> IF u \in DOMAIN x.obj THEN f[u] ELSE 0]
-----------------------------------------------------------------------------
\* A task calls timer_create or timer_delete; its critical section is the step.
task_call ==
    /\ ~serving
    /\ \E x \in OneCall(Current, "none") : Becomes(x) /\ fired' = Kept(x, fired)
    /\ UNCHANGED <<counts_first, now, serving>>

SysTick ==
    /\ ~serving
    /\ now < LastTick
    /\ serving' = TRUE
    /\ now' = IF counts_first THEN (now + 1) % TickMod ELSE now
    /\ UNCHANGED <<counts_first, clock_tree, obj, created, fired>>

Expired ==
    clock_tree # <<>> /\ compare_before_eq(obj[first_node(clock_tree)].value, now)

\* One turn of timer_tick: the callback, then the timer is unlinked and, when
\* it is periodic, linked again.
timer_tick ==
    /\ serving /\ Expired
    /\ LET t == first_node(clock_tree)
       IN  \E x \in {Current} \cup OneCall(Current, t) :
              LET y == clock_tree_remove(x, t)
                  z == IF y.obj[t].stop_flag = "run" THEN clock_tree_add(y, t) ELSE y
              IN  /\ Becomes(z)
                  /\ fired' = Kept(z, [fired EXCEPT ![t] = @ + 1])
    /\ UNCHANGED <<counts_first, now, serving>>

\* Mutant of tick_over: one timer is served in a tick.
tick_over_early ==
    /\ serving
    /\ serving' = FALSE
    /\ now' = IF counts_first THEN now ELSE (now + 1) % TickMod
    /\ UNCHANGED <<counts_first, clock_tree, obj, created, fired>>

tick_over ==
    /\ serving /\ ~Expired
    /\ serving' = FALSE
    /\ now' = IF counts_first THEN now ELSE (now + 1) % TickMod
    /\ UNCHANGED <<counts_first, clock_tree, obj, created, fired>>

Next == task_call \/ SysTick \/ timer_tick \/ tick_over

Spec == Init /\ [][Next]_vars
-----------------------------------------------------------------------------
(***************************************************************************)
(* Properties                                                              *)
(***************************************************************************)
\* The ticks whose timers were served since t was created.  A port that counts
\* last serves a timer in the tick after the one that reaches its time.
Age(t) ==
    LET ticks == now - created[t] - (IF counts_first THEN 0 ELSE 1)
    IN  IF ticks < 0 THEN 0 ELSE ticks

\* Between ticks a periodic timer has fired once for every whole period of its
\* age, and one that runs once as soon as it is a period old: no firing is lost,
\* doubled or late, whatever falls due in one tick and whatever callbacks create
\* and delete there.  The tree holds those that have still to fire, and no
\* timer that was deleted.
FiresEveryPeriod ==
    ~serving =>
        /\ \A t \in DOMAIN obj :
              LET periods == Age(t) \div obj[t].period
              IN  fired[t] = IF obj[t].stop_flag = "run" \/ periods = 0
                             THEN periods ELSE 1
        /\ Nodes(clock_tree) =
              {t \in DOMAIN obj : obj[t].stop_flag = "run" \/ fired[t] = 0}
-----------------------------------------------------------------------------
(***************************************************************************)
(* The inductive invariant behind it, of timers x = [tree, obj] that were  *)
(* created at the ticks born and have run so many times.                   *)
(***************************************************************************)
\* The earliest tick that is still to be served, and the last that was or is.
Soonest == IF counts_first /\ ~serving THEN now + 1 ELSE now
Latest == IF counts_first \/ serving THEN now ELSE now - 1

Timer == [value : 0..(TickMod - 1), period : Periods, stop_flag : {"run", "stop"}]
Runs(x, runs, t) == x.obj[t].stop_flag = "run" \/ runs[t] = 0

Typed(x, born, runs) ==
    /\ DOMAIN x.obj \subseteq Timers /\ \A t \in DOMAIN x.obj : x.obj[t] \in Timer
    /\ x.tree \in Seq(DOMAIN x.obj)
    /\ born \in [Timers -> 0..now] /\ runs \in [Timers -> Nat]
    /\ \A t \in Timers \ DOMAIN x.obj : runs[t] = 0

Sorted(x, runs) ==
    /\ NoTwice(x.tree) /\ Ordered(x.tree, [t \in DOMAIN x.obj |-> x.obj[t].value])
    /\ Nodes(x.tree) = {t \in DOMAIN x.obj : Runs(x, runs, t)}

\* A timer that is linked is due one period after it ran last, or was created.
OnTime(x, born, runs, t) ==
    LET period == x.obj[t].period
    IN  /\ Runs(x, runs, t) => /\ x.obj[t].value = born[t] + period * (runs[t] + 1)
                               /\ x.obj[t].value >= Soonest
        /\ runs[t] > 0 => born[t] + period * runs[t] <= Latest
        /\ x.obj[t].stop_flag = "stop" => runs[t] <= 1

InTime(x, born, runs) == \A t \in DOMAIN x.obj : OnTime(x, born, runs, t)

Sound(x, born, runs) == Typed(x, born, runs) /\ Sorted(x, runs) /\ InTime(x, born, runs)

IInv ==
    /\ counts_first \in BOOLEAN /\ serving \in BOOLEAN /\ now \in 0..LastTick
    /\ serving /\ ~counts_first => now < LastTick
    /\ Sound(Current, created, fired)

\* No deadline reaches so far ahead that the comparison of words takes it for
\* one that is past, nor past the top of the word.
NeverWraps == \A p \in Periods : 2 * (LastTick + p) < TickMod
=============================================================================
