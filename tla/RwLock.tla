------------------------------- MODULE RwLock -------------------------------
(***************************************************************************)
(* The read-write lock of lttit/RTOS/source/RWlock.c.  Its two semaphores  *)
(* are those of CountingSemaphore; a take that runs out of time is tried   *)
(* again.                                                                  *)
(*                                                                         *)
(* spin_lock (atomic.h) disables preemption until spin_unlock: a section   *)
(* under c_guard is one step, and while a writer holds w_guard no other    *)
(* task runs.                                                              *)
(***************************************************************************)
EXTENDS Integers, FiniteSets

CONSTANT Tasks

VARIABLES
    active_reader,      \* tasks that read or wait to read
    reading_reader,     \* those of them that were given a token
    active_writer,      \* tasks that write or wait to write
    writing_writer,     \* those of them that were given a token
    read, write,        \* tokens of the two semaphores
    pc                  \* where each task is

vars == <<active_reader, reading_reader, active_writer, writing_writer, read, write, pc>>

Init ==
    /\ active_reader = 0 /\ reading_reader = 0
    /\ active_writer = 0 /\ writing_writer = 0
    /\ read = 0 /\ write = 0
    /\ pc = [t \in Tasks |-> "idle"]

Are(label) == {t \in Tasks : pc[t] = label}

\* Task t runs and goes on.
Goes(t, from, to) ==
    /\ Are("writing") \subseteq {t}
    /\ pc[t] = from
    /\ pc' = [pc EXCEPT ![t] = to]
-----------------------------------------------------------------------------
\* Mutant of read_acquire: a reader goes in whatever writers there are.
read_acquire_always(t) ==
    /\ Goes(t, "idle", "take_read")
    /\ active_reader' = active_reader + 1
    /\ reading_reader' = reading_reader + 1
    /\ read' = read + 1
    /\ UNCHANGED <<active_writer, writing_writer, write>>

\* A reader gives itself a token unless a writer is there.
read_acquire(t) ==
    LET given == IF active_writer = 0 THEN 1 ELSE 0
    IN  /\ Goes(t, "idle", "take_read")
        /\ active_reader' = active_reader + 1
        /\ reading_reader' = reading_reader + given
        /\ read' = read + given
        /\ UNCHANGED <<active_writer, writing_writer, write>>

read_take(t) ==
    /\ Goes(t, "take_read", "reading")
    /\ read > 0
    /\ read' = read - 1
    /\ UNCHANGED <<active_reader, reading_reader, active_writer, writing_writer, write>>

\* The last reader gives tokens to all writers.
read_release(t) ==
    LET given == IF reading_reader = 1 THEN active_writer - writing_writer ELSE 0
    IN  /\ Goes(t, "reading", "idle")
        /\ active_reader' = active_reader - 1
        /\ reading_reader' = reading_reader - 1
        /\ writing_writer' = writing_writer + given
        /\ write' = write + given
        /\ UNCHANGED <<active_writer, read>>

\* A writer gives itself a token unless somebody reads.
write_acquire(t) ==
    LET given == IF reading_reader = 0 THEN 1 ELSE 0
    IN  /\ Goes(t, "idle", "take_write")
        /\ active_writer' = active_writer + 1
        /\ writing_writer' = writing_writer + given
        /\ write' = write + given
        /\ UNCHANGED <<active_reader, reading_reader, read>>

write_take(t) ==
    /\ Goes(t, "take_write", "lock_w")
    /\ write > 0
    /\ write' = write - 1
    /\ UNCHANGED <<active_reader, reading_reader, active_writer, writing_writer, read>>

\* w_guard is free: whoever holds it runs.
write_lock(t) ==
    /\ Goes(t, "lock_w", "writing")
    /\ UNCHANGED <<active_reader, reading_reader, active_writer, writing_writer, read, write>>

write_unlock(t) ==
    /\ Goes(t, "writing", "unlocked_w")
    /\ UNCHANGED <<active_reader, reading_reader, active_writer, writing_writer, read, write>>

\* Mutant of write_release: readers that came meanwhile are not let in.
write_release_only(t) ==
    /\ Goes(t, "unlocked_w", "idle")
    /\ active_writer' = active_writer - 1
    /\ writing_writer' = writing_writer - 1
    /\ UNCHANGED <<active_reader, reading_reader, read, write>>

\* The last writer gives tokens to all readers.
write_release(t) ==
    LET given == IF active_writer = 1 THEN active_reader - reading_reader ELSE 0
    IN  /\ Goes(t, "unlocked_w", "idle")
        /\ active_writer' = active_writer - 1
        /\ writing_writer' = writing_writer - 1
        /\ reading_reader' = reading_reader + given
        /\ read' = read + given
        /\ UNCHANGED <<active_reader, write>>

Next ==
    \E t \in Tasks :
        \/ read_acquire(t) \/ read_take(t) \/ read_release(t)
        \/ write_acquire(t) \/ write_take(t) \/ write_lock(t) \/ write_unlock(t)
        \/ write_release(t)

Spec == Init /\ [][Next]_vars
-----------------------------------------------------------------------------
(***************************************************************************)
(* Properties                                                              *)
(***************************************************************************)
\* Nobody reads while a task writes, or is about to with its token in hand;
\* one task writes at a time.
WriterExcludes ==
    /\ Are("reading") = {} \/ Are("lock_w") \cup Are("writing") = {}
    /\ Cardinality(Are("writing")) <= 1

\* Whoever waits will be let in: a token is there, or a task has its turn that
\* hands out tokens on leaving; and no token is there without a taker.
ReaderTurn == read > 0 \/ Are("reading") # {}
WriterTurn == write > 0 \/ Are("lock_w") \cup Are("writing") \cup Are("unlocked_w") # {}
NobodyStranded ==
    /\ Are("take_read") # {} =>
          \/ read > 0
          \/ WriterTurn
          \/ ReaderTurn /\ Are("take_write") # {}
    /\ Are("take_write") # {} => ReaderTurn \/ WriterTurn
    /\ read <= Cardinality(Are("take_read"))
    /\ write <= Cardinality(Are("take_write"))

\* What makes both inductive: the four counters and the tokens count the tasks
\* at each place, readers and writers are not let in at the same time, and
\* whoever is not let in waits for the other kind.
Labels == {"idle", "take_read", "reading", "take_write", "lock_w", "writing", "unlocked_w"}
Count(label) == Cardinality(Are(label))
InTurn == Count("lock_w") + Count("writing") + Count("unlocked_w")
TypeOK ==
    /\ pc \in [Tasks -> Labels]
    /\ read \in Nat /\ write \in Nat
CountersCount ==
    /\ active_reader = Count("take_read") + Count("reading")
    /\ reading_reader = read + Count("reading")
    /\ active_writer = Count("take_write") + InTurn
    /\ writing_writer = write + InTurn
    /\ read <= Count("take_read")
    /\ write <= Count("take_write")
TurnsAlternate ==
    /\ reading_reader = 0 \/ writing_writer = 0
    /\ reading_reader < active_reader => active_writer > 0
    /\ writing_writer < active_writer => reading_reader > 0
IInv == TypeOK /\ CountersCount /\ TurnsAlternate /\ Count("writing") <= 1
=============================================================================
