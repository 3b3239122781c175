------------------------------- MODULE PcQueue -------------------------------
(***************************************************************************)
(* The bounded buffer of lttit/RTOS/source/PCqueue.c, used by tasks.  Its  *)
(* two semaphores are those of CountingSemaphore, which Semaphore          *)
(* implements: a take that succeeds is one step.                           *)
(***************************************************************************)
EXTENDS Integers, Sequences, FiniteSets

CONSTANTS
    Tasks,
    Messages,
    NoMessage,
    BufferSize  \* buffer_size of pc_queue_create

VARIABLES
    buf,        \* q->buf, indexed from 0
    in, out,    \* where the next message is written and read
    item,       \* tokens of q->item
    space,      \* tokens of q->space
    pc,         \* where each task is
    value,      \* the message a sender holds
    received    \* the last message each task received

vars == <<buf, in, out, item, space, pc, value, received>>

Init ==
    /\ buf = [i \in 0..(BufferSize - 1) |-> NoMessage]
    /\ in = 0 /\ out = 0
    /\ item = 0
    /\ space = BufferSize
    /\ pc = [t \in Tasks |-> "idle"]
    /\ value = [t \in Tasks |-> NoMessage]
    /\ received = [t \in Tasks |-> NoMessage]

At(t, from, to) == pc[t] = from /\ pc' = [pc EXCEPT ![t] = to]
-----------------------------------------------------------------------------
\* A call whose time is over before there is a token changes nothing.
pc_queue_send(t, m) ==
    /\ At(t, "idle", "writing")
    /\ space > 0
    /\ space' = space - 1
    /\ value' = [value EXCEPT ![t] = m]
    /\ UNCHANGED <<buf, in, out, item, received>>

\* Under scheduler_lock.
send_write(t) ==
    /\ At(t, "writing", "written")
    /\ buf' = [buf EXCEPT ![in] = value[t]]
    /\ in' = (in + 1) % BufferSize
    /\ value' = [value EXCEPT ![t] = NoMessage]
    /\ UNCHANGED <<out, item, space, received>>

send_release(t) ==
    /\ At(t, "written", "idle")
    /\ item' = item + 1
    /\ UNCHANGED <<buf, in, out, space, value, received>>

pc_queue_recv(t) ==
    /\ At(t, "idle", "reading")
    /\ item > 0
    /\ item' = item - 1
    /\ UNCHANGED <<buf, in, out, space, value, received>>

\* Under scheduler_lock.
recv_read(t) ==
    /\ At(t, "reading", "read")
    /\ received' = [received EXCEPT ![t] = buf[out]]
    /\ out' = (out + 1) % BufferSize
    /\ UNCHANGED <<buf, in, item, space, value>>

\* Mutant of recv_release: the token goes to the wrong semaphore.
recv_release_item(t) ==
    /\ At(t, "read", "idle")
    /\ item' = item + 1
    /\ UNCHANGED <<buf, in, out, space, value, received>>

recv_release(t) ==
    /\ At(t, "read", "idle")
    /\ space' = space + 1
    /\ UNCHANGED <<buf, in, out, item, value, received>>

Next ==
    \E t \in Tasks :
        \/ \E m \in Messages : pc_queue_send(t, m)
        \/ send_write(t) \/ send_release(t)
        \/ pc_queue_recv(t) \/ recv_read(t) \/ recv_release(t)

Spec == Init /\ [][Next]_vars
-----------------------------------------------------------------------------
\* The messages that were written and not read: each has a token in item, or a
\* task on its way to release or to use one.
Carrying == {"written", "reading"}
Inside == item + Cardinality({t \in Tasks : pc[t] \in Carrying})

Contents == [i \in 1..Inside |-> buf[((out - 1) + i) % BufferSize]]

\* However senders and receivers interleave, and with several of each, the
\* buffer is a bounded first-in first-out queue: no message is written over
\* another, read twice, lost or overtaken.
Fifo == INSTANCE BoundedFifo WITH Capacity <- BufferSize, contents <- Contents
ImplementsFifo == Fifo!Spec
-----------------------------------------------------------------------------
(***************************************************************************)
(* The inductive invariant behind the refinement.                          *)
(***************************************************************************)
Slots == 0..(BufferSize - 1)
Labels == {"idle", "writing", "written", "reading", "read"}

TypeOK ==
    /\ buf \in [Slots -> Messages \cup {NoMessage}]
    /\ in \in Slots /\ out \in Slots
    /\ item \in Nat /\ space \in Nat
    /\ pc \in [Tasks -> Labels]
    /\ value \in [Tasks -> Messages \cup {NoMessage}]
    /\ received \in [Tasks -> Messages \cup {NoMessage}]

\* Every slot has a token in space, a message, or a task on its way to put a
\* message into it or to give its token back.
Claiming == {"writing", "read"}
SlotsAccountedFor ==
    space + Inside + Cardinality({t \in Tasks : pc[t] \in Claiming}) = BufferSize

\* The next message goes behind those that are inside.
WriteFollowsContents == in = ((out - 1) + (Inside + 1)) % BufferSize

WritersHoldMessage == \A t \in Tasks : pc[t] = "writing" => value[t] \in Messages

IInv == TypeOK /\ SlotsAccountedFor /\ WriteFollowsContents /\ WritersHoldMessage
=============================================================================
