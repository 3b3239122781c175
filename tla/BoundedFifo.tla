---------------------------- MODULE BoundedFifo ----------------------------
(***************************************************************************)
(* What a message queue promises: messages come out once each, in the      *)
(* order they went in, and never more than Capacity are inside.            *)
(***************************************************************************)
EXTENDS Naturals, Sequences

CONSTANTS Tasks, Messages, Capacity, NoMessage

VARIABLES
    contents,   \* the messages inside
    received    \* the last message each task received

Init ==
    /\ contents = <<>>
    /\ received = [t \in Tasks |-> NoMessage]

Send(m) ==
    /\ Len(contents) < Capacity
    /\ contents' = Append(contents, m)
    /\ UNCHANGED received

Receive(t) ==
    /\ contents # <<>>
    /\ contents' = Tail(contents)
    /\ received' = [received EXCEPT ![t] = Head(contents)]

Next == (\E m \in Messages : Send(m)) \/ (\E t \in Tasks : Receive(t))

Step == [Next]_<<contents, received>>

Spec == Init /\ [][Step]_<<contents, received>>
=============================================================================
