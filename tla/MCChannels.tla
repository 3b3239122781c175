----------------------------- MODULE MCChannels -----------------------------
(***************************************************************************)
(* What is sent is what is received: a message queue of one node, or the   *)
(* transport between two.  What is chosen first decides which one moves;   *)
(* the other one is as it was created.                                     *)
(***************************************************************************)
EXTENDS MCMessageQueue, Scp

CONSTANTS client, listener

VARIABLE part

(***************************************************************************)
(* A client and a listener.  The client's sequence numbers wrap around.    *)
(* One kind of trouble at a time: reordering, either side closing, an      *)
(* exhausted heap, data both ways, a silent peer.                          *)
(***************************************************************************)
Bytes2(n, m) == [e \in Ends |-> IF e = client THEN n ELSE m]
Plain == [link |-> 1, closers |-> {}, total |-> Bytes2(3, 0), fails |-> {},
          retries |-> 0, idle |-> 0]
MCIss == [e \in Ends |-> IF e = client THEN {14} ELSE {3}]
MCSizes == {[Plain EXCEPT !.link = 2],
            [Plain EXCEPT !.closers = {client}, !.retries = 1, !.total = Bytes2(2, 0)],
            [Plain EXCEPT !.closers = {listener}, !.retries = 1, !.total = Bytes2(2, 0)],
            [Plain EXCEPT !.fails = {1}, !.total = Bytes2(2, 0)],
            [Plain EXCEPT !.total = Bytes2(2, 1)],
            [Plain EXCEPT !.idle = 1, !.total = Bytes2(2, 0)]}
-----------------------------------------------------------------------------
ChannelsInit ==
    /\ part \in {"queue", "transport"}
    /\ Init /\ ScpInit
    /\ part = "transport" => k = Started(CHOOSE order \in StartOrders : TRUE)
    /\ part = "queue" => size = [Plain EXCEPT !.link = 2]

\* The transport may stop: both ends have nothing more to say.
ChannelsNext ==
    /\ UNCHANGED part
    /\ IF part = "queue" THEN Next ELSE UNCHANGED vars
    /\ IF part = "transport" THEN ScpNext \/ UNCHANGED scp_vars ELSE UNCHANGED scp_vars

ChannelsSpec == ChannelsInit /\ [][ChannelsNext]_<<part, vars, scp_vars>>
=============================================================================
