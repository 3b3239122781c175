-------------------------------- MODULE Rpc --------------------------------
(***************************************************************************)
(* Remote calls: lttit/CSC/ccrpc/source/rpc.c and rpc_port.c.              *)
(*                                                                         *)
(* Each node has one table of pending calls and one counter of sequence    *)
(* numbers, both under rpc_port_lock; one action is one section under it.  *)
(* Below is the stream of Scp: what is sent arrives in order, cut into     *)
(* pieces anywhere.  Requests and answers look the same on the stream: a   *)
(* message is an answer when its number is pending.                        *)
(***************************************************************************)
EXTENDS Integers, Sequences, FiniteSets, FiniteSetsExt, SequencesExt

CONSTANTS
    Nodes,      \* the two ends
    Tasks,      \* tasks that call rpc_call
    Home,       \* the node of each task
    NoCall,     \* a model value
    Pieces,     \* a message arrives in so many pieces
    Sizes       \* bounds, see size

Fates == {"done", "failed", "refused", "lost", "dropped"}

Assumption ==
    /\ \E a, b \in Nodes : a # b /\ Nodes = {a, b}
    /\ IsFiniteSet(Tasks) /\ Home \in [Tasks -> Nodes]
    /\ Pieces \in Nat \ {0}
    /\ Sizes \subseteq [callers : SUBSET Tasks, calls : Nat, space : Nat \ {0, 1},
                        fates : SUBSET Fates]

VARIABLES
    next,       \* g_next_seq of each node
    pending,    \* g_pending of each node: number -> task whose call it is
    call,       \* the call each task is in, with its struct pending_call
    chan,       \* messages on their way to each node
    reasm,      \* pieces of the first of them in the node's reassembly list
    executed,   \* per call made: how often the peer's handler ran for it
    ended,      \* per call made: the status it returned and whose answer it took
    size        \* how large this behaviour is: the tasks that call (callers),
                \* the calls they make (calls), the numbers there are (space)
                \* and what may become of a message (fates)

vars == <<next, pending, call, chan, reasm, executed, ended, size>>

Peer(n) == CHOOSE m \in Nodes : m # n
Idle == [pc |-> "idle", id |-> 0, seq |-> 0, woken |-> FALSE, timed |-> FALSE,
         status |-> "OK", of |-> NoCall]
Made == Len(executed)

Init ==
    /\ size \in Sizes
    /\ next = [n \in Nodes |-> 1]
    /\ pending = [n \in Nodes |-> <<>>]
    /\ call = [t \in Tasks |-> Idle]
    /\ chan = [n \in Nodes |-> <<>>]
    /\ reasm = [n \in Nodes |-> 0]
    /\ executed = <<>>
    /\ ended = <<>>
-----------------------------------------------------------------------------
(***************************************************************************)
(* Calling.                                                                *)
(***************************************************************************)
Pending(n) == DOMAIN pending[n]

\* 0 is skipped when the counter wraps.
After(s, d) == ((s - 1 + d) % (size.space - 1)) + 1

\* Mutant of rpc_next_seq: a number still in use is handed out again.
next_seq_unchecked(n) == next[n]

\* Mutant of rpc_next_seq: the number of a finished call is used at once.
next_seq_lowest(n) == Min((1..(size.space - 1)) \ Pending(n))

rpc_next_seq(n) ==
    After(next[n], Min({d \in 0..(size.space - 2) : After(next[n], d) \notin Pending(n)}))

MayCall(t) ==
    /\ t \in size.callers
    /\ call[t].pc = "idle"
    /\ Made < size.calls
    /\ Cardinality(Pending(Home[t])) < size.space - 1

rpc_call(t) ==
    LET n == Home[t]
        seq == rpc_next_seq(n)
        id == Made + 1
    IN  /\ MayCall(t)
        /\ next' = [next EXCEPT ![n] = After(seq, 1)]
        /\ pending' = [pending EXCEPT ![n] = [s \in Pending(n) \cup {seq} |->
                                                IF s = seq THEN t ELSE @[s]]]
        /\ call' = [call EXCEPT ![t] = [Idle EXCEPT !.pc = "waiting", !.id = id, !.seq = seq]]
        /\ chan' = [chan EXCEPT ![Peer(n)] =
                        Append(@, [seq |-> seq, status |-> "OK", of |-> id, body |-> "request"])]
        /\ executed' = Append(executed, 0)
        /\ ended' = Append(ended, [status |-> "NONE", of |-> NoCall])
        /\ UNCHANGED <<reasm, size>>

\* The transport refuses the message, or the heap is exhausted: the number is
\* used up, the entry is taken out again under the same lock.
rpc_call_fails(t) ==
    LET n == Home[t]
    IN  /\ MayCall(t)
        /\ next' = [next EXCEPT ![n] = After(rpc_next_seq(n), 1)]
        /\ executed' = Append(executed, 0)
        /\ ended' = Append(ended, [status |-> "TRANSPORT_ERROR", of |-> NoCall])
        /\ UNCHANGED <<pending, call, chan, reasm, size>>

\* rpc_waiter_wait: the semaphore of the call was released, or its time is
\* over.  An answer that comes between this and rpc_return is still taken.
rpc_waiter_wait(t) ==
    /\ call[t].pc = "waiting"
    /\ call' = [call EXCEPT ![t].pc = "back", ![t].timed = ~call[t].woken]
    /\ UNCHANGED <<next, pending, chan, reasm, executed, ended, size>>

rpc_return(t) ==
    LET c == call[t]
        n == Home[t]
    IN  /\ c.pc = "back"
        /\ pending' = [pending EXCEPT ![n] = [s \in Pending(n) \ {c.seq} |-> @[s]]]
        /\ call' = [call EXCEPT ![t] = Idle]
        /\ ended' = [ended EXCEPT ![c.id] =
                        IF c.timed THEN [status |-> "TIMEOUT", of |-> NoCall]
                        ELSE [status |-> c.status, of |-> c.of]]
        /\ UNCHANGED <<next, chan, reasm, executed, size>>
-----------------------------------------------------------------------------
(***************************************************************************)
(* Receiving.  The messages completed by one rpc_on_data are dispatched    *)
(* one after the other under the lock.  Nothing is called or returns in    *)
(* between, so each goes its way whatever the others do.                   *)
(***************************************************************************)
\* A message the heap has no room for is dropped.
rpc_dispatch_message(n, m, fate) ==
    IF fate = "dropped" THEN "nowhere"
    ELSE IF m.seq \in Pending(n) THEN "response" ELSE "request"

\* The answer is written into the call c, over one that came before.
rpc_handle_response(c, m) ==
    [c EXCEPT !.woken = TRUE, !.status = m.status, !.of = m.of]

\* What becomes of a request: the handler succeeds ("done"), fails ("failed"),
\* is missing or cannot be called ("refused"); or it ran and the answer could
\* not be sent ("lost").  An answer taken for a request calls the handler with
\* an empty path, and is answered again.
RunsHandler(m, fate) == m.body = "request" /\ fate # "refused"

rpc_handle_request(m, fate) ==
    IF fate = "lost" THEN <<>>
    ELSE <<[seq |-> m.seq, status |-> IF fate = "done" THEN "OK" ELSE "INTERNAL_ERROR",
            of |-> m.of, body |-> "answer"]>>

\* k pieces arrive; the messages they complete are ms.
rpc_on_data(n, k) ==
    LET complete == (reasm[n] + k) \div Pieces
        ms == SubSeq(chan[n], 1, complete)
    IN  /\ reasm[n] + k <= Pieces * Len(chan[n])
        /\ \E fate \in [1..complete -> size.fates] :
              LET Are(way) == {i \in 1..complete :
                                  rpc_dispatch_message(n, ms[i], fate[i]) = way}
                  Answers(t) == {i \in Are("response") : pending[n][ms[i].seq] = t}
                  Runs(id) == {i \in Are("request") : ms[i].of = id /\ RunsHandler(ms[i], fate[i])}
                  out == [i \in 1..complete |-> IF i \in Are("request")
                                                THEN rpc_handle_request(ms[i], fate[i]) ELSE <<>>]
              IN  /\ call' = [t \in Tasks |->
                                 IF Answers(t) = {} THEN call[t]
                                 ELSE rpc_handle_response(call[t], ms[Max(Answers(t))])]
                  /\ executed' = [id \in 1..Made |-> executed[id] + Cardinality(Runs(id))]
                  /\ chan' = [chan EXCEPT ![n] = SubSeq(@, complete + 1, Len(@)),
                                          ![Peer(n)] = @ \o FlattenSeq(out)]
        /\ reasm' = [reasm EXCEPT ![n] = (@ + k) % Pieces]
        /\ UNCHANGED <<next, pending, ended, size>>

Next ==
    \/ \E t \in Tasks :
          rpc_call(t) \/ rpc_call_fails(t) \/ rpc_waiter_wait(t) \/ rpc_return(t)
    \/ \E n \in Nodes, k \in 1..(Pieces + 1) : rpc_on_data(n, k)

Spec == Init /\ [][Next]_vars
-----------------------------------------------------------------------------
(***************************************************************************)
(* Properties                                                              *)
(***************************************************************************)
\* The table of pending calls holds exactly the calls in progress, each under
\* a number of its own: no answer is written through the entry of a call that
\* has returned, and none of two calls loses its answer to the other.
PendingAreWaiting ==
    \A n \in Nodes :
        LET T == {t \in Tasks : Home[t] = n /\ call[t].pc # "idle"}
        IN  /\ Pending(n) = {call[t].seq : t \in T}
            /\ \A t \in T : pending[n][call[t].seq] = t

\* The peer executes a call at most once.  While only one node calls and
\* numbers are not used again, a call that returns OK was executed and took
\* its own answer, whatever timed out or was late before it.
OneSided == \E n \in Nodes : \A t \in size.callers : Home[t] = n
NoReuse == size.calls < size.space
OkMeansExecuted ==
    \A i \in 1..Made :
        /\ executed[i] <= 1
        /\ OneSided /\ NoReuse /\ ended[i].status = "OK" =>
              executed[i] = 1 /\ ended[i].of = i
-----------------------------------------------------------------------------
(***************************************************************************)
(* The inductive invariant behind both.                                    *)
(***************************************************************************)
Numbers == 1..(size.space - 1)
Ids == 1..Made
OnLink == [seq : Numbers, status : {"OK", "INTERNAL_ERROR"}, of : Ids,
           body : {"request", "answer"}]
Entry == [pc : {"idle", "waiting", "back"}, id : Nat, seq : Nat, woken : BOOLEAN,
          timed : BOOLEAN, status : {"OK", "INTERNAL_ERROR"}, of : Ids \cup {NoCall}]
Outcome == [status : {"NONE", "OK", "INTERNAL_ERROR", "TIMEOUT", "TRANSPORT_ERROR"},
            of : Ids \cup {NoCall}]

TypeOK ==
    /\ size \in Sizes
    /\ next \in [Nodes -> Numbers]
    /\ DOMAIN pending = Nodes
    /\ \A n \in Nodes : pending[n] \in [Pending(n) -> Tasks]
    /\ call \in [Tasks -> Entry]
    /\ \A t \in Tasks : call[t].pc # "idle" =>
          t \in size.callers /\ call[t].id \in Ids /\ call[t].seq \in Numbers
    /\ chan \in [Nodes -> Seq(OnLink)]
    /\ reasm \in [Nodes -> 0..(Pieces - 1)]
    /\ executed \in Seq(Nat)
    /\ ended \in Seq(Outcome) /\ Len(ended) = Made

RequestAt(n, i, id) ==
    i \in DOMAIN chan[n] /\ chan[n][i].body = "request" /\ chan[n][i].of = id

\* A request is on its way once, and then it did not run.
RequestedOnce ==
    \A id \in Ids :
        /\ executed[id] <= 1
        /\ \A n \in Nodes : \A i \in DOMAIN chan[n] : RequestAt(n, i, id) =>
              /\ executed[id] = 0
              /\ \A m \in Nodes : \A j \in DOMAIN chan[m] : RequestAt(m, j, id) => m = n /\ j = i

\* Only node a calls, and its calls are numbered as they are made: requests go
\* to its peer, and an answer that comes back for a call in progress is the
\* first one to it.  What is sent on for want of a pending call stays so.
OnlyCalls(a) == \A t \in size.callers : Home[t] = a

NumberedAsMade(a) ==
    /\ next[a] = After(1, Made)
    /\ \A t \in Tasks : call[t].pc # "idle" => call[t].seq = call[t].id
    /\ \A n \in Nodes : \A i \in DOMAIN chan[n] : chan[n][i].seq = chan[n][i].of

AnswersAreFirst(a) ==
    /\ \A i \in DOMAIN chan[a] :
          /\ chan[a][i].body = "answer"
          /\ chan[a][i].of \in Pending(a) /\ chan[a][i].status = "OK" =>
                executed[chan[a][i].of] = 1
    /\ \A i \in DOMAIN chan[Peer(a)] :
          chan[Peer(a)][i].body = "answer" => chan[Peer(a)][i].of \notin Pending(a)

OkIsOwn ==
    /\ \A t \in Tasks : call[t].pc # "idle" =>
          /\ call[t].woken => /\ call[t].of = call[t].id
                              /\ call[t].status = "OK" => executed[call[t].id] = 1
          /\ call[t].pc = "back" /\ ~call[t].timed => call[t].woken
    /\ \A i \in Ids : ended[i].status = "OK" => executed[i] = 1 /\ ended[i].of = i

IInv ==
    /\ TypeOK /\ PendingAreWaiting /\ RequestedOnce
    /\ NoReuse => \A a \in Nodes :
          OnlyCalls(a) => NumberedAsMade(a) /\ AnswersAreFirst(a) /\ OkIsOwn
=============================================================================
