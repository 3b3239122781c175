-------------------------------- MODULE Scp --------------------------------
(***************************************************************************)
(* The reliable transport of lttit/CSC/scp/source/scp.c: two nodes, one    *)
(* stream each, over a link that loses and reorders packets.               *)
(*                                                                         *)
(* A handler is a function from a stream to [s, out]: the stream it leaves *)
(* and the packets it sends.  Times are abstracted: a timer that is active *)
(* may expire at any step, so rto, srtt and rttvar have no counterpart.    *)
(* Sequence numbers keep their width: they are compared as the macros      *)
(* SEQ_GT and SEQ_LT do, and the receive tree orders them as plain         *)
(* unsigned numbers; it is modelled by the sequence of its nodes.          *)
(***************************************************************************)
EXTENDS Integers, Sequences, FiniteSets, FiniteSetsExt, SequencesExt

CONSTANTS
    Ends,           \* the two ends
    Clients,        \* those that call scp_connect
    Iss,            \* per node: the values random32 may return
    SeqSpace,       \* 2^32
    Mss,            \* payload of a full packet, MTU - sizeof(scp_hdr)
    Mtu, SsthreshInit, SendWinInit, RecvWinInit,
    Hiwat,          \* SCP_RECV_LIMIT
    FragCounts,     \* values of 1 << rto_recovery, up to RETRANS_RECO_MAX
    GapMax,         \* RETRANS_GAP_MAX
    TimeoutMax,     \* RETRANS_COUNT_MAX
    SendSizes, RecvSizes,   \* lengths the applications ask for
    CwndMax,        \* bound: a cwnd above it counts as it
    Sizes           \* bounds: the instances one run looks at, see size

ASSUME ScpAssumption ==
    /\ \E m, n \in Ends : m # n /\ Ends = {m, n}
    /\ Clients \subseteq Ends
    /\ SeqSpace \in Nat /\ SeqSpace > 0 /\ SeqSpace % 2 = 0
    /\ Iss \in [Ends -> SUBSET (1..(SeqSpace - 1))]
    /\ {Mss, Mtu, SsthreshInit, SendWinInit, RecvWinInit, Hiwat, GapMax,
        TimeoutMax, CwndMax} \subseteq Nat
    /\ Mss > 0 /\ Mss <= Mtu /\ SsthreshInit <= CwndMax /\ RecvWinInit > 0 /\ Hiwat > 0
    /\ FragCounts \subseteq Nat /\ SendSizes \subseteq Nat \ {0} /\ RecvSizes \subseteq Nat
    /\ \A z \in Sizes :
          /\ z.closers \subseteq Ends /\ z.total \in [Ends -> Nat]
          /\ z.fails \subseteq SendSizes
          /\ {z.link, z.retries, z.idle} \subseteq Nat

VARIABLES
    stream,     \* struct scp_stream of each node
    link,       \* packets on their way: <<destination, packet>>
    accepted,   \* per node: bytes scp_send took
    readout,    \* per node: the bytes scp_recv gave to its peer
    size        \* how large this behaviour is: the nodes that call scp_close
                \* (closers), the bytes each sends (total), the sizes for which
                \* the heap may be exhausted (fails), packets on the link
                \* (link), retries of a handshake or FIN packet (retries, 5 in
                \* the code) and MAX_IDLE_FAIL (idle)

scp_vars == <<stream, link, accepted, readout, size>>

Peer(n) == CHOOSE m \in Ends : m # n

\* int32_t differences.
Plus(a, d) == (a + d) % SeqSpace
Diff(a, b) == (a - b) % SeqSpace
SEQ_GT(a, b) == Diff(a, b) \in 1..(SeqSpace \div 2 - 1)
SEQ_LT(a, b) == Diff(a, b) >= SeqSpace \div 2
SEQ_LEQ(a, b) == ~SEQ_GT(a, b)
SEQ_GEQ(a, b) == ~SEQ_LT(a, b)

States == {"CLOSED", "SYN_SENT", "SYN_RECV", "ESTABLISHED", "FIN_WAIT",
           "LAST_ACK", "FREED"}
Timers == {"hs", "retrans", "persist", "fin"}
Kinds == {"CONNECT", "CONNECT_ACK", "DATA", "ACK", "PING", "FIN"}

\* A buffer of snd_q or rcv_buf_q, and the end of its sequence numbers.  The
\* bytes a node sends are the numbers 1, 2, ...
Buf == [seq : 0..(SeqSpace - 1), data : Seq(Nat), sent : Nat]
End(b) == Plus(b.seq, Len(b.data))

\* The sums of the first 0, 1, ... numbers of a sequence; the sum of them all.
Sums(w) ==
    LET sum[i \in 0..Len(w)] == IF i = 0 THEN 0 ELSE sum[i - 1] + w[i]
    IN  sum
Total(w) == Sums(w)[Len(w)]

Bytes(q) == Total([i \in DOMAIN q |-> Len(q[i].data)])

\* How many buffers at the front of q end at or before seq.
Behind(q, seq) ==
    Max({k \in 0..Len(q) : \A i \in 1..k : SEQ_LEQ(End(q[i]), seq)})
-----------------------------------------------------------------------------
scp_stream_alloc ==
    [state |-> "CLOSED", retry |-> 0, timers |-> {},
     snd_una |-> 0, snd_nxt |-> 0, snd_seq_q |-> 0, snd_wnd |-> SendWinInit,
     snd_q |-> <<>>, cwnd |-> Mtu, ssthresh |-> SsthreshInit,
     dup_acks |-> 0, fr_active |-> FALSE, last_gap |-> 0, timeout_count |-> 0,
     rcv_nxt |-> 0, rcv_wnd |-> RecvWinInit, sb_cc |-> 0,
     rcv_data_q |-> <<>>, rcv_buf_q |-> <<>>, idle_failures |-> 0]

\* Closed, its timers removed, out of the map: no handler finds it any more.
scp_stream_free == [scp_stream_alloc EXCEPT !.state = "FREED"]

ScpInit ==
    /\ stream = [n \in Ends |-> scp_stream_alloc]
    /\ link = {}
    /\ accepted = [n \in Ends |-> 0]
    /\ readout = [n \in Ends |-> <<>>]
    /\ size \in Sizes

scp_calc_sack(s) ==
    IF s.rcv_buf_q = <<>> THEN s.rcv_nxt ELSE Head(s.rcv_buf_q).seq

scp_update_rcv_wnd(s) ==
    [s EXCEPT !.rcv_wnd = IF s.sb_cc >= Hiwat THEN 0 ELSE Hiwat - s.sb_cc]

Start(s, t) == [s EXCEPT !.timers = @ \cup {t}]
Stop(s, t) == [s EXCEPT !.timers = @ \ {t}]

\* A packet with the header fields its receiver reads; the others are 0.
Packet(kind, seq, data) ==
    [kind |-> kind, seq |-> seq, data |-> data, ack |-> 0, sack |-> 0, wnd |-> 0]
Acking(s, p) ==
    [p EXCEPT !.ack = s.rcv_nxt, !.sack = scp_calc_sack(s), !.wnd = s.rcv_wnd]

Only(s) == [s |-> s, out |-> {}]
Emit(x, p) == [x EXCEPT !.out = @ \cup {p}]
scp_output_ack(x) == Emit(x, Acking(x.s, Packet("ACK", 0, <<>>)))
scp_send_window_probe(x) == Emit(x, Packet("PING", 0, <<>>))
scp_output_connect(x) == Emit(x, Packet("CONNECT", x.s.snd_nxt, <<>>))
scp_output_connect_ack(x) == Emit(x, Packet("CONNECT_ACK", x.s.snd_nxt, <<>>))
scp_output_fin_retrans(x) ==
    Emit(x, Acking(x.s, Packet("FIN", Plus(x.s.snd_nxt, -1), <<>>)))
scp_output_fin_first(x) ==
    LET y == Emit(x, Acking(x.s, Packet("FIN", x.s.snd_nxt, <<>>)))
    IN  [y EXCEPT !.s.snd_nxt = Plus(@, 1)]
-----------------------------------------------------------------------------
(***************************************************************************)
(* Sending.                                                                *)
(***************************************************************************)
Least(a, b) == IF a < b THEN a ELSE b
Most(a, b) == IF a > b THEN a ELSE b

\* Bytes from .. to - 1 of a buffer, cut into packets of at most Mss: the first
\* m of them.
fragments(b, from, to, m) ==
    {Packet("DATA", Plus(b.seq, off), SubSeq(b.data, off + 1, Least(off + Mss, to))) :
        off \in {o \in from..(to - 1) : (o - from) % Mss = 0 /\ o - from < m * Mss}}

\* The packets P go out; snd_nxt is the highest sequence number ever sent.
scp_output_data(x, P) ==
    LET nxt == x.s.snd_nxt
        further == {Diff(End(p), nxt) : p \in {p \in P : SEQ_GT(End(p), nxt)}}
    IN  [s |-> [x.s EXCEPT !.snd_nxt = Plus(nxt, Max({0} \cup further))],
         out |-> x.out \cup P]

\* Bytes of buffer i that a window with room for r bytes lets out, when the
\* unsent bytes of the buffers before it go first.
Unsent(b) == Len(b.data) - b.sent
Share(q, i, r) ==
    LET before == Total([j \in 1..(i - 1) |-> Unsent(q[j])])
    IN  Most(0, Least(Unsent(q[i]), r - before))

\* scp_output(ss, SCP_FLAG_DATA)
scp_output(x) ==
    LET s == x.s
        q == s.snd_q
        flight == Diff(s.snd_nxt, s.snd_una)
        take == [i \in DOMAIN q |-> Share(q, i, Least(s.cwnd, s.snd_wnd) - flight)]
        P == UNION {fragments(q[i], q[i].sent, q[i].sent + take[i], take[i]) :
                    i \in DOMAIN q}
        y == scp_output_data(x, P)
        z == [y EXCEPT !.s.snd_q =
                 [i \in DOMAIN q |-> [q[i] EXCEPT !.sent = @ + take[i]]]]
    IN  IF flight = 0 /\ P # {}
        THEN [z EXCEPT !.s = [Start(@, "retrans") EXCEPT !.timeout_count = 0]]
        ELSE z

\* After a time-out: the next fragment of each of the first m buffers.
scp_retransmit(x, m) ==
    LET q == x.s.snd_q
        una == x.s.snd_una
        unacked == {i \in DOMAIN q : SEQ_GT(End(q[i]), una)}
        first == {i \in unacked : Cardinality({j \in unacked : j < i}) < m}
        skip(b) == IF SEQ_LT(b.seq, una) THEN Diff(una, b.seq) ELSE 0
    IN  scp_output_data(x, UNION {fragments(q[i], skip(q[i]), Len(q[i].data), 1) :
                                  i \in first})

\* All bytes in [lo, hi), at most GapMax packets of each buffer.
scp_retransmit_gap(x, lo, hi) ==
    LET q == x.s.snd_q
        missing == {i \in DOMAIN q : SEQ_GT(End(q[i]), lo) /\ SEQ_LT(q[i].seq, hi)}
        from(b) == IF SEQ_GT(lo, b.seq) THEN Diff(lo, b.seq) ELSE 0
        to(b) == IF SEQ_GT(End(b), hi) THEN Diff(hi, b.seq) ELSE Len(b.data)
    IN  scp_output_data(x, UNION {fragments(q[i], from(q[i]), to(q[i]), GapMax) :
                                  i \in missing})
-----------------------------------------------------------------------------
(***************************************************************************)
(* An acknowledgement arrives.                                             *)
(***************************************************************************)
Cwnd(n) == Least(n, CwndMax)

\* Slow start below ssthresh, congestion avoidance above.
Grow(c, ssthresh, acked) ==
    IF c < ssthresh
    THEN Cwnd(c + Most(Mss, Least(2 * Mss, acked)))
    ELSE Cwnd(c + Most(1, (Mss * Mss) \div Most(1, c)))

HalfFlight(s) == Most(Diff(s.snd_nxt, s.snd_una) \div 2, 2 * Mss)

\* Mutant of scp_snd_buf_free: a buffer goes when its first byte is acked.
snd_buf_free_early(q, ack) ==
    LET k == Max({k \in 0..Len(q) : \A i \in 1..k : SEQ_LT(q[i].seq, ack)})
    IN  SubSeq(q, k + 1, Len(q))

scp_snd_buf_free(q, ack) == SubSeq(q, Behind(q, ack) + 1, Len(q))

\* Mutant of new_ack: the timer stops although more is in flight.
new_ack_untimed(x, acked) ==
    LET s == x.s
        c == IF s.fr_active THEN s.ssthresh + Mss ELSE s.cwnd
        t == [s EXCEPT !.fr_active = FALSE, !.timeout_count = 0, !.dup_acks = 0,
                       !.cwnd = Grow(c, s.ssthresh, acked)]
    IN  scp_output([x EXCEPT !.s = Stop(t, "retrans")])

\* New data acknowledged: x is the stream after the common part.  The timer
\* runs on for what is still in flight, and starts again in scp_output.
new_ack(x, acked) ==
    LET s == x.s
        c == IF s.fr_active THEN s.ssthresh + Mss ELSE s.cwnd
        t == [s EXCEPT !.fr_active = FALSE, !.timeout_count = 0, !.dup_acks = 0,
                       !.cwnd = Grow(c, s.ssthresh, acked)]
        r == IF t.snd_una # t.snd_nxt THEN Start(t, "retrans") ELSE Stop(t, "retrans")
    IN  scp_output([x EXCEPT !.s = r])

\* The third duplicate starts fast recovery, later ones inflate cwnd.  The
\* counter counts to 4: beyond 3 its value is not looked at.
dup_ack(x, p) ==
    LET s == [x.s EXCEPT !.dup_acks = Least(@ + 1, 4)]
        enter == [s EXCEPT !.ssthresh = HalfFlight(s), !.fr_active = TRUE,
                           !.cwnd = Cwnd(HalfFlight(s) + 3 * Mss), !.last_gap = p.ack]
    IN  scp_output(
          IF s.dup_acks = 3 /\ ~s.fr_active
          THEN scp_retransmit_gap([x EXCEPT !.s = Start(enter, "retrans")], p.ack, p.sack)
          ELSE IF s.fr_active /\ s.dup_acks > 3
          THEN [x EXCEPT !.s = [s EXCEPT !.cwnd = Cwnd(@ + Mss)]]
          ELSE [x EXCEPT !.s = s])

scp_process_ack(x, p) ==
    LET s == x.s
        t == [s EXCEPT !.snd_una = p.ack, !.snd_wnd = p.wnd,
                       !.snd_q = scp_snd_buf_free(@, p.ack)]
        y == [x EXCEPT !.s = t]
        z == IF SEQ_GT(p.sack, p.ack) /\ SEQ_GT(p.ack, s.last_gap)
             THEN [scp_retransmit_gap(y, p.ack, p.sack) EXCEPT !.s.last_gap = p.ack]
             ELSE y
    IN  IF SEQ_LT(p.ack, s.snd_una) \/ SEQ_GT(p.ack, s.snd_nxt) THEN x
        ELSE IF SEQ_GT(p.ack, s.snd_una) THEN new_ack(z, Diff(p.ack, s.snd_una))
        ELSE IF SEQ_LT(p.ack, z.s.snd_nxt) THEN dup_ack(z, p)
        ELSE z
-----------------------------------------------------------------------------
(***************************************************************************)
(* Data arrives.                                                           *)
(***************************************************************************)
\* The first buffers of the tree that lie behind rcv_nxt altogether go.
drop_behind(s) ==
    LET q == s.rcv_buf_q
        k == Behind(q, s.rcv_nxt)
    IN  [s EXCEPT !.rcv_buf_q = SubSeq(q, k + 1, Len(q)),
                  !.sb_cc = Most(0, @ - Bytes(SubSeq(q, 1, k)))]

Cut(b, d) == [b EXCEPT !.seq = Plus(@, d), !.data = SubSeq(@, d + 1, Len(@))]

\* What there is to read when the first 0, 1, ... buffers of q follow d.
Joined(d, q) ==
    LET bytes[i \in 0..Len(q)] == IF i = 0 THEN d ELSE bytes[i - 1] \o q[i].data
    IN  bytes

\* The buffers at the front of the tree that continue the stream exactly are
\* read next.
pull(s) ==
    LET q == s.rcv_buf_q
        nxt == [i \in 0..Len(q) |-> IF i = 0 THEN s.rcv_nxt ELSE End(q[i])]
        k == Max({k \in 0..Len(q) : \A i \in 1..k : q[i].seq = nxt[i - 1]})
    IN  [s EXCEPT !.rcv_buf_q = SubSeq(q, k + 1, Len(q)), !.rcv_nxt = nxt[k],
                  !.rcv_data_q = Joined(@, q)[k]]

in_order(x, b) ==
    LET s == [x.s EXCEPT !.rcv_nxt = End(b), !.rcv_data_q = @ \o b.data,
                         !.sb_cc = @ + Len(b.data)]
    IN  scp_output_ack([x EXCEPT !.s = pull(scp_update_rcv_wnd(s))])

\* What is left of b beside the buffer before it, and the one after it, is
\* put into the tree, behind the buffers of the same number.
out_of_order(x, b) ==
    LET q == x.s.rcv_buf_q
        upto(seq) == Cardinality({i \in DOMAIN q : q[i].seq <= seq})
        k == upto(b.seq)
        overlap == k > 0 /\ SEQ_GT(End(q[k]), b.seq)
        c == IF overlap THEN Cut(b, Diff(End(q[k]), b.seq)) ELSE b
        d == IF k < Len(q) /\ SEQ_GT(q[k + 1].seq, c.seq) /\ SEQ_GT(End(c), q[k + 1].seq)
             THEN [c EXCEPT !.data = SubSeq(@, 1, Diff(q[k + 1].seq, c.seq))] ELSE c
        s == [x.s EXCEPT !.rcv_buf_q = InsertAt(q, upto(d.seq) + 1, d),
                         !.sb_cc = @ + Len(d.data)]
    IN  IF overlap /\ SEQ_GEQ(End(q[k]), End(b)) THEN x
        ELSE scp_output_ack([x EXCEPT !.s = scp_update_rcv_wnd(s)])

\* Mutant of scp_process_data: what was received before is not cut off.
process_data_untrimmed(x, p) ==
    LET b == [seq |-> p.seq, data |-> p.data, sent |-> 0]
        s == drop_behind(x.s)
        y == [x EXCEPT !.s = s]
    IN  IF SEQ_LEQ(End(b), s.rcv_nxt) THEN scp_output_ack(y)
        ELSE IF SEQ_LEQ(b.seq, s.rcv_nxt) THEN in_order(y, b)
        ELSE out_of_order(y, b)

\* Mutant of scp_process_data: buffers dropped from the tree stay counted.
process_data_leak(x, p) ==
    LET b == [seq |-> p.seq, data |-> p.data, sent |-> 0]
        s == [drop_behind(x.s) EXCEPT !.sb_cc = x.s.sb_cc]
        y == [x EXCEPT !.s = s]
    IN  IF SEQ_LEQ(End(b), s.rcv_nxt) THEN scp_output_ack(y)
        ELSE IF SEQ_LEQ(b.seq, s.rcv_nxt)
        THEN in_order(y, Cut(b, Diff(s.rcv_nxt, b.seq)))
        ELSE out_of_order(y, b)

scp_process_data(x, p) ==
    LET b == [seq |-> p.seq, data |-> p.data, sent |-> 0]
        s == drop_behind(x.s)
        y == [x EXCEPT !.s = s]
    IN  IF SEQ_LEQ(End(b), s.rcv_nxt) THEN scp_output_ack(y)
        ELSE IF SEQ_LEQ(b.seq, s.rcv_nxt)
        THEN in_order(y, Cut(b, Diff(s.rcv_nxt, b.seq)))
        ELSE out_of_order(y, b)
-----------------------------------------------------------------------------
(***************************************************************************)
(* scp_input, by the state of the stream.  A packet for a state that does  *)
(* not look at its kind is dropped.                                        *)
(***************************************************************************)
listen_like_process(x, p, i) ==
    IF p.kind # "CONNECT" THEN x
    ELSE scp_output_connect_ack(
            [x EXCEPT !.s = [Start(@, "hs") EXCEPT
                !.state = "SYN_RECV", !.retry = 0, !.rcv_nxt = p.seq,
                !.snd_seq_q = i, !.snd_una = i, !.snd_nxt = i]])

Established(s) ==
    [s EXCEPT !.state = "ESTABLISHED", !.timers = (@ \ {"hs"}) \cup {"persist"}]

syn_sent_process(x, p) ==
    IF p.kind # "CONNECT_ACK" THEN x
    ELSE LET y == scp_output_ack([x EXCEPT !.s.rcv_nxt = p.seq])
         IN  [y EXCEPT !.s = Established(@)]

\* No packet carries data and the ACK flag.
syn_recv_process(x, p) ==
    IF p.kind \in {"ACK", "FIN"} THEN [x EXCEPT !.s = Established(@)] ELSE x

est_process(x, p) ==
    LET y == IF p.kind = "FIN" THEN scp_process_ack(x, p) ELSE x
        z == scp_output_ack([y EXCEPT !.s.rcv_nxt = Plus(p.seq, 1)])
    IN  CASE p.kind = "ACK" -> scp_process_ack(x, p)
          [] p.kind = "PING" -> scp_output_ack(x)
          [] p.kind = "DATA" -> scp_process_data(x, p)
          [] p.kind = "FIN" /\ SEQ_LT(p.seq, y.s.rcv_nxt) -> scp_output_ack(y)
          [] p.kind = "FIN" /\ SEQ_GEQ(p.seq, y.s.rcv_nxt) ->
                scp_output_fin_first([z EXCEPT !.s =
                    [Start(@, "fin") EXCEPT !.state = "LAST_ACK", !.retry = 0]])
          [] OTHER -> x

fin_wait_process(x, p) ==
    LET y == scp_process_ack(x, p)
        z == [y EXCEPT !.s.rcv_nxt = IF SEQ_GEQ(p.seq, @) THEN Plus(p.seq, 1) ELSE @]
    IN  CASE p.kind = "ACK" -> y
          [] p.kind \in {"PING", "DATA"} -> scp_output_ack(x)
          [] p.kind = "FIN" -> [scp_output_ack(z) EXCEPT !.s = scp_stream_free]
          [] OTHER -> x

last_ack_process(x, p) ==
    CASE p.kind \in {"PING", "FIN"} -> scp_output_ack(x)
      [] p.kind = "ACK" -> [x EXCEPT !.s = scp_stream_free]
      [] OTHER -> x

\* i: what random32 returns, should the packet be a CONNECT.
Processed(s, p, i) ==
    LET x == Only([s EXCEPT !.idle_failures = 0])
    IN  CASE s.state = "CLOSED" -> listen_like_process(x, p, i)
          [] s.state = "SYN_SENT" -> syn_sent_process(x, p)
          [] s.state = "SYN_RECV" -> syn_recv_process(x, p)
          [] s.state = "ESTABLISHED" -> est_process(x, p)
          [] s.state = "FIN_WAIT" -> fin_wait_process(x, p)
          [] s.state = "LAST_ACK" -> last_ack_process(x, p)
          [] s.state = "FREED" -> Only(s)
-----------------------------------------------------------------------------
(***************************************************************************)
(* The steps.  Any of the packets a handler sends may be lost, and those   *)
(* the link has no room for are; used is the packet it took off the link.  *)
(***************************************************************************)
Leave(n, x, used) ==
    /\ stream' = [stream EXCEPT ![n] = x.s]
    /\ \E kept \in SUBSET ({Peer(n)} \X x.out) :
          /\ link' = (link \ used) \cup kept
          /\ Cardinality(link') <= size.link
    /\ UNCHANGED size

Open(n) == stream[n].state # "FREED"

scp_connect(n) ==
    /\ n \in Clients
    /\ stream[n].state = "CLOSED"
    /\ \E i \in Iss[n] :
          Leave(n, scp_output_connect(Only([Start(stream[n], "hs") EXCEPT
                      !.state = "SYN_SENT", !.retry = 0,
                      !.snd_seq_q = i, !.snd_una = i, !.snd_nxt = i])), {})
    /\ UNCHANGED <<accepted, readout>>

CanSend(n, len) ==
    /\ stream[n].state = "ESTABLISHED"
    /\ accepted[n] + len <= size.total[n]
    /\ Diff(stream[n].snd_nxt, stream[n].snd_una) < stream[n].snd_wnd
    /\ Diff(stream[n].snd_seq_q, stream[n].snd_una) + len < SeqSpace \div 2

scp_send(n, len) ==
    LET s == stream[n]
        b == [seq |-> s.snd_seq_q, sent |-> 0,
              data |-> [i \in 1..len |-> accepted[n] + i]]
    IN  /\ CanSend(n, len)
        /\ Leave(n, scp_output(Only([s EXCEPT
                        !.snd_q = Append(@, b), !.snd_seq_q = Plus(@, len)])), {})
        /\ accepted' = [accepted EXCEPT ![n] = @ + len]
        /\ UNCHANGED readout

\* No memory: the bytes are refused, their sequence numbers are used up.
scp_send_fails(n, len) ==
    /\ len \in size.fails
    /\ CanSend(n, len)
    /\ stream' = [stream EXCEPT ![n].snd_seq_q = Plus(@, len)]
    /\ UNCHANGED <<link, accepted, readout, size>>

\* The window opens again: the peer is told.
scp_recv(n, len) ==
    LET s == stream[n]
        k == Least(len, Len(s.rcv_data_q))
        t == scp_update_rcv_wnd([s EXCEPT !.rcv_data_q = SubSeq(@, k + 1, Len(@)),
                                          !.sb_cc = Most(0, @ - k)])
    IN  /\ Open(n)
        /\ Leave(n, IF s.rcv_wnd = 0 /\ t.rcv_wnd > 0 THEN scp_output_ack(Only(t))
                    ELSE Only(t), {})
        /\ readout' = [readout EXCEPT ![Peer(n)] = @ \o SubSeq(s.rcv_data_q, 1, k)]
        /\ UNCHANGED accepted

scp_close(n) ==
    LET s == stream[n]
        closing == [Start(s, "fin") EXCEPT !.state = "FIN_WAIT", !.retry = 0]
    IN  /\ n \in size.closers
        /\ s.state \in {"CLOSED", "SYN_SENT", "SYN_RECV", "ESTABLISHED"}
        /\ Leave(n, IF s.state = "ESTABLISHED" THEN scp_output_fin_first(Only(closing))
                    ELSE Only(scp_stream_free), {})
        /\ UNCHANGED <<accepted, readout>>

scp_input(n) ==
    /\ \E m \in {m \in link : m[1] = n}, i \in Iss[n] :
          Leave(n, Processed(stream[n], m[2], i), {m})
    /\ UNCHANGED <<accepted, readout>>

\* scp_timer_process: the timer t of n is due.
Due(n, t) == t \in stream[n].timers

scp_handle_handshake_timeout(n) ==
    LET s == Stop(stream[n], "hs")
        again == Only([Start(s, "hs") EXCEPT !.retry = @ + 1])
    IN  /\ Due(n, "hs")
        /\ Leave(n, IF s.state \notin {"SYN_SENT", "SYN_RECV"} THEN Only(s)
                    ELSE IF s.retry >= size.retries THEN Only([s EXCEPT !.state = "CLOSED"])
                    ELSE IF s.state = "SYN_SENT" THEN scp_output_connect(again)
                    ELSE scp_output_connect_ack(again), {})
        /\ UNCHANGED <<accepted, readout>>

scp_handle_fin_timeout(n) ==
    LET s == stream[n]
    IN  /\ Due(n, "fin")
        /\ Leave(n, IF s.state \notin {"FIN_WAIT", "LAST_ACK"} THEN Only(Stop(s, "fin"))
                    ELSE IF s.retry >= size.retries THEN Only(scp_stream_free)
                    ELSE scp_output_fin_retrans(Only([s EXCEPT !.retry = @ + 1])), {})
        /\ UNCHANGED <<accepted, readout>>

\* The timer is created again: it stays active.
scp_timer_retrans_cb(n) ==
    LET s == stream[n]
        t == [s EXCEPT !.ssthresh = HalfFlight(s), !.cwnd = Mss, !.dup_acks = 0,
                       !.fr_active = FALSE, !.timeout_count = @ + 1]
    IN  /\ Due(n, "retrans")
        /\ \E m \in FragCounts :
              LET x == scp_retransmit(Only(t), m)
              IN  Leave(n, IF t.timeout_count > TimeoutMax
                           THEN [x EXCEPT !.s = scp_stream_free] ELSE x, {})
        /\ UNCHANGED <<accepted, readout>>

\* idle: the stream heard nothing for IDLE_TIMEOUT once more.
scp_timer_persist_cb(n) ==
    LET s == stream[n]
    IN  /\ Due(n, "persist")
        /\ \E idle \in BOOLEAN :
              LET t == [s EXCEPT !.idle_failures = IF idle THEN @ + 1 ELSE @]
              IN  Leave(n, IF t.idle_failures > size.idle THEN Only(scp_stream_free)
                           ELSE IF idle \/ (s.snd_q # <<>> /\ s.snd_wnd <= Mtu)
                           THEN scp_send_window_probe(Only(t)) ELSE Only(t), {})
        /\ UNCHANGED <<accepted, readout>>

ScpNext ==
    \E n \in Ends :
        \/ scp_connect(n) \/ scp_close(n) \/ scp_input(n)
        \/ \E len \in SendSizes : scp_send(n, len) \/ scp_send_fails(n, len)
        \/ \E len \in RecvSizes : scp_recv(n, len)
        \/ scp_handle_handshake_timeout(n) \/ scp_handle_fin_timeout(n)
        \/ scp_timer_retrans_cb(n) \/ scp_timer_persist_cb(n)

ScpSpec == ScpInit /\ [][ScpNext]_scp_vars
-----------------------------------------------------------------------------
(***************************************************************************)
(* Properties                                                              *)
(***************************************************************************)
Seqs == 0..(SeqSpace - 1)
Stream ==
    [state : States, retry : Nat, timers : SUBSET Timers,
     snd_una : Seqs, snd_nxt : Seqs, snd_seq_q : Seqs, snd_wnd : Nat,
     snd_q : Seq({b \in Buf : b.sent <= Len(b.data)}), cwnd : Nat, ssthresh : Nat, dup_acks : 0..4,
     fr_active : BOOLEAN, last_gap : Seqs, timeout_count : Nat,
     rcv_nxt : Seqs, rcv_wnd : Nat, sb_cc : Nat,
     rcv_data_q : Seq(Nat), rcv_buf_q : Seq(Buf), idle_failures : Nat]
PacketType == [kind : Kinds, seq : Seqs, data : Seq(Nat), ack : Seqs, sack : Seqs, wnd : Nat]

\* What is stored where.
ScpTypeOK ==
    /\ stream \in [Ends -> Stream]
    /\ link \in SUBSET (Ends \X PacketType)
    /\ accepted \in [Ends -> Nat]
    /\ readout \in [Ends -> Seq(Nat)]
    /\ size \in Sizes

\* CSC.md: SCP is a reliable, ordered byte stream.  Whatever is lost, late or
\* cut at other places when it is sent again, the peer reads the bytes that
\* were sent, in order, each once.
Promise == INSTANCE ByteStream WITH written <- accepted
ImplementsStream == Promise!Spec

\* A sender that may still send lets go of a byte only when the peer, if it
\* still has its stream, took it in order: an acknowledgement is never of
\* bytes the peer could still lose.
Taken(n) == Len(readout[n]) + Len(stream[Peer(n)].rcv_data_q)
Kept(n) == Bytes(stream[n].snd_q)
AckedWasTaken ==
    \A n \in Ends :
        stream[n].state = "ESTABLISHED" /\ Open(Peer(n)) =>
            accepted[n] - Kept(n) <= Taken(n)

\* The receive window is computed from sb_cc: it counts every byte that is
\* queued for the reader or waits in the tree, and no other.
WindowCountsQueued ==
    \A n \in Ends :
        stream[n].sb_cc = Len(stream[n].rcv_data_q) + Bytes(stream[n].rcv_buf_q)

\* What is in flight is guarded by a timer: nothing waits for ever for an
\* answer that was lost, it is sent again or the stream is given up.
InFlight(n) == Open(n) /\ stream[n].snd_una # stream[n].snd_nxt
FlightIsTimed ==
    \A n \in Ends :
        InFlight(n) => stream[n].timers \cap {"retrans", "fin"} # {}
=============================================================================
