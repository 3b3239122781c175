----------------------------- MODULE ScpProofs -----------------------------
(***************************************************************************)
(* Safety of the transport, for every value of the constants.              *)
(***************************************************************************)
EXTENDS Scp, RbTreeProofs, SequenceTheorems

-----------------------------------------------------------------------------
(***************************************************************************)
(* Sums of sequences of numbers, bytes of sequences of buffers.            *)
(***************************************************************************)
\* The sum starts at 0 and grows by the numbers one after the other.
LEMMA SumsAre ==
    ASSUME NEW w \in Seq(Nat)
    PROVE  /\ Sums(w) \in [0..Len(w) -> Nat]
           /\ Sums(w)[0] = 0
           /\ \A i \in 0..(Len(w) - 1) : Sums(w)[i + 1] = Sums(w)[i] + w[i + 1]
<1> DEFINE L == Len(w)
<1>1. L \in Nat /\ \A i \in 1..L : w[i] \in Nat
  OBVIOUS
<1> HIDE DEF L
<1>2. /\ \E f : f = [i \in 0..L |-> IF i = 0 THEN 0 ELSE f[i - 1] + w[i]]
      /\ \A f : f = [i \in 0..L |-> IF i = 0 THEN 0 ELSE f[i - 1] + w[i]] =>
            /\ f \in [0..L -> Nat] /\ f[0] = 0
            /\ \A i \in 0..(L - 1) : f[i + 1] = f[i] + w[i + 1]
  BY <1>1, AddingUp
<1>3. Sums(w) = [i \in 0..L |-> IF i = 0 THEN 0 ELSE Sums(w)[i - 1] + w[i]]
  BY <1>2 DEF Sums, L
<1> QED
  BY <1>2, <1>3 DEF L
\* f is what the first L numbers of w add up to.
AddsUp(f, w, L) ==
    /\ L \in Nat /\ f \in [0..L -> Nat] /\ f[0] = 0
    /\ \A i \in 1..L : w[i] \in Nat
    /\ \A i \in 0..(L - 1) : f[i + 1] = f[i] + w[i + 1]

\* u begins with K numbers of v and goes on with L numbers of w.
Follows(u, v, K, w, L) ==
    (\A i \in 1..K : u[i] = v[i]) /\ (\A i \in 1..L : u[K + i] = w[i])

LEMMA SumsAddUp ==
    ASSUME NEW w \in Seq(Nat)
    PROVE  AddsUp(Sums(w), w, Len(w)) /\ Total(w) \in Nat
<1>1. Len(w) \in Nat /\ \A i \in 1..Len(w) : w[i] \in Nat
  OBVIOUS
<1>2. AddsUp(Sums(w), w, Len(w))
  BY <1>1, SumsAre DEF AddsUp
<1> QED
  BY <1>1, <1>2 DEF AddsUp, Total

\* The sum of two parts is the sum of their sums.
LEMMA AddsApart ==
    ASSUME NEW u, NEW v, NEW w, NEW K, NEW L, NEW f, NEW g, NEW h,
           AddsUp(f, u, K + L), AddsUp(g, v, K), AddsUp(h, w, L), Follows(u, v, K, w, L)
    PROVE  f[K + L] = g[K] + h[L]
<1>1. /\ K \in Nat /\ L \in Nat /\ f[0] = 0 /\ g[0] = 0 /\ h[0] = 0
      /\ \A i \in 0..(K - 1) : g[i + 1] = g[i] + v[i + 1]
      /\ \A i \in 0..(L - 1) : h[i + 1] = h[i] + w[i + 1]
      /\ \A i \in 0..((K + L) - 1) : f[i + 1] = f[i] + u[i + 1]
      /\ \A i \in 0..(K + L) : f[i] \in Nat
      /\ \A i \in 0..L : h[i] \in Nat
      /\ \A i \in 1..K : u[i] = v[i]
      /\ \A i \in 1..L : u[K + i] = w[i] /\ w[i] \in Nat
  BY DEF AddsUp, Follows
<1>2. \A i \in 0..K : f[i] = g[i]
  <2>1. \A i \in 0..(K - 1) : f[i] = g[i] => f[i + 1] = g[i + 1]
    <3> SUFFICES ASSUME NEW i \in 0..(K - 1), f[i] = g[i] PROVE f[i + 1] = g[i + 1]
      OBVIOUS
    <3>1. i \in 0..((K + L) - 1) /\ i + 1 \in 1..K
      BY <1>1
    <3> QED
      BY <1>1, <3>1
  <2>2. GoAlike(f, g, K)
    BY <1>1, <2>1 DEF GoAlike
  <2> QED
    BY <1>1, <2>2, StepsSame
<1> DEFINE a == [i \in 0..L |-> f[K + i]]
           b == [i \in 0..L |-> f[K] + h[i]]
<1>3. \A i \in 0..L : a[i] = b[i]
  <2>1. a[0] = b[0]
    <3>1. K + 0 = K /\ 0 \in 0..L /\ f[K] \in Nat
      BY <1>1
    <3> QED
      BY <1>1, <3>1
  <2>2. \A i \in 0..(L - 1) : a[i] = b[i] => a[i + 1] = b[i + 1]
    <3> SUFFICES ASSUME NEW i \in 0..(L - 1), a[i] = b[i] PROVE a[i + 1] = b[i + 1]
      OBVIOUS
    <3>1. /\ K + i \in 0..((K + L) - 1) /\ i + 1 \in 1..L /\ (K + i) + 1 = K + (i + 1)
          /\ i \in 0..L /\ i + 1 \in 0..L /\ K \in 0..(K + L) /\ K + i \in 0..(K + L)
          /\ K + (i + 1) \in 0..(K + L)
      BY <1>1
    <3>2. f[K + (i + 1)] = f[K + i] + u[K + (i + 1)]
      BY <1>1, <3>1
    <3>3. h[i + 1] = h[i] + w[i + 1] /\ u[K + (i + 1)] = w[i + 1]
      BY <1>1, <3>1
    <3>4. f[K + i] = f[K] + h[i]
      BY <3>1
    <3>5. f[K] \in Nat /\ h[i] \in Nat /\ h[i + 1] \in Nat /\ f[K + i] \in Nat
          /\ f[K + (i + 1)] \in Nat /\ w[i + 1] \in Nat
      BY <1>1, <3>1
    <3>6. f[K + (i + 1)] = f[K] + h[i + 1]
      <4>1. f[K + (i + 1)] = (f[K] + h[i]) + w[i + 1] /\ h[i + 1] = h[i] + w[i + 1]
        BY <3>2, <3>3, <3>4
      <4> HIDE DEF a, b
      <4> QED
        BY <3>5, <4>1
    <3> QED
      BY <3>1, <3>6
  <2> HIDE DEF a, b
  <2>3. GoAlike(a, b, L)
    BY <2>1, <2>2 DEF GoAlike
  <2> QED
    BY <1>1, <2>3, StepsSame
<1>4. f[K + L] = f[K] + h[L]
  BY <1>1, <1>3
<1> QED
  BY <1>1, <1>2, <1>4
-----------------------------------------------------------------------------
(***************************************************************************)
(* The bytes of a sequence of buffers.                                     *)
(***************************************************************************)
Lengths(q) == [i \in DOMAIN q |-> Len(q[i].data)]

LEMMA LengthsAre ==
    ASSUME NEW q \in Seq(Buf)
    PROVE  /\ Len(q) \in Nat /\ DOMAIN q = 1..Len(q)
           /\ \A i \in 1..Len(q) : q[i] \in Buf
           /\ Lengths(q) \in Seq(Nat) /\ Len(Lengths(q)) = Len(q)
           /\ \A i \in 1..Len(q) : Lengths(q)[i] = Len(q[i].data)
           /\ AddsUp(Sums(Lengths(q)), Lengths(q), Len(q))
           /\ Bytes(q) = Sums(Lengths(q))[Len(q)] /\ Bytes(q) \in Nat
<1>1. Len(q) \in Nat /\ DOMAIN q = 1..Len(q) /\ \A i \in 1..Len(q) : q[i] \in Buf
  OBVIOUS
<1>2. \A i \in 1..Len(q) : Len(q[i].data) \in Nat
  BY <1>1 DEF Buf
<1>3. Lengths(q) = [i \in 1..Len(q) |-> Len(q[i].data)]
  BY <1>1 DEF Lengths
<1>4. Lengths(q) \in Seq(Nat) /\ Len(Lengths(q)) = Len(q)
  BY <1>1, <1>2, <1>3
<1>5. AddsUp(Sums(Lengths(q)), Lengths(q), Len(Lengths(q))) /\ Total(Lengths(q)) \in Nat
  BY <1>4, SumsAddUp
<1>6. Bytes(q) = Total(Lengths(q))
  BY DEF Bytes, Lengths
<1> QED
  BY <1>1, <1>3, <1>4, <1>5, <1>6 DEF Total

LEMMA BytesConcat ==
    ASSUME NEW p \in Seq(Buf), NEW q \in Seq(Buf)
    PROVE  Bytes(p \o q) = Bytes(p) + Bytes(q)
<1> DEFINE r == p \o q
<1>1. r \in Seq(Buf) /\ Len(r) = Len(p) + Len(q) /\ Len(p) \in Nat /\ Len(q) \in Nat
  OBVIOUS
<1>2. /\ \A i \in 1..Len(p) : r[i] = p[i]
      /\ \A i \in 1..Len(q) : r[Len(p) + i] = q[i]
  OBVIOUS
<1> HIDE DEF r
<1>3. Follows(Lengths(r), Lengths(p), Len(p), Lengths(q), Len(q))
  <2>1. ASSUME NEW i \in 1..Len(p) PROVE Lengths(r)[i] = Lengths(p)[i]
    <3>1. i \in 1..Len(r) /\ r[i] = p[i]
      BY <1>1, <1>2
    <3>2. \A j \in 1..Len(r) : Lengths(r)[j] = Len(r[j].data)
      BY <1>1, LengthsAre
    <3>3. \A j \in 1..Len(p) : Lengths(p)[j] = Len(p[j].data)
      BY LengthsAre
    <3> QED
      BY <3>1, <3>2, <3>3
  <2>2. ASSUME NEW i \in 1..Len(q) PROVE Lengths(r)[Len(p) + i] = Lengths(q)[i]
    <3>1. Len(p) + i \in 1..Len(r) /\ r[Len(p) + i] = q[i]
      BY <1>1, <1>2
    <3>2. \A j \in 1..Len(r) : Lengths(r)[j] = Len(r[j].data)
      BY <1>1, LengthsAre
    <3>3. \A j \in 1..Len(q) : Lengths(q)[j] = Len(q[j].data)
      BY LengthsAre
    <3> QED
      BY <3>1, <3>2, <3>3
  <2> QED
    BY <2>1, <2>2 DEF Follows
<1>4. /\ AddsUp(Sums(Lengths(r)), Lengths(r), Len(p) + Len(q))
      /\ AddsUp(Sums(Lengths(p)), Lengths(p), Len(p))
      /\ AddsUp(Sums(Lengths(q)), Lengths(q), Len(q))
  BY <1>1, LengthsAre
<1>5. Sums(Lengths(r))[Len(p) + Len(q)]
        = Sums(Lengths(p))[Len(p)] + Sums(Lengths(q))[Len(q)]
  <2> DEFINE f == Sums(Lengths(r))
             g == Sums(Lengths(p))
             h == Sums(Lengths(q))
             u == Lengths(r)
             v == Lengths(p)
             w == Lengths(q)
             K == Len(p)
             L == Len(q)
  <2>1. AddsUp(f, u, K + L) /\ AddsUp(g, v, K) /\ AddsUp(h, w, L) /\ Follows(u, v, K, w, L)
    BY <1>3, <1>4
  <2>2. f[K + L] = g[K] + h[L]
    <3> HIDE DEF f, g, h, u, v, w, K, L
    <3> QED
      BY <2>1, AddsApart
  <2> QED
    BY <2>2
<1>6. Bytes(r) = Bytes(p) + Bytes(q)
  BY <1>1, <1>5, LengthsAre
<1> QED
  BY <1>6 DEF r

LEMMA BytesOfFew ==
    /\ Bytes(<<>>) = 0
    /\ \A b \in Buf : Bytes(<<b>>) = Len(b.data)
<1>1. Bytes(<<>>) = 0
  <2> DEFINE q == <<>>
  <2>1. q \in Seq(Buf) /\ Len(q) = 0
    OBVIOUS
  <2> HIDE DEF q
  <2>2. Bytes(q) = Sums(Lengths(q))[0] /\ AddsUp(Sums(Lengths(q)), Lengths(q), 0)
    BY <2>1, LengthsAre
  <2> QED
    BY <2>2 DEF AddsUp, q
<1>2. ASSUME NEW b \in Buf PROVE Bytes(<<b>>) = Len(b.data)
  <2> DEFINE q == <<b>>
  <2>1. q \in Seq(Buf) /\ Len(q) = 1 /\ q[1] = b
    OBVIOUS
  <2> HIDE DEF q
  <2>2. /\ Bytes(q) = Sums(Lengths(q))[1] /\ AddsUp(Sums(Lengths(q)), Lengths(q), 1)
        /\ Lengths(q)[1] = Len(b.data)
    BY <2>1, LengthsAre
  <2>3. Len(b.data) \in Nat
    BY DEF Buf
  <2>4. Sums(Lengths(q))[1] = Len(b.data)
    <3>1. /\ Sums(Lengths(q))[0] = 0
          /\ \A i \in 0..0 : Sums(Lengths(q))[i + 1] = Sums(Lengths(q))[i] + Lengths(q)[i + 1]
      BY <2>2 DEF AddsUp
    <3>2. Sums(Lengths(q))[0 + 1] = Sums(Lengths(q))[0] + Lengths(q)[0 + 1]
      BY <3>1
    <3> QED
      BY <2>2, <2>3, <3>1, <3>2
  <2> QED
    BY <2>2, <2>4 DEF q
<1> QED
  BY <1>1, <1>2

\* A sequence is what comes up to a place in it and what comes behind.
LEMMA BytesSplit ==
    ASSUME NEW q \in Seq(Buf), NEW n \in 0..Len(q)
    PROVE  /\ SubSeq(q, 1, n) \in Seq(Buf) /\ SubSeq(q, n + 1, Len(q)) \in Seq(Buf)
           /\ Bytes(q) = Bytes(SubSeq(q, 1, n)) + Bytes(SubSeq(q, n + 1, Len(q)))
<1>1. SubSeq(q, 1, n) \in Seq(Buf) /\ SubSeq(q, n + 1, Len(q)) \in Seq(Buf)
  OBVIOUS
<1>2. q = SubSeq(q, 1, n) \o SubSeq(q, n + 1, Len(q))
  <2> DEFINE u == SubSeq(q, 1, n)
             v == SubSeq(q, n + 1, Len(q))
  <2>1. Len(u) = n /\ Len(v) = Len(q) - n /\ Len(q) \in Nat
    OBVIOUS
  <2>2. /\ \A i \in 1..n : u[i] = q[i]
        /\ \A i \in 1..(Len(q) - n) : v[i] = q[n + i]
    OBVIOUS
  <2>3. u \in Seq(Buf) /\ v \in Seq(Buf)
    BY <1>1
  <2> HIDE DEF u, v
  <2>4. Len(u \o v) = Len(q) /\ u \o v \in Seq(Buf)
    BY <2>1, <2>3
  <2>5. ASSUME NEW i \in 1..Len(q) PROVE (u \o v)[i] = q[i]
    <3>1. CASE i <= n
      <4>1. (u \o v)[i] = u[i]
        BY <2>1, <2>3, <3>1
      <4> QED
        BY <2>2, <3>1, <4>1
    <3>2. CASE i > n
      <4>1. (u \o v)[i] = v[i - n]
        BY <2>1, <2>3, <3>2
      <4>2. i - n \in 1..(Len(q) - n) /\ n + (i - n) = i
        BY <2>1, <3>2
      <4> QED
        BY <2>2, <4>1, <4>2
    <3> QED
      BY <2>1, <3>1, <3>2
  <2>6. q = u \o v
    BY <2>4, <2>5, SeqEqual
  <2> QED
    BY <2>6 DEF u, v
<1> QED
  BY <1>1, <1>2, BytesConcat

LEMMA BytesInsert ==
    ASSUME NEW q \in Seq(Buf), NEW b \in Buf, NEW n \in 0..Len(q)
    PROVE  /\ InsertAt(q, n + 1, b) \in Seq(Buf)
           /\ Bytes(InsertAt(q, n + 1, b)) = Bytes(q) + Len(b.data)
<1> DEFINE u == SubSeq(q, 1, n)
           v == <<b>>
           w == SubSeq(q, n + 1, Len(q))
<1>1. u \in Seq(Buf) /\ v \in Seq(Buf) /\ w \in Seq(Buf) /\ Bytes(q) = Bytes(u) + Bytes(w)
  BY BytesSplit
<1>2. InsertAt(q, n + 1, b) = (u \o v) \o w
  <2>1. (n + 1) - 1 = n
    OBVIOUS
  <2> QED
    BY <2>1 DEF InsertAt
<1>3. Bytes(v) = Len(b.data) /\ Len(b.data) \in Nat
  BY BytesOfFew DEF Buf
<1> HIDE DEF u, v, w
<1>4. u \o v \in Seq(Buf) /\ (u \o v) \o w \in Seq(Buf)
  BY <1>1
<1>5. Bytes((u \o v) \o w) = (Bytes(u) + Bytes(v)) + Bytes(w)
  <2>1. Bytes(u \o v) = Bytes(u) + Bytes(v)
    BY <1>1, BytesConcat
  <2>2. Bytes((u \o v) \o w) = Bytes(u \o v) + Bytes(w)
    BY <1>1, <1>4, BytesConcat
  <2> QED
    BY <2>1, <2>2
<1>6. Bytes(u) \in Nat /\ Bytes(w) \in Nat
  BY <1>1, LengthsAre
<1>7. \A x, y, z \in Nat : (x + y) + z = (x + z) + y
  OBVIOUS
<1>8. Bytes((u \o v) \o w) = Bytes(q) + Len(b.data)
  <2>1. (Bytes(u) + Len(b.data)) + Bytes(w) = (Bytes(u) + Bytes(w)) + Len(b.data)
    BY <1>3, <1>6, <1>7
  <2> QED
    BY <1>1, <1>3, <1>5, <2>1
<1> QED
  BY <1>2, <1>4, <1>8
-----------------------------------------------------------------------------
(***************************************************************************)
(* What is stored where, and what sb_cc counts: every handler takes a      *)
(* stream with these properties to one that has them again.                *)
(***************************************************************************)
Counted(s) == s.sb_cc = Len(s.rcv_data_q) + Bytes(s.rcv_buf_q)
SndBuf == {b \in Buf : b.sent <= Len(b.data)}
Typed(x) ==
    /\ x = [s |-> x.s, out |-> x.out] /\ x.s \in Stream
    /\ x.out \subseteq PacketType /\ Counted(x.s)

LEMMA SpaceIs ==
    /\ SeqSpace \in Nat /\ SeqSpace > 0
    /\ SeqSpace \div 2 \in Nat /\ SeqSpace = 2 * (SeqSpace \div 2)
    /\ 0 \in Seqs
BY ScpAssumption DEF Seqs

LEMMA SeqsType ==
    ASSUME NEW a \in Int, NEW b \in Int
    PROVE  Plus(a, b) \in Seqs /\ Diff(a, b) \in Seqs
BY SpaceIs DEF Plus, Diff, Seqs

LEMMA SeqsAreInt == \A a \in Seqs : a \in Nat /\ a \in Int /\ a < SeqSpace
BY SpaceIs DEF Seqs

LEMMA LeastMost ==
    ASSUME NEW a \in Int, NEW b \in Int
    PROVE  /\ Least(a, b) \in Int /\ Least(a, b) <= a /\ Least(a, b) <= b
           /\ Most(a, b) \in Int /\ Most(a, b) >= a /\ Most(a, b) >= b
           /\ Least(a, b) \in {a, b} /\ Most(a, b) \in {a, b}
BY DEF Least, Most

\* The greatest of some numbers up to L, 0 among them.
UpTo(S, L) == L \in Nat /\ S \subseteq 0..L /\ 0 \in S
Greatest(S, L, m) == m \in S /\ m \in 0..L /\ \A y \in S : y <= m
LEMMA MaxIs ==
    ASSUME NEW S, NEW L, UpTo(S, L)
    PROVE  Greatest(S, L, Max(S))
<1>1. L \in Nat /\ S \subseteq 0..L /\ 0 \in S
  BY DEF UpTo
<1> DEFINE T == {L - y : y \in S}
<1>2. T \in SUBSET Nat /\ T # {}
  BY <1>1
<1>3. PICK n \in T : \A m \in T : n <= m
  <2> HIDE DEF T
  <2> QED
    BY <1>2, LeastElement
<1>4. PICK y \in S : n = L - y
  BY <1>3
<1>5. \A z \in S : y >= z
  BY <1>1, <1>3, <1>4
<1>6. Max(S) \in S /\ \A z \in S : Max(S) >= z
  BY <1>4, <1>5 DEF Max
<1> QED
  BY <1>1, <1>6 DEF Greatest

LEMMA EndType ==
    /\ \A p \in PacketType : End(p) \in Seqs /\ End(p) \in Int
    /\ \A b \in Buf : End(b) \in Seqs /\ End(b) \in Int
<1>1. ASSUME NEW p, p.seq \in Seqs, p.data \in Seq(Nat)
      PROVE  End(p) \in Seqs /\ End(p) \in Int
  <2>1. p.seq \in Int /\ Len(p.data) \in Int
    BY <1>1, SeqsAreInt
  <2>2. Plus(p.seq, Len(p.data)) \in Seqs
    BY <2>1, SeqsType
  <2> QED
    BY <2>2, SeqsAreInt DEF End
<1>2. \A p \in PacketType : p.seq \in Seqs /\ p.data \in Seq(Nat)
  BY DEF PacketType
<1>3. \A b \in Buf : b.seq \in Seqs /\ b.data \in Seq(Nat)
  BY DEF Buf, Seqs
<1> QED
  BY <1>1, <1>2, <1>3

LEMMA StreamFields ==
    ASSUME NEW s \in Stream
    PROVE  /\ s.state \in States /\ s.retry \in Nat /\ s.timers \in SUBSET Timers
           /\ s.snd_una \in Seqs /\ s.snd_nxt \in Seqs /\ s.snd_seq_q \in Seqs
           /\ s.snd_wnd \in Nat /\ s.snd_q \in Seq(SndBuf) /\ s.cwnd \in Nat
           /\ s.ssthresh \in Nat /\ s.dup_acks \in 0..4 /\ s.fr_active \in BOOLEAN
           /\ s.last_gap \in Seqs /\ s.timeout_count \in Nat
           /\ s.rcv_nxt \in Seqs /\ s.rcv_wnd \in Nat /\ s.sb_cc \in Nat
           /\ s.rcv_data_q \in Seq(Nat) /\ s.rcv_buf_q \in Seq(Buf)
           /\ s.idle_failures \in Nat
BY DEF Stream, SndBuf

\* The same of what the receiving side keeps.
LEMMA ReceiverFields ==
    ASSUME NEW s \in Stream
    PROVE  s.rcv_data_q \in Seq(Nat) /\ s.rcv_buf_q \in Seq(Buf) /\ s.sb_cc \in Nat
BY StreamFields

LEMMA AllocType == scp_stream_alloc \in Stream /\ Counted(scp_stream_alloc)
<1>1. scp_stream_alloc \in Stream
  BY SpaceIs, ScpAssumption DEF scp_stream_alloc, Stream, States, Timers
<1>2. Counted(scp_stream_alloc)
  BY BytesOfFew DEF Counted, scp_stream_alloc
<1> QED
  BY <1>1, <1>2

LEMMA FreeType == scp_stream_free \in Stream /\ Counted(scp_stream_free)
<1>1. scp_stream_free \in Stream
  BY AllocType DEF scp_stream_free, Stream, States
<1>2. /\ scp_stream_free.sb_cc = 0 /\ scp_stream_free.rcv_data_q = <<>>
      /\ scp_stream_free.rcv_buf_q = <<>>
  BY DEF scp_stream_free, scp_stream_alloc
<1> QED
  BY <1>1, <1>2, BytesOfFew DEF Counted

\* A packet more is sent.
LEMMA EmitType ==
    ASSUME NEW x, Typed(x), NEW p \in PacketType
    PROVE  Typed(Emit(x, p)) /\ Emit(x, p).s = x.s
<1>1. Emit(x, p) = [s |-> x.s, out |-> x.out \cup {p}]
  BY DEF Emit, Typed
<1> QED
  BY <1>1 DEF Typed

LEMMA PacketIs ==
    ASSUME NEW kind \in Kinds, NEW seq \in Seqs, NEW data \in Seq(Nat)
    PROVE  Packet(kind, seq, data) \in PacketType
BY SpaceIs DEF Packet, PacketType

LEMMA AckingIs ==
    ASSUME NEW s \in Stream, NEW p \in PacketType
    PROVE  Acking(s, p) \in PacketType
<1>1. scp_calc_sack(s) \in Seqs
  <2>1. s.rcv_nxt \in Seqs /\ s.rcv_buf_q \in Seq(Buf)
    BY StreamFields
  <2>2. s.rcv_buf_q # <<>> => Head(s.rcv_buf_q) \in Buf
    BY <2>1
  <2>3. \A b \in Buf : b.seq \in Seqs
    BY DEF Buf, Seqs
  <2> QED
    BY <2>1, <2>2, <2>3 DEF scp_calc_sack
<1>2. s.rcv_nxt \in Seqs /\ s.rcv_wnd \in Nat
  BY StreamFields
<1> HIDE DEF Seqs
<1> QED
  BY <1>1, <1>2 DEF Acking, PacketType
LEMMA SendsType ==
    ASSUME NEW x, Typed(x)
    PROVE  /\ Typed(scp_output_ack(x)) /\ Typed(scp_send_window_probe(x))
           /\ Typed(scp_output_connect(x)) /\ Typed(scp_output_connect_ack(x))
           /\ Typed(scp_output_fin_retrans(x)) /\ Typed(scp_output_fin_first(x))
<1>1. /\ x.s \in Stream /\ x.s.snd_nxt \in Seqs /\ <<>> \in Seq(Nat)
      /\ Plus(x.s.snd_nxt, -1) \in Seqs /\ Plus(x.s.snd_nxt, 1) \in Seqs
  <2>1. x.s \in Stream
    BY DEF Typed
  <2>2. x.s.snd_nxt \in Seqs
    BY <2>1, StreamFields
  <2>3. x.s.snd_nxt \in Int
    BY <2>2, SeqsAreInt
  <2> QED
    BY <2>1, <2>2, <2>3, SeqsType
<1>2. /\ Packet("ACK", 0, <<>>) \in PacketType /\ Packet("PING", 0, <<>>) \in PacketType
      /\ Packet("CONNECT", x.s.snd_nxt, <<>>) \in PacketType
      /\ Packet("CONNECT_ACK", x.s.snd_nxt, <<>>) \in PacketType
      /\ Packet("FIN", Plus(x.s.snd_nxt, -1), <<>>) \in PacketType
      /\ Packet("FIN", x.s.snd_nxt, <<>>) \in PacketType
  BY <1>1, SpaceIs, PacketIs DEF Kinds
<1>3. Typed(scp_output_ack(x))
  BY <1>1, <1>2, AckingIs, EmitType DEF scp_output_ack
<1>4. Typed(scp_send_window_probe(x))
  BY <1>1, <1>2, EmitType DEF scp_send_window_probe
<1>5. Typed(scp_output_connect(x)) /\ Typed(scp_output_connect_ack(x))
  BY <1>1, <1>2, EmitType DEF scp_output_connect, scp_output_connect_ack
<1>6. Typed(scp_output_fin_retrans(x))
  BY <1>1, <1>2, AckingIs, EmitType DEF scp_output_fin_retrans
<1>7. Typed(scp_output_fin_first(x))
  <2> DEFINE p == Acking(x.s, Packet("FIN", x.s.snd_nxt, <<>>))
             y == Emit(x, p)
  <2>1. Typed(y) /\ y.s = x.s
    BY <1>1, <1>2, AckingIs, EmitType
  <2> HIDE DEF p, y
  <2> DEFINE z == [y EXCEPT !.s.snd_nxt = Plus(@, 1)]
             t == [y.s EXCEPT !.snd_nxt = Plus(@, 1)]
  <2>2. z = [s |-> t, out |-> y.out]
    BY <2>1 DEF Typed
  <2>3. t \in Stream /\ Counted(t)
    BY <1>1, <2>1 DEF Typed, Stream, Counted
  <2>4. Typed(z)
    BY <2>1, <2>2, <2>3 DEF Typed
  <2> QED
    BY <2>4 DEF scp_output_fin_first, y, p
<1> QED
  BY <1>3, <1>4, <1>5, <1>6, <1>7

\* Only snd_nxt changes, and packets are added.
LEMMA OutputDataType ==
    ASSUME NEW x, Typed(x), NEW P \in SUBSET PacketType
    PROVE  /\ Typed(scp_output_data(x, P))
           /\ scp_output_data(x, P).s
                = [x.s EXCEPT !.snd_nxt = scp_output_data(x, P).s.snd_nxt]
           /\ scp_output_data(x, P).out = x.out \cup P
<1> DEFINE nxt == x.s.snd_nxt
           further == {Diff(End(p), nxt) : p \in {p \in P : SEQ_GT(End(p), nxt)}}
           t == [x.s EXCEPT !.snd_nxt = Plus(nxt, Max({0} \cup further))]
<1>1. x.s \in Stream /\ nxt \in Seqs /\ nxt \in Int
  <2>1. x.s \in Stream
    BY DEF Typed
  <2>2. nxt \in Seqs
    BY <2>1, StreamFields
  <2> QED
    BY <2>1, <2>2, SeqsAreInt
<1>2. Max({0} \cup further) \in Nat
  <2>1. further \subseteq 0..(SeqSpace - 1)
    <3>1. \A p \in P : End(p) \in Int
      BY EndType
    <3>2. \A p \in P : Diff(End(p), nxt) \in Seqs
      BY <1>1, <3>1, SeqsType
    <3> QED
      BY <3>2 DEF Seqs
  <2> DEFINE S == {0} \cup further
             L == SeqSpace - 1
  <2>2. UpTo(S, L)
    BY <2>1, SpaceIs DEF UpTo
  <2> HIDE DEF S, L, further
  <2>3. Greatest(S, L, Max(S))
    BY <2>2, MaxIs
  <2>4. Max(S) \in Nat
    BY <2>3 DEF Greatest
  <2> QED
    BY <2>4 DEF S
<1>3. Plus(nxt, Max({0} \cup further)) \in Seqs
  BY <1>1, <1>2, SeqsType
<1> HIDE DEF further, nxt
<1>4. t \in Stream /\ Counted(t)
  BY <1>1, <1>3 DEF Typed, Stream, Counted
<1>5. scp_output_data(x, P) = [s |-> t, out |-> x.out \cup P]
  BY DEF scp_output_data, further, nxt
<1>6. t = [x.s EXCEPT !.snd_nxt = t.snd_nxt]
  BY <1>1 DEF Stream
<1> HIDE DEF t
<1> QED
  BY <1>4, <1>5, <1>6 DEF Typed
\* p carries bytes of b, with the numbers they have in b.
SliceOf(p, b) ==
    /\ p \in PacketType /\ p.kind = "DATA"
    /\ \E lo \in Nat, hi \in Nat :
          /\ lo < hi /\ hi <= Len(b.data)
          /\ p.seq = Plus(b.seq, lo) /\ p.data = SubSeq(b.data, lo + 1, hi)

LEMMA FragmentsAre ==
    ASSUME NEW b \in Buf, NEW from \in Nat, NEW to \in Int, to <= Len(b.data), NEW m,
           NEW p \in fragments(b, from, to, m)
    PROVE  SliceOf(p, b)
<1>1. PICK off \in from..(to - 1) :
          p = Packet("DATA", Plus(b.seq, off), SubSeq(b.data, off + 1, Least(off + Mss, to)))
  BY DEF fragments
<1> DEFINE hi == Least(off + Mss, to)
<1>2. Mss \in Nat /\ Mss > 0
  BY ScpAssumption
<1>3. off \in Nat /\ hi \in Nat /\ off < hi /\ hi <= Len(b.data)
  BY <1>2 DEF Least
<1>4. b.seq \in Seqs /\ b.data \in Seq(Nat)
  BY DEF Buf, Seqs
<1> HIDE DEF hi
<1>5. Plus(b.seq, off) \in Seqs
  <2>1. b.seq \in Int /\ off \in Int
    BY <1>3, <1>4, SeqsAreInt
  <2> QED
    BY <2>1, SeqsType
<1>6. SubSeq(b.data, off + 1, hi) \in Seq(Nat)
  BY <1>3, <1>4
<1>7. p = Packet("DATA", Plus(b.seq, off), SubSeq(b.data, off + 1, hi))
  BY <1>1 DEF hi
<1>8. p \in PacketType
  BY <1>5, <1>6, <1>7, PacketIs DEF Kinds
<1>9. p.kind = "DATA" /\ p.seq = Plus(b.seq, off) /\ p.data = SubSeq(b.data, off + 1, hi)
  BY <1>7 DEF Packet
<1> QED
  BY <1>3, <1>8, <1>9 DEF SliceOf

\* What a handler sends of the buffers that wait is a part of one of them.
SlicesOf(P, q) == \A p \in P : \E i \in DOMAIN q : SliceOf(p, q[i])

LEMMA SlicesType ==
    ASSUME NEW P, NEW q, SlicesOf(P, q)
    PROVE  P \in SUBSET PacketType
BY DEF SlicesOf, SliceOf

LEMMA TotalType ==
    ASSUME NEW q \in Seq(SndBuf), NEW i \in DOMAIN q
    PROVE  Total([j \in 1..(i - 1) |-> Unsent(q[j])]) \in Nat
<1> DEFINE w == [j \in 1..(i - 1) |-> Unsent(q[j])]
<1>1. i \in Nat /\ \A j \in 1..(i - 1) : q[j] \in SndBuf
  OBVIOUS
<1>2. \A b \in SndBuf : Unsent(b) \in Nat
  BY DEF SndBuf, Buf, Unsent
<1>3. w \in Seq(Nat)
  <2> DEFINE U(b) == Unsent(b)
  <2>1. \A j \in 1..(i - 1) : U(q[j]) \in Nat
    BY <1>1, <1>2
  <2>2. i - 1 \in Nat
    OBVIOUS
  <2> HIDE DEF U
  <2>3. [j \in 1..(i - 1) |-> U(q[j])] \in Seq(Nat)
    BY <2>1, <2>2
  <2> QED
    BY <2>3 DEF U
<1> HIDE DEF w
<1>4. Total(w) \in Nat
  BY <1>3, SumsAddUp
<1> QED
  BY <1>4 DEF w

LEMMA ShareType ==
    ASSUME NEW q \in Seq(SndBuf), NEW i \in DOMAIN q, NEW r \in Int
    PROVE  Share(q, i, r) \in 0..Unsent(q[i]) /\ Unsent(q[i]) = Len(q[i].data) - q[i].sent
<1>1. Total([j \in 1..(i - 1) |-> Unsent(q[j])]) \in Nat
  BY TotalType
<1>2. Unsent(q[i]) \in Nat
  <2>1. q[i] \in SndBuf
    OBVIOUS
  <2> QED
    BY <2>1 DEF SndBuf, Buf, Unsent
<1> QED
  BY <1>1, <1>2 DEF Share, Least, Most, Unsent

\* A handler that sends what waits: the buffers of y are buffers of x, if with
\* more bytes counted as sent, and the packets are parts of them.
SameBytes(b, c) == b.seq = c.seq /\ b.data = c.data
Sends(x, y) ==
    /\ Typed(x) /\ Typed(y)
    /\ y.s.state = x.s.state /\ y.s.snd_seq_q = x.s.snd_seq_q
    /\ y.s.rcv_nxt = x.s.rcv_nxt /\ y.s.rcv_data_q = x.s.rcv_data_q
    /\ y.s.rcv_buf_q = x.s.rcv_buf_q
    /\ \A i \in DOMAIN y.s.snd_q :
          \E j \in DOMAIN x.s.snd_q : SameBytes(y.s.snd_q[i], x.s.snd_q[j])
    /\ \E P : /\ y.out = x.out \cup P /\ SlicesOf(P, x.s.snd_q)
              /\ y.s.snd_nxt = x.s.snd_nxt \/ \E p \in P : y.s.snd_nxt = End(p)

LEMMA SendsTwice ==
    ASSUME NEW x, NEW y, NEW z, Sends(x, y), Sends(y, z)
    PROVE  Sends(x, z)
<1>1. PICK P : /\ y.out = x.out \cup P /\ SlicesOf(P, x.s.snd_q)
               /\ y.s.snd_nxt = x.s.snd_nxt \/ \E p \in P : y.s.snd_nxt = End(p)
  BY DEF Sends
<1>2. PICK Q : /\ z.out = y.out \cup Q /\ SlicesOf(Q, y.s.snd_q)
               /\ z.s.snd_nxt = y.s.snd_nxt \/ \E p \in Q : z.s.snd_nxt = End(p)
  BY DEF Sends
<1>3. \A i \in DOMAIN y.s.snd_q :
         \E j \in DOMAIN x.s.snd_q : SameBytes(y.s.snd_q[i], x.s.snd_q[j])
  BY DEF Sends
<1>4. \A i \in DOMAIN z.s.snd_q :
         \E j \in DOMAIN x.s.snd_q : SameBytes(z.s.snd_q[i], x.s.snd_q[j])
  BY <1>3 DEF Sends, SameBytes
<1>5. SlicesOf(Q, x.s.snd_q)
  <2>1. ASSUME NEW p, NEW b, NEW c, SliceOf(p, b), SameBytes(b, c) PROVE SliceOf(p, c)
    BY <2>1 DEF SliceOf, SameBytes
  <2> QED
    BY <1>2, <1>3, <2>1 DEF SlicesOf
<1>6. /\ z.out = x.out \cup (P \cup Q) /\ SlicesOf(P \cup Q, x.s.snd_q)
      /\ z.s.snd_nxt = x.s.snd_nxt \/ \E p \in P \cup Q : z.s.snd_nxt = End(p)
  BY <1>1, <1>2, <1>5 DEF SlicesOf
<1> QED
  BY <1>4, <1>6 DEF Sends

\* What scp_output_data does is of this kind.
LEMMA OutputDataSends ==
    ASSUME NEW x, Typed(x), NEW P, SlicesOf(P, x.s.snd_q)
    PROVE  Sends(x, scp_output_data(x, P))
<1> DEFINE y == scp_output_data(x, P)
           nxt == x.s.snd_nxt
           further == {Diff(End(p), nxt) : p \in {p \in P : SEQ_GT(End(p), nxt)}}
<1>1. P \in SUBSET PacketType /\ x.s \in Stream
  BY SlicesType DEF Typed
<1>2. Typed(y) /\ y.out = x.out \cup P /\ y.s = [x.s EXCEPT !.snd_nxt = y.s.snd_nxt]
  BY <1>1, OutputDataType
<1>3. nxt \in Seqs /\ nxt \in Int
  BY <1>1, StreamFields, SeqsAreInt
<1>4. \A p \in P : End(p) \in Seqs /\ End(p) \in Int
  BY <1>1, EndType
<1>5. y.s.snd_nxt = Plus(nxt, Max({0} \cup further))
  BY <1>1 DEF scp_output_data, Stream
<1>6. Max({0} \cup further) \in {0} \cup further
  <2>1. further \subseteq 0..(SeqSpace - 1)
    <3>2. \A p \in P : Diff(End(p), nxt) \in Seqs
      BY <1>3, <1>4, SeqsType
    <3> QED
      BY <3>2 DEF Seqs
  <2> DEFINE S == {0} \cup further
             L == SeqSpace - 1
  <2>2. UpTo(S, L)
    BY <2>1, SpaceIs DEF UpTo
  <2> HIDE DEF S, L, further
  <2>3. Greatest(S, L, Max(S))
    BY <2>2, MaxIs
  <2>4. Max(S) \in S
    BY <2>3 DEF Greatest
  <2> QED
    BY <2>4 DEF S
<1>7. Plus(nxt, 0) = nxt
  BY <1>3, SpaceIs DEF Plus, Seqs
<1>8. \A p \in P : Plus(nxt, Diff(End(p), nxt)) = End(p)
  <2>1. ASSUME NEW a \in Seqs, NEW b \in Seqs PROVE Plus(b, Diff(a, b)) = a
    BY <2>1, SpaceIs DEF Plus, Diff, Seqs
  <2> QED
    BY <1>3, <1>4, <2>1
<1>9. y.s.snd_nxt = nxt \/ \E p \in P : y.s.snd_nxt = End(p)
  BY <1>5, <1>6, <1>7, <1>8
<1>10. /\ y.s.state = x.s.state /\ y.s.snd_seq_q = x.s.snd_seq_q
       /\ y.s.rcv_nxt = x.s.rcv_nxt /\ y.s.rcv_data_q = x.s.rcv_data_q
       /\ y.s.rcv_buf_q = x.s.rcv_buf_q /\ y.s.snd_q = x.s.snd_q
  BY <1>1, <1>2 DEF Stream
<1> HIDE DEF y, further
<1>11. \A i \in DOMAIN y.s.snd_q :
          \E j \in DOMAIN x.s.snd_q : SameBytes(y.s.snd_q[i], x.s.snd_q[j])
  BY <1>10 DEF SameBytes
<1>12. \E Q : /\ y.out = x.out \cup Q /\ SlicesOf(Q, x.s.snd_q)
              /\ y.s.snd_nxt = x.s.snd_nxt \/ \E p \in Q : y.s.snd_nxt = End(p)
  BY <1>2, <1>9 DEF nxt
<1> QED
  BY <1>2, <1>10, <1>11, <1>12 DEF Sends, y
\* The stream is changed where a sender may change it, and nothing is sent.
Alike(s, t) ==
    /\ t \in Stream
    /\ t.state = s.state /\ t.snd_seq_q = s.snd_seq_q /\ t.snd_nxt = s.snd_nxt
    /\ t.rcv_nxt = s.rcv_nxt /\ t.rcv_data_q = s.rcv_data_q
    /\ t.rcv_buf_q = s.rcv_buf_q /\ t.sb_cc = s.sb_cc
    /\ \A i \in DOMAIN t.snd_q :
          \E j \in DOMAIN s.snd_q : SameBytes(t.snd_q[i], s.snd_q[j])

LEMMA AlikeSends ==
    ASSUME NEW x, NEW t, Typed(x), Alike(x.s, t)
    PROVE  Sends(x, [s |-> t, out |-> x.out])
<1> DEFINE y == [s |-> t, out |-> x.out]
<1>1. Typed(y)
  BY DEF Typed, Alike, Counted
<1>2. y.out = x.out \cup {} /\ SlicesOf({}, x.s.snd_q) /\ y.s.snd_nxt = x.s.snd_nxt
  BY DEF Alike, SlicesOf
<1>3. \E P : /\ y.out = x.out \cup P /\ SlicesOf(P, x.s.snd_q)
             /\ y.s.snd_nxt = x.s.snd_nxt \/ \E p \in P : y.s.snd_nxt = End(p)
  BY <1>2
<1>4. y.s = t
  OBVIOUS
<1> HIDE DEF y
<1>5. Sends(x, y)
  BY <1>1, <1>3, <1>4 DEF Sends, Alike
<1> QED
  BY <1>5 DEF y

\* Fields that say nothing of what was sent or came.
LEMMA AlikeFields ==
    ASSUME NEW s \in Stream, NEW t \in Stream,
           t.state = s.state, t.snd_seq_q = s.snd_seq_q, t.snd_nxt = s.snd_nxt,
           t.rcv_nxt = s.rcv_nxt, t.rcv_data_q = s.rcv_data_q,
           t.rcv_buf_q = s.rcv_buf_q, t.sb_cc = s.sb_cc, t.snd_q = s.snd_q
    PROVE  Alike(s, t)
BY DEF Alike, SameBytes

\* The stream is changed in fields that say nothing of the numbers: the bytes
\* that wait, where they are and what was sent and acknowledged stay.
Edits(s, t) ==
    /\ Alike(s, t) /\ t.snd_una = s.snd_una /\ t.rcv_wnd = s.rcv_wnd
    /\ Len(t.snd_q) = Len(s.snd_q)
    /\ \A i \in 1..Len(s.snd_q) : SameBytes(t.snd_q[i], s.snd_q[i])

\* scp_output, in parts: packets P of what waits go out, more is counted as
\* sent, and the timer starts when nothing was in flight.
LEMMA OutputIs ==
    ASSUME NEW x, Typed(x)
    PROVE  \E P, t : LET y == scp_output_data(x, P)
                     IN  /\ SlicesOf(P, x.s.snd_q) /\ Edits(y.s, t) /\ Typed(y)
                         /\ scp_output(x) = [s |-> t, out |-> y.out]
                         /\ y.s.timers \subseteq t.timers
                         /\ x.s.snd_nxt = x.s.snd_una /\ P # {} => "retrans" \in t.timers
<1> DEFINE q == x.s.snd_q
           flight == Diff(x.s.snd_nxt, x.s.snd_una)
           r == Least(x.s.cwnd, x.s.snd_wnd) - flight
           take == [i \in DOMAIN q |-> Share(q, i, r)]
           P == UNION {fragments(q[i], q[i].sent, q[i].sent + take[i], take[i]) :
                       i \in DOMAIN q}
           y == scp_output_data(x, P)
           new == [i \in DOMAIN q |-> [q[i] EXCEPT !.sent = @ + take[i]]]
           t == [y.s EXCEPT !.snd_q = new]
           z == [s |-> t, out |-> y.out]
           u == [Start(t, "retrans") EXCEPT !.timeout_count = 0]
<1>1. x.s \in Stream /\ q \in Seq(SndBuf) /\ r \in Int
  <2>1. x.s \in Stream
    BY DEF Typed
  <2>2. /\ q \in Seq(SndBuf) /\ x.s.snd_nxt \in Int /\ x.s.snd_una \in Int
        /\ x.s.cwnd \in Int /\ x.s.snd_wnd \in Int
    BY <2>1, StreamFields, SeqsAreInt
  <2>3. flight \in Int /\ Least(x.s.cwnd, x.s.snd_wnd) \in Int
    BY <2>2, SeqsType, SeqsAreInt, LeastMost
  <2> HIDE DEF flight
  <2> QED
    BY <2>1, <2>2, <2>3
<1>2. x.s.snd_nxt = x.s.snd_una => flight = 0
  <2>1. x.s.snd_una \in Int
    BY <1>1, StreamFields, SeqsAreInt
  <2>2. \A a \in Int : (a - a) % SeqSpace = 0
    BY SpaceIs
  <2> QED
    BY <2>1, <2>2 DEF Diff
<1> HIDE DEF r, flight, q
<1>3. \A i \in DOMAIN q : /\ q[i] \in SndBuf /\ take[i] \in 0..Unsent(q[i])
                          /\ Unsent(q[i]) = Len(q[i].data) - q[i].sent
  <2> SUFFICES ASSUME NEW i \in DOMAIN q
               PROVE  /\ q[i] \in SndBuf /\ take[i] \in 0..Unsent(q[i])
                      /\ Unsent(q[i]) = Len(q[i].data) - q[i].sent
    OBVIOUS
  <2>1. q[i] \in SndBuf
    BY <1>1
  <2>2. Share(q, i, r) \in 0..Unsent(q[i]) /\ Unsent(q[i]) = Len(q[i].data) - q[i].sent
    BY <1>1, ShareType
  <2> QED
    BY <2>1, <2>2
<1> HIDE DEF take
<1>4. \A i \in DOMAIN q : /\ q[i] \in Buf /\ q[i].sent \in Nat /\ take[i] \in Nat
                          /\ q[i].sent + take[i] <= Len(q[i].data)
  BY <1>3 DEF SndBuf, Buf
<1>5. SlicesOf(P, x.s.snd_q)
  <2> SUFFICES ASSUME NEW i \in DOMAIN q,
                      NEW p \in fragments(q[i], q[i].sent, q[i].sent + take[i], take[i])
               PROVE  SliceOf(p, q[i])
    BY DEF SlicesOf, q
  <2> DEFINE b == q[i]
             from == q[i].sent
             to == q[i].sent + take[i]
             m == take[i]
  <2>1. b \in Buf /\ from \in Nat /\ to \in Int /\ to <= Len(b.data)
    BY <1>4
  <2>2. p \in fragments(b, from, to, m)
    OBVIOUS
  <2> HIDE DEF b, from, to, m
  <2>3. SliceOf(p, b)
    BY <2>1, <2>2, FragmentsAre
  <2> QED
    BY <2>3 DEF b
<1> HIDE DEF P
<1>6. Typed(y) /\ y.s.snd_q = q
  <2>1. P \in SUBSET PacketType
    BY <1>5, SlicesType
  <2>2. Typed(y) /\ y.s = [x.s EXCEPT !.snd_nxt = y.s.snd_nxt]
    BY <2>1, OutputDataType
  <2> HIDE DEF y
  <2> QED
    BY <1>1, <2>2 DEF Stream, q
<1>7. y = [s |-> y.s, out |-> y.out] /\ y.s \in Stream
  BY <1>6 DEF Typed
<1>8. \/ scp_output(x) = z /\ ~(flight = 0 /\ P # {})
      \/ scp_output(x) = [s |-> u, out |-> y.out]
  <2> DEFINE zz == [y EXCEPT !.s.snd_q = new]
  <2>1. \/ scp_output(x) = zz /\ ~(flight = 0 /\ P # {})
        \/ scp_output(x) = [zz EXCEPT !.s = [Start(@, "retrans") EXCEPT !.timeout_count = 0]]
    BY Zenon DEF scp_output, y, P, take, r, flight, q
  <2>2. zz = z
    <3> HIDE DEF y
    <3> QED
      BY <1>7
  <2>3. [zz EXCEPT !.s = [Start(@, "retrans") EXCEPT !.timeout_count = 0]]
          = [s |-> u, out |-> y.out]
    <3>1. zz = [s |-> t, out |-> y.out]
      BY <2>2
    <3> HIDE DEF zz, t
    <3> QED
      BY <3>1
  <2> QED
    BY <2>1, <2>2, <2>3
<1> DEFINE a == y.s
           out == y.out
<1>9. new \in Seq(SndBuf) /\ Len(new) = Len(q) /\ \A i \in 1..Len(q) : SameBytes(new[i], q[i])
  <2>1. \A i \in DOMAIN q : new[i] \in SndBuf /\ SameBytes(new[i], q[i])
    BY <1>3, <1>4 DEF SndBuf, Buf, SameBytes
  <2>2. DOMAIN q = 1..Len(q) /\ Len(q) \in Nat
    BY <1>1
  <2>3. new \in [1..Len(q) -> SndBuf]
    BY <2>1, <2>2
  <2> QED
    BY <2>1, <2>2, <2>3
<1> HIDE DEF new
<1>10. a \in Stream /\ a.snd_q = q /\ t = [a EXCEPT !.snd_q = new]
  BY <1>6, <1>7
<1> HIDE DEF a, t
<1>11. t \in Stream
  BY <1>9, <1>10 DEF Stream, SndBuf
<1>12. Alike(a, t)
  <2>1. DOMAIN new = 1..Len(q) /\ DOMAIN q = 1..Len(q)
    BY <1>1, <1>9
  <2>2. \A i \in DOMAIN new : \E j \in DOMAIN q : SameBytes(new[i], q[j])
    BY <1>9, <2>1
  <2>3. t.snd_q = new
    BY <1>10 DEF Stream
  <2> QED
    BY <1>10, <1>11, <2>2, <2>3 DEF Alike, Stream
<1>13. Edits(a, t) /\ t.timers = a.timers /\ t.snd_q = new
  BY <1>9, <1>10, <1>12 DEF Edits, Stream
<1>14. u \in Stream
  BY <1>11 DEF Start, Stream, Timers
<1>15. Edits(a, u) /\ u.timers = a.timers \cup {"retrans"}
  BY <1>11, <1>13, <1>14 DEF Edits, Alike, Start, Stream
<1>16. CASE scp_output(x) = z /\ ~(flight = 0 /\ P # {})
  <2>1. scp_output(x) = [s |-> t, out |-> out]
    BY <1>16 DEF t, a
  <2>2. x.s.snd_nxt = x.s.snd_una /\ P # {} => "retrans" \in t.timers
    BY <1>2, <1>16
  <2> QED
    BY <1>5, <1>6, <1>13, <2>1, <2>2 DEF a
<1>17. CASE scp_output(x) = [s |-> u, out |-> y.out]
  <2>1. scp_output(x) = [s |-> u, out |-> out] /\ "retrans" \in u.timers
    BY <1>15, <1>17
  <2> HIDE DEF u
  <2> QED
    BY <1>5, <1>6, <1>15, <2>1 DEF a
<1> QED
  BY <1>8, <1>16, <1>17

LEMMA OutputSends ==
    ASSUME NEW x, Typed(x)
    PROVE  Sends(x, scp_output(x))
<1>1. PICK P, t : /\ SlicesOf(P, x.s.snd_q) /\ Edits(scp_output_data(x, P).s, t)
                  /\ Typed(scp_output_data(x, P))
                  /\ scp_output(x) = [s |-> t, out |-> scp_output_data(x, P).out]
  BY OutputIs
<1>2. Sends(x, scp_output_data(x, P)) /\ Sends(scp_output_data(x, P), scp_output(x))
  BY <1>1, OutputDataSends, AlikeSends DEF Edits
<1> QED
  BY <1>2, SendsTwice

\* scp_retransmit sends again packets that are parts of what waits.
LEMMA RetransmitIs ==
    ASSUME NEW x, Typed(x), NEW m
    PROVE  \E P : SlicesOf(P, x.s.snd_q) /\ scp_retransmit(x, m) = scp_output_data(x, P)
<1> DEFINE q == x.s.snd_q
           una == x.s.snd_una
           unacked == {i \in DOMAIN q : SEQ_GT(End(q[i]), una)}
           first == {i \in unacked : Cardinality({j \in unacked : j < i}) < m}
           skip(b) == IF SEQ_LT(b.seq, una) THEN Diff(una, b.seq) ELSE 0
           P == UNION {fragments(q[i], skip(q[i]), Len(q[i].data), 1) : i \in first}
<1>1. q \in Seq(SndBuf) /\ una \in Int
  <2>1. x.s \in Stream
    BY DEF Typed
  <2> QED
    BY <2>1, StreamFields, SeqsAreInt
<1> HIDE DEF q, una
<1>2. SlicesOf(P, q)
  <2> SUFFICES ASSUME NEW i \in first,
                      NEW p \in fragments(q[i], skip(q[i]), Len(q[i].data), 1)
               PROVE  \E j \in DOMAIN q : SliceOf(p, q[j])
    BY DEF SlicesOf
  <2> DEFINE b == q[i]
             from == skip(q[i])
             to == Len(q[i].data)
             one == 1
  <2>1. i \in DOMAIN q
    OBVIOUS
  <2>2. b \in Buf
    BY <1>1, <2>1 DEF SndBuf
  <2>3. to \in Int /\ to <= Len(b.data)
    BY <2>2 DEF Buf
  <2>4. from \in Nat
    <3>1. b.seq \in Int
      BY <2>2, SeqsAreInt DEF Buf, Seqs
    <3>2. Diff(una, b.seq) \in Nat
      BY <1>1, <3>1, SeqsType, SeqsAreInt
    <3> QED
      BY <3>2
  <2>5. p \in fragments(b, from, to, one)
    OBVIOUS
  <2> HIDE DEF b, from, to, one
  <2>6. SliceOf(p, b)
    BY <2>2, <2>3, <2>4, <2>5, FragmentsAre
  <2> QED
    BY <2>1, <2>6 DEF b
<1>3. scp_retransmit(x, m) = scp_output_data(x, P)
  BY DEF scp_retransmit, q, una
<1> HIDE DEF P
<1>4. SlicesOf(P, x.s.snd_q)
  BY <1>2 DEF q
<1> QED
  BY <1>3, <1>4

LEMMA RetransmitSends ==
    ASSUME NEW x, Typed(x), NEW m
    PROVE  Sends(x, scp_retransmit(x, m))
BY RetransmitIs, OutputDataSends

\* hi lies in b: it is not further from its start than its end.
LEMMA WithinBuffer ==
    ASSUME NEW seq \in Seqs, NEW hi \in Seqs, NEW len \in Nat,
           SEQ_LT(seq, hi), SEQ_GT(Plus(seq, len), hi)
    PROVE  Diff(hi, seq) <= len
<1> DEFINE H == SeqSpace \div 2
<1>1. H \in Nat /\ SeqSpace = 2 * H /\ H > 0
  BY SpaceIs
<1>2. seq \in 0..(2 * H - 1) /\ hi \in 0..(2 * H - 1)
  BY <1>1 DEF Seqs
<1>3. (seq - hi) % (2 * H) >= H
  BY <1>1 DEF SEQ_LT, Diff
<1>4. (((seq + len) % (2 * H)) - hi) % (2 * H) \in 1..(H - 1)
  BY <1>1 DEF SEQ_GT, Diff, Plus
<1> HIDE DEF H
<1>5. CASE len >= H
  <2>1. (hi - seq) % (2 * H) <= H
    <3>1. CASE hi >= seq
      <4>1. (hi - seq) % (2 * H) = hi - seq
        BY <1>1, <1>2, <3>1
      <4>2. hi # seq
        <5> SUFFICES ASSUME hi = seq PROVE FALSE
          OBVIOUS
        <5>1. (seq - hi) % (2 * H) = 0
          BY <1>1, <1>2
        <5> QED
          BY <1>1, <1>3, <5>1
      <4>3. (seq - hi) % (2 * H) = (seq - hi) + 2 * H
        BY <1>1, <1>2, <3>1, <4>2
      <4> QED
        BY <1>1, <1>2, <1>3, <4>1, <4>3
    <3>2. CASE hi < seq
      <4>1. (hi - seq) % (2 * H) = (hi - seq) + 2 * H
        BY <1>1, <1>2, <3>2
      <4>2. (seq - hi) % (2 * H) = seq - hi
        BY <1>1, <1>2, <3>2
      <4> QED
        BY <1>1, <1>2, <1>3, <4>1, <4>2
    <3> QED
      BY <1>2, <3>1, <3>2
  <2>2. (hi - seq) % (2 * H) \in Int
    BY <1>1, <1>2
  <2>3. Diff(hi, seq) = (hi - seq) % (2 * H)
    BY <1>1 DEF Diff
  <2> QED
    BY <1>1, <1>5, <2>1, <2>2, <2>3
<1>6. CASE len < H
  <2>1. (hi - seq) % (2 * H) <= len
    <3>1. CASE hi >= seq
      <4>1. (hi - seq) % (2 * H) = hi - seq
        BY <1>1, <1>2, <3>1
      <4>2. CASE seq + len < 2 * H
        <5>1. (seq + len) % (2 * H) = seq + len
          BY <1>1, <1>2, <1>6, <4>2
        <5>2. ASSUME seq + len < hi PROVE FALSE
          <6>1. ((seq + len) - hi) % (2 * H) = ((seq + len) - hi) + 2 * H
            BY <1>1, <1>2, <1>6, <5>2
          <6>2. (seq - hi) % (2 * H) = (seq - hi) + 2 * H
            BY <1>1, <1>2, <1>6, <5>2
          <6> QED
            BY <1>1, <1>2, <1>3, <1>4, <1>6, <5>1, <6>1, <6>2
        <5> QED
          BY <1>1, <1>2, <4>1, <5>2
      <4>3. CASE seq + len >= 2 * H
        BY <1>1, <1>2, <4>1, <4>3
      <4> QED
        BY <1>1, <1>2, <4>2, <4>3
    <3>2. CASE hi < seq
      <4>1. (hi - seq) % (2 * H) = (hi - seq) + 2 * H
        BY <1>1, <1>2, <3>2
      <4>2. (seq - hi) % (2 * H) = seq - hi
        BY <1>1, <1>2, <3>2
      <4>3. CASE seq + len < 2 * H
        <5>1. (seq + len) % (2 * H) = seq + len
          BY <1>1, <1>2, <1>6, <4>3
        <5>2. ((seq + len) - hi) % (2 * H) = (seq + len) - hi
          BY <1>1, <1>2, <1>6, <3>2, <4>3
        <5> QED
          BY <1>1, <1>2, <1>3, <1>4, <4>2, <5>1, <5>2
      <4>4. CASE seq + len >= 2 * H
        <5>1. (seq + len) % (2 * H) = (seq + len) - 2 * H
          BY <1>1, <1>2, <1>6, <4>4
        <5>2. ASSUME (seq + len) - 2 * H < hi PROVE FALSE
          <6>1. (((seq + len) - 2 * H) - hi) % (2 * H) = (((seq + len) - 2 * H) - hi) + 2 * H
            BY <1>1, <1>2, <1>6, <4>4, <5>2
          <6>2. ((seq + len) - 2 * H) - hi + 2 * H <= H - 1
            BY <1>1, <1>2, <1>4, <1>6, <5>1, <6>1
          <6> QED
            BY <1>1, <1>2, <1>3, <1>6, <4>2, <6>2
        <5> QED
          BY <1>1, <1>2, <4>1, <5>2
      <4> QED
        BY <1>1, <1>2, <4>3, <4>4
    <3> QED
      BY <1>2, <3>1, <3>2
  <2> QED
    BY <1>1, <2>1 DEF Diff
<1> QED
  BY <1>1, <1>5, <1>6
LEMMA RetransmitGapIs ==
    ASSUME NEW x, Typed(x), NEW lo \in Seqs, NEW hi \in Seqs
    PROVE  \E P : /\ SlicesOf(P, x.s.snd_q)
                  /\ scp_retransmit_gap(x, lo, hi) = scp_output_data(x, P)
<1> DEFINE q == x.s.snd_q
           missing == {i \in DOMAIN q : SEQ_GT(End(q[i]), lo) /\ SEQ_LT(q[i].seq, hi)}
           begin(b) == IF SEQ_GT(lo, b.seq) THEN Diff(lo, b.seq) ELSE 0
           upto(b) == IF SEQ_GT(End(b), hi) THEN Diff(hi, b.seq) ELSE Len(b.data)
           P == UNION {fragments(q[i], begin(q[i]), upto(q[i]), GapMax) : i \in missing}
<1>1. q \in Seq(SndBuf) /\ lo \in Int /\ hi \in Int
  <2>1. x.s \in Stream
    BY DEF Typed
  <2> QED
    BY <2>1, StreamFields, SeqsAreInt
<1> HIDE DEF q
<1>2. SlicesOf(P, q)
  <2> SUFFICES ASSUME NEW i \in missing,
                      NEW p \in fragments(q[i], begin(q[i]), upto(q[i]), GapMax)
               PROVE  \E j \in DOMAIN q : SliceOf(p, q[j])
    BY DEF SlicesOf
  <2> DEFINE b == q[i]
             from == begin(q[i])
             to == upto(q[i])
  <2>1. i \in DOMAIN q /\ SEQ_LT(b.seq, hi)
    OBVIOUS
  <2>2. b \in Buf
    BY <1>1, <2>1 DEF SndBuf
  <2>3. b.seq \in Seqs /\ b.seq \in Int /\ Len(b.data) \in Nat
    <3>1. b.seq \in Seqs /\ b.data \in Seq(Nat)
      BY <2>2 DEF Buf, Seqs
    <3> HIDE DEF b
    <3> QED
      BY <3>1, SeqsAreInt
  <2>4. Diff(hi, b.seq) \in Int /\ Diff(lo, b.seq) \in Nat
    BY <1>1, <2>3, SeqsType, SeqsAreInt
  <2>5. to \in Int /\ to <= Len(b.data)
    <3>1. CASE SEQ_GT(End(b), hi)
      <4>1. SEQ_GT(Plus(b.seq, Len(b.data)), hi)
        BY <3>1 DEF End
      <4>2. to = Diff(hi, b.seq)
        BY <3>1
      <4> HIDE DEF b, to
      <4>3. Diff(hi, b.seq) <= Len(b.data)
        BY <2>1, <2>3, <4>1, WithinBuffer
      <4> QED
        BY <2>4, <4>2, <4>3
    <3>2. CASE ~SEQ_GT(End(b), hi)
      <4>1. to = Len(b.data)
        BY <3>2
      <4> QED
        BY <2>3, <4>1
    <3> QED
      BY <3>1, <3>2
  <2>6. from \in Nat
    BY <2>4
  <2>7. p \in fragments(b, from, to, GapMax)
    OBVIOUS
  <2> HIDE DEF b, from, to
  <2>8. SliceOf(p, b)
    BY <2>2, <2>5, <2>6, <2>7, FragmentsAre
  <2> QED
    BY <2>1, <2>8 DEF b
<1>3. scp_retransmit_gap(x, lo, hi) = scp_output_data(x, P)
  BY DEF scp_retransmit_gap, q
<1> HIDE DEF P
<1>4. SlicesOf(P, x.s.snd_q)
  BY <1>2 DEF q
<1> QED
  BY <1>3, <1>4

LEMMA RetransmitGapSends ==
    ASSUME NEW x, Typed(x), NEW lo \in Seqs, NEW hi \in Seqs
    PROVE  Sends(x, scp_retransmit_gap(x, lo, hi))
BY RetransmitGapIs, OutputDataSends
-----------------------------------------------------------------------------
(***************************************************************************)
(* An acknowledgement arrives.                                             *)
(***************************************************************************)
LEMMA SizesAre ==
    /\ Mss \in Nat /\ Mss > 0 /\ Mtu \in Nat /\ CwndMax \in Nat /\ Hiwat \in Nat
    /\ GapMax \in Nat /\ SendWinInit \in Nat /\ RecvWinInit \in Nat
BY ScpAssumption

LEMMA GrowType ==
    /\ \A n \in Nat : Cwnd(n) \in Nat
    /\ \A c, a, n \in Nat : Grow(c, a, n) \in Nat
    /\ \A s \in Stream : HalfFlight(s) \in Nat
<1>1. \A a, b \in Nat : Least(a, b) \in Nat /\ Most(a, b) \in Nat
  BY DEF Least, Most
<1>2. \A n \in Nat : Cwnd(n) \in Nat
  BY <1>1, SizesAre DEF Cwnd
<1>3. ASSUME NEW c \in Nat, NEW a \in Nat, NEW n \in Nat PROVE Grow(c, a, n) \in Nat
  <2>1. 2 * Mss \in Nat /\ Most(1, c) \in Nat /\ Most(1, c) > 0 /\ Mss * Mss \in Nat
    BY SizesAre DEF Most
  <2>2. (Mss * Mss) \div Most(1, c) \in Nat
    <3>1. \A u \in Nat, v \in Nat : v > 0 => u \div v \in Nat
      OBVIOUS
    <3> QED
      BY <2>1, <3>1
  <2>3. /\ c + Most(Mss, Least(2 * Mss, n)) \in Nat
        /\ c + Most(1, (Mss * Mss) \div Most(1, c)) \in Nat
    <3>1. Least(2 * Mss, n) \in Nat
      BY <1>1, <2>1
    <3>2. Most(Mss, Least(2 * Mss, n)) \in Nat
      BY <1>1, <3>1, SizesAre
    <3>3. Most(1, (Mss * Mss) \div Most(1, c)) \in Nat
      BY <1>1, <2>2
    <3> QED
      BY <3>2, <3>3
  <2> QED
    BY <1>2, <2>3 DEF Grow
<1>4. ASSUME NEW s \in Stream PROVE HalfFlight(s) \in Nat
  <2>1. s.snd_nxt \in Int /\ s.snd_una \in Int
    BY StreamFields, SeqsAreInt
  <2>2. Diff(s.snd_nxt, s.snd_una) \in Nat
    BY <2>1, SeqsType, SeqsAreInt
  <2>3. Diff(s.snd_nxt, s.snd_una) \div 2 \in Nat /\ 2 * Mss \in Nat
    BY <2>2, SizesAre
  <2> QED
    BY <1>1, <2>3 DEF HalfFlight
<1> QED
  BY <1>2, <1>3, <1>4
\* How many buffers go is a number up to how many there are.
LEMMA BehindType ==
    ASSUME NEW S, NEW q \in Seq(S), NEW seq
    PROVE  Behind(q, seq) \in 0..Len(q)
<1> DEFINE L == Len(q)
           K == {k \in 0..L : \A i \in 1..k : SEQ_LEQ(End(q[i]), seq)}
<1>1. L \in Nat
  OBVIOUS
<1> HIDE DEF L
<1>2. 0 \in K
  BY <1>1
<1>3. UpTo(K, L)
  BY <1>1, <1>2 DEF UpTo
<1>4. Behind(q, seq) = Max(K)
  BY DEF Behind, L
<1> HIDE DEF K
<1>5. Greatest(K, L, Max(K))
  BY <1>3, MaxIs
<1> QED
  BY <1>4, <1>5 DEF Greatest, L

\* Fields of the congestion control, and timers, change.
LEMMA EditFields ==
    ASSUME NEW s \in Stream, NEW t \in Stream,
           t.state = s.state, t.snd_seq_q = s.snd_seq_q, t.snd_nxt = s.snd_nxt,
           t.rcv_nxt = s.rcv_nxt, t.rcv_data_q = s.rcv_data_q,
           t.rcv_buf_q = s.rcv_buf_q, t.sb_cc = s.sb_cc, t.snd_q = s.snd_q,
           t.snd_una = s.snd_una, t.rcv_wnd = s.rcv_wnd
    PROVE  Edits(s, t)
<1>1. Alike(s, t)
  BY AlikeFields
<1> QED
  BY <1>1 DEF Edits, SameBytes

\* new_ack, in parts: the timer runs on for what is in flight, and scp_output.
LEMMA NewAckIs ==
    ASSUME NEW x, Typed(x), NEW acked \in Nat
    PROVE  \E t : /\ Edits(x.s, t) /\ new_ack(x, acked) = scp_output([s |-> t, out |-> x.out])
                  /\ x.s.timers \ {"retrans"} \subseteq t.timers
                  /\ x.s.snd_una # x.s.snd_nxt => "retrans" \in t.timers
<1> DEFINE s == x.s
           c == IF s.fr_active THEN s.ssthresh + Mss ELSE s.cwnd
           g == Grow(c, s.ssthresh, acked)
           t == [s EXCEPT !.fr_active = FALSE, !.timeout_count = 0, !.dup_acks = 0,
                          !.cwnd = g]
           r == IF t.snd_una # t.snd_nxt THEN Start(t, "retrans") ELSE Stop(t, "retrans")
           y == [s |-> r, out |-> x.out]
<1>1. s \in Stream
  BY DEF Typed
<1>2. g \in Nat
  <2>1. s.ssthresh \in Nat /\ s.cwnd \in Nat
    BY <1>1, StreamFields
  <2>2. c \in Nat
    BY <2>1, SizesAre
  <2> HIDE DEF c, s
  <2> QED
    BY <2>1, <2>2, GrowType
<1> HIDE DEF g, s
<1>3. t \in Stream
  <2>1. 0 \in Nat /\ 0 \in 0..4 /\ FALSE \in BOOLEAN
    OBVIOUS
  <2>2. [s EXCEPT !.dup_acks = 0, !.timeout_count = 0] \in Stream
    BY <1>1, <2>1 DEF Stream
  <2> DEFINE v == [s EXCEPT !.dup_acks = 0, !.timeout_count = 0]
  <2>3. t = [v EXCEPT !.fr_active = FALSE, !.cwnd = g]
    BY <1>1 DEF Stream
  <2>4. v \in Stream
    BY <2>2
  <2> HIDE DEF t, v
  <2> QED
    BY <1>2, <2>1, <2>3, <2>4 DEF Stream
<1>4. /\ t.state = s.state /\ t.snd_seq_q = s.snd_seq_q /\ t.snd_nxt = s.snd_nxt
      /\ t.rcv_nxt = s.rcv_nxt /\ t.rcv_data_q = s.rcv_data_q
      /\ t.rcv_buf_q = s.rcv_buf_q /\ t.sb_cc = s.sb_cc /\ t.snd_q = s.snd_q
      /\ t.snd_una = s.snd_una /\ t.rcv_wnd = s.rcv_wnd /\ t.timers = s.timers
  BY <1>1 DEF Stream
<1> HIDE DEF t
<1>5. /\ r.state = t.state /\ r.snd_seq_q = t.snd_seq_q /\ r.snd_nxt = t.snd_nxt
      /\ r.rcv_nxt = t.rcv_nxt /\ r.rcv_data_q = t.rcv_data_q
      /\ r.rcv_buf_q = t.rcv_buf_q /\ r.sb_cc = t.sb_cc /\ r.snd_q = t.snd_q
      /\ r.snd_una = t.snd_una /\ r.rcv_wnd = t.rcv_wnd
      /\ r \in Stream
  BY <1>3 DEF Start, Stop, Stream, Timers
<1>6. Edits(x.s, r)
  BY <1>1, <1>4, <1>5, EditFields DEF s
<1>7. new_ack(x, acked) = scp_output(y)
  <2>1. [x EXCEPT !.s = r] = y
    BY DEF Typed
  <2> QED
    BY <2>1 DEF new_ack, r, t, g, s
<1>8. /\ s.timers \ {"retrans"} \subseteq r.timers
      /\ s.snd_una # s.snd_nxt => "retrans" \in r.timers
  BY <1>3, <1>4 DEF Start, Stop, Stream
<1> HIDE DEF r
<1> QED
  BY <1>6, <1>7, <1>8 DEF s

LEMMA NewAckSends ==
    ASSUME NEW x, Typed(x), NEW acked \in Nat
    PROVE  Sends(x, new_ack(x, acked))
<1>1. PICK t : /\ Edits(x.s, t)
               /\ new_ack(x, acked) = scp_output([s |-> t, out |-> x.out])
  BY NewAckIs
<1> DEFINE y == [s |-> t, out |-> x.out]
<1>2. Sends(x, y)
  BY <1>1, AlikeSends DEF Edits
<1> HIDE DEF y
<1>3. Sends(y, scp_output(y))
  BY <1>2, OutputSends DEF Sends
<1> QED
  BY <1>1, <1>2, <1>3, SendsTwice DEF y

\* dup_ack, in parts: it may send again what is missing, the timer started,
\* and sends what the window lets out.
LEMMA DupAckIs ==
    ASSUME NEW x, Typed(x), NEW p \in PacketType
    PROVE  \E t : LET y == [s |-> t, out |-> x.out]
                  IN  /\ Edits(x.s, t) /\ x.s.timers \subseteq t.timers
                      /\ \/ dup_ack(x, p) = scp_output(y)
                         \/ /\ dup_ack(x, p) = scp_output(scp_retransmit_gap(y, p.ack, p.sack))
                            /\ "retrans" \in t.timers
<1> DEFINE s == [x.s EXCEPT !.dup_acks = Least(@ + 1, 4)]
           h == HalfFlight(s)
           enter == [s EXCEPT !.ssthresh = h, !.fr_active = TRUE,
                              !.cwnd = Cwnd(h + 3 * Mss), !.last_gap = p.ack]
           more == [s EXCEPT !.cwnd = Cwnd(@ + Mss)]
           t == Start(enter, "retrans")
           y == [s |-> t, out |-> x.out]
           a == scp_retransmit_gap(y, p.ack, p.sack)
           b == [s |-> more, out |-> x.out]
           c == [s |-> s, out |-> x.out]
<1>1. x.s \in Stream /\ p.ack \in Seqs /\ p.sack \in Seqs
  BY DEF Typed, PacketType
<1>2. Least(x.s.dup_acks + 1, 4) \in 0..4
  <2>1. x.s.dup_acks \in 0..4
    BY <1>1, StreamFields
  <2>2. \A d \in 0..4 : Least(d + 1, 4) \in 0..4
    BY DEF Least
  <2> QED
    BY <2>1, <2>2
<1>3. s \in Stream
  BY <1>1, <1>2 DEF Stream
<1>4. /\ s.state = x.s.state /\ s.snd_seq_q = x.s.snd_seq_q /\ s.snd_nxt = x.s.snd_nxt
      /\ s.rcv_nxt = x.s.rcv_nxt /\ s.rcv_data_q = x.s.rcv_data_q
      /\ s.rcv_buf_q = x.s.rcv_buf_q /\ s.sb_cc = x.s.sb_cc /\ s.snd_q = x.s.snd_q
      /\ s.snd_una = x.s.snd_una /\ s.rcv_wnd = x.s.rcv_wnd /\ s.timers = x.s.timers
  BY <1>1 DEF Stream
<1>5. scp_output(a) = dup_ack(x, p) \/ scp_output(b) = dup_ack(x, p)
      \/ scp_output(c) = dup_ack(x, p)
  <2>1. /\ [x EXCEPT !.s = t] = y /\ [x EXCEPT !.s = more] = b /\ [x EXCEPT !.s = s] = c
    <3>1. \A v : [x EXCEPT !.s = v] = [s |-> v, out |-> x.out]
      BY DEF Typed
    <3> HIDE DEF t, more, s
    <3> QED
      BY <3>1
  <2> QED
    BY <2>1 DEF dup_ack, a, y, t, enter, h, s, more
<1> HIDE DEF s
<1>6. h \in Nat /\ Cwnd(h + 3 * Mss) \in Nat /\ Cwnd(s.cwnd + Mss) \in Nat
  <2>1. h \in Nat
    BY <1>3, GrowType
  <2> HIDE DEF h
  <2>2. h + 3 * Mss \in Nat /\ s.cwnd + Mss \in Nat
    BY <1>3, <2>1, SizesAre, StreamFields
  <2> QED
    BY <2>1, <2>2, GrowType
<1> HIDE DEF h
<1>7. /\ t.state = s.state /\ t.snd_seq_q = s.snd_seq_q /\ t.snd_nxt = s.snd_nxt
      /\ t.rcv_nxt = s.rcv_nxt /\ t.rcv_data_q = s.rcv_data_q
      /\ t.rcv_buf_q = s.rcv_buf_q /\ t.sb_cc = s.sb_cc /\ t.snd_q = s.snd_q
      /\ t.snd_una = s.snd_una /\ t.rcv_wnd = s.rcv_wnd
      /\ t.timers = s.timers \cup {"retrans"} /\ t \in Stream
  <2>1. enter \in Stream
    BY <1>1, <1>3, <1>6 DEF Stream, Seqs
  <2> QED
    BY <1>3, <2>1 DEF Start, Stream, Timers
<1>8. /\ more.state = s.state /\ more.snd_seq_q = s.snd_seq_q /\ more.snd_nxt = s.snd_nxt
      /\ more.rcv_nxt = s.rcv_nxt /\ more.rcv_data_q = s.rcv_data_q
      /\ more.rcv_buf_q = s.rcv_buf_q /\ more.sb_cc = s.sb_cc /\ more.snd_q = s.snd_q
      /\ more.snd_una = s.snd_una /\ more.rcv_wnd = s.rcv_wnd
      /\ more.timers = s.timers /\ more \in Stream
  BY <1>3, <1>6 DEF Stream
<1>9. Edits(x.s, s) /\ Edits(x.s, t) /\ Edits(x.s, more)
  <2> HIDE DEF t, more
  <2> QED
    BY <1>1, <1>3, <1>4, <1>7, <1>8, EditFields
<1> HIDE DEF t, more
<1>10. CASE dup_ack(x, p) = scp_output(c)
  BY <1>4, <1>9, <1>10
<1>11. CASE dup_ack(x, p) = scp_output(b)
  BY <1>4, <1>8, <1>9, <1>11
<1>12. CASE dup_ack(x, p) = scp_output(a)
  BY <1>4, <1>7, <1>9, <1>12
<1> QED
  BY <1>5, <1>10, <1>11, <1>12

LEMMA DupAckSends ==
    ASSUME NEW x, Typed(x), NEW p \in PacketType
    PROVE  Sends(x, dup_ack(x, p))
<1> DEFINE Y(t) == [s |-> t, out |-> x.out]
<1>1. PICK t : /\ Edits(x.s, t)
               /\ \/ dup_ack(x, p) = scp_output(Y(t))
                  \/ dup_ack(x, p) = scp_output(scp_retransmit_gap(Y(t), p.ack, p.sack))
  BY DupAckIs
<1> DEFINE y == Y(t)
           a == scp_retransmit_gap(y, p.ack, p.sack)
<1>2. Sends(x, y)
  BY <1>1, AlikeSends DEF Edits
<1>3. dup_ack(x, p) \in {scp_output(y), scp_output(a)}
  BY <1>1
<1> HIDE DEF y
<1>4. Typed(y) /\ p.ack \in Seqs /\ p.sack \in Seqs
  BY <1>2 DEF Sends, PacketType
<1>5. Sends(x, a)
  BY <1>2, <1>4, RetransmitGapSends, SendsTwice
<1> HIDE DEF a
<1>6. Sends(y, scp_output(y)) /\ Sends(a, scp_output(a))
  BY <1>4, <1>5, OutputSends DEF Sends
<1> QED
  BY <1>2, <1>3, <1>5, <1>6, SendsTwice

\* A stream that takes the acknowledgement p.
AckedBy(s, p) ==
    [s EXCEPT !.snd_una = p.ack, !.snd_wnd = p.wnd,
              !.snd_q = scp_snd_buf_free(@, p.ack)]

\* The part of scp_process_ack that all acknowledgements share: what is missing
\* before sack goes out again.
AfterGap(y, z, p) ==
    \/ z = y
    \/ /\ SEQ_GT(p.sack, p.ack)
       /\ LET g == scp_retransmit_gap(y, p.ack, p.sack)
          IN  \E u : /\ Edits(g.s, u) /\ u.timers = g.s.timers
                     /\ z = [s |-> u, out |-> g.out]

\* And the parts by kind: new, one more of the same, nothing in flight.
AckTaken(s, z, p, res) ==
    \/ SEQ_GT(p.ack, s.snd_una) /\ res = new_ack(z, Diff(p.ack, s.snd_una))
    \/ ~SEQ_GT(p.ack, s.snd_una) /\ SEQ_LT(p.ack, z.s.snd_nxt) /\ res = dup_ack(z, p)
    \/ ~SEQ_GT(p.ack, s.snd_una) /\ ~SEQ_LT(p.ack, z.s.snd_nxt) /\ res = z

LEMMA AckedByIs ==
    ASSUME NEW s \in Stream, NEW p \in PacketType
    PROVE  /\ Alike(s, AckedBy(s, p)) /\ AckedBy(s, p).snd_una = p.ack
           /\ AckedBy(s, p).rcv_wnd = s.rcv_wnd /\ AckedBy(s, p).timers = s.timers
           /\ AckedBy(s, p).snd_q = scp_snd_buf_free(s.snd_q, p.ack)
<1> DEFINE q == s.snd_q
           n == Behind(q, p.ack)
           rest == SubSeq(q, n + 1, Len(q))
           t == AckedBy(s, p)
<1>1. q \in Seq(SndBuf) /\ s.sb_cc \in Nat
  BY StreamFields
<1>2. p.ack \in Seqs /\ p.wnd \in Nat
  BY DEF PacketType
<1>3. /\ rest \in Seq(SndBuf)
      /\ \A i \in DOMAIN rest : \E j \in DOMAIN q : rest[i] = q[j]
  <2> HIDE DEF q
  <2>1. n \in 0..Len(q)
    BY <1>1, BehindType
  <2> HIDE DEF n
  <2>2. /\ rest \in Seq(SndBuf) /\ Len(rest) = Len(q) - n
        /\ \A i \in 1..(Len(q) - n) : n + i \in 1..Len(q) /\ rest[i] = q[n + i]
    BY <1>1, <2>1, SuffixIs
  <2>3. DOMAIN rest = 1..Len(rest) /\ DOMAIN q = 1..Len(q)
    BY <1>1, <2>2
  <2> HIDE DEF rest
  <2> QED
    BY <2>2, <2>3
<1>4. t = [s EXCEPT !.snd_una = p.ack, !.snd_wnd = p.wnd, !.snd_q = rest]
      /\ rest = scp_snd_buf_free(q, p.ack)
  BY DEF AckedBy, scp_snd_buf_free
<1> HIDE DEF t, rest
<1>5. t \in Stream
  <2> HIDE DEF q
  <2> QED
    BY <1>2, <1>3, <1>4 DEF Stream, SndBuf
<1>6. /\ t.state = s.state /\ t.snd_seq_q = s.snd_seq_q /\ t.snd_nxt = s.snd_nxt
      /\ t.rcv_nxt = s.rcv_nxt /\ t.rcv_data_q = s.rcv_data_q
      /\ t.rcv_buf_q = s.rcv_buf_q /\ t.sb_cc = s.sb_cc /\ t.snd_q = rest
      /\ t.snd_una = p.ack /\ t.rcv_wnd = s.rcv_wnd /\ t.timers = s.timers
  BY <1>4 DEF Stream
<1>7. \A i \in DOMAIN t.snd_q : \E j \in DOMAIN s.snd_q : SameBytes(t.snd_q[i], s.snd_q[j])
  BY <1>3, <1>6 DEF SameBytes
<1>8. Alike(s, t)
  BY <1>5, <1>6, <1>7 DEF Alike
<1> QED
  BY <1>4, <1>6, <1>8 DEF t

\* scp_process_ack, in parts.
LEMMA ProcessAckIs ==
    ASSUME NEW x, Typed(x), NEW p \in PacketType
    PROVE  LET y == [s |-> AckedBy(x.s, p), out |-> x.out]
           IN  \/ scp_process_ack(x, p) = x
               \/ /\ ~SEQ_LT(p.ack, x.s.snd_una) /\ ~SEQ_GT(p.ack, x.s.snd_nxt)
                  /\ \E z : AfterGap(y, z, p) /\ AckTaken(x.s, z, p, scp_process_ack(x, p))
<1> DEFINE y == [s |-> AckedBy(x.s, p), out |-> x.out]
           g == scp_retransmit_gap(y, p.ack, p.sack)
           u == [g.s EXCEPT !.last_gap = p.ack]
           h == [s |-> u, out |-> g.out]
           z == IF SEQ_GT(p.sack, p.ack) /\ SEQ_GT(p.ack, x.s.last_gap) THEN h ELSE y
<1>1. x.s \in Stream /\ p.ack \in Seqs /\ p.sack \in Seqs
  BY DEF Typed, PacketType
<1>2. Sends(x, y)
  BY <1>1, AckedByIs, AlikeSends
<1>3. y = [x EXCEPT !.s = AckedBy(x.s, p)]
  BY DEF Typed
<1> HIDE DEF y
<1>4. Sends(y, g)
  <2>1. Typed(y)
    BY <1>2 DEF Sends
  <2> QED
    BY <1>1, <2>1, RetransmitGapSends
<1>5. g = [s |-> g.s, out |-> g.out] /\ g.s \in Stream
  BY <1>4 DEF Sends, Typed
<1>6. h = [g EXCEPT !.s.last_gap = p.ack]
  <2> HIDE DEF g
  <2> QED
    BY <1>5
<1>7. Edits(g.s, u) /\ u.timers = g.s.timers
  <2> HIDE DEF g
  <2>1. u \in Stream
    BY <1>1, <1>5 DEF Stream, Seqs
  <2>2. /\ u.state = g.s.state /\ u.snd_seq_q = g.s.snd_seq_q /\ u.snd_nxt = g.s.snd_nxt
        /\ u.rcv_nxt = g.s.rcv_nxt /\ u.rcv_data_q = g.s.rcv_data_q
        /\ u.rcv_buf_q = g.s.rcv_buf_q /\ u.sb_cc = g.s.sb_cc /\ u.snd_q = g.s.snd_q
        /\ u.snd_una = g.s.snd_una /\ u.rcv_wnd = g.s.rcv_wnd /\ u.timers = g.s.timers
    BY <1>5 DEF Stream
  <2> HIDE DEF u
  <2> QED
    BY <1>5, <2>1, <2>2, EditFields
<1>8. AfterGap(y, z, p)
  <2>1. CASE z = y
    BY <2>1 DEF AfterGap
  <2>2. CASE z = h /\ SEQ_GT(p.sack, p.ack)
    <3> HIDE DEF u
    <3> QED
      BY <1>7, <2>2 DEF AfterGap
  <2> QED
    BY <2>1, <2>2
<1>9. \/ scp_process_ack(x, p) = x
      \/ /\ ~SEQ_LT(p.ack, x.s.snd_una) /\ ~SEQ_GT(p.ack, x.s.snd_nxt)
         /\ AckTaken(x.s, z, p, scp_process_ack(x, p))
  <2>1. z = IF SEQ_GT(p.sack, p.ack) /\ SEQ_GT(p.ack, x.s.last_gap)
            THEN [g EXCEPT !.s.last_gap = p.ack] ELSE y
    BY <1>6
  <2> HIDE DEF z, h
  <2> QED
    BY <1>3, <2>1 DEF scp_process_ack, AckTaken, AckedBy, g
<1> HIDE DEF z
<1> QED
  BY <1>8, <1>9 DEF y

LEMMA ProcessAckSends ==
    ASSUME NEW x, Typed(x), NEW p \in PacketType
    PROVE  Sends(x, scp_process_ack(x, p))
<1> DEFINE y == [s |-> AckedBy(x.s, p), out |-> x.out]
           res == scp_process_ack(x, p)
<1>1. x.s \in Stream /\ p.ack \in Seqs /\ p.sack \in Seqs /\ p.ack \in Int
  BY SeqsAreInt DEF Typed, PacketType
<1>2. Sends(x, y)
  BY <1>1, AckedByIs, AlikeSends
<1>3. \/ res = x
      \/ \E z : AfterGap(y, z, p) /\ AckTaken(x.s, z, p, res)
  BY ProcessAckIs
<1> HIDE DEF y, res
<1>4. ASSUME NEW z, AfterGap(y, z, p) PROVE Sends(x, z)
  <2>1. CASE z = y
    BY <1>2, <2>1
  <2>2. CASE z # y
    <3> DEFINE g == scp_retransmit_gap(y, p.ack, p.sack)
    <3>1. Sends(y, g)
      <4>1. Typed(y)
        BY <1>2 DEF Sends
      <4> QED
        BY <1>1, <4>1, RetransmitGapSends
    <3>2. PICK u : Edits(g.s, u) /\ z = [s |-> u, out |-> g.out]
      BY <1>4, <2>2 DEF AfterGap
    <3> HIDE DEF g
    <3>3. Sends(g, z)
      <4>1. Typed(g) /\ Alike(g.s, u)
        BY <3>1, <3>2 DEF Edits, Sends
      <4> QED
        BY <3>2, <4>1, AlikeSends
    <3> QED
      BY <1>2, <3>1, <3>3, SendsTwice
  <2> QED
    BY <2>1, <2>2
<1>5. ASSUME NEW z, AfterGap(y, z, p), AckTaken(x.s, z, p, res) PROVE Sends(x, res)
  <2>1. Sends(x, z) /\ Typed(z)
    BY <1>4, <1>5 DEF Sends
  <2>2. Diff(p.ack, x.s.snd_una) \in Nat
    BY <1>1, StreamFields, SeqsType, SeqsAreInt
  <2>3. Sends(z, new_ack(z, Diff(p.ack, x.s.snd_una))) /\ Sends(z, dup_ack(z, p))
    BY <2>1, <2>2, NewAckSends, DupAckSends
  <2> QED
    BY <1>5, <2>1, <2>3, SendsTwice DEF AckTaken
<1>6. CASE res = x
  <2>1. Alike(x.s, x.s) /\ x = [s |-> x.s, out |-> x.out]
    BY <1>1, AlikeFields DEF Typed
  <2>2. Sends(x, [s |-> x.s, out |-> x.out])
    BY <2>1, AlikeSends
  <2>3. Sends(x, x)
    BY <2>1, <2>2
  <2> QED
    BY <1>6, <2>3 DEF res
<1> QED
  BY <1>3, <1>5, <1>6 DEF res
-----------------------------------------------------------------------------
(***************************************************************************)
(* Data arrives.                                                           *)
(***************************************************************************)
\* f joins the data of the buffers of q to d, one after the other.
Joins(f, d, q) ==
    /\ f \in [0..Len(q) -> Seq(Nat)] /\ f[0] = d
    /\ \A i \in 0..(Len(q) - 1) : f[i + 1] = f[i] \o q[i + 1].data

LEMMA JoinedIs ==
    ASSUME NEW d \in Seq(Nat), NEW q \in Seq(Buf)
    PROVE  Joins(Joined(d, q), d, q)
<1> DEFINE L == Len(q)
           S == Seq(Nat)
           w == [i \in 1..L |-> q[i].data]
<1>1. L \in Nat /\ d \in S /\ \A i \in 1..L : q[i].data \in S
  <2>1. \A i \in 1..L : q[i] \in Buf
    OBVIOUS
  <2>2. \A b \in Buf : b.data \in S
    BY DEF Buf
  <2> QED
    BY <2>1, <2>2
<1>2. w \in [1..L -> S]
  <2> DEFINE D == 1..L
  <2>1. \A i \in D : q[i].data \in S
    BY <1>1
  <2> HIDE DEF D, S
  <2>2. [i \in D |-> q[i].data] \in [D -> S]
    BY <2>1, Zenon
  <2> QED
    BY <2>2 DEF D
<1>3. Joined(d, q) = CHOOSE f : Joint(f, d, L, w)
  <2>1. \A f : [i \in 0..L |-> IF i = 0 THEN d ELSE f[i - 1] \o w[i]]
                = [i \in 0..L |-> IF i = 0 THEN d ELSE f[i - 1] \o q[i].data]
    <3> SUFFICES ASSUME NEW f, NEW i \in 0..L, i # 0 PROVE w[i] = q[i].data
      OBVIOUS
    <3>1. i \in 1..L
      BY <1>1
    <3> QED
      BY <3>1
  <2> QED
    BY <2>1, Zenon DEF Joined, Joint
<1>4. Strings(S, d, L, w)
  BY <1>1, <1>2 DEF Strings
<1> HIDE DEF w, L, S
<1>5. /\ \E f : Joint(f, d, L, w)
      /\ \A f : Joint(f, d, L, w) => OneByOne(f, S, d, L, w)
  BY <1>4, Joining
<1> DEFINE g == Joined(d, q)
<1>6. Joint(g, d, L, w)
  BY <1>3, <1>5
<1> HIDE DEF g
<1>7. OneByOne(g, S, d, L, w)
  BY <1>5, <1>6
<1>8. \A i \in 0..(L - 1) : w[i + 1] = q[i + 1].data
  <2> SUFFICES ASSUME NEW i \in 0..(L - 1) PROVE w[i + 1] = q[i + 1].data
    OBVIOUS
  <2>1. i + 1 \in 1..L
    BY <1>1
  <2> QED
    BY <2>1 DEF w
<1> QED
  BY <1>7, <1>8 DEF OneByOne, Joins, S, L, g
\* The sum of the lengths up to k is that of the first k buffers.
LEMMA SumsOfPrefix ==
    ASSUME NEW q \in Seq(Buf), NEW k \in 0..Len(q)
    PROVE  Sums(Lengths(q))[k] = Bytes(SubSeq(q, 1, k))
<1> DEFINE u == SubSeq(q, 1, k)
           f == Sums(Lengths(q))
           g == Sums(Lengths(u))
<1>1. u \in Seq(Buf) /\ Len(u) = k /\ k \in Nat /\ k <= Len(q) /\ Len(q) \in Nat
  OBVIOUS
<1>2. \A i \in 1..k : u[i] = q[i]
  OBVIOUS
<1> HIDE DEF u
<1>3. /\ AddsUp(f, Lengths(q), Len(q)) /\ AddsUp(g, Lengths(u), Len(u))
      /\ \A i \in 1..Len(q) : Lengths(q)[i] = Len(q[i].data)
      /\ \A i \in 1..Len(u) : Lengths(u)[i] = Len(u[i].data)
      /\ Bytes(u) = g[Len(u)]
  BY <1>1, LengthsAre
<1> HIDE DEF f, g
<1>4. \A i \in 0..(k - 1) : f[i] = g[i] => f[i + 1] = g[i + 1]
  <2> SUFFICES ASSUME NEW i \in 0..(k - 1), f[i] = g[i] PROVE f[i + 1] = g[i + 1]
    OBVIOUS
  <2>1. /\ i \in 0..(Len(q) - 1) /\ i \in 0..(Len(u) - 1)
        /\ i + 1 \in 1..Len(q) /\ i + 1 \in 1..Len(u) /\ i + 1 \in 1..k
    BY <1>1
  <2>2. f[i + 1] = f[i] + Lengths(q)[i + 1] /\ g[i + 1] = g[i] + Lengths(u)[i + 1]
    BY <1>3, <2>1 DEF AddsUp
  <2>3. Lengths(q)[i + 1] = Lengths(u)[i + 1]
    BY <1>2, <1>3, <2>1
  <2> QED
    BY <2>2, <2>3
<1>5. GoAlike(f, g, k)
  BY <1>3, <1>4 DEF GoAlike, AddsUp
<1>6. f[k] = g[k]
  BY <1>1, <1>5, StepsSame
<1> QED
  BY <1>1, <1>3, <1>6 DEF f, g, u

\* What is joined is as long as its parts.
LEMMA JoinedLen ==
    ASSUME NEW d \in Seq(Nat), NEW q \in Seq(Buf), NEW k \in 0..Len(q)
    PROVE  /\ Joined(d, q)[k] \in Seq(Nat)
           /\ Len(Joined(d, q)[k]) = Len(d) + Bytes(SubSeq(q, 1, k))
<1> DEFINE L == Len(q)
           j == Joined(d, q)
           h == Sums(Lengths(q))
           f == [i \in 0..L |-> Len(j[i])]
           g == [i \in 0..L |-> Len(d) + h[i]]
<1>1. L \in Nat /\ Len(d) \in Nat /\ \A i \in 1..L : q[i] \in Buf
  OBVIOUS
<1>2. /\ j \in [0..L -> Seq(Nat)] /\ j[0] = d
      /\ \A i \in 0..(L - 1) : j[i + 1] = j[i] \o q[i + 1].data
  <2>1. Joins(j, d, q)
    BY JoinedIs
  <2> HIDE DEF j
  <2> QED
    BY <2>1 DEF Joins
<1>3. /\ h \in [0..L -> Nat] /\ h[0] = 0
      /\ \A i \in 0..(L - 1) : h[i + 1] = h[i] + Len(q[i + 1].data)
  <2>1. AddsUp(h, Lengths(q), L) /\ \A i \in 1..L : Lengths(q)[i] = Len(q[i].data)
    BY LengthsAre
  <2> HIDE DEF h
  <2>2. \A i \in 0..(L - 1) : i + 1 \in 1..L
    BY <1>1
  <2> QED
    BY <2>1, <2>2 DEF AddsUp
<1>4. h[k] = Bytes(SubSeq(q, 1, k))
  BY SumsOfPrefix
<1> HIDE DEF L, j, h
<1>5. \A i \in 0..(L - 1) : f[i] = g[i] => f[i + 1] = g[i + 1]
  <2> SUFFICES ASSUME NEW i \in 0..(L - 1), f[i] = g[i] PROVE f[i + 1] = g[i + 1]
    OBVIOUS
  <2>1. i \in 0..L /\ i + 1 \in 0..L /\ i + 1 \in 1..L
    BY <1>1
  <2>2. Len(j[i]) = Len(d) + h[i]
    BY <2>1
  <2>3. j[i] \in Seq(Nat) /\ q[i + 1].data \in Seq(Nat)
    <3>1. q[i + 1] \in Buf
      BY <1>1, <2>1
    <3> QED
      BY <1>2, <2>1, <3>1 DEF Buf
  <2>4. Len(j[i + 1]) = Len(j[i]) + Len(q[i + 1].data)
    <3> DEFINE u == j[i]
               v == q[i + 1].data
    <3>1. j[i + 1] = u \o v /\ u \in Seq(Nat) /\ v \in Seq(Nat)
      BY <1>2, <2>3, Zenon
    <3> HIDE DEF u, v
    <3>2. Len(j[i + 1]) = Len(u) + Len(v)
      BY <3>1
    <3> QED
      BY <3>2 DEF u, v
  <2>5. h[i] \in Nat /\ Len(q[i + 1].data) \in Nat /\ h[i + 1] = h[i] + Len(q[i + 1].data)
    <3>1. h[i] \in Nat /\ h[i + 1] = h[i] + Len(q[i + 1].data)
      BY <1>3, <2>1
    <3>2. Len(q[i + 1].data) \in Nat
      BY <2>3
    <3> QED
      BY <3>1, <3>2
  <2>6. Len(j[i + 1]) = Len(d) + h[i + 1]
    <3>1. \A a, b, c \in Nat : (a + b) + c = a + (b + c)
      OBVIOUS
    <3>2. Len(j[i + 1]) = (Len(d) + h[i]) + Len(q[i + 1].data)
      BY <2>2, <2>4
    <3>3. Len(d) \in Nat
      BY <1>1
    <3>4. (Len(d) + h[i]) + Len(q[i + 1].data) = Len(d) + (h[i] + Len(q[i + 1].data))
      BY <2>5, <3>1, <3>3
    <3> QED
      BY <2>5, <3>2, <3>4
  <2> QED
    BY <2>1, <2>6
<1>6. f[0] = g[0]
  <2>1. 0 \in 0..L
    BY <1>1
  <2> QED
    BY <1>1, <1>2, <1>3, <2>1
<1> HIDE DEF f, g
<1>7. GoAlike(f, g, L)
  BY <1>5, <1>6 DEF GoAlike
<1>8. k \in 0..L /\ f[k] = g[k]
  BY <1>1, <1>7, StepsSame DEF L
<1>9. Len(j[k]) = Len(d) + h[k] /\ j[k] \in Seq(Nat)
  BY <1>2, <1>8 DEF f, g
<1> QED
  BY <1>4, <1>9 DEF j

\* Where a stream with sb_cc, what is to read and the tree exchanged stays one.
Received(s, t) ==
    /\ t \in Stream /\ Counted(t)
    /\ t.state = s.state /\ t.snd_seq_q = s.snd_seq_q /\ t.snd_nxt = s.snd_nxt
    /\ t.snd_q = s.snd_q /\ t.snd_una = s.snd_una /\ t.timers = s.timers
    /\ Len(s.rcv_data_q) <= Len(t.rcv_data_q)

LEMMA ReceivedTwice ==
    ASSUME NEW s \in Stream, NEW t, NEW u, Received(s, t), Received(t, u)
    PROVE  Received(s, u)
<1>1. t \in Stream /\ u \in Stream
  BY DEF Received
<1>2. s.rcv_data_q \in Seq(Nat) /\ t.rcv_data_q \in Seq(Nat) /\ u.rcv_data_q \in Seq(Nat)
  BY <1>1, ReceiverFields, Zenon
<1>3. Len(s.rcv_data_q) \in Nat /\ Len(t.rcv_data_q) \in Nat /\ Len(u.rcv_data_q) \in Nat
  BY <1>2
<1> QED
  BY <1>3 DEF Received

LEMMA DropBehindType ==
    ASSUME NEW s \in Stream, Counted(s)
    PROVE  Received(s, drop_behind(s))
<1> DEFINE q == s.rcv_buf_q
           k == Behind(q, s.rcv_nxt)
           u == SubSeq(q, 1, k)
           v == SubSeq(q, k + 1, Len(q))
           c == Most(0, s.sb_cc - Bytes(u))
           t == [s EXCEPT !.rcv_buf_q = v, !.sb_cc = c]
<1>1. q \in Seq(Buf) /\ s.rcv_data_q \in Seq(Nat) /\ s.sb_cc \in Nat
  BY StreamFields
<1>2. s.sb_cc = Len(s.rcv_data_q) + Bytes(q)
  BY DEF Counted
<1> HIDE DEF q
<1>3. k \in 0..Len(q)
  BY <1>1, BehindType
<1> HIDE DEF k
<1>4. /\ u \in Seq(Buf) /\ v \in Seq(Buf) /\ Bytes(q) = Bytes(u) + Bytes(v)
  BY <1>1, <1>3, BytesSplit
<1> HIDE DEF u, v
<1>5. Bytes(u) \in Nat /\ Bytes(v) \in Nat /\ Len(s.rcv_data_q) \in Nat
  BY <1>1, <1>4, LengthsAre
<1>6. c = Len(s.rcv_data_q) + Bytes(v) /\ c \in Nat
  BY <1>2, <1>4, <1>5 DEF Most
<1> HIDE DEF c
<1>7. t \in Stream
  BY <1>4, <1>6 DEF Stream
<1>8. /\ t.state = s.state /\ t.snd_seq_q = s.snd_seq_q /\ t.snd_nxt = s.snd_nxt
      /\ t.snd_q = s.snd_q /\ t.rcv_buf_q = v /\ t.sb_cc = c /\ t.rcv_data_q = s.rcv_data_q
      /\ t.snd_una = s.snd_una /\ t.timers = s.timers
  BY DEF Stream
<1>9. drop_behind(s) = t
  BY DEF drop_behind, t, c, u, v, k, q
<1> HIDE DEF t
<1> QED
  BY <1>5, <1>6, <1>7, <1>8, <1>9 DEF Received, Counted

LEMMA PullType ==
    ASSUME NEW s \in Stream, Counted(s)
    PROVE  Received(s, pull(s))
<1> DEFINE q == s.rcv_buf_q
           d == s.rcv_data_q
           L == Len(q)
           nxt == [i \in 0..L |-> IF i = 0 THEN s.rcv_nxt ELSE End(q[i])]
           K == {k \in 0..L : \A i \in 1..k : q[i].seq = nxt[i - 1]}
           k == Max(K)
           u == SubSeq(q, 1, k)
           v == SubSeq(q, k + 1, L)
           j == Joined(d, q)[k]
           t == [s EXCEPT !.rcv_buf_q = v, !.rcv_nxt = nxt[k], !.rcv_data_q = j]
<1>1. q \in Seq(Buf) /\ d \in Seq(Nat) /\ s.sb_cc \in Nat /\ s.rcv_nxt \in Seqs /\ L \in Nat
  <2>1. q \in Seq(Buf) /\ d \in Seq(Nat) /\ s.sb_cc \in Nat /\ s.rcv_nxt \in Seqs
    BY StreamFields
  <2> QED
    BY <2>1
<1>2. s.sb_cc = Len(d) + Bytes(q)
  BY DEF Counted
<1>3. nxt \in [0..L -> Seqs]
  <2>1. \A i \in 1..L : q[i] \in Buf
    BY <1>1
  <2> HIDE DEF q, L
  <2>2. \A i \in 1..L : End(q[i]) \in Seqs
    BY <2>1, EndType
  <2> QED
    BY <1>1, <2>2
<1>4. pull(s) = t
  BY DEF pull
<1> HIDE DEF q, d, nxt
<1>5. k \in 0..L
  <2>1. 0 \in K
    BY <1>1
  <2>2. UpTo(K, L)
    BY <1>1, <2>1 DEF UpTo
  <2> HIDE DEF K, L
  <2>3. Greatest(K, L, Max(K))
    BY <2>2, MaxIs
  <2> QED
    BY <2>3 DEF Greatest
<1> HIDE DEF k, K
<1>6. u \in Seq(Buf) /\ v \in Seq(Buf) /\ Bytes(q) = Bytes(u) + Bytes(v)
  BY <1>1, <1>5, BytesSplit
<1>7. j \in Seq(Nat) /\ Len(j) = Len(d) + Bytes(u)
  BY <1>1, <1>5, JoinedLen
<1>8. nxt[k] \in Seqs
  BY <1>3, <1>5
<1> HIDE DEF u, v, j, L
<1>9. Bytes(u) \in Nat /\ Bytes(v) \in Nat /\ Len(d) \in Nat
  BY <1>1, <1>6, LengthsAre
<1>10. s.sb_cc = Len(j) + Bytes(v)
  BY <1>2, <1>6, <1>7, <1>9
<1>11. t \in Stream
  BY <1>6, <1>7, <1>8 DEF Stream
<1>12. /\ t.state = s.state /\ t.snd_seq_q = s.snd_seq_q /\ t.snd_nxt = s.snd_nxt
       /\ t.snd_q = s.snd_q /\ t.rcv_buf_q = v /\ t.sb_cc = s.sb_cc /\ t.rcv_data_q = j
       /\ t.snd_una = s.snd_una /\ t.timers = s.timers /\ s.rcv_data_q = d
  BY DEF Stream, d
<1>13. Len(d) <= Len(j)
  BY <1>7, <1>9
<1> HIDE DEF t
<1> QED
  BY <1>4, <1>10, <1>11, <1>12, <1>13 DEF Received, Counted

LEMMA UpdateWndType ==
    ASSUME NEW s \in Stream, Counted(s)
    PROVE  Received(s, scp_update_rcv_wnd(s))
<1> DEFINE w == IF s.sb_cc >= Hiwat THEN 0 ELSE Hiwat - s.sb_cc
           t == [s EXCEPT !.rcv_wnd = w]
<1>1. w \in Nat
  <2>1. s.sb_cc \in Nat
    BY StreamFields
  <2> QED
    BY <2>1, SizesAre
<1> HIDE DEF w
<1>2. t \in Stream
  BY <1>1 DEF Stream
<1>3. /\ t.state = s.state /\ t.snd_seq_q = s.snd_seq_q /\ t.snd_nxt = s.snd_nxt
      /\ t.snd_q = s.snd_q /\ t.rcv_buf_q = s.rcv_buf_q /\ t.sb_cc = s.sb_cc
      /\ t.rcv_data_q = s.rcv_data_q /\ t.snd_una = s.snd_una /\ t.timers = s.timers
  BY DEF Stream
<1>4. scp_update_rcv_wnd(s) = t
  BY DEF scp_update_rcv_wnd, w
<1>5. Len(s.rcv_data_q) \in Nat
  <2>1. s.rcv_data_q \in Seq(Nat)
    BY StreamFields
  <2> QED
    BY <2>1
<1> HIDE DEF t
<1> QED
  BY <1>2, <1>3, <1>4, <1>5 DEF Received, Counted
LEMMA CutType ==
    ASSUME NEW b \in Buf, NEW d \in Nat
    PROVE  Cut(b, d) \in Buf
<1>1. b.seq \in Seqs /\ b.seq \in Int /\ b.data \in Seq(Nat)
  <2>1. b.seq \in Seqs /\ b.data \in Seq(Nat)
    BY DEF Buf, Seqs
  <2> QED
    BY <2>1, SeqsAreInt
<1>2. Plus(b.seq, d) \in Seqs
  BY <1>1, SeqsType
<1>3. SubSeq(b.data, d + 1, Len(b.data)) \in Seq(Nat)
  BY <1>1
<1> QED
  BY <1>2, <1>3 DEF Cut, Buf, Seqs

\* What lies before the greater of two numbers.
LEMMA GreaterLess ==
    ASSUME NEW a \in Seqs, NEW b \in Seqs, SEQ_GT(a, b)
    PROVE  SEQ_LT(b, a)
<1> DEFINE H == SeqSpace \div 2
<1>1. H \in Nat /\ SeqSpace = 2 * H /\ H > 0
  BY SpaceIs
<1>2. a \in 0..(2 * H - 1) /\ b \in 0..(2 * H - 1)
  BY <1>1 DEF Seqs
<1>3. (a - b) % (2 * H) \in 1..(H - 1)
  BY <1>1 DEF SEQ_GT, Diff
<1> HIDE DEF H
<1>4. (b - a) % (2 * H) >= H
  <2>1. CASE a > b
    <3>1. (a - b) % (2 * H) = a - b /\ (b - a) % (2 * H) = (b - a) + 2 * H
      BY <1>1, <1>2, <2>1
    <3> QED
      BY <1>1, <1>2, <1>3, <3>1
  <2>2. CASE a < b
    <3>1. (a - b) % (2 * H) = (a - b) + 2 * H /\ (b - a) % (2 * H) = b - a
      BY <1>1, <1>2, <2>2
    <3> QED
      BY <1>1, <1>2, <1>3, <3>1
  <2>3. CASE a = b
    <3>1. (a - b) % (2 * H) = 0
      BY <1>1, <1>2, <2>3
    <3> QED
      BY <1>3, <3>1
  <2> QED
    BY <1>2, <2>1, <2>2, <2>3
<1> QED
  BY <1>1, <1>4 DEF SEQ_LT, Diff, H

LEMMA OutputAckType ==
    ASSUME NEW x, Typed(x)
    PROVE  Typed(scp_output_ack(x)) /\ scp_output_ack(x).s = x.s
<1>1. Packet("ACK", 0, <<>>) \in PacketType
  <2>1. "ACK" \in Kinds /\ <<>> \in Seq(Nat)
    BY DEF Kinds
  <2> QED
    BY <2>1, SpaceIs, PacketIs
<1>2. Acking(x.s, Packet("ACK", 0, <<>>)) \in PacketType
  BY <1>1, AckingIs DEF Typed
<1> QED
  BY <1>2, EmitType DEF scp_output_ack

\* Data that arrives changes the receiving side, and may be acknowledged.
Arrived(x, y) ==
    \E t : /\ Received(x.s, t)
           /\ y \in {[s |-> t, out |-> x.out], scp_output_ack([s |-> t, out |-> x.out])}

LEMMA ArrivedType ==
    ASSUME NEW x, NEW y, Typed(x), Arrived(x, y)
    PROVE  Typed(y) /\ Received(x.s, y.s) /\ y.s.state = x.s.state
<1>1. PICK t : /\ Received(x.s, t)
               /\ y \in {[s |-> t, out |-> x.out], scp_output_ack([s |-> t, out |-> x.out])}
  BY DEF Arrived
<1> DEFINE z == [s |-> t, out |-> x.out]
<1>2. Typed(z) /\ z.s = t
  BY <1>1 DEF Typed, Received
<1>3. y = z \/ y = scp_output_ack(z)
  BY <1>1
<1> HIDE DEF z
<1>4. Typed(scp_output_ack(z)) /\ scp_output_ack(z).s = z.s
  BY <1>2, OutputAckType
<1>5. Typed(y) /\ y.s = t
  BY <1>2, <1>3, <1>4
<1> QED
  BY <1>1, <1>5 DEF Received

LEMMA InOrderIs ==
    ASSUME NEW x, Typed(x), NEW b \in Buf
    PROVE  Arrived(x, in_order(x, b))
<1> DEFINE n == End(b)
           d == x.s.rcv_data_q \o b.data
           c == x.s.sb_cc + Len(b.data)
           s == [x.s EXCEPT !.rcv_nxt = n, !.rcv_data_q = d, !.sb_cc = c]
           w == scp_update_rcv_wnd(s)
           p == pull(w)
           y == [s |-> p, out |-> x.out]
<1>1. x.s \in Stream /\ x.s.sb_cc = Len(x.s.rcv_data_q) + Bytes(x.s.rcv_buf_q)
  BY DEF Typed, Counted
<1>2. /\ x.s.rcv_data_q \in Seq(Nat) /\ x.s.rcv_buf_q \in Seq(Buf) /\ x.s.sb_cc \in Nat
      /\ b.data \in Seq(Nat)
  BY <1>1, StreamFields DEF Buf
<1>3. n \in Seqs
  BY EndType
<1>4. d \in Seq(Nat) /\ c \in Nat
  BY <1>2
<1>5. c = Len(d) + Bytes(x.s.rcv_buf_q)
  <2>1. Bytes(x.s.rcv_buf_q) \in Nat
    BY <1>2, LengthsAre
  <2>2. Len(d) = Len(x.s.rcv_data_q) + Len(b.data)
    BY <1>2
  <2>3. Len(x.s.rcv_data_q) \in Nat /\ Len(b.data) \in Nat
    BY <1>2
  <2>4. \A u, v, m \in Nat : (u + m) + v = (u + v) + m
    OBVIOUS
  <2>5. c = (Len(x.s.rcv_data_q) + Bytes(x.s.rcv_buf_q)) + Len(b.data)
    BY <1>1
  <2>6. c = (Len(x.s.rcv_data_q) + Len(b.data)) + Bytes(x.s.rcv_buf_q)
    <3> HIDE DEF c
    <3> QED
      BY <2>1, <2>3, <2>4, <2>5
  <2> QED
    BY <2>2, <2>6
<1>longer. Len(x.s.rcv_data_q) <= Len(d)
  <2>1. Len(d) = Len(x.s.rcv_data_q) + Len(b.data)
    BY <1>2
  <2>2. Len(x.s.rcv_data_q) \in Nat /\ Len(b.data) \in Nat
    BY <1>2
  <2>3. \A u, v \in Nat : u <= u + v
    OBVIOUS
  <2> HIDE DEF d
  <2> QED
    BY <2>1, <2>2, <2>3, Zenon
<1> HIDE DEF n, d, c
<1>6. s \in Stream
  BY <1>1, <1>3, <1>4 DEF Stream
<1>7. /\ s.state = x.s.state /\ s.sb_cc = c /\ s.rcv_data_q = d
      /\ s.rcv_buf_q = x.s.rcv_buf_q /\ s.snd_seq_q = x.s.snd_seq_q
      /\ s.snd_nxt = x.s.snd_nxt /\ s.snd_q = x.s.snd_q
      /\ s.snd_una = x.s.snd_una /\ s.timers = x.s.timers
  BY <1>1 DEF Stream
<1>8. in_order(x, b) = scp_output_ack(y)
  <2>1. [x EXCEPT !.s = p] = y
    BY DEF Typed
  <2> QED
    BY <2>1 DEF in_order, p, w, s, n, d, c
<1> HIDE DEF s
<1>9. Counted(s) /\ Received(x.s, s)
  BY <1>5, <1>6, <1>7, <1>longer DEF Counted, Received
<1>10. Received(s, w)
  BY <1>6, <1>9, UpdateWndType
<1> HIDE DEF w
<1>11. Received(w, p)
  BY <1>10, PullType DEF Received
<1> HIDE DEF p
<1>12. Received(x.s, p)
  BY <1>1, <1>6, <1>9, <1>10, <1>11, ReceivedTwice DEF Received
<1>13. in_order(x, b) = scp_output_ack([s |-> p, out |-> x.out])
  BY <1>8
<1> QED
  BY <1>12, <1>13 DEF Arrived
\* Buffers in front of a place are counted by their number.
PlaceOf(q, top) == Cardinality({i \in DOMAIN q : q[i].seq <= top})
LEMMA PlaceOfType ==
    ASSUME NEW q \in Seq(Buf), NEW top
    PROVE  PlaceOf(q, top) \in 0..Len(q)
<1> DEFINE L == Len(q)
           S == {i \in DOMAIN q : q[i].seq <= top}
<1>1. L \in Nat /\ S \subseteq 1..L
  OBVIOUS
<1> HIDE DEF L, S
<1>2. IsFiniteSet(1..L) /\ Cardinality(1..L) = L
  <2>1. 1 \in Int /\ L \in Int /\ 1 <= L + 1
    BY <1>1
  <2>2. (L - 1) + 1 = L
    BY <1>1
  <2>3. IsFiniteSet(1..L) /\ Cardinality(1..L) = IF 1 > L THEN 0 ELSE (L - 1) + 1
    BY <2>1, FS_Interval
  <2> QED
    BY <1>1, <2>2, <2>3
<1>3. IsFiniteSet(S) /\ Cardinality(S) <= L
  BY <1>1, <1>2, FS_Subset
<1>4. Cardinality(S) \in Nat
  BY <1>3, FS_CardinalityType
<1>5. Cardinality(S) \in 0..L
  BY <1>1, <1>3, <1>4
<1>6. PlaceOf(q, top) = Cardinality(S)
  BY DEF S, PlaceOf
<1>7. PlaceOf(q, top) \in 0..L
  BY <1>5, <1>6
<1> HIDE DEF S
<1>8. 0..L = 0..Len(q)
  BY DEF L
<1> QED
  BY <1>7, <1>8

LEMMA OutOfOrderIs ==
    ASSUME NEW x, Typed(x), NEW b \in Buf
    PROVE  Arrived(x, out_of_order(x, b))
<1> DEFINE q == x.s.rcv_buf_q
           upto(seq) == Cardinality({i \in DOMAIN q : q[i].seq <= seq})
           k == upto(b.seq)
           overlap == k > 0 /\ SEQ_GT(End(q[k]), b.seq)
           c == IF overlap THEN Cut(b, Diff(End(q[k]), b.seq)) ELSE b
           d == IF k < Len(q) /\ SEQ_GT(q[k + 1].seq, c.seq) /\ SEQ_GT(End(c), q[k + 1].seq)
                THEN [c EXCEPT !.data = SubSeq(@, 1, Diff(q[k + 1].seq, c.seq))] ELSE c
           n == upto(d.seq)
           r == InsertAt(q, n + 1, d)
           cc == x.s.sb_cc + Len(d.data)
           s == [x.s EXCEPT !.rcv_buf_q = r, !.sb_cc = cc]
           w == scp_update_rcv_wnd(s)
           y == [s |-> w, out |-> x.out]
<1>1. x.s \in Stream /\ x.s.sb_cc = Len(x.s.rcv_data_q) + Bytes(q)
  BY DEF Typed, Counted
<1>2. /\ x.s.rcv_data_q \in Seq(Nat) /\ q \in Seq(Buf) /\ x.s.sb_cc \in Nat
  <2> DEFINE z == x.s
  <2>1. z \in Stream
    BY <1>1
  <2> HIDE DEF z
  <2>2. z.rcv_data_q \in Seq(Nat) /\ z.rcv_buf_q \in Seq(Buf) /\ z.sb_cc \in Nat
    BY <2>1, ReceiverFields, Zenon
  <2> QED
    BY <2>2 DEF z
<1>3. out_of_order(x, b) = x \/ out_of_order(x, b) = scp_output_ack(y)
  <2>1. [x EXCEPT !.s = w] = y
    <3> HIDE DEF w
    <3> QED
      BY DEF Typed
  <2> HIDE DEF y
  <2> QED
    BY <2>1, Zenon DEF out_of_order
<1> HIDE DEF q
<1>4. \A seq : upto(seq) \in 0..Len(q)
  <2>1. \A seq : PlaceOf(q, seq) \in 0..Len(q)
    <3> TAKE seq
    <3> QED
      BY <1>2, PlaceOfType
  <2>2. \A seq : PlaceOf(q, seq) = upto(seq)
    BY DEF PlaceOf
  <2> QED
    BY <2>1, <2>2
<1> HIDE DEF upto
<1>5. Len(q) \in Nat /\ \A i \in 1..Len(q) : q[i] \in Buf
  BY <1>2
<1>6. k \in Nat /\ (k > 0 => q[k] \in Buf) /\ (k < Len(q) => q[k + 1] \in Buf)
  BY <1>4, <1>5
<1> HIDE DEF k
<1>7. \A a \in Buf : a.seq \in Seqs /\ a.seq \in Int /\ a.data \in Seq(Nat)
  <2>1. \A a \in Buf : a.seq \in Seqs /\ a.data \in Seq(Nat)
    BY DEF Buf, Seqs
  <2> QED
    BY <2>1, SeqsAreInt
<1>8. c \in Buf
  <2>1. CASE overlap
    <3>1. End(q[k]) \in Int /\ b.seq \in Int
      BY <1>6, <1>7, <2>1, EndType
    <3>2. Diff(End(q[k]), b.seq) \in Nat
      BY <3>1, SeqsType, SeqsAreInt
    <3> QED
      BY <2>1, <3>2, CutType
  <2> QED
    BY <2>1
<1> HIDE DEF c
<1>9. d \in Buf
  <2>1. CASE d = c
    BY <1>8, <2>1
  <2>2. CASE /\ k < Len(q) /\ SEQ_GT(q[k + 1].seq, c.seq) /\ SEQ_GT(End(c), q[k + 1].seq)
             /\ d = [c EXCEPT !.data = SubSeq(@, 1, Diff(q[k + 1].seq, c.seq))]
    <3> DEFINE hi == q[k + 1].seq
               m == Diff(hi, c.seq)
               f == SubSeq(c.data, 1, m)
    <3>1. /\ hi \in Seqs /\ hi \in Int /\ c.seq \in Seqs /\ c.seq \in Int /\ c.data \in Seq(Nat)
      BY <1>6, <1>7, <1>8, <2>2
    <3>2. SEQ_LT(c.seq, hi)
      BY <2>2, <3>1, GreaterLess
    <3>3. SEQ_GT(Plus(c.seq, Len(c.data)), hi)
      BY <2>2 DEF End
    <3> HIDE DEF hi
    <3>4. Len(c.data) \in Nat
      BY <3>1
    <3>5. m \in Nat /\ m <= Len(c.data)
      <4>1. m \in Nat
        BY <3>1, SeqsType, SeqsAreInt
      <4>2. Diff(hi, c.seq) <= Len(c.data)
        BY <3>1, <3>2, <3>3, <3>4, WithinBuffer
      <4> QED
        BY <4>1, <4>2
    <3> HIDE DEF m
    <3>6. f \in Seq(Nat)
      BY <3>1, <3>4, <3>5
    <3>7. d = [c EXCEPT !.data = f]
      BY <2>2 DEF hi, m
    <3> HIDE DEF f, d
    <3> QED
      BY <1>8, <3>6, <3>7 DEF Buf
  <2> QED
    BY <2>1, <2>2
<1> HIDE DEF d
<1>10. n \in 0..Len(q)
  BY <1>4
<1> HIDE DEF n
<1>11. r \in Seq(Buf) /\ Bytes(r) = Bytes(q) + Len(d.data)
  BY <1>2, <1>9, <1>10, BytesInsert
<1>12. Bytes(q) \in Nat /\ Len(d.data) \in Nat /\ Len(x.s.rcv_data_q) \in Nat
  <2>1. d.data \in Seq(Nat)
    BY <1>7, <1>9
  <2> QED
    BY <1>2, <2>1, LengthsAre
<1>13. cc \in Nat /\ cc = Len(x.s.rcv_data_q) + Bytes(r)
  <2>1. \A u, v, m \in Nat : (u + v) + m = u + (v + m) /\ (u + v) + m \in Nat
    OBVIOUS
  <2>2. cc = (Len(x.s.rcv_data_q) + Bytes(q)) + Len(d.data)
    BY <1>1
  <2> DEFINE u == Len(x.s.rcv_data_q)
             v == Bytes(q)
             m == Len(d.data)
             z == Bytes(r)
  <2>3. u \in Nat /\ v \in Nat /\ m \in Nat
    BY <1>12
  <2>4. cc = (u + v) + m /\ z = v + m
    BY <1>11, <2>2
  <2> HIDE DEF r, cc, u, v, m, z
  <2>5. cc \in Nat /\ cc = u + z
    BY <2>1, <2>3, <2>4
  <2> QED
    BY <2>5 DEF u, z
<1> HIDE DEF r, cc
<1>14. s \in Stream
  BY <1>1, <1>11, <1>13 DEF Stream
<1>15. /\ s.state = x.s.state /\ s.sb_cc = cc /\ s.rcv_data_q = x.s.rcv_data_q
       /\ s.rcv_buf_q = r /\ s.snd_seq_q = x.s.snd_seq_q
       /\ s.snd_nxt = x.s.snd_nxt /\ s.snd_q = x.s.snd_q
       /\ s.snd_una = x.s.snd_una /\ s.timers = x.s.timers
  BY <1>1 DEF Stream
<1> HIDE DEF s
<1>16. Counted(s) /\ Received(x.s, s)
  BY <1>12, <1>13, <1>14, <1>15 DEF Counted, Received
<1>17. Received(s, w)
  BY <1>14, <1>16, UpdateWndType
<1> HIDE DEF w
<1>18. Received(x.s, w)
  BY <1>1, <1>16, <1>17, ReceivedTwice
<1>19. Received(x.s, x.s) /\ x = [s |-> x.s, out |-> x.out]
  BY <1>12 DEF Typed, Received
<1> QED
  BY <1>3, <1>18, <1>19 DEF Arrived

LEMMA ProcessDataIs ==
    ASSUME NEW x, Typed(x), NEW p \in PacketType
    PROVE  Arrived(x, scp_process_data(x, p))
<1> DEFINE b == [seq |-> p.seq, data |-> p.data, sent |-> 0]
           s == drop_behind(x.s)
           y == [s |-> s, out |-> x.out]
           c == Cut(b, Diff(s.rcv_nxt, b.seq))
<1>1. scp_process_data(x, p) \in {scp_output_ack(y), in_order(y, c), out_of_order(y, b)}
  <2>1. [x EXCEPT !.s = s] = y
    BY DEF Typed
  <2> HIDE DEF y
  <2> QED
    BY <2>1 DEF scp_process_data
<1>2. b \in Buf /\ b.seq \in Int
  <2>1. p.seq \in Seqs /\ p.data \in Seq(Nat)
    BY DEF PacketType
  <2>2. p.seq \in Int
    BY <2>1, SeqsAreInt
  <2> QED
    BY <2>1, <2>2 DEF Buf, Seqs
<1>3. Received(x.s, s)
  BY DropBehindType DEF Typed
<1> HIDE DEF s, b
<1>4. Typed(y) /\ y.s = s /\ s.state = x.s.state /\ s \in Stream
  BY <1>3 DEF Received, Typed
<1> HIDE DEF y
<1>5. c \in Buf
  <2>1. s.rcv_nxt \in Int
    BY <1>4, StreamFields, SeqsAreInt
  <2>2. Diff(s.rcv_nxt, b.seq) \in Nat
    BY <1>2, <2>1, SeqsType, SeqsAreInt
  <2> QED
    BY <1>2, <2>2, CutType
<1> HIDE DEF c
<1>6. y.out = x.out /\ y = [s |-> s, out |-> x.out]
  BY DEF y
<1>7. ASSUME NEW z, Arrived(y, z) PROVE Arrived(x, z)
  <2>1. PICK t : /\ Received(y.s, t)
                 /\ z \in {[s |-> t, out |-> y.out], scp_output_ack([s |-> t, out |-> y.out])}
    BY <1>7 DEF Arrived
  <2>2. Received(x.s, t)
    BY <1>3, <1>4, <2>1, ReceivedTwice DEF Typed
  <2> QED
    BY <1>6, <2>1, <2>2 DEF Arrived
<1>8. Arrived(x, scp_output_ack(y))
  BY <1>3, <1>6 DEF Arrived
<1>9. Arrived(x, in_order(y, c))
  BY <1>4, <1>5, <1>7, InOrderIs
<1>10. Arrived(x, out_of_order(y, b))
  BY <1>2, <1>4, <1>7, OutOfOrderIs
<1> QED
  BY <1>1, <1>8, <1>9, <1>10

LEMMA ProcessDataType ==
    ASSUME NEW x, Typed(x), NEW p \in PacketType
    PROVE  Typed(scp_process_data(x, p)) /\ scp_process_data(x, p).s.state = x.s.state
BY ProcessDataIs, ArrivedType
-----------------------------------------------------------------------------
(***************************************************************************)
(* What arrives, state by state, and the steps.                            *)
(***************************************************************************)
\* Nothing that came is touched.
Keeps(s, t) ==
    /\ t \in Stream /\ t.sb_cc = s.sb_cc
    /\ t.rcv_data_q = s.rcv_data_q /\ t.rcv_buf_q = s.rcv_buf_q

LEMMA KeepsTyped ==
    ASSUME NEW x, NEW t, Typed(x), Keeps(x.s, t)
    PROVE  /\ [x EXCEPT !.s = t] = [s |-> t, out |-> x.out]
           /\ Typed([x EXCEPT !.s = t]) /\ [x EXCEPT !.s = t].s = t
<1>1. [x EXCEPT !.s = t] = [s |-> t, out |-> x.out]
  BY DEF Typed
<1>2. Typed([s |-> t, out |-> x.out])
  BY DEF Typed, Keeps, Counted
<1> QED
  BY <1>1, <1>2

LEMMA OnlyTyped ==
    ASSUME NEW s \in Stream, NEW t, Counted(s), Keeps(s, t)
    PROVE  Typed(Only(t)) /\ Only(t).s = t /\ Only(t).out = {}
BY DEF Typed, Keeps, Counted, Only

LEMMA ListenType ==
    ASSUME NEW x, Typed(x), NEW p \in PacketType, NEW i \in Seqs
    PROVE  Typed(listen_like_process(x, p, i))
<1> DEFINE t == [Start(x.s, "hs") EXCEPT
                    !.state = "SYN_RECV", !.retry = 0, !.rcv_nxt = p.seq,
                    !.snd_seq_q = i, !.snd_una = i, !.snd_nxt = i]
<1>1. x.s \in Stream /\ p.seq \in Seqs
  BY DEF Typed, PacketType
<1>2. Start(x.s, "hs") \in Stream /\ Keeps(x.s, Start(x.s, "hs"))
  BY <1>1 DEF Start, Stream, Timers, Keeps
<1>3. t \in Stream
  <2> DEFINE u == Start(x.s, "hs")
  <2>1. u \in Stream /\ "SYN_RECV" \in States /\ 0 \in Nat
    BY <1>2 DEF States
  <2> HIDE DEF u
  <2>2. [u EXCEPT !.state = "SYN_RECV", !.retry = 0, !.rcv_nxt = p.seq,
                  !.snd_seq_q = i, !.snd_una = i, !.snd_nxt = i] \in Stream
    <3> HIDE DEF Seqs, States
    <3> QED
      BY <1>1, <2>1 DEF Stream
  <2> QED
    BY <2>2 DEF u
<1>4. Keeps(x.s, t)
  BY <1>2, <1>3 DEF Keeps, Stream
<1>5. [x EXCEPT !.s = [Start(@, "hs") EXCEPT
                !.state = "SYN_RECV", !.retry = 0, !.rcv_nxt = p.seq,
                !.snd_seq_q = i, !.snd_una = i, !.snd_nxt = i]] = [x EXCEPT !.s = t]
  OBVIOUS
<1> HIDE DEF t
<1>6. Typed([x EXCEPT !.s = t])
  BY <1>4, KeepsTyped
<1>7. Typed(scp_output_connect_ack([x EXCEPT !.s = t]))
  BY <1>6, SendsType
<1>8. listen_like_process(x, p, i) \in {x, scp_output_connect_ack([x EXCEPT !.s = t])}
  BY <1>5 DEF listen_like_process
<1> QED
  BY <1>7, <1>8

LEMMA EstablishedType ==
    ASSUME NEW x, Typed(x)
    PROVE  Typed([x EXCEPT !.s = Established(@)])
<1>1. x.s \in Stream
  BY DEF Typed
<1>2. Established(x.s) \in Stream
  <2>1. (x.s.timers \ {"hs"}) \cup {"persist"} \in SUBSET Timers
    BY <1>1, StreamFields DEF Timers
  <2>2. "ESTABLISHED" \in States
    BY DEF States
  <2> QED
    BY <1>1, <2>1, <2>2 DEF Established, Stream
<1>3. Keeps(x.s, Established(x.s))
  BY <1>1, <1>2 DEF Keeps, Established, Stream
<1> QED
  BY <1>3, KeepsTyped

LEMMA RcvNxtType ==
    ASSUME NEW x, Typed(x), NEW n \in Seqs
    PROVE  Typed([x EXCEPT !.s.rcv_nxt = n])
<1> DEFINE t == [x.s EXCEPT !.rcv_nxt = n]
<1>1. x.s \in Stream
  BY DEF Typed
<1>2. t \in Stream
  BY <1>1 DEF Stream
<1>3. Keeps(x.s, t)
  BY <1>1, <1>2 DEF Keeps, Stream
<1>4. [x EXCEPT !.s.rcv_nxt = n] = [x EXCEPT !.s = t]
  OBVIOUS
<1> HIDE DEF t
<1> QED
  BY <1>3, <1>4, KeepsTyped

LEMMA SynSentType ==
    ASSUME NEW x, Typed(x), NEW p \in PacketType
    PROVE  Typed(syn_sent_process(x, p)) /\ Typed(syn_recv_process(x, p))
<1> DEFINE y == [x EXCEPT !.s.rcv_nxt = p.seq]
           z == scp_output_ack(y)
<1>1. p.seq \in Seqs
  BY DEF PacketType
<1>2. Typed(y)
  BY <1>1, RcvNxtType
<1> HIDE DEF y
<1>3. Typed(z)
  BY <1>2, SendsType
<1> HIDE DEF z
<1>4. Typed([z EXCEPT !.s = Established(@)]) /\ Typed([x EXCEPT !.s = Established(@)])
  BY <1>3, EstablishedType
<1> QED
  BY <1>4 DEF syn_sent_process, syn_recv_process, y, z

LEMMA EstProcessType ==
    ASSUME NEW x, Typed(x), NEW p \in PacketType
    PROVE  Typed(est_process(x, p))
<1> DEFINE a == scp_process_ack(x, p)
           y == IF p.kind = "FIN" THEN a ELSE x
           n == Plus(p.seq, 1)
           w == [y EXCEPT !.s.rcv_nxt = n]
           z == scp_output_ack(w)
           t == [Start(z.s, "fin") EXCEPT !.state = "LAST_ACK", !.retry = 0]
           v == [z EXCEPT !.s = t]
<1>1. p.seq \in Int /\ p.kind \in Kinds
  BY SeqsAreInt DEF PacketType
<1>2. n \in Seqs
  BY <1>1, SeqsType
<1>3. Typed(a) /\ Typed(y)
  <2>1. Typed(a)
    BY ProcessAckSends DEF Sends
  <2> QED
    BY <2>1
<1>4. /\ est_process(x, p) \in {a, scp_output_ack(x), scp_process_data(x, p), x}
      \/ est_process(x, p) \in {scp_output_ack(y), scp_output_fin_first(v)}
  <2>1. v = [z EXCEPT !.s = [Start(@, "fin") EXCEPT !.state = "LAST_ACK", !.retry = 0]]
    OBVIOUS
  <2> HIDE DEF v
  <2> QED
    BY <1>1, <2>1 DEF est_process, Kinds
<1> HIDE DEF n, a, y
<1>5. Typed(w)
  BY <1>2, <1>3, RcvNxtType
<1> HIDE DEF w
<1>6. Typed(z) /\ z.s \in Stream
  <2>1. Typed(z)
    BY <1>5, SendsType
  <2> QED
    BY <2>1 DEF Typed
<1> HIDE DEF z
<1>7. Keeps(z.s, t)
  <2>1. Start(z.s, "fin") \in Stream /\ Keeps(z.s, Start(z.s, "fin"))
    BY <1>6 DEF Start, Stream, Timers, Keeps
  <2>2. t \in Stream
    BY <2>1 DEF Stream, States
  <2> QED
    BY <2>1, <2>2 DEF Keeps, Stream
<1> HIDE DEF t
<1>8. Typed(v)
  BY <1>6, <1>7, KeepsTyped
<1> HIDE DEF v
<1>9. Typed(scp_output_ack(x)) /\ Typed(scp_output_ack(y)) /\ Typed(scp_output_fin_first(v))
  BY <1>3, <1>8, SendsType
<1>10. Typed(scp_process_data(x, p))
  BY ProcessDataType
<1> QED
  BY <1>3, <1>4, <1>9, <1>10
LEMMA ClosingType ==
    ASSUME NEW x, Typed(x), NEW p \in PacketType
    PROVE  Typed(fin_wait_process(x, p)) /\ Typed(last_ack_process(x, p))
<1> DEFINE y == scp_process_ack(x, p)
           n == IF SEQ_GEQ(p.seq, y.s.rcv_nxt) THEN Plus(p.seq, 1) ELSE y.s.rcv_nxt
           z == [y EXCEPT !.s.rcv_nxt = n]
           a == scp_output_ack(z)
           f(u) == [u EXCEPT !.s = scp_stream_free]
<1>1. p.seq \in Int
  BY SeqsAreInt DEF PacketType
<1>2. Typed(y)
  BY ProcessAckSends DEF Sends
<1>3. /\ fin_wait_process(x, p) \in {y, scp_output_ack(x), f(a), x}
      /\ last_ack_process(x, p) \in {scp_output_ack(x), f(x), x}
  <2>1. z = [y EXCEPT !.s.rcv_nxt = IF SEQ_GEQ(p.seq, @) THEN Plus(p.seq, 1) ELSE @]
    OBVIOUS
  <2> HIDE DEF z
  <2> QED
    BY <2>1 DEF fin_wait_process, last_ack_process
<1> HIDE DEF y
<1>4. n \in Seqs
  <2>1. y.s.rcv_nxt \in Seqs
    BY <1>2, StreamFields DEF Typed
  <2> QED
    BY <1>1, <2>1, SeqsType
<1> HIDE DEF n
<1>5. Typed(z)
  BY <1>2, <1>4, RcvNxtType
<1> HIDE DEF z
<1>6. Typed(a) /\ Typed(scp_output_ack(x))
  BY <1>5, SendsType
<1> HIDE DEF a
<1>7. ASSUME NEW u, Typed(u) PROVE Typed(f(u))
  <2> DEFINE t == scp_stream_free
  <2>1. f(u) = [s |-> t, out |-> u.out]
    BY <1>7 DEF Typed
  <2>2. t \in Stream /\ Counted(t)
    BY FreeType
  <2> HIDE DEF t, f
  <2> QED
    BY <1>7, <2>1, <2>2 DEF Typed
<1>8. Typed(f(a)) /\ Typed(f(x))
  BY <1>6, <1>7
<1> HIDE DEF f
<1> QED
  BY <1>2, <1>3, <1>6, <1>8

LEMMA ProcessedType ==
    ASSUME NEW s \in Stream, Counted(s), NEW p \in PacketType, NEW i \in Seqs
    PROVE  Typed(Processed(s, p, i))
<1> DEFINE t == [s EXCEPT !.idle_failures = 0]
           x == Only(t)
<1>1. t \in Stream
  BY DEF Stream
<1>2. Keeps(s, t)
  BY <1>1 DEF Keeps, Stream
<1>3. Keeps(s, s)
  BY DEF Keeps
<1> HIDE DEF t
<1>4. Typed(x) /\ Typed(Only(s)) /\ x.s = t
  BY <1>2, <1>3, OnlyTyped
<1> HIDE DEF x
<1>5. s.state \in States
  BY StreamFields
<1>6. /\ Typed(listen_like_process(x, p, i)) /\ Typed(syn_sent_process(x, p))
      /\ Typed(syn_recv_process(x, p)) /\ Typed(est_process(x, p))
      /\ Typed(fin_wait_process(x, p)) /\ Typed(last_ack_process(x, p))
  BY <1>4, ListenType, SynSentType, EstProcessType, ClosingType
<1>7. Processed(s, p, i) \in
        {listen_like_process(x, p, i), syn_sent_process(x, p), syn_recv_process(x, p),
         est_process(x, p), fin_wait_process(x, p), last_ack_process(x, p), Only(s)}
  BY <1>5 DEF Processed, x, t, States
<1> QED
  BY <1>4, <1>6, <1>7

-----------------------------------------------------------------------------
(***************************************************************************)
(* The inductive invariant.                                                *)
(***************************************************************************)
ScpIInv == ScpTypeOK /\ WindowCountsQueued

LEMMA PeerIs ==
    ASSUME NEW n \in Ends
    PROVE  Peer(n) \in Ends /\ Peer(n) # n /\ \A m \in Ends : m # n => m = Peer(n)
<1>1. PICK a, b : a # b /\ Ends = {a, b}
  BY ScpAssumption
<1>2. \E m \in Ends : m # n
  BY <1>1
<1>3. Peer(n) \in Ends /\ Peer(n) # n
  BY <1>2 DEF Peer
<1> QED
  BY <1>1, <1>3

\* A step that leaves stream n as x says keeps the invariant.
LEMMA LeaveKeeps ==
    ASSUME ScpIInv, NEW n \in Ends, NEW x, Typed(x), NEW used, Leave(n, x, used),
           accepted' \in [Ends -> Nat], readout' \in [Ends -> Seq(Nat)]
    PROVE  ScpIInv'
<1>1. stream \in [Ends -> Stream] /\ stream' = [stream EXCEPT ![n] = x.s] /\ x.s \in Stream
  BY DEF ScpIInv, ScpTypeOK, Leave, Typed
<1>2. stream' \in [Ends -> Stream] /\ stream'[n] = x.s
      /\ \A m \in Ends : m # n => stream'[m] = stream[m]
  BY <1>1
<1>3. link' \in SUBSET (Ends \X PacketType)
  <2>1. PICK kept \in SUBSET ({Peer(n)} \X x.out) : link' = (link \ used) \cup kept
    BY DEF Leave
  <2>2. kept \subseteq Ends \X PacketType
    BY PeerIs DEF Typed
  <2> QED
    BY <2>1, <2>2 DEF ScpIInv, ScpTypeOK
<1>4. size' \in Sizes
  BY DEF Leave, ScpIInv, ScpTypeOK
<1>5. \A m \in Ends : Counted(stream'[m])
  <2>1. \A m \in Ends : Counted(stream[m])
    BY DEF ScpIInv, WindowCountsQueued, Counted
  <2> QED
    BY <1>2, <2>1 DEF Typed
<1>6. WindowCountsQueued'
  BY <1>5 DEF WindowCountsQueued, Counted
<1>7. ScpTypeOK'
  BY <1>2, <1>3, <1>4 DEF ScpTypeOK
<1> QED
  BY <1>6, <1>7 DEF ScpIInv
LEMMA InitKeeps ==
    ASSUME ScpInit
    PROVE  ScpIInv
<1> DEFINE a == scp_stream_alloc
<1>1. a \in Stream /\ Counted(a)
  BY AllocType
<1>2. /\ stream = [n \in Ends |-> a] /\ link = {}
      /\ accepted = [n \in Ends |-> 0] /\ readout = [n \in Ends |-> <<>>] /\ size \in Sizes
  BY DEF ScpInit
<1> HIDE DEF a
<1>3. ScpTypeOK
  BY <1>1, <1>2 DEF ScpTypeOK
<1>4. \A n \in Ends : Counted(stream[n])
  BY <1>1, <1>2
<1>5. WindowCountsQueued
  BY <1>4 DEF WindowCountsQueued, Counted
<1> QED
  BY <1>3, <1>5 DEF ScpIInv

\* Streams and numbers a step starts from.
LEMMA StepFrom ==
    ASSUME ScpIInv, NEW n \in Ends
    PROVE  /\ stream[n] \in Stream /\ Counted(stream[n])
           /\ accepted \in [Ends -> Nat] /\ readout \in [Ends -> Seq(Nat)]
           /\ Iss[n] \subseteq Seqs /\ size \in Sizes
<1>1. Iss[n] \subseteq 1..(SeqSpace - 1)
  BY ScpAssumption
<1> QED
  BY <1>1, SpaceIs DEF ScpIInv, ScpTypeOK, WindowCountsQueued, Counted, Seqs

LEMMA ConnectKeeps ==
    ASSUME ScpIInv, NEW n \in Ends, scp_connect(n)
    PROVE  ScpIInv'
<1>1. PICK i \in Iss[n] :
         Leave(n, scp_output_connect(Only([Start(stream[n], "hs") EXCEPT
                      !.state = "SYN_SENT", !.retry = 0,
                      !.snd_seq_q = i, !.snd_una = i, !.snd_nxt = i])), {})
  BY DEF scp_connect
<1> DEFINE s == stream[n]
           u == Start(s, "hs")
           t == [u EXCEPT !.state = "SYN_SENT", !.retry = 0,
                          !.snd_seq_q = i, !.snd_una = i, !.snd_nxt = i]
           x == scp_output_connect(Only(t))
<1>2. s \in Stream /\ Counted(s) /\ i \in Seqs
  BY StepFrom
<1>3. Leave(n, x, {})
  BY <1>1
<1> HIDE DEF s
<1>4. u \in Stream /\ Keeps(s, u)
  BY <1>2 DEF Start, Stream, Timers, Keeps
<1> HIDE DEF u
<1>5. t \in Stream
  <2>1. "SYN_SENT" \in States /\ 0 \in Nat
    BY DEF States
  <2> HIDE DEF Seqs, States
  <2> QED
    BY <1>2, <1>4, <2>1 DEF Stream
<1>6. Keeps(s, t)
  BY <1>4, <1>5 DEF Keeps, Stream
<1> HIDE DEF t
<1>7. Typed(x)
  BY <1>2, <1>6, OnlyTyped, SendsType
<1> HIDE DEF x
<1>8. accepted' = accepted /\ readout' = readout
  BY DEF scp_connect
<1> QED
  BY <1>3, <1>7, <1>8, LeaveKeeps, StepFrom

LEMMA SendKeeps ==
    ASSUME ScpIInv, NEW n \in Ends, NEW len \in SendSizes, scp_send(n, len)
    PROVE  ScpIInv'
<1> DEFINE s == stream[n]
           data == [i \in 1..len |-> accepted[n] + i]
           b == [seq |-> s.snd_seq_q, sent |-> 0, data |-> data]
           q == Append(s.snd_q, b)
           e == Plus(s.snd_seq_q, len)
           t == [s EXCEPT !.snd_q = q, !.snd_seq_q = e]
           x == scp_output(Only(t))
<1>1. /\ s \in Stream /\ Counted(s) /\ accepted[n] \in Nat /\ len \in Nat
  <2>1. len \in Nat
    BY ScpAssumption
  <2> QED
    BY <2>1, StepFrom
<1>2. /\ Leave(n, x, {}) /\ accepted' = [accepted EXCEPT ![n] = @ + len] /\ readout' = readout
  BY DEF scp_send
<1>3. /\ s.snd_q \in Seq(SndBuf) /\ s.snd_seq_q \in Seqs /\ s.snd_seq_q \in Int
  BY <1>1, StreamFields, SeqsAreInt
<1> HIDE DEF s
<1>4. data \in Seq(Nat) /\ Len(data) = len
  BY <1>1
<1> HIDE DEF data
<1>5. b \in SndBuf
  BY <1>1, <1>3, <1>4 DEF SndBuf, Buf, Seqs
<1> HIDE DEF b
<1>6. q \in Seq(SndBuf)
  BY <1>3, <1>5
<1>7. e \in Seqs
  BY <1>1, <1>3, SeqsType
<1> HIDE DEF q, e
<1>8. t \in Stream
  <2> HIDE DEF Seqs
  <2> QED
    BY <1>1, <1>6, <1>7 DEF Stream, SndBuf
<1>9. Keeps(s, t)
  BY <1>1, <1>8 DEF Keeps, Stream
<1> HIDE DEF t
<1>10. Typed(x)
  <2>1. Typed(Only(t))
    BY <1>1, <1>9, OnlyTyped
  <2> QED
    BY <2>1, OutputSends DEF Sends
<1> HIDE DEF x
<1>11. accepted' \in [Ends -> Nat] /\ readout' \in [Ends -> Seq(Nat)]
  <2>1. accepted \in [Ends -> Nat] /\ readout \in [Ends -> Seq(Nat)]
    BY StepFrom
  <2> QED
    BY <1>1, <1>2, <2>1
<1> QED
  BY <1>2, <1>10, <1>11, LeaveKeeps

LEMMA SendFailsKeeps ==
    ASSUME ScpIInv, NEW n \in Ends, NEW len \in SendSizes, scp_send_fails(n, len)
    PROVE  ScpIInv'
<1> DEFINE s == stream[n]
           e == Plus(s.snd_seq_q, len)
           t == [s EXCEPT !.snd_seq_q = e]
<1>1. /\ s \in Stream /\ Counted(s) /\ len \in Int
  <2>1. len \in Int
    BY ScpAssumption
  <2> QED
    BY <2>1, StepFrom
<1>2. stream' = [stream EXCEPT ![n] = t] /\ UNCHANGED <<link, accepted, readout, size>>
  BY DEF scp_send_fails
<1>3. stream \in [Ends -> Stream]
  BY DEF ScpIInv, ScpTypeOK
<1> HIDE DEF s
<1>4. e \in Seqs
  BY <1>1, StreamFields, SeqsType, SeqsAreInt
<1> HIDE DEF e
<1>5. t \in Stream /\ Counted(t)
  <2>1. t \in Stream
    <3> HIDE DEF Seqs
    <3> QED
      BY <1>1, <1>4 DEF Stream
  <2>2. Keeps(s, t)
    BY <1>1, <2>1 DEF Keeps, Stream
  <2> HIDE DEF t
  <2> QED
    BY <1>1, <2>1, <2>2 DEF Keeps, Counted
<1> HIDE DEF t
<1>6. ScpTypeOK'
  BY <1>2, <1>3, <1>5 DEF ScpIInv, ScpTypeOK
<1>7. \A m \in Ends : Counted(stream'[m])
  <2>1. \A m \in Ends : Counted(stream[m])
    BY StepFrom
  <2> QED
    BY <1>2, <1>3, <1>5, <2>1
<1>8. WindowCountsQueued'
  BY <1>7 DEF WindowCountsQueued, Counted
<1> QED
  BY <1>6, <1>8 DEF ScpIInv
LEMMA RecvKeeps ==
    ASSUME ScpIInv, NEW n \in Ends, NEW len \in RecvSizes, scp_recv(n, len)
    PROVE  ScpIInv'
<1> DEFINE s == stream[n]
           d == s.rcv_data_q
           k == Least(len, Len(d))
           rest == SubSeq(d, k + 1, Len(d))
           c == Most(0, s.sb_cc - k)
           u == [s EXCEPT !.rcv_data_q = rest, !.sb_cc = c]
           t == scp_update_rcv_wnd(u)
           x == Only(t)
           y == IF s.rcv_wnd = 0 /\ t.rcv_wnd > 0 THEN scp_output_ack(x) ELSE x
           r == SubSeq(d, 1, k)
<1>1. s \in Stream /\ Counted(s) /\ len \in Nat
  <2>1. len \in Nat
    BY ScpAssumption
  <2> QED
    BY <2>1, StepFrom
<1>2. /\ Leave(n, y, {}) /\ accepted' = accepted
      /\ readout' = [readout EXCEPT ![Peer(n)] = @ \o r]
  BY DEF scp_recv
<1> HIDE DEF s
<1>3. /\ d \in Seq(Nat) /\ s.rcv_buf_q \in Seq(Buf) /\ s.sb_cc \in Nat
  BY <1>1, StreamFields
<1>4. s.sb_cc = Len(d) + Bytes(s.rcv_buf_q)
  BY <1>1 DEF Counted
<1> HIDE DEF d
<1>5. k \in 0..Len(d) /\ Len(d) \in Nat
  BY <1>1, <1>3 DEF Least
<1> HIDE DEF k
<1>6. rest \in Seq(Nat) /\ Len(rest) = Len(d) - k
  BY <1>3, <1>5, SuffixIs
<1>7. r \in Seq(Nat)
  BY <1>3, <1>5
<1> HIDE DEF rest, r
<1>8. c \in Nat /\ c = Len(rest) + Bytes(s.rcv_buf_q)
  <2>1. Bytes(s.rcv_buf_q) \in Nat
    BY <1>3, LengthsAre
  <2> QED
    BY <1>4, <1>5, <1>6, <2>1 DEF Most
<1> HIDE DEF c
<1>9. u \in Stream
  BY <1>1, <1>6, <1>8 DEF Stream
<1>10. u.sb_cc = c /\ u.rcv_data_q = rest /\ u.rcv_buf_q = s.rcv_buf_q
  BY <1>1 DEF Stream
<1> HIDE DEF u
<1>11. Counted(u)
  BY <1>8, <1>10 DEF Counted
<1>12. Received(u, t)
  BY <1>9, <1>11, UpdateWndType
<1> HIDE DEF t
<1>13. Typed(x)
  <2>1. t \in Stream /\ Counted(t) /\ Keeps(t, t)
    BY <1>12 DEF Received, Keeps
  <2> QED
    BY <2>1, OnlyTyped
<1> HIDE DEF x
<1>14. Typed(y)
  BY <1>13, SendsType
<1> HIDE DEF y
<1>15. accepted' \in [Ends -> Nat] /\ readout' \in [Ends -> Seq(Nat)]
  <2>1. accepted \in [Ends -> Nat] /\ readout \in [Ends -> Seq(Nat)]
    BY StepFrom
  <2>2. readout[Peer(n)] \o r \in Seq(Nat)
    <3>1. readout[Peer(n)] \in Seq(Nat)
      BY <2>1, PeerIs
    <3> QED
      BY <1>7, <3>1
  <2> QED
    BY <1>2, <2>1, <2>2
<1> QED
  BY <1>2, <1>14, <1>15, LeaveKeeps

\* A stream given up.
LEMMA FreedTyped == Typed(Only(scp_stream_free))
<1> DEFINE t == scp_stream_free
<1>1. t \in Stream /\ Counted(t) /\ Keeps(t, t)
  BY FreeType DEF Keeps
<1> HIDE DEF t
<1>2. Typed(Only(t))
  BY <1>1, OnlyTyped
<1> QED
  BY <1>2 DEF t

\* The timers and the state change, with or without a retry.
LEMMA TimerType ==
    ASSUME NEW s \in Stream, NEW t \in Timers, NEW st \in States, NEW k \in Nat
    PROVE  /\ Keeps(s, Stop(s, t)) /\ Keeps(s, Start(s, t))
           /\ Keeps(s, [s EXCEPT !.state = st]) /\ Keeps(s, [s EXCEPT !.retry = k])
           /\ Keeps(s, [Start(s, t) EXCEPT !.state = st, !.retry = k])
           /\ Keeps(s, [Start(s, t) EXCEPT !.retry = k])
<1>1. Stop(s, t) \in Stream /\ Start(s, t) \in Stream
  BY DEF Stop, Start, Stream
<1>2. Keeps(s, Stop(s, t)) /\ Keeps(s, Start(s, t))
  BY <1>1 DEF Keeps, Stop, Start, Stream
<1>3. Keeps(s, [s EXCEPT !.state = st]) /\ Keeps(s, [s EXCEPT !.retry = k])
  BY DEF Keeps, Stream
<1> DEFINE u == Start(s, t)
<1>4. u \in Stream /\ Keeps(s, u)
  BY <1>1, <1>2
<1> HIDE DEF u
<1>5. Keeps(s, [u EXCEPT !.state = st, !.retry = k]) /\ Keeps(s, [u EXCEPT !.retry = k])
  BY <1>4 DEF Keeps, Stream
<1> QED
  BY <1>2, <1>3, <1>5 DEF u

LEMMA CloseKeeps ==
    ASSUME ScpIInv, NEW n \in Ends, scp_close(n)
    PROVE  ScpIInv'
<1> DEFINE s == stream[n]
           t == [Start(s, "fin") EXCEPT !.state = "FIN_WAIT", !.retry = 0]
           x == scp_output_fin_first(Only(t))
           f == Only(scp_stream_free)
<1>1. s \in Stream /\ Counted(s)
  BY StepFrom
<1>2. (Leave(n, x, {}) \/ Leave(n, f, {})) /\ UNCHANGED <<accepted, readout>>
  BY DEF scp_close
<1> HIDE DEF s
<1>3. Keeps(s, t)
  <2>1. "fin" \in Timers /\ "FIN_WAIT" \in States /\ 0 \in Nat
    BY DEF Timers, States
  <2> QED
    BY <1>1, <2>1, TimerType
<1> HIDE DEF t
<1>4. Typed(x) /\ Typed(f)
  BY <1>1, <1>3, OnlyTyped, SendsType, FreedTyped
<1> HIDE DEF x, f
<1>5. accepted' \in [Ends -> Nat] /\ readout' \in [Ends -> Seq(Nat)]
  BY <1>2, StepFrom
<1> QED
  BY <1>2, <1>4, <1>5, LeaveKeeps

LEMMA InputKeeps ==
    ASSUME ScpIInv, NEW n \in Ends, scp_input(n)
    PROVE  ScpIInv'
<1>1. PICK m \in {m \in link : m[1] = n}, i \in Iss[n] :
         Leave(n, Processed(stream[n], m[2], i), {m})
  BY DEF scp_input
<1>2. accepted' = accepted /\ readout' = readout
  BY DEF scp_input
<1> DEFINE p == m[2]
           x == Processed(stream[n], p, i)
<1>3. p \in PacketType
  BY DEF ScpIInv, ScpTypeOK
<1>4. i \in Seqs /\ stream[n] \in Stream /\ Counted(stream[n])
  BY StepFrom
<1>5. Leave(n, x, {m})
  BY <1>1
<1> HIDE DEF p
<1>6. Typed(x)
  BY <1>3, <1>4, ProcessedType
<1> HIDE DEF x
<1>7. accepted' \in [Ends -> Nat] /\ readout' \in [Ends -> Seq(Nat)]
  BY <1>2, StepFrom
<1> QED
  BY <1>5, <1>6, <1>7, LeaveKeeps

LEMMA HandshakeTimeoutKeeps ==
    ASSUME ScpIInv, NEW n \in Ends, scp_handle_handshake_timeout(n)
    PROVE  ScpIInv'
<1> DEFINE s == Stop(stream[n], "hs")
           c == [s EXCEPT !.state = "CLOSED"]
           a == [Start(s, "hs") EXCEPT !.retry = s.retry + 1]
           x == scp_output_connect(Only(a))
           y == scp_output_connect_ack(Only(a))
<1>1. \/ Leave(n, Only(s), {}) \/ Leave(n, Only(c), {})
      \/ Leave(n, x, {}) \/ Leave(n, y, {})
  <2>1. [Start(s, "hs") EXCEPT !.retry = @ + 1] = a
    BY DEF Start
  <2> QED
    BY <2>1 DEF scp_handle_handshake_timeout
<1>2. accepted' = accepted /\ readout' = readout
  BY DEF scp_handle_handshake_timeout
<1>3. "hs" \in Timers /\ "CLOSED" \in States
  BY Zenon DEF Timers, States
<1>4. Keeps(stream[n], s)
  BY <1>3, TimerType, StepFrom, Zenon DEF States
<1>5. s \in Stream /\ Counted(s)
  <2> HIDE DEF s
  <2> QED
    BY <1>4, StepFrom DEF Keeps, Counted
<1> HIDE DEF s
<1>6. Keeps(s, c) /\ Keeps(s, a) /\ Keeps(s, s)
  <2>1. s.retry + 1 \in Nat
    BY <1>5, StreamFields
  <2>2. Keeps(s, s)
    BY <1>5 DEF Keeps
  <2> QED
    BY <1>3, <1>5, <2>1, <2>2, TimerType
<1> HIDE DEF c, a
<1>7. Typed(Only(s)) /\ Typed(Only(c)) /\ Typed(x) /\ Typed(y)
  <2>1. Typed(Only(a)) /\ Typed(Only(s)) /\ Typed(Only(c))
    BY <1>5, <1>6, OnlyTyped
  <2> QED
    BY <2>1, SendsType
<1> HIDE DEF x, y
<1>8. accepted' \in [Ends -> Nat] /\ readout' \in [Ends -> Seq(Nat)]
  BY <1>2, StepFrom
<1> QED
  BY <1>1, <1>7, <1>8, LeaveKeeps

LEMMA FinTimeoutKeeps ==
    ASSUME ScpIInv, NEW n \in Ends, scp_handle_fin_timeout(n)
    PROVE  ScpIInv'
<1> DEFINE s == stream[n]
           t == Stop(s, "fin")
           a == [s EXCEPT !.retry = s.retry + 1]
           f == Only(scp_stream_free)
           x == scp_output_fin_retrans(Only(a))
<1>1. Leave(n, Only(t), {}) \/ Leave(n, f, {}) \/ Leave(n, x, {})
  BY DEF scp_handle_fin_timeout
<1>2. accepted' = accepted /\ readout' = readout
  BY DEF scp_handle_fin_timeout
<1>3. s \in Stream /\ Counted(s) /\ "fin" \in Timers
  BY StepFrom DEF Timers
<1> HIDE DEF s
<1>4. Keeps(s, t) /\ Keeps(s, a)
  <2>1. s.retry + 1 \in Nat /\ s.state \in States
    BY <1>3, StreamFields
  <2> QED
    BY <1>3, <2>1, TimerType
<1> HIDE DEF t, a
<1>5. Typed(Only(t)) /\ Typed(x) /\ Typed(f)
  <2>1. Typed(Only(a)) /\ Typed(Only(t))
    BY <1>3, <1>4, OnlyTyped
  <2> QED
    BY <2>1, SendsType, FreedTyped
<1> HIDE DEF x, f
<1>6. accepted' \in [Ends -> Nat] /\ readout' \in [Ends -> Seq(Nat)]
  BY <1>2, StepFrom
<1> QED
  BY <1>1, <1>5, <1>6, LeaveKeeps
LEMMA RetransKeeps ==
    ASSUME ScpIInv, NEW n \in Ends, scp_timer_retrans_cb(n)
    PROVE  ScpIInv'
<1> DEFINE s == stream[n]
           h == HalfFlight(s)
           k == s.timeout_count + 1
           t == [s EXCEPT !.ssthresh = h, !.cwnd = Mss, !.dup_acks = 0,
                          !.fr_active = FALSE, !.timeout_count = k]
           x(m) == scp_retransmit(Only(t), m)
           f(m) == [x(m) EXCEPT !.s = scp_stream_free]
<1>1. PICK m \in FragCounts : Leave(n, f(m), {}) \/ Leave(n, x(m), {})
  <2>1. t = [s EXCEPT !.ssthresh = HalfFlight(s), !.cwnd = Mss, !.dup_acks = 0,
                      !.fr_active = FALSE, !.timeout_count = @ + 1]
    OBVIOUS
  <2> HIDE DEF t
  <2> QED
    BY <2>1 DEF scp_timer_retrans_cb
<1>2. accepted' = accepted /\ readout' = readout
  BY DEF scp_timer_retrans_cb
<1>3. s \in Stream /\ Counted(s)
  BY StepFrom
<1> HIDE DEF s
<1>4. h \in Nat /\ k \in Nat /\ Mss \in Nat
  <2>1. h \in Nat
    BY <1>3, GrowType
  <2>2. s.timeout_count \in Nat
    BY <1>3, StreamFields
  <2> HIDE DEF h
  <2> QED
    BY <2>1, <2>2, SizesAre
<1> HIDE DEF h, k
<1>5. t \in Stream
  <2> DEFINE u == [s EXCEPT !.dup_acks = 0, !.fr_active = FALSE]
  <2>1. 0 \in 0..4 /\ FALSE \in BOOLEAN
    OBVIOUS
  <2>2. u \in Stream
    BY <1>3, <2>1 DEF Stream
  <2>3. t = [u EXCEPT !.ssthresh = h, !.cwnd = Mss, !.timeout_count = k]
    BY <1>3 DEF Stream
  <2> HIDE DEF u, t
  <2> QED
    BY <1>4, <2>2, <2>3 DEF Stream
<1>6. Keeps(s, t)
  BY <1>3, <1>5 DEF Keeps, Stream
<1> HIDE DEF t
<1>7. Typed(x(m))
  <2>1. Typed(Only(t))
    BY <1>3, <1>6, OnlyTyped
  <2> QED
    BY <2>1, RetransmitSends DEF Sends
<1>8. Typed(f(m))
  <2> DEFINE y == x(m)
             u == scp_stream_free
  <2>1. Typed(y)
    BY <1>7
  <2>2. u \in Stream /\ Counted(u)
    BY FreeType
  <2> HIDE DEF y, u
  <2>3. [y EXCEPT !.s = u] = [s |-> u, out |-> y.out]
    BY <2>1 DEF Typed
  <2>4. Typed([y EXCEPT !.s = u])
    BY <2>1, <2>2, <2>3 DEF Typed
  <2> QED
    BY <2>4 DEF y, u
<1> HIDE DEF x, f
<1>9. accepted' \in [Ends -> Nat] /\ readout' \in [Ends -> Seq(Nat)]
  BY <1>2, StepFrom
<1> QED
  BY <1>1, <1>7, <1>8, <1>9, LeaveKeeps

LEMMA PersistKeeps ==
    ASSUME ScpIInv, NEW n \in Ends, scp_timer_persist_cb(n)
    PROVE  ScpIInv'
<1> DEFINE s == stream[n]
           k(idle) == IF idle THEN s.idle_failures + 1 ELSE s.idle_failures
           t(idle) == [s EXCEPT !.idle_failures = k(idle)]
           x(idle) == Only(t(idle))
           y(idle) == scp_send_window_probe(x(idle))
           f == Only(scp_stream_free)
<1>1. PICK idle \in BOOLEAN :
         Leave(n, f, {}) \/ Leave(n, y(idle), {}) \/ Leave(n, x(idle), {})
  <2>1. \A idle \in BOOLEAN :
           t(idle) = [s EXCEPT !.idle_failures = IF idle THEN @ + 1 ELSE @]
    OBVIOUS
  <2> HIDE DEF t
  <2> QED
    BY <2>1 DEF scp_timer_persist_cb
<1>2. accepted' = accepted /\ readout' = readout
  BY DEF scp_timer_persist_cb
<1>3. s \in Stream /\ Counted(s)
  BY StepFrom
<1> HIDE DEF s
<1>4. k(idle) \in Nat
  BY <1>3, StreamFields
<1> HIDE DEF k
<1>5. t(idle) \in Stream
  BY <1>3, <1>4 DEF Stream
<1>6. Keeps(s, t(idle))
  BY <1>3, <1>5 DEF Keeps, Stream
<1> HIDE DEF t
<1>7. Typed(x(idle))
  BY <1>3, <1>6, OnlyTyped
<1> HIDE DEF x
<1>8. Typed(y(idle)) /\ Typed(f)
  BY <1>7, SendsType, FreedTyped
<1> HIDE DEF y, f
<1>9. accepted' \in [Ends -> Nat] /\ readout' \in [Ends -> Seq(Nat)]
  BY <1>2, StepFrom
<1> QED
  BY <1>1, <1>7, <1>8, <1>9, LeaveKeeps

LEMMA NextKeeps ==
    ASSUME ScpIInv, [ScpNext]_scp_vars
    PROVE  ScpIInv'
<1>1. CASE ScpNext
  <2>1. PICK n \in Ends :
          \/ scp_connect(n) \/ scp_close(n) \/ scp_input(n)
          \/ \E len \in SendSizes : scp_send(n, len) \/ scp_send_fails(n, len)
          \/ \E len \in RecvSizes : scp_recv(n, len)
          \/ scp_handle_handshake_timeout(n) \/ scp_handle_fin_timeout(n)
          \/ scp_timer_retrans_cb(n) \/ scp_timer_persist_cb(n)
    BY <1>1 DEF ScpNext
  <2>2. CASE scp_connect(n)
    BY <2>2, ConnectKeeps
  <2>3. CASE scp_close(n)
    BY <2>3, CloseKeeps
  <2>4. CASE scp_input(n)
    BY <2>4, InputKeeps
  <2>5. CASE \E len \in SendSizes : scp_send(n, len) \/ scp_send_fails(n, len)
    BY <2>5, SendKeeps, SendFailsKeeps
  <2>6. CASE \E len \in RecvSizes : scp_recv(n, len)
    BY <2>6, RecvKeeps
  <2>7. CASE scp_handle_handshake_timeout(n)
    BY <2>7, HandshakeTimeoutKeeps
  <2>8. CASE scp_handle_fin_timeout(n)
    BY <2>8, FinTimeoutKeeps
  <2>9. CASE scp_timer_retrans_cb(n)
    BY <2>9, RetransKeeps
  <2>10. CASE scp_timer_persist_cb(n)
    BY <2>10, PersistKeeps
  <2> QED
    BY <2>1, <2>2, <2>3, <2>4, <2>5, <2>6, <2>7, <2>8, <2>9, <2>10
<1>2. CASE UNCHANGED scp_vars
  BY <1>2 DEF scp_vars, ScpIInv, ScpTypeOK, WindowCountsQueued
<1> QED
  BY <1>1, <1>2

\* Whatever the peer sends, and whatever the link loses or turns round, every
\* field of a stream, every buffer and every packet keeps its type: sequence
\* numbers stay in 32 bits, no buffer counts more bytes as sent than it has.
THEOREM ScpTypeCorrect == ScpSpec => []ScpTypeOK
<1>1. ScpInit => ScpIInv
  BY InitKeeps
<1>2. ScpIInv /\ [ScpNext]_scp_vars => ScpIInv'
  BY NextKeeps
<1>3. ScpIInv => ScpTypeOK
  BY DEF ScpIInv
<1> QED
  BY <1>1, <1>2, <1>3, PTL DEF ScpSpec

\* scp_process_data, scp_recv and scp_update_rcv_wnd: in every state sb_cc, from
\* which the receive window is computed, is the number of bytes that wait for
\* the reader and in the tree, however packets overlapped, were cut or dropped.
THEOREM WindowIsExact == ScpSpec => []WindowCountsQueued
<1>1. ScpInit => ScpIInv
  BY InitKeeps
<1>2. ScpIInv /\ [ScpNext]_scp_vars => ScpIInv'
  BY NextKeeps
<1>3. ScpIInv => WindowCountsQueued
  BY DEF ScpIInv
<1> QED
  BY <1>1, <1>2, <1>3, PTL DEF ScpSpec
-----------------------------------------------------------------------------
(***************************************************************************)
(* The bytes of one direction.  A line says where they stand: the first    *)
(* byte has number first, used numbers are taken, and before the first of  *)
(* them that no byte has, because scp_send failed, there are whole ones.   *)
(***************************************************************************)
Lines == [first : Seqs, whole : Nat, used : Nat]
Line(L) == L \in Lines /\ L.whole <= L.used /\ L.used < SeqSpace \div 2

\* How far a number is from the first one.
At(L, seq) == Diff(seq, L.first)
EndAt(L, b) == At(L, b.seq) + Len(b.data)

\* A buffer or a packet carries the bytes that belong to its numbers, or lies
\* behind the numbers no byte has.
Piece(L, b) ==
    /\ EndAt(L, b) <= L.used
    /\ \/ /\ EndAt(L, b) <= L.whole
          /\ \A i \in 1..Len(b.data) : b.data[i] = At(L, b.seq) + i
       \/ At(L, b.seq) > L.whole

\* Where the number k behind another one stands.
LEMMA AtPlus ==
    ASSUME NEW L, Line(L), NEW seq \in Seqs, NEW k \in Nat, At(L, seq) + k < SeqSpace
    PROVE  /\ At(L, Plus(seq, k)) = At(L, seq) + k /\ At(L, seq) \in Nat
           /\ Plus(seq, k) \in Seqs
<1> DEFINE S == SeqSpace
           f == L.first
           a == At(L, seq)
           p == Plus(seq, k)
<1>1. S \in Nat /\ S > 0 /\ f \in 0..(S - 1) /\ seq \in 0..(S - 1)
  BY SpaceIs DEF Line, Lines, Seqs
<1>2. a = (seq - f) % S /\ p = (seq + k) % S
  BY DEF At, Diff, Plus
<1>3. At(L, p) = (p - f) % S
  BY DEF At, Diff
<1>4. a + k < S
  OBVIOUS
<1> HIDE DEF S, f, a, p
<1>5. a \in Nat /\ p \in 0..(S - 1)
  BY <1>1, <1>2
<1>6. (p - f) % S = a + k
  <2>1. CASE seq >= f /\ seq + k < S
    <3>1. a = seq - f /\ p = seq + k
      BY <1>1, <1>2, <2>1, Remainders
    <3>2. (p - f) % S = p - f
      BY <1>1, <2>1, <3>1, Remainders
    <3> QED
      BY <1>1, <3>1, <3>2
  <2>2. CASE seq >= f /\ seq + k >= S
    <3>1. a = seq - f
      BY <1>1, <1>2, <2>2, Remainders
    <3>2. p = (seq + k) - S
      BY <1>1, <1>2, <1>4, <2>2, <3>1, Remainders
    <3>3. (p - f) % S = (p - f) + S
      BY <1>1, <1>4, <2>2, <3>1, <3>2, Remainders
    <3> QED
      BY <1>1, <3>1, <3>2, <3>3
  <2>3. CASE seq < f
    <3>1. a = (seq - f) + S
      BY <1>1, <1>2, <2>3, Remainders
    <3>2. p = seq + k
      BY <1>1, <1>2, <1>4, <3>1, Remainders
    <3>3. (p - f) % S = (p - f) + S
      BY <1>1, <1>4, <3>1, <3>2, Remainders
    <3> QED
      BY <1>1, <3>1, <3>2, <3>3
  <2> QED
    BY <1>1, <2>1, <2>2, <2>3
<1>7. At(L, p) = a + k
  BY <1>3, <1>6
<1> QED
  BY <1>5, <1>7 DEF a, p, S, Seqs

\* The macros compare numbers of one line as their places compare.
LEMMA AtOrder ==
    ASSUME NEW L, Line(L), NEW a \in Seqs, NEW b \in Seqs,
           At(L, a) <= L.used, At(L, b) <= L.used
    PROVE  /\ SEQ_LT(a, b) <=> At(L, a) < At(L, b)
           /\ SEQ_GT(a, b) <=> At(L, a) > At(L, b)
           /\ At(L, a) >= At(L, b) => Diff(a, b) = At(L, a) - At(L, b)
           /\ At(L, a) \in Nat /\ At(L, b) \in Nat
<1> DEFINE S == SeqSpace
           H == SeqSpace \div 2
           f == L.first
           u == At(L, a)
           v == At(L, b)
           d == Diff(a, b)
<1>1. /\ S \in Nat /\ S > 0 /\ f \in 0..(S - 1) /\ a \in 0..(S - 1) /\ b \in 0..(S - 1)
      /\ H \in Nat /\ S = 2 * H
  BY SpaceIs DEF Line, Lines, Seqs
<1>2. u = (a - f) % S /\ v = (b - f) % S /\ d = (a - b) % S
  BY DEF At, Diff
<1>3. u < H /\ v < H /\ u \in Nat /\ v \in Nat
  <2>1. L.used < H /\ L.used \in Nat
    BY DEF Line, Lines
  <2>2. u \in Nat /\ v \in Nat
    BY <1>1, <1>2
  <2> QED
    BY <1>1, <2>1, <2>2
<1>4. (SEQ_LT(a, b) <=> d >= H) /\ (SEQ_GT(a, b) <=> d \in 1..(H - 1))
  BY DEF SEQ_LT, SEQ_GT
<1> HIDE DEF S, H, f, u, v, d
<1>5. (u = a - f \/ u = (a - f) + S) /\ (v = b - f \/ v = (b - f) + S)
  BY <1>1, <1>2, Remainders
<1>6. u >= v => d = u - v
  <2> SUFFICES ASSUME u >= v PROVE d = u - v
    OBVIOUS
  <2>1. CASE a - b = u - v
    BY <1>1, <1>2, <1>3, <2>1, Remainders
  <2>2. CASE a - b = (u - v) - S
    BY <1>1, <1>2, <1>3, <2>2, Remainders
  <2>3. CASE a - b = (u - v) + S
    BY <1>1, <1>3, <2>3
  <2> QED
    BY <1>1, <1>3, <1>5, <2>1, <2>2, <2>3
<1>7. u < v => d = (u - v) + S
  <2> SUFFICES ASSUME u < v PROVE d = (u - v) + S
    OBVIOUS
  <2>1. CASE a - b = u - v
    BY <1>1, <1>2, <1>3, <2>1, Remainders
  <2>2. CASE a - b = (u - v) - S
    BY <1>1, <1>3, <2>2
  <2>3. CASE a - b = (u - v) + S
    BY <1>1, <1>2, <1>3, <2>3, Remainders
  <2> QED
    BY <1>1, <1>3, <1>5, <2>1, <2>2, <2>3
<1>8. (d >= H <=> u < v) /\ (d \in 1..(H - 1) <=> u > v)
  BY <1>1, <1>3, <1>6, <1>7
<1> QED
  BY <1>3, <1>4, <1>6, <1>8 DEF u, v, d

\* c carries some bytes of b, with the numbers they have in b.
Part(c, b) ==
    \E lo \in Nat, hi \in Nat :
       /\ lo <= hi /\ hi <= Len(b.data)
       /\ c.seq = Plus(b.seq, lo) /\ c.data = SubSeq(b.data, lo + 1, hi)

Numbered(b) == b.seq \in Seqs /\ b.data \in Seq(Nat)

\* A part of a piece is a piece.
LEMMA PartPiece ==
    ASSUME NEW L, Line(L), NEW b, Numbered(b), Piece(L, b), NEW c, Part(c, b)
    PROVE  Piece(L, c) /\ Numbered(c)
<1>1. PICK lo \in Nat, hi \in Nat :
         /\ lo <= hi /\ hi <= Len(b.data)
         /\ c.seq = Plus(b.seq, lo) /\ c.data = SubSeq(b.data, lo + 1, hi)
  BY DEF Part
<1>2. b.seq \in Seqs /\ b.data \in Seq(Nat) /\ Len(b.data) \in Nat
  BY DEF Numbered
<1>3. L.used \in Nat /\ L.whole \in Nat /\ L.used < SeqSpace
  <2>1. L.used \in Nat /\ L.whole \in Nat /\ L.used < SeqSpace \div 2
    BY DEF Line, Lines
  <2> QED
    BY <2>1, SpaceIs
<1>4. At(L, b.seq) \in Nat /\ At(L, b.seq) + Len(b.data) <= L.used
  <2>1. At(L, b.seq) \in Nat
    BY <1>2, SeqsType, SeqsAreInt DEF At, Line, Lines
  <2> QED
    BY <2>1 DEF Piece, EndAt
<1>5. At(L, b.seq) + lo < SeqSpace
  <2> HIDE DEF At
  <2> QED
    BY <1>1, <1>2, <1>3, <1>4, SpaceIs
<1>6. At(L, c.seq) = At(L, b.seq) + lo /\ c.seq \in Seqs
  BY <1>1, <1>2, <1>5, AtPlus
<1>7. /\ c.data \in Seq(Nat) /\ Len(c.data) = hi - lo
      /\ \A i \in 1..(hi - lo) : lo + i \in 1..Len(b.data) /\ c.data[i] = b.data[lo + i]
  <2> DEFINE d == b.data
  <2>1. d \in Seq(Nat) /\ lo <= hi /\ hi <= Len(d) /\ c.data = SubSeq(d, lo + 1, hi)
    BY <1>1, <1>2
  <2> HIDE DEF d
  <2>2. /\ SubSeq(d, lo + 1, hi) \in Seq(Nat) /\ Len(SubSeq(d, lo + 1, hi)) = hi - lo
        /\ \A i \in 1..(hi - lo) :
              lo + i \in 1..Len(d) /\ SubSeq(d, lo + 1, hi)[i] = d[lo + i]
    BY <2>1, PartOfSequence
  <2> QED
    BY <2>1, <2>2 DEF d
<1>8. EndAt(L, c) <= EndAt(L, b) /\ EndAt(L, b) \in Nat /\ EndAt(L, c) \in Nat
  <2>1. EndAt(L, b) = At(L, b.seq) + Len(b.data) /\ EndAt(L, c) = (At(L, b.seq) + lo) + (hi - lo)
    BY <1>6, <1>7 DEF EndAt
  <2> QED
    BY <1>1, <1>2, <1>4, <2>1
<1>9. \/ /\ EndAt(L, c) <= L.whole
         /\ \A i \in 1..Len(c.data) : c.data[i] = At(L, c.seq) + i
      \/ At(L, c.seq) > L.whole
  <2>1. CASE /\ EndAt(L, b) <= L.whole
             /\ \A i \in 1..Len(b.data) : b.data[i] = At(L, b.seq) + i
    <3>1. EndAt(L, c) <= L.whole
      BY <1>3, <1>8, <2>1
    <3>2. ASSUME NEW i \in 1..(hi - lo) PROVE c.data[i] = (At(L, b.seq) + lo) + i
      <4>1. lo + i \in 1..Len(b.data) /\ c.data[i] = b.data[lo + i]
        BY <1>7
      <4>2. c.data[i] = At(L, b.seq) + (lo + i)
        BY <2>1, <4>1
      <4> QED
        BY <1>1, <1>4, <4>2
    <3> QED
      BY <1>6, <1>7, <3>1, <3>2
  <2>2. CASE At(L, b.seq) > L.whole
    BY <1>3, <1>4, <1>6, <2>2
  <2> QED
    BY <2>1, <2>2 DEF Piece
<1>10. EndAt(L, c) <= L.used
  <2>1. EndAt(L, b) <= L.used
    BY DEF Piece
  <2> QED
    BY <1>3, <1>8, <2>1
<1> QED
  BY <1>6, <1>7, <1>9, <1>10 DEF Piece, Numbered

\* More numbers are used; bytes are added while there is no gap.
Grows(L, N) ==
    /\ Line(L) /\ Line(N) /\ N.first = L.first
    /\ N.used >= L.used /\ N.whole >= L.whole
    /\ N.whole = L.whole \/ L.whole = L.used

LEMMA PieceGrows ==
    ASSUME NEW L, NEW N, Grows(L, N), NEW b, Numbered(b), Piece(L, b)
    PROVE  Piece(N, b)
<1>1. /\ L.used \in Nat /\ L.whole \in Nat /\ N.used \in Nat /\ N.whole \in Nat
      /\ L.whole <= L.used
  BY DEF Grows, Line, Lines
<1>2. At(N, b.seq) = At(L, b.seq) /\ EndAt(N, b) = EndAt(L, b)
  BY DEF Grows, At, EndAt
<1>3. At(L, b.seq) \in Nat /\ Len(b.data) \in Nat
  <2>1. b.seq \in Seqs /\ b.data \in Seq(Nat) /\ L.first \in Seqs
    BY DEF Numbered, Grows, Line, Lines
  <2>2. b.seq \in Int /\ L.first \in Int
    BY <2>1, SeqsAreInt
  <2>3. At(L, b.seq) \in Seqs
    BY <2>2, SeqsType DEF At
  <2> QED
    BY <2>1, <2>3, SeqsAreInt
<1>4. EndAt(L, b) = At(L, b.seq) + Len(b.data)
  BY DEF EndAt
<1>5. N.used >= L.used /\ N.whole >= L.whole /\ (N.whole = L.whole \/ L.whole = L.used)
  BY DEF Grows
<1>6. EndAt(N, b) <= N.used
  <2>1. EndAt(L, b) <= L.used
    BY DEF Piece
  <2> QED
    BY <1>1, <1>2, <1>3, <1>4, <1>5, <2>1
<1>7. CASE /\ EndAt(L, b) <= L.whole
           /\ \A i \in 1..Len(b.data) : b.data[i] = At(L, b.seq) + i
  <2>1. EndAt(N, b) <= N.whole
    BY <1>1, <1>2, <1>3, <1>4, <1>5, <1>7
  <2> QED
    BY <1>2, <1>6, <1>7, <2>1 DEF Piece
<1>8. CASE At(L, b.seq) > L.whole
  <2>1. At(L, b.seq) <= L.used
    <3>1. EndAt(L, b) <= L.used
      BY DEF Piece
    <3> QED
      BY <1>1, <1>3, <1>4, <3>1
  <2>2. N.whole = L.whole
    BY <1>1, <1>3, <1>5, <1>8, <2>1
  <2> QED
    BY <1>2, <1>6, <1>8, <2>2 DEF Piece
<1> QED
  BY <1>7, <1>8 DEF Piece
-----------------------------------------------------------------------------
(***************************************************************************)
(* What a stream has sent, what came to it, what is on its way.            *)
(***************************************************************************)
Fresh == {"CLOSED", "SYN_SENT", "SYN_RECV"}

\* s took acc bytes from its application; they leave along L.
Outgoing(L, s, acc) ==
    /\ L.whole <= acc
    /\ \A i \in DOMAIN s.snd_q : Piece(L, s.snd_q[i])
    /\ s.state \in Fresh => acc = 0 /\ L.used = 0 /\ s.snd_q = <<>>
    /\ s.state \in {"SYN_SENT", "SYN_RECV"} => s.snd_nxt = L.first /\ s.snd_seq_q = L.first
    /\ s.state = "ESTABLISHED" =>
          At(L, s.snd_seq_q) = L.used /\ (L.whole = L.used => acc = L.used)

\* What was read, r, and what is to read next, are the bytes 1, 2, ...
Counting(w) == w \in Seq(Nat) /\ \A i \in 1..Len(w) : w[i] = i
Came(s, r) == r \o s.rcv_data_q
Incoming(L, s, r) ==
    /\ Counting(Came(s, r)) /\ Len(Came(s, r)) <= L.whole
    /\ \A i \in DOMAIN s.rcv_buf_q : Piece(L, s.rcv_buf_q[i])
    /\ s.state \in Fresh => r = <<>> /\ s.rcv_data_q = <<>> /\ s.rcv_buf_q = <<>>
    /\ s.state = "SYN_RECV" => s.rcv_nxt = L.first
    /\ s.state = "ESTABLISHED" => At(L, s.rcv_nxt) = Len(Came(s, r))

PacketOf(L, p) ==
    /\ p.kind = "DATA" => Piece(L, p)
    /\ p.kind \in {"CONNECT", "CONNECT_ACK"} => p.seq = L.first

\* A stream, and the packets it sends, with the line L of what leaves it and
\* the line M of what comes: a handler takes one that is good to one that is.
Good(L, M, acc, r, x) ==
    /\ Typed(x) /\ Line(L) /\ Line(M) /\ acc \in Nat /\ r \in Seq(Nat)
    /\ Outgoing(L, x.s, acc) /\ Incoming(M, x.s, r)
    /\ \A p \in x.out : PacketOf(L, p)

LEMMA SameOutgoing ==
    ASSUME NEW L, NEW acc, NEW s, NEW t, Outgoing(L, s, acc),
           t.state = s.state, t.snd_q = s.snd_q, t.snd_seq_q = s.snd_seq_q,
           t.snd_nxt = s.snd_nxt
    PROVE  Outgoing(L, t, acc)
BY DEF Outgoing

LEMMA SameIncoming ==
    ASSUME NEW M, NEW r, NEW s, NEW t, Incoming(M, s, r),
           t.state = s.state, t.rcv_nxt = s.rcv_nxt, t.rcv_data_q = s.rcv_data_q,
           t.rcv_buf_q = s.rcv_buf_q
    PROVE  Incoming(M, t, r)
BY DEF Incoming, Came

LEMMA BufNumbered ==
    /\ \A b \in Buf : Numbered(b)
    /\ \A p \in PacketType : Numbered(p)
BY DEF Buf, PacketType, Numbered, Seqs

LEMMA SlicePiece ==
    ASSUME NEW L, Line(L), NEW b, Numbered(b), Piece(L, b), NEW p, SliceOf(p, b)
    PROVE  PacketOf(L, p)
<1>1. p.kind = "DATA" /\ Part(p, b)
  <2>1. PICK lo \in Nat, hi \in Nat :
          /\ lo < hi /\ hi <= Len(b.data)
          /\ p.seq = Plus(b.seq, lo) /\ p.data = SubSeq(b.data, lo + 1, hi)
    BY DEF SliceOf
  <2>2. lo <= hi
    BY <2>1
  <2>3. Part(p, b)
    BY <2>1, <2>2 DEF Part
  <2> QED
    BY <2>3 DEF SliceOf
<1>2. Piece(L, p)
  BY <1>1, PartPiece
<1> QED
  BY <1>1, <1>2 DEF PacketOf

LEMMA NothingInside ==
    ASSUME NEW S, NEW q \in Seq(S), DOMAIN q = {}
    PROVE  q = <<>>
<1>1. Len(q) \in Nat /\ DOMAIN q = 1..Len(q)
  OBVIOUS
<1>2. Len(q) = 0
  <2>1. Len(q) > 0 => 1 \in 1..Len(q)
    BY <1>1
  <2> QED
    BY <1>1, <2>1
<1> QED
  BY <1>2

\* A handler that sends what waits.
LEMMA SendsGood ==
    ASSUME NEW L, NEW M, NEW acc, NEW r, NEW x, Good(L, M, acc, r, x), NEW y, Sends(x, y)
    PROVE  Good(L, M, acc, r, y)
<1>1. /\ Typed(x) /\ Line(L) /\ Line(M) /\ acc \in Nat /\ r \in Seq(Nat)
      /\ Outgoing(L, x.s, acc) /\ Incoming(M, x.s, r)
      /\ \A p \in x.out : PacketOf(L, p)
  BY DEF Good
<1>2. /\ Typed(y) /\ y.s.state = x.s.state /\ y.s.snd_seq_q = x.s.snd_seq_q
      /\ y.s.rcv_nxt = x.s.rcv_nxt /\ y.s.rcv_data_q = x.s.rcv_data_q
      /\ y.s.rcv_buf_q = x.s.rcv_buf_q
      /\ \A i \in DOMAIN y.s.snd_q :
            \E j \in DOMAIN x.s.snd_q : SameBytes(y.s.snd_q[i], x.s.snd_q[j])
  BY DEF Sends
<1>3. PICK P : /\ y.out = x.out \cup P /\ SlicesOf(P, x.s.snd_q)
               /\ y.s.snd_nxt = x.s.snd_nxt \/ \E p \in P : y.s.snd_nxt = End(p)
  BY DEF Sends
<1>4. Incoming(M, y.s, r)
  BY <1>1, <1>2, SameIncoming
<1>5. \A i \in DOMAIN x.s.snd_q : Piece(L, x.s.snd_q[i]) /\ Numbered(x.s.snd_q[i])
  <2>1. x.s.snd_q \in Seq(SndBuf)
    BY <1>1, StreamFields DEF Typed
  <2>2. \A i \in DOMAIN x.s.snd_q : x.s.snd_q[i] \in Buf
    BY <2>1 DEF SndBuf
  <2> QED
    BY <1>1, <2>2, BufNumbered DEF Outgoing
<1>6. \A p \in P : PacketOf(L, p)
  <2> SUFFICES ASSUME NEW p \in P PROVE PacketOf(L, p)
    OBVIOUS
  <2>1. PICK i \in DOMAIN x.s.snd_q : SliceOf(p, x.s.snd_q[i])
    BY <1>3 DEF SlicesOf
  <2> DEFINE b == x.s.snd_q[i]
  <2>2. Piece(L, b) /\ Numbered(b) /\ SliceOf(p, b)
    BY <1>5, <2>1
  <2> HIDE DEF b
  <2> QED
    BY <1>1, <2>2, SlicePiece
<1>7. \A i \in DOMAIN y.s.snd_q : Piece(L, y.s.snd_q[i])
  <2>1. \A b, c : SameBytes(b, c) /\ Piece(L, c) => Piece(L, b)
    BY DEF SameBytes, Piece, EndAt
  <2> QED
    BY <1>2, <1>5, <2>1
<1>8. x.s.state \in Fresh => y.s.snd_q = <<>> /\ y.s.snd_nxt = x.s.snd_nxt
  <2> SUFFICES ASSUME x.s.state \in Fresh PROVE y.s.snd_q = <<>> /\ y.s.snd_nxt = x.s.snd_nxt
    OBVIOUS
  <2>1. DOMAIN x.s.snd_q = {}
    BY <1>1 DEF Outgoing
  <2>2. y.s.snd_q \in Seq(SndBuf)
    BY <1>2, StreamFields DEF Typed
  <2>3. DOMAIN y.s.snd_q = {}
    BY <1>2, <2>1
  <2>4. y.s.snd_q = <<>>
    BY <2>2, <2>3, NothingInside
  <2>5. P = {}
    BY <1>3, <2>1 DEF SlicesOf
  <2> QED
    BY <1>3, <2>4, <2>5
<1>9. Outgoing(L, y.s, acc)
  BY <1>1, <1>2, <1>7, <1>8 DEF Outgoing, Fresh
<1> QED
  BY <1>1, <1>2, <1>3, <1>4, <1>6, <1>9 DEF Good

\* An acknowledgement, a probe or a FIN carries no bytes.
LEMMA EmitGood ==
    ASSUME NEW L, NEW M, NEW acc, NEW r, NEW x, Good(L, M, acc, r, x),
           NEW p \in PacketType, PacketOf(L, p)
    PROVE  Good(L, M, acc, r, Emit(x, p))
<1>1. Typed(x) /\ Typed(Emit(x, p)) /\ Emit(x, p).s = x.s
  BY EmitType DEF Good
<1>2. Emit(x, p).out = x.out \cup {p}
  BY <1>1 DEF Emit, Typed
<1> QED
  BY <1>1, <1>2 DEF Good

\* The stream is changed, and nothing is sent.
LEMMA StreamGood ==
    ASSUME NEW L, NEW M, NEW acc, NEW r, NEW x, Good(L, M, acc, r, x),
           NEW t, Keeps(x.s, t), Outgoing(L, t, acc), Incoming(M, t, r)
    PROVE  Good(L, M, acc, r, [x EXCEPT !.s = t])
<1> DEFINE y == [x EXCEPT !.s = t]
<1>1. Typed(x)
  BY DEF Good
<1>2. y = [s |-> t, out |-> x.out] /\ Typed(y) /\ y.s = t
  BY <1>1, KeepsTyped
<1>3. y.out = x.out
  BY <1>2
<1> HIDE DEF y
<1>4. Good(L, M, acc, r, y)
  BY <1>2, <1>3 DEF Good
<1> QED
  BY <1>4 DEF y

\* In fields that say nothing of what was sent or came.
LEMMA AlikeGood ==
    ASSUME NEW L, NEW M, NEW acc, NEW r, NEW x, Good(L, M, acc, r, x),
           NEW t, Alike(x.s, t)
    PROVE  Good(L, M, acc, r, [s |-> t, out |-> x.out])
<1>1. Typed(x)
  BY DEF Good
<1>2. Sends(x, [s |-> t, out |-> x.out])
  BY <1>1, AlikeSends
<1> QED
  BY <1>2, SendsGood

\* What a stream that closes has sent and what came stay.
LEMMA ClosingGood ==
    ASSUME NEW L, NEW M, NEW acc, NEW r, NEW x, Good(L, M, acc, r, x),
           NEW t, Keeps(x.s, t), t.state \in {"FIN_WAIT", "LAST_ACK"}, t.snd_q = x.s.snd_q
    PROVE  Good(L, M, acc, r, [x EXCEPT !.s = t])
<1>1. Outgoing(L, x.s, acc) /\ Incoming(M, x.s, r)
  BY DEF Good
<1>2. Outgoing(L, t, acc)
  BY <1>1 DEF Outgoing, Fresh
<1>3. Incoming(M, t, r)
  BY <1>1 DEF Incoming, Fresh, Keeps, Came
<1> QED
  BY <1>2, <1>3, StreamGood

\* Bytes that count go on counting when more of them are read, or when the
\* next ones follow; the first of them count alone.
LEMMA CountingFront ==
    ASSUME NEW r \in Seq(Nat), NEW d \in Seq(Nat), Counting(r \o d)
    PROVE  Counting(r) /\ Len(r) <= Len(r \o d)
<1>1. Len(r) \in Nat /\ Len(d) \in Nat /\ Len(r \o d) = Len(r) + Len(d)
  OBVIOUS
<1>2. \A i \in 1..Len(r) : i \in 1..Len(r \o d) /\ (r \o d)[i] = r[i]
  BY <1>1
<1> QED
  BY <1>1, <1>2 DEF Counting

LEMMA CountingMore ==
    ASSUME NEW w, Counting(w), NEW d \in Seq(Nat), \A i \in 1..Len(d) : d[i] = Len(w) + i
    PROVE  Counting(w \o d) /\ Len(w \o d) = Len(w) + Len(d)
<1>1. w \in Seq(Nat) /\ \A i \in 1..Len(w) : w[i] = i
  BY DEF Counting
<1>2. /\ Len(w) \in Nat /\ Len(d) \in Nat /\ Len(w \o d) = Len(w) + Len(d)
      /\ w \o d \in Seq(Nat)
  BY <1>1
<1>3. ASSUME NEW i \in 1..(Len(w) + Len(d)) PROVE (w \o d)[i] = i
  <2>1. CASE i <= Len(w)
    <3>1. (w \o d)[i] = w[i] /\ i \in 1..Len(w)
      BY <1>1, <1>2, <2>1
    <3> QED
      BY <1>1, <3>1
  <2>2. CASE i > Len(w)
    <3>1. i - Len(w) \in 1..Len(d)
      BY <1>2, <2>2
    <3>2. (w \o d)[i] = d[i - Len(w)]
      BY <1>1, <1>2, <2>2
    <3>3. d[i - Len(w)] = Len(w) + (i - Len(w))
      BY <3>1
    <3> QED
      BY <1>2, <3>2, <3>3
  <2> QED
    BY <1>2, <2>1, <2>2
<1> QED
  BY <1>2, <1>3 DEF Counting

\* A stream given up: what was read stays read.
LEMMA FreedGood ==
    ASSUME NEW L, NEW M, NEW acc, NEW r, NEW x, Good(L, M, acc, r, x)
    PROVE  /\ Good(L, M, acc, r, [x EXCEPT !.s = scp_stream_free])
           /\ Good(L, M, acc, r, Only(scp_stream_free))
<1> DEFINE t == scp_stream_free
<1>1. /\ Typed(x) /\ Line(L) /\ Line(M) /\ acc \in Nat /\ r \in Seq(Nat)
      /\ Outgoing(L, x.s, acc) /\ Incoming(M, x.s, r)
      /\ \A p \in x.out : PacketOf(L, p)
  BY DEF Good
<1>2. /\ t.state = "FREED" /\ t.snd_q = <<>> /\ t.rcv_data_q = <<>> /\ t.rcv_buf_q = <<>>
  BY DEF scp_stream_free, scp_stream_alloc
<1>3. t \in Stream /\ Counted(t)
  BY FreeType
<1> HIDE DEF t
<1>4. Outgoing(L, t, acc)
  BY <1>1, <1>2 DEF Outgoing, Fresh
<1>5. Incoming(M, t, r)
  <2> DEFINE d == x.s.rcv_data_q
  <2>1. d \in Seq(Nat) /\ Counting(r \o d) /\ Len(r \o d) <= M.whole
    BY <1>1, StreamFields DEF Typed, Incoming, Came
  <2> HIDE DEF d
  <2>2. Counting(r) /\ Len(r) <= Len(r \o d)
    BY <1>1, <2>1, CountingFront
  <2>3. Came(t, r) = r
    BY <1>1, <1>2 DEF Came
  <2>4. Len(r) <= M.whole
    <3>1. M.whole \in Nat /\ Len(r) \in Nat /\ Len(r \o d) \in Nat
      BY <1>1, <2>1 DEF Line, Lines
    <3> QED
      BY <2>1, <2>2, <3>1
  <2> QED
    BY <1>2, <2>2, <2>3, <2>4 DEF Incoming, Fresh
<1>6. ASSUME NEW O, O \subseteq x.out PROVE Good(L, M, acc, r, [s |-> t, out |-> O])
  <2> DEFINE y == [s |-> t, out |-> O]
  <2>1. y.s = t /\ y.out = O /\ y = [s |-> y.s, out |-> y.out]
    OBVIOUS
  <2> HIDE DEF y
  <2>2. Typed(y)
    BY <1>1, <1>3, <1>6, <2>1 DEF Typed
  <2>3. Good(L, M, acc, r, y)
    BY <1>1, <1>4, <1>5, <1>6, <2>1, <2>2 DEF Good
  <2> QED
    BY <2>3 DEF y
<1>7. [x EXCEPT !.s = t] = [s |-> t, out |-> x.out] /\ Only(t) = [s |-> t, out |-> {}]
  BY <1>1 DEF Typed, Only
<1>8. Good(L, M, acc, r, [s |-> t, out |-> x.out]) /\ Good(L, M, acc, r, [s |-> t, out |-> {}])
  BY <1>6
<1> QED
  BY <1>7, <1>8 DEF t

\* Packets that carry no bytes and start nothing.
LEMMA PlainGood ==
    ASSUME NEW L, NEW M, NEW acc, NEW r, NEW x, Good(L, M, acc, r, x)
    PROVE  /\ Good(L, M, acc, r, scp_output_ack(x))
           /\ Good(L, M, acc, r, scp_send_window_probe(x))
           /\ Good(L, M, acc, r, scp_output_fin_retrans(x))
<1>1. Typed(x) /\ x.s \in Stream
  BY DEF Good, Typed
<1>2. /\ {"ACK", "PING", "FIN"} \subseteq Kinds /\ <<>> \in Seq(Nat)
      /\ Plus(x.s.snd_nxt, -1) \in Seqs /\ 0 \in Seqs
  <2>1. x.s.snd_nxt \in Int
    BY <1>1, StreamFields, SeqsAreInt
  <2> QED
    BY <2>1, SpaceIs, SeqsType DEF Kinds
<1>3. ASSUME NEW kind \in {"ACK", "PING", "FIN"}, NEW seq \in Seqs
      PROVE  /\ Packet(kind, seq, <<>>) \in PacketType
             /\ Acking(x.s, Packet(kind, seq, <<>>)) \in PacketType
             /\ Packet(kind, seq, <<>>).kind = kind
             /\ Acking(x.s, Packet(kind, seq, <<>>)).kind = kind
  <2>1. Packet(kind, seq, <<>>) \in PacketType /\ Packet(kind, seq, <<>>).kind = kind
    BY <1>2, PacketIs DEF Packet
  <2> DEFINE p == Packet(kind, seq, <<>>)
  <2>2. p \in PacketType /\ p.kind = kind
    BY <2>1
  <2> HIDE DEF p
  <2>3. Acking(x.s, p) \in PacketType /\ Acking(x.s, p).kind = kind
    BY <1>1, <2>2, AckingIs DEF Acking, PacketType
  <2> QED
    BY <2>2, <2>3 DEF p
<1>4. \A p : p.kind \in {"ACK", "PING", "FIN"} => PacketOf(L, p)
  BY DEF PacketOf
<1> DEFINE a == Acking(x.s, Packet("ACK", 0, <<>>))
           b == Packet("PING", 0, <<>>)
           c == Acking(x.s, Packet("FIN", Plus(x.s.snd_nxt, -1), <<>>))
<1>5. /\ a \in PacketType /\ b \in PacketType /\ c \in PacketType
      /\ PacketOf(L, a) /\ PacketOf(L, b) /\ PacketOf(L, c)
  BY <1>2, <1>3, <1>4
<1> HIDE DEF a, b, c
<1>6. /\ Good(L, M, acc, r, Emit(x, a)) /\ Good(L, M, acc, r, Emit(x, b))
      /\ Good(L, M, acc, r, Emit(x, c))
  BY <1>5, EmitGood
<1> QED
  BY <1>6 DEF scp_output_ack, scp_send_window_probe, scp_output_fin_retrans, a, b, c

\* The first FIN takes a number.
LEMMA FinFirstGood ==
    ASSUME NEW L, NEW M, NEW acc, NEW r, NEW x, Good(L, M, acc, r, x),
           x.s.state \in {"FIN_WAIT", "LAST_ACK"}
    PROVE  Good(L, M, acc, r, scp_output_fin_first(x))
<1>1. Typed(x) /\ x.s \in Stream
  BY DEF Good, Typed
<1> DEFINE p == Packet("FIN", x.s.snd_nxt, <<>>)
           a == Acking(x.s, p)
           y == Emit(x, a)
           t == [y.s EXCEPT !.snd_nxt = Plus(y.s.snd_nxt, 1)]
<1>2. p \in PacketType /\ p.kind = "FIN"
  <2>1. x.s.snd_nxt \in Seqs /\ "FIN" \in Kinds /\ <<>> \in Seq(Nat)
    BY <1>1, StreamFields DEF Kinds
  <2> QED
    BY <2>1, PacketIs DEF Packet
<1>3. scp_output_fin_first(x) = [y EXCEPT !.s.snd_nxt = Plus(@, 1)]
  BY DEF scp_output_fin_first
<1> HIDE DEF p
<1>4. a \in PacketType /\ PacketOf(L, a)
  <2>1. a \in PacketType
    BY <1>1, <1>2, AckingIs
  <2>2. a.kind = "FIN"
    BY <1>2 DEF Acking, PacketType
  <2> QED
    BY <2>1, <2>2 DEF PacketOf
<1> HIDE DEF a
<1>5. Good(L, M, acc, r, y) /\ y.s = x.s
  <2>1. y.s = x.s
    BY <1>1, <1>4, EmitType
  <2> QED
    BY <1>4, <2>1, EmitGood
<1> HIDE DEF y
<1>6. t \in Stream
  <2>1. y.s.snd_nxt \in Int
    BY <1>1, <1>5, StreamFields, SeqsAreInt
  <2>2. Plus(y.s.snd_nxt, 1) \in Seqs
    BY <2>1, SeqsType
  <2> HIDE DEF Seqs
  <2> QED
    BY <1>1, <1>5, <2>2 DEF Stream
<1>7. Keeps(y.s, t) /\ t.state = x.s.state /\ t.snd_q = y.s.snd_q
  BY <1>1, <1>5, <1>6 DEF Keeps, Stream
<1>8. [y EXCEPT !.s.snd_nxt = Plus(@, 1)] = [y EXCEPT !.s = t]
  OBVIOUS
<1> HIDE DEF t
<1>9. Good(L, M, acc, r, [y EXCEPT !.s = t])
  BY <1>5, <1>7, ClosingGood
<1> QED
  BY <1>3, <1>8, <1>9

\* The handshake packets carry the first number.
LEMMA HandshakeGood ==
    ASSUME NEW L, NEW M, NEW acc, NEW r, NEW x, Good(L, M, acc, r, x),
           x.s.state \in {"SYN_SENT", "SYN_RECV"}
    PROVE  /\ Good(L, M, acc, r, scp_output_connect(x))
           /\ Good(L, M, acc, r, scp_output_connect_ack(x))
<1>1. Typed(x) /\ x.s \in Stream /\ Outgoing(L, x.s, acc)
  BY DEF Good, Typed
<1>2. x.s.snd_nxt = L.first /\ x.s.snd_nxt \in Seqs
  BY <1>1, StreamFields DEF Outgoing
<1> DEFINE a == Packet("CONNECT", x.s.snd_nxt, <<>>)
           b == Packet("CONNECT_ACK", x.s.snd_nxt, <<>>)
<1>3. {"CONNECT", "CONNECT_ACK"} \subseteq Kinds /\ <<>> \in Seq(Nat)
  BY DEF Kinds
<1>4. a \in PacketType /\ b \in PacketType
  BY <1>2, <1>3, PacketIs
<1>5. PacketOf(L, a) /\ PacketOf(L, b)
  BY <1>2 DEF PacketOf, Packet
<1> HIDE DEF a, b
<1>6. Good(L, M, acc, r, Emit(x, a)) /\ Good(L, M, acc, r, Emit(x, b))
  BY <1>4, <1>5, EmitGood
<1> QED
  BY <1>6 DEF scp_output_connect, scp_output_connect_ack, a, b

\* The receiving side is changed.
LEMMA ReceivedGood ==
    ASSUME NEW L, NEW M, NEW acc, NEW r, NEW x, Good(L, M, acc, r, x),
           NEW t, Received(x.s, t), Incoming(M, t, r)
    PROVE  Good(L, M, acc, r, [s |-> t, out |-> x.out])
<1> DEFINE y == [s |-> t, out |-> x.out]
<1>1. /\ Typed(x) /\ Line(L) /\ Line(M) /\ acc \in Nat /\ r \in Seq(Nat)
      /\ Outgoing(L, x.s, acc) /\ \A p \in x.out : PacketOf(L, p)
  BY DEF Good
<1>2. y.s = t /\ y.out = x.out /\ y = [s |-> y.s, out |-> y.out]
  OBVIOUS
<1> HIDE DEF y
<1>3. Typed(y)
  BY <1>1, <1>2 DEF Typed, Received
<1>4. Outgoing(L, t, acc)
  BY <1>1, SameOutgoing DEF Received
<1>5. Good(L, M, acc, r, y)
  BY <1>1, <1>2, <1>3, <1>4 DEF Good
<1> QED
  BY <1>5 DEF y

\* A piece that begins where the bytes so far end.
LEMMA AppendPiece ==
    ASSUME NEW M, Line(M), NEW w, Counting(w), Len(w) <= M.whole,
           NEW b, Numbered(b), Piece(M, b), Len(w) = At(M, b.seq)
    PROVE  /\ Counting(w \o b.data) /\ Len(w \o b.data) <= M.whole
           /\ Len(w \o b.data) = At(M, End(b)) /\ End(b) \in Seqs
<1>1. b.seq \in Seqs /\ b.data \in Seq(Nat) /\ Len(b.data) \in Nat /\ Len(w) \in Nat
  BY DEF Numbered, Counting
<1>2. M.whole \in Nat /\ M.used \in Nat /\ M.whole <= M.used /\ M.used < SeqSpace
  <2>1. M.whole \in Nat /\ M.used \in Nat /\ M.whole <= M.used /\ M.used < SeqSpace \div 2
    BY DEF Line, Lines
  <2> QED
    BY <2>1, SpaceIs
<1>3. /\ EndAt(M, b) <= M.whole
      /\ \A i \in 1..Len(b.data) : b.data[i] = Len(w) + i
  <2>1. ~(At(M, b.seq) > M.whole)
    BY <1>1, <1>2
  <2> QED
    BY <2>1 DEF Piece
<1>4. Counting(w \o b.data) /\ Len(w \o b.data) = Len(w) + Len(b.data)
  BY <1>1, <1>3, CountingMore
<1>5. EndAt(M, b) = Len(w) + Len(b.data)
  BY DEF EndAt
<1>6. At(M, b.seq) + Len(b.data) < SeqSpace
  <2>1. EndAt(M, b) = At(M, b.seq) + Len(b.data)
    BY DEF EndAt
  <2> QED
    BY <1>1, <1>2, <1>3, <1>5, <2>1, SpaceIs
<1>7. At(M, End(b)) = At(M, b.seq) + Len(b.data) /\ End(b) \in Seqs
  BY <1>1, <1>6, AtPlus DEF End
<1> QED
  BY <1>3, <1>4, <1>5, <1>7

-----------------------------------------------------------------------------
\* What is behind goes; the rest of the tree stays.
LEMMA DropBehindIncoming ==
    ASSUME NEW M, NEW r, NEW s \in Stream, Incoming(M, s, r)
    PROVE  Incoming(M, drop_behind(s), r) /\ drop_behind(s).rcv_nxt = s.rcv_nxt
<1> DEFINE q == s.rcv_buf_q
           k == Behind(q, s.rcv_nxt)
           v == SubSeq(q, k + 1, Len(q))
           t == drop_behind(s)
<1>1. q \in Seq(Buf)
  BY StreamFields
<1>2. /\ t.state = s.state /\ t.rcv_nxt = s.rcv_nxt /\ t.rcv_data_q = s.rcv_data_q
      /\ t.rcv_buf_q = v
  BY DEF drop_behind, Stream
<1>3. (\A i \in DOMAIN q : Piece(M, q[i])) /\ (s.state \in Fresh => q = <<>>)
  BY DEF Incoming
<1> HIDE DEF q, t
<1>4. k \in 0..Len(q)
  BY <1>1, BehindType
<1> HIDE DEF k
<1>5. /\ v \in Seq(Buf) /\ Len(v) = Len(q) - k
      /\ \A i \in 1..(Len(q) - k) : k + i \in 1..Len(q) /\ v[i] = q[k + i]
  BY <1>1, <1>4, SuffixIs
<1> HIDE DEF v
<1>6. DOMAIN q = 1..Len(q) /\ DOMAIN v = 1..Len(v)
  BY <1>1, <1>5
<1>7. \A i \in DOMAIN v : Piece(M, v[i])
  BY <1>3, <1>5, <1>6
<1>8. s.state \in Fresh => v = <<>>
  <2> SUFFICES ASSUME s.state \in Fresh PROVE v = <<>>
    OBVIOUS
  <2>1. Len(q) = 0
    BY <1>3
  <2>2. k = 0
    BY <1>4, <2>1
  <2>3. Len(v) = 0
    BY <1>5, <2>1, <2>2
  <2> QED
    BY <1>5, <2>3
<1>9. Incoming(M, t, r)
  BY <1>2, <1>7, <1>8 DEF Incoming, Came
<1> QED
  BY <1>2, <1>9 DEF t

LEMMA UpdateWndIncoming ==
    ASSUME NEW M, NEW r, NEW s \in Stream, Incoming(M, s, r)
    PROVE  Incoming(M, scp_update_rcv_wnd(s), r)
<1>1. LET t == scp_update_rcv_wnd(s)
      IN  /\ t.state = s.state /\ t.rcv_nxt = s.rcv_nxt /\ t.rcv_data_q = s.rcv_data_q
          /\ t.rcv_buf_q = s.rcv_buf_q
  BY DEF scp_update_rcv_wnd, Stream
<1> QED
  BY <1>1, SameIncoming

\* r and then d count, and the number behind them is n.
Reached(M, r, d, n) ==
    /\ d \in Seq(Nat) /\ Counting(r \o d) /\ Len(r \o d) <= M.whole
    /\ Len(r \o d) = At(M, n) /\ n \in Seqs

\* They go on with the next piece.
LEMMA ReachedMore ==
    ASSUME NEW M, Line(M), NEW r \in Seq(Nat), NEW d, NEW b, Numbered(b), Piece(M, b),
           Reached(M, r, d, b.seq)
    PROVE  Reached(M, r, d \o b.data, End(b))
<1>1. d \in Seq(Nat) /\ b.data \in Seq(Nat)
  BY DEF Reached, Numbered
<1>2. r \o (d \o b.data) = (r \o d) \o b.data /\ d \o b.data \in Seq(Nat)
  <2> DEFINE e == b.data
  <2>1. e \in Seq(Nat)
    BY <1>1
  <2> HIDE DEF e
  <2>2. InARow(r, d, e)
    BY <1>1, <2>1, JoinAssociates
  <2> QED
    BY <2>2 DEF e, InARow
<1> DEFINE w == r \o d
<1>3. Counting(w) /\ Len(w) <= M.whole /\ Len(w) = At(M, b.seq)
  BY DEF Reached
<1> HIDE DEF w
<1>4. /\ Counting(w \o b.data) /\ Len(w \o b.data) <= M.whole
      /\ Len(w \o b.data) = At(M, End(b)) /\ End(b) \in Seqs
  BY <1>3, AppendPiece
<1> QED
  BY <1>2, <1>4 DEF Reached, w

\* A chain of buffers, each beginning where the one before it ends.
Chain(q, f, nxt, k) ==
    /\ q \in Seq(Buf) /\ k \in 0..Len(q)
    /\ \A i \in 0..(Len(q) - 1) : f[i + 1] = f[i] \o q[i + 1].data
    /\ \A i \in 1..Len(q) : nxt[i] = End(q[i])
    /\ \A i \in 1..k : q[i].seq = nxt[i - 1]

LEMMA ReachedChain ==
    ASSUME NEW M, Line(M), NEW r \in Seq(Nat), NEW q, NEW f, NEW nxt, NEW k,
           Chain(q, f, nxt, k), \A i \in DOMAIN q : Piece(M, q[i]),
           Reached(M, r, f[0], nxt[0])
    PROVE  Reached(M, r, f[k], nxt[k])
<1> DEFINE L == Len(q)
           T == {i \in Nat : i <= k => Reached(M, r, f[i], nxt[i])}
<1>1. /\ q \in Seq(Buf) /\ k \in 0..L /\ L \in Nat
      /\ \A i \in 0..(L - 1) : f[i + 1] = f[i] \o q[i + 1].data
      /\ \A i \in 1..L : nxt[i] = End(q[i])
      /\ \A i \in 1..k : q[i].seq = nxt[i - 1]
  <2>1. q \in Seq(Buf)
    BY DEF Chain
  <2>2. L \in Nat
    BY <2>1
  <2> QED
    BY <2>1, <2>2, Zenon DEF Chain
<1>2. \A i \in 1..L : Piece(M, q[i]) /\ Numbered(q[i])
  <2>1. \A i \in 1..L : q[i] \in Buf /\ i \in DOMAIN q
    BY <1>1
  <2> QED
    BY <2>1, BufNumbered
<1>3. 0 \in T
  OBVIOUS
<1>4. ASSUME NEW i \in Nat, i \in T PROVE i + 1 \in T
  <2> SUFFICES ASSUME i + 1 <= k PROVE Reached(M, r, f[i + 1], nxt[i + 1])
    OBVIOUS
  <2> DEFINE b == q[i + 1]
  <2>1. i + 1 \in 1..k /\ i + 1 \in 1..L /\ i \in 0..(L - 1) /\ (i + 1) - 1 = i /\ i <= k
    BY <1>1
  <2>2. b.seq = nxt[i] /\ nxt[i + 1] = End(b) /\ f[i + 1] = f[i] \o b.data
    BY <1>1, <2>1
  <2>3. Piece(M, b) /\ Numbered(b)
    BY <1>2, <2>1
  <2>4. Reached(M, r, f[i], nxt[i])
    BY <1>4, <2>1
  <2> HIDE DEF b
  <2>5. Reached(M, r, f[i] \o b.data, End(b))
    BY <2>2, <2>3, <2>4, ReachedMore
  <2> QED
    BY <2>2, <2>5
<1>5. Nat \subseteq T
  <2> HIDE DEF T
  <2> QED
    BY <1>3, <1>4, Induction
<1>6. k \in Nat /\ k <= k
  BY <1>1
<1> QED
  BY <1>5, <1>6
\* What the tree continues is read next.
LEMMA PullIncoming ==
    ASSUME NEW M, Line(M), NEW r \in Seq(Nat), NEW s \in Stream, Incoming(M, s, r),
           s.state = "ESTABLISHED"
    PROVE  Incoming(M, pull(s), r)
<1> DEFINE q == s.rcv_buf_q
           d == s.rcv_data_q
           L == Len(q)
           nxt == [i \in 0..L |-> IF i = 0 THEN s.rcv_nxt ELSE End(q[i])]
           K == {k \in 0..L : \A i \in 1..k : q[i].seq = nxt[i - 1]}
           k == Max(K)
           v == SubSeq(q, k + 1, L)
           f == Joined(d, q)
           t == pull(s)
<1>1. q \in Seq(Buf) /\ d \in Seq(Nat) /\ s.rcv_nxt \in Seqs /\ L \in Nat
  <2>1. q \in Seq(Buf) /\ d \in Seq(Nat) /\ s.rcv_nxt \in Seqs
    BY StreamFields
  <2> QED
    BY <2>1
<1>2. /\ t.state = s.state /\ t.rcv_nxt = nxt[k] /\ t.rcv_data_q = f[k]
      /\ t.rcv_buf_q = v
  BY DEF pull, Stream
<1>3. Reached(M, r, d, s.rcv_nxt) /\ \A i \in DOMAIN q : Piece(M, q[i])
  BY <1>1 DEF Incoming, Came, Reached
<1>4. nxt[0] = s.rcv_nxt /\ \A i \in 1..L : nxt[i] = End(q[i])
  BY <1>1
<1> HIDE DEF q, d, nxt, t
<1>5. k \in K /\ k \in 0..L
  <2>1. 0 \in K
    BY <1>1
  <2>2. UpTo(K, L)
    BY <1>1, <2>1 DEF UpTo
  <2> HIDE DEF K, L
  <2>3. Greatest(K, L, Max(K))
    BY <2>2, MaxIs
  <2> QED
    BY <2>3 DEF Greatest
<1>6. \A i \in 1..k : q[i].seq = nxt[i - 1]
  <2> HIDE DEF k
  <2> QED
    BY <1>5
<1> HIDE DEF k, K
<1>7. Joins(f, d, q)
  BY <1>1, JoinedIs
<1> HIDE DEF f
<1>8. Chain(q, f, nxt, k) /\ f[0] = d
  BY <1>1, <1>4, <1>5, <1>6, <1>7 DEF Chain, Joins
<1>9. Reached(M, r, f[k], nxt[k])
  BY <1>3, <1>4, <1>8, ReachedChain
<1>10. /\ v \in Seq(Buf) /\ Len(v) = Len(q) - k
       /\ \A i \in 1..(Len(q) - k) : k + i \in 1..Len(q) /\ v[i] = q[k + i]
  BY <1>1, <1>5, SuffixIs
<1> HIDE DEF v, L
<1>11. DOMAIN q = 1..Len(q) /\ DOMAIN v = 1..Len(v)
  BY <1>1, <1>10
<1>12. \A i \in DOMAIN v : Piece(M, v[i])
  BY <1>3, <1>10, <1>11
<1>13. Incoming(M, t, r)
  BY <1>2, <1>9, <1>12 DEF Incoming, Came, Reached, Fresh
<1> QED
  BY <1>13 DEF t

\* Data that continues what came.
LEMMA InOrderGood ==
    ASSUME NEW L, NEW M, NEW acc, NEW r, NEW x, Good(L, M, acc, r, x),
           x.s.state = "ESTABLISHED", NEW b \in Buf, Piece(M, b), b.seq = x.s.rcv_nxt
    PROVE  Good(L, M, acc, r, in_order(x, b))
<1> DEFINE n == End(b)
           d == x.s.rcv_data_q \o b.data
           c == x.s.sb_cc + Len(b.data)
           s == [x.s EXCEPT !.rcv_nxt = n, !.rcv_data_q = d, !.sb_cc = c]
           w == scp_update_rcv_wnd(s)
           p == pull(w)
           y == [s |-> p, out |-> x.out]
<1>1. x.s \in Stream /\ Incoming(M, x.s, r) /\ Line(M) /\ r \in Seq(Nat) /\ Typed(x)
  BY DEF Good, Typed
<1>2. /\ x.s.rcv_data_q \in Seq(Nat) /\ x.s.rcv_buf_q \in Seq(Buf) /\ x.s.sb_cc \in Nat
      /\ b.data \in Seq(Nat) /\ x.s.rcv_nxt \in Seqs
  BY <1>1, StreamFields DEF Buf
<1>3. Reached(M, r, x.s.rcv_data_q, b.seq)
  BY <1>1, <1>2 DEF Incoming, Came, Reached
<1>4. Reached(M, r, d, n)
  <2> DEFINE e == x.s.rcv_data_q
  <2>1. Numbered(b)
    BY BufNumbered
  <2>2. Reached(M, r, e, b.seq)
    BY <1>3
  <2> HIDE DEF e
  <2>3. Reached(M, r, e \o b.data, End(b))
    BY <1>1, <2>1, <2>2, ReachedMore
  <2> QED
    BY <2>3 DEF e
<1>5. n \in Seqs /\ d \in Seq(Nat) /\ c \in Nat
  <2>1. c \in Nat
    BY <1>2
  <2> QED
    BY <1>4, <2>1 DEF Reached
<1>6. c = Len(d) + Bytes(x.s.rcv_buf_q)
  <2> DEFINE u == Len(x.s.rcv_data_q)
             v == Bytes(x.s.rcv_buf_q)
             m == Len(b.data)
  <2>1. u \in Nat /\ v \in Nat /\ m \in Nat /\ Len(d) = u + m
    <3>1. v \in Nat
      BY <1>2, LengthsAre
    <3> QED
      BY <1>2, <3>1
  <2>2. x.s.sb_cc = u + v /\ c = x.s.sb_cc + m
    BY <1>1 DEF Typed, Counted
  <2> HIDE DEF u, v, m, c, d
  <2>3. c = Len(d) + v
    BY <2>1, <2>2
  <2> QED
    BY <2>3 DEF v
<1>7. in_order(x, b) = scp_output_ack(y)
  <2>1. [x EXCEPT !.s = p] = y
    BY <1>1 DEF Typed
  <2> QED
    BY <2>1 DEF in_order, p, w, s, n, d, c
<1>longer. Len(x.s.rcv_data_q) <= Len(d)
  <2>1. Len(d) = Len(x.s.rcv_data_q) + Len(b.data)
    BY <1>2
  <2>2. Len(x.s.rcv_data_q) \in Nat /\ Len(b.data) \in Nat
    BY <1>2
  <2>3. \A u, v \in Nat : u <= u + v
    OBVIOUS
  <2> HIDE DEF d
  <2> QED
    BY <2>1, <2>2, <2>3, Zenon
<1> HIDE DEF n, d, c
<1>8. s \in Stream
  BY <1>1, <1>5 DEF Stream
<1>9. /\ s.state = x.s.state /\ s.sb_cc = c /\ s.rcv_data_q = d /\ s.rcv_nxt = n
      /\ s.rcv_buf_q = x.s.rcv_buf_q /\ s.snd_seq_q = x.s.snd_seq_q
      /\ s.snd_nxt = x.s.snd_nxt /\ s.snd_q = x.s.snd_q
      /\ s.snd_una = x.s.snd_una /\ s.timers = x.s.timers
  BY <1>1 DEF Stream
<1> HIDE DEF s
<1>10. Counted(s)
  BY <1>6, <1>9 DEF Counted
<1>11. Received(x.s, s)
  BY <1>8, <1>9, <1>10, <1>longer DEF Received
<1>12. Incoming(M, s, r)
  BY <1>1, <1>4, <1>9 DEF Incoming, Came, Reached, Fresh
<1>13. Received(s, w) /\ Incoming(M, w, r)
  BY <1>8, <1>10, <1>12, UpdateWndType, UpdateWndIncoming
<1> HIDE DEF w
<1>14. w \in Stream /\ Counted(w) /\ w.state = "ESTABLISHED"
  BY <1>9, <1>13 DEF Received
<1>15. Received(w, p) /\ Incoming(M, p, r)
  BY <1>1, <1>13, <1>14, PullType, PullIncoming
<1> HIDE DEF p
<1>16. Received(x.s, p)
  <2>1. Received(s, p)
    BY <1>8, <1>13, <1>15, ReceivedTwice
  <2> QED
    BY <1>1, <1>11, <2>1, ReceivedTwice DEF Typed
<1>17. Good(L, M, acc, r, y)
  BY <1>15, <1>16, ReceivedGood
<1> HIDE DEF y
<1>18. Good(L, M, acc, r, scp_output_ack(y))
  BY <1>17, PlainGood
<1> QED
  BY <1>7, <1>18
\* Forth and back again.
LEMMA PlusDiff ==
    ASSUME NEW a \in Seqs, NEW b \in Seqs
    PROVE  Plus(b, Diff(a, b)) = a
<1> DEFINE S == SeqSpace
           d == (a - b) % S
<1>1. S \in Nat /\ S > 0 /\ a \in 0..(S - 1) /\ b \in 0..(S - 1)
  BY SpaceIs DEF Seqs
<1>2. Plus(b, Diff(a, b)) = (b + d) % S
  BY DEF Plus, Diff
<1> HIDE DEF S
<1>3. CASE a >= b
  <2>1. d = a - b
    BY <1>1, <1>3, Remainders
  <2> HIDE DEF d
  <2>2. b + d = a
    BY <1>1, <2>1
  <2>3. a % S = a
    BY <1>1, Remainders
  <2> QED
    BY <1>2, <2>2, <2>3
<1>4. CASE a < b
  <2>1. d = (a - b) + S
    BY <1>1, <1>4, Remainders
  <2> HIDE DEF d
  <2>2. b + d = a + S
    BY <1>1, <2>1
  <2>3. (a + S) % S = a
    BY <1>1, Remainders
  <2> QED
    BY <1>2, <2>2, <2>3
<1> QED
  BY <1>1, <1>3, <1>4

\* Where a piece ends.
LEMMA EndOfPiece ==
    ASSUME NEW M, Line(M), NEW b, Numbered(b), Piece(M, b)
    PROVE  /\ At(M, End(b)) = At(M, b.seq) + Len(b.data) /\ End(b) \in Seqs
           /\ At(M, b.seq) \in Nat /\ At(M, b.seq) <= M.used /\ At(M, End(b)) <= M.used
<1>1. b.seq \in Seqs /\ b.data \in Seq(Nat) /\ Len(b.data) \in Nat
  BY DEF Numbered
<1>2. M.used \in Nat /\ M.used < SeqSpace
  <2>1. M.used \in Nat /\ M.used < SeqSpace \div 2
    BY DEF Line, Lines
  <2> QED
    BY <2>1, SpaceIs
<1>3. At(M, b.seq) \in Nat
  <2>1. b.seq \in Int /\ M.first \in Int
    BY <1>1, SeqsAreInt DEF Line, Lines
  <2>2. At(M, b.seq) \in Seqs
    BY <2>1, SeqsType DEF At
  <2> QED
    BY <2>2, SeqsAreInt
<1>4. At(M, b.seq) + Len(b.data) <= M.used
  BY DEF Piece, EndAt
<1> DEFINE a == At(M, b.seq)
           n == Len(b.data)
<1>5. a + n < SeqSpace /\ a <= M.used
  <2>1. a \in Nat /\ n \in Nat /\ a + n <= M.used
    BY <1>1, <1>3, <1>4
  <2> HIDE DEF a, n
  <2> QED
    BY <1>2, <2>1, SpaceIs
<1>6. At(M, End(b)) = a + n /\ End(b) \in Seqs
  <2>1. a + n < SeqSpace
    BY <1>5
  <2> QED
    BY <1>1, <2>1, AtPlus DEF End
<1> QED
  BY <1>3, <1>4, <1>5, <1>6

\* A number that the comparisons put between the ends of a piece is in it.
LEMMA Inside ==
    ASSUME NEW M, Line(M), NEW b, Numbered(b), Piece(M, b),
           NEW n \in Seqs, At(M, n) <= M.used,
           SEQ_LEQ(b.seq, n) \/ SEQ_GT(n, b.seq),
           SEQ_GT(End(b), n) \/ SEQ_LT(n, End(b))
    PROVE  Diff(n, b.seq) \in 0..Len(b.data) /\ Plus(b.seq, Diff(n, b.seq)) = n
<1> DEFINE e == End(b)
           a == At(M, b.seq)
           c == At(M, n)
           l == Len(b.data)
<1>1. b.seq \in Seqs /\ b.data \in Seq(Nat) /\ l \in Nat
  BY DEF Numbered
<1>2. /\ At(M, e) = a + l /\ e \in Seqs
      /\ a \in Nat /\ a <= M.used /\ At(M, e) <= M.used
  BY EndOfPiece
<1>3. Plus(b.seq, Diff(n, b.seq)) = n
  BY <1>1, PlusDiff
<1>4. /\ SEQ_GT(n, b.seq) <=> c > a
      /\ c >= a => Diff(n, b.seq) = c - a
      /\ c \in Nat
  BY <1>1, <1>2, AtOrder
<1>5. SEQ_GT(b.seq, n) <=> a > c
  BY <1>1, <1>2, AtOrder
<1>6. /\ SEQ_GT(e, n) <=> At(M, e) > c
      /\ SEQ_LT(n, e) <=> c < At(M, e)
  <2>1. SEQ_GT(e, n) <=> At(M, e) > c
    BY <1>2, AtOrder
  <2>2. SEQ_LT(n, e) <=> c < At(M, e)
    BY <1>2, AtOrder
  <2> QED
    BY <2>1, <2>2
<1>7. c >= a
  <2>1. ~SEQ_GT(b.seq, n) \/ SEQ_GT(n, b.seq)
    BY DEF SEQ_LEQ
  <2>2. ~(a > c) \/ c > a
    BY <1>4, <1>5, <2>1
  <2> HIDE DEF a, c
  <2> QED
    BY <1>2, <1>4, <2>2
<1>8. c <= a + l
  <2>1. At(M, e) > c \/ c < At(M, e)
    BY <1>6
  <2>2. a + l > c \/ c < a + l
    BY <1>2, <2>1
  <2> HIDE DEF a, c, l
  <2> QED
    BY <1>1, <1>2, <1>4, <2>2
<1>9. Diff(n, b.seq) = c - a
  BY <1>4, <1>7
<1>10. c - a \in 0..l
  <2> HIDE DEF a, c, l
  <2> QED
    BY <1>1, <1>2, <1>4, <1>7, <1>8
<1> QED
  BY <1>3, <1>9, <1>10

\* What is left when the first bytes, or all but the first, are cut off.
LEMMA CutPart ==
    ASSUME NEW b \in Buf, NEW d \in 0..Len(b.data)
    PROVE  /\ Part(Cut(b, d), b) /\ Cut(b, d).seq = Plus(b.seq, d)
           /\ Part([b EXCEPT !.data = SubSeq(@, 1, d)], b)
<1>1. b.seq \in Seqs /\ b.data \in Seq(Nat) /\ Len(b.data) \in Nat
  BY DEF Buf, Seqs
<1>2. d \in Nat /\ d <= Len(b.data)
  BY <1>1
<1>3. /\ Cut(b, d).seq = Plus(b.seq, d)
      /\ Cut(b, d).data = SubSeq(b.data, d + 1, Len(b.data))
  BY DEF Cut, Buf
<1>4. Part(Cut(b, d), b)
  <2> DEFINE l == Len(b.data)
  <2>1. l \in Nat /\ d <= l /\ l <= Len(b.data)
    BY <1>1, <1>2
  <2>2. Cut(b, d).data = SubSeq(b.data, d + 1, l)
    BY <1>3
  <2> HIDE DEF l
  <2> QED
    BY <1>2, <1>3, <2>1, <2>2 DEF Part
<1> DEFINE c == [b EXCEPT !.data = SubSeq(@, 1, d)]
<1>5. c.seq = Plus(b.seq, 0) /\ c.data = SubSeq(b.data, 0 + 1, d)
  <2>1. b.seq \in Nat /\ b.seq < SeqSpace
    BY <1>1, SeqsAreInt
  <2>2. Plus(b.seq, 0) = b.seq
    BY <2>1, SpaceIs, Remainders DEF Plus
  <2>3. c.seq = b.seq /\ c.data = SubSeq(b.data, 1, d)
    BY DEF Buf
  <2>4. 0 + 1 = 1
    OBVIOUS
  <2> QED
    BY <2>2, <2>3, <2>4
<1> HIDE DEF c
<1>6. Part(c, b)
  <2>1. 0 \in Nat /\ 0 <= d
    BY <1>2
  <2> QED
    BY <1>2, <1>5, <2>1 DEF Part
<1> QED
  BY <1>3, <1>4, <1>6 DEF c
\* A piece put between others.
LEMMA InsertPieces ==
    ASSUME NEW M, NEW q \in Seq(Buf), \A i \in DOMAIN q : Piece(M, q[i]),
           NEW b \in Buf, Piece(M, b), NEW n \in 0..Len(q)
    PROVE  LET r == InsertAt(q, n + 1, b)
           IN  r \in Seq(Buf) /\ \A i \in DOMAIN r : Piece(M, r[i])
<1> DEFINE T == {c \in Buf : Piece(M, c)}
<1>1. q \in Seq(T)
  <2>1. Len(q) \in Nat /\ q = [i \in 1..Len(q) |-> q[i]] /\ DOMAIN q = 1..Len(q)
    OBVIOUS
  <2>2. \A i \in 1..Len(q) : q[i] \in T
    BY <2>1
  <2>3. q \in [1..Len(q) -> T]
    <3> HIDE DEF T
    <3> QED
      BY <2>1, <2>2
  <2> HIDE DEF T
  <2> QED
    BY <2>1, <2>3
<1>2. b \in T
  OBVIOUS
<1>3. InsertAt(q, n + 1, b) = SubSeq(q, 1, n) \o <<b>> \o SubSeq(q, n + 1, Len(q))
  <2>1. (n + 1) - 1 = n
    OBVIOUS
  <2> QED
    BY <2>1 DEF InsertAt
<1>4. InsertAt(q, n + 1, b) \in Seq(T)
  <2> HIDE DEF T
  <2>1. SubSeq(q, 1, n) \in Seq(T) /\ SubSeq(q, n + 1, Len(q)) \in Seq(T) /\ <<b>> \in Seq(T)
    BY <1>1, <1>2
  <2> DEFINE u == SubSeq(q, 1, n)
             v == <<b>>
             w == SubSeq(q, n + 1, Len(q))
  <2>2. u \in Seq(T) /\ v \in Seq(T) /\ w \in Seq(T)
    BY <2>1
  <2> HIDE DEF u, v, w
  <2>3. u \o v \o w \in Seq(T)
    BY <2>2
  <2> QED
    BY <1>3, <2>3 DEF u, v, w
<1>5. \A r \in Seq(T) : r \in Seq(Buf) /\ \A i \in DOMAIN r : Piece(M, r[i])
  <2> SUFFICES ASSUME NEW r \in Seq(T)
               PROVE  r \in Seq(Buf) /\ \A i \in DOMAIN r : Piece(M, r[i])
    OBVIOUS
  <2>1. /\ Len(r) \in Nat /\ DOMAIN r = 1..Len(r) /\ r = [i \in 1..Len(r) |-> r[i]]
        /\ \A i \in 1..Len(r) : r[i] \in T
    <3> HIDE DEF T
    <3> QED
      OBVIOUS
  <2>2. \A i \in 1..Len(r) : r[i] \in Buf /\ Piece(M, r[i])
    BY <2>1
  <2>3. r \in [1..Len(r) -> Buf]
    BY <2>1, <2>2
  <2> QED
    BY <2>1, <2>2, <2>3
<1> QED
  BY <1>4, <1>5

\* Data that came too early waits in the tree.
LEMMA OutOfOrderGood ==
    ASSUME NEW L, NEW M, NEW acc, NEW r, NEW x, Good(L, M, acc, r, x),
           x.s.state = "ESTABLISHED", NEW b \in Buf, Piece(M, b)
    PROVE  Good(L, M, acc, r, out_of_order(x, b))
<1> DEFINE q == x.s.rcv_buf_q
           upto(seq) == Cardinality({i \in DOMAIN q : q[i].seq <= seq})
           k == upto(b.seq)
           overlap == k > 0 /\ SEQ_GT(End(q[k]), b.seq)
           c == IF overlap THEN Cut(b, Diff(End(q[k]), b.seq)) ELSE b
           d == IF k < Len(q) /\ SEQ_GT(q[k + 1].seq, c.seq) /\ SEQ_GT(End(c), q[k + 1].seq)
                THEN [c EXCEPT !.data = SubSeq(@, 1, Diff(q[k + 1].seq, c.seq))] ELSE c
           n == upto(d.seq)
           e == InsertAt(q, n + 1, d)
           cc == x.s.sb_cc + Len(d.data)
           s == [x.s EXCEPT !.rcv_buf_q = e, !.sb_cc = cc]
           w == scp_update_rcv_wnd(s)
           y == [s |-> w, out |-> x.out]
<1>1. /\ Typed(x) /\ x.s \in Stream /\ x.s.sb_cc = Len(x.s.rcv_data_q) + Bytes(q)
      /\ Line(M) /\ Incoming(M, x.s, r)
  BY DEF Good, Typed, Counted
<1>2. /\ x.s.rcv_data_q \in Seq(Nat) /\ q \in Seq(Buf) /\ x.s.sb_cc \in Nat
      /\ \A i \in DOMAIN q : Piece(M, q[i])
  <2> DEFINE z == x.s
  <2>1. z \in Stream /\ Incoming(M, z, r)
    BY <1>1
  <2> HIDE DEF z
  <2>2. z.rcv_data_q \in Seq(Nat) /\ z.rcv_buf_q \in Seq(Buf) /\ z.sb_cc \in Nat
    BY <2>1, ReceiverFields
  <2>3. \A i \in DOMAIN z.rcv_buf_q : Piece(M, z.rcv_buf_q[i])
    BY <2>1, Zenon DEF Incoming
  <2> QED
    BY <2>2, <2>3 DEF z
<1>3. \/ out_of_order(x, b) = x
      \/ out_of_order(x, b) = scp_output_ack(y) /\ (overlap => SEQ_LT(End(q[k]), End(b)))
  <2>1. [x EXCEPT !.s = w] = y
    <3> HIDE DEF w
    <3> QED
      BY <1>1 DEF Typed
  <2> HIDE DEF y
  <2> QED
    BY <2>1, Zenon DEF out_of_order, SEQ_GEQ
<1> SUFFICES ASSUME overlap => SEQ_LT(End(q[k]), End(b))
             PROVE  Good(L, M, acc, r, scp_output_ack(y))
  <2> HIDE DEF y, overlap, k
  <2> QED
    BY <1>3
<1> HIDE DEF q
<1>4. \A seq : upto(seq) \in 0..Len(q)
  <2>1. \A seq : PlaceOf(q, seq) \in 0..Len(q)
    <3> TAKE seq
    <3> QED
      BY <1>2, PlaceOfType
  <2>2. \A seq : PlaceOf(q, seq) = upto(seq)
    BY DEF PlaceOf
  <2> QED
    BY <2>1, <2>2
<1> HIDE DEF upto
<1>5. Len(q) \in Nat /\ \A i \in 1..Len(q) : q[i] \in Buf /\ Numbered(q[i]) /\ Piece(M, q[i])
  <2>1. Len(q) \in Nat /\ \A i \in 1..Len(q) : q[i] \in Buf /\ i \in DOMAIN q
    BY <1>2
  <2> QED
    BY <1>2, <2>1, BufNumbered
<1>6. k \in 0..Len(q)
  BY <1>4
<1> HIDE DEF k
<1>7. \A a \in Buf : a.seq \in Seqs /\ Numbered(a)
  BY BufNumbered DEF Buf, Seqs
<1>8. c \in Buf /\ Piece(M, c)
  <2>1. CASE overlap
    <3> DEFINE f == q[k]
               m == End(f)
    <3>1. Numbered(f) /\ Piece(M, f)
      BY <1>5, <1>6, <2>1
    <3>2. SEQ_GT(m, b.seq) /\ SEQ_LT(m, End(b)) /\ c = Cut(b, Diff(m, b.seq))
      BY <2>1
    <3> HIDE DEF f
    <3>3. m \in Seqs /\ At(M, m) <= M.used
      BY <1>1, <3>1, EndOfPiece
    <3> HIDE DEF m, c
    <3>4. Diff(m, b.seq) \in 0..Len(b.data)
      BY <1>1, <1>7, <3>2, <3>3, Inside
    <3>5. Part(c, b)
      BY <3>2, <3>4, CutPart
    <3>6. c \in Buf
      <4>1. b.data \in Seq(Nat)
        BY DEF Buf
      <4>2. Diff(m, b.seq) \in Nat
        BY <3>4, <4>1
      <4> QED
        BY <3>2, <4>2, CutType
    <3>7. Piece(M, c)
      BY <1>1, <1>7, <3>5, PartPiece
    <3> QED
      BY <3>6, <3>7
  <2>2. CASE ~overlap
    BY <2>2
  <2> QED
    BY <2>1, <2>2
<1> HIDE DEF c, overlap
<1>9. d \in Buf /\ Piece(M, d)
  <2>1. CASE d = c
    BY <1>8, <2>1
  <2>2. CASE /\ k < Len(q) /\ SEQ_GT(q[k + 1].seq, c.seq) /\ SEQ_GT(End(c), q[k + 1].seq)
             /\ d = [c EXCEPT !.data = SubSeq(@, 1, Diff(q[k + 1].seq, c.seq))]
    <3> DEFINE f == q[k + 1]
               hi == f.seq
               m == Diff(hi, c.seq)
               g == SubSeq(c.data, 1, m)
    <3>1. Numbered(f) /\ Piece(M, f)
      <4>1. k + 1 \in 1..Len(q)
        BY <1>5, <1>6, <2>2
      <4> QED
        BY <1>5, <4>1
    <3>2. SEQ_GT(hi, c.seq) /\ SEQ_GT(End(c), hi) /\ d = [c EXCEPT !.data = SubSeq(@, 1, m)]
      BY <2>2
    <3> HIDE DEF f, d
    <3>3. hi \in Seqs /\ At(M, hi) <= M.used
      BY <1>1, <3>1, EndOfPiece DEF Numbered
    <3> HIDE DEF hi
    <3>4. m \in 0..Len(c.data)
      BY <1>1, <1>7, <1>8, <3>2, <3>3, Inside
    <3> HIDE DEF m
    <3>5. Part(d, c)
      BY <1>8, <3>2, <3>4, CutPart
    <3>6. Piece(M, d)
      BY <1>1, <1>7, <1>8, <3>5, PartPiece
    <3>7. d \in Buf
      <4>1. c.data \in Seq(Nat) /\ Len(c.data) \in Nat
        BY <1>8 DEF Buf
      <4>2. g \in Seq(Nat)
        BY <3>4, <4>1
      <4>3. d = [c EXCEPT !.data = g]
        BY <3>2
      <4> HIDE DEF g
      <4> QED
        BY <1>8, <4>2, <4>3 DEF Buf
    <3> QED
      BY <3>6, <3>7
  <2> QED
    BY <2>1, <2>2
<1> HIDE DEF d
<1>10. n \in 0..Len(q)
  BY <1>4
<1> HIDE DEF n
<1>11. /\ e \in Seq(Buf) /\ Bytes(e) = Bytes(q) + Len(d.data)
       /\ \A i \in DOMAIN e : Piece(M, e[i])
  <2>1. e \in Seq(Buf) /\ Bytes(e) = Bytes(q) + Len(d.data)
    BY <1>2, <1>9, <1>10, BytesInsert
  <2>2. \A i \in DOMAIN e : Piece(M, e[i])
    BY <1>2, <1>9, <1>10, InsertPieces
  <2> QED
    BY <2>1, <2>2
<1>12. Bytes(q) \in Nat /\ Len(d.data) \in Nat /\ Len(x.s.rcv_data_q) \in Nat
  <2>1. d.data \in Seq(Nat)
    BY <1>9 DEF Buf
  <2> QED
    BY <1>2, <2>1, LengthsAre
<1>13. cc \in Nat /\ cc = Len(x.s.rcv_data_q) + Bytes(e)
  <2> DEFINE u == Len(x.s.rcv_data_q)
             v == Bytes(q)
             m == Len(d.data)
             z == Bytes(e)
  <2>1. u \in Nat /\ v \in Nat /\ m \in Nat
    BY <1>12
  <2>2. cc = (u + v) + m /\ z = v + m
    BY <1>1, <1>11
  <2> HIDE DEF e, cc, u, v, m, z
  <2>3. cc \in Nat /\ cc = u + z
    BY <2>1, <2>2
  <2> QED
    BY <2>3 DEF u, z
<1> HIDE DEF e, cc
<1>14. s \in Stream
  BY <1>1, <1>11, <1>13 DEF Stream
<1>15. /\ s.state = x.s.state /\ s.sb_cc = cc /\ s.rcv_data_q = x.s.rcv_data_q
       /\ s.rcv_buf_q = e /\ s.rcv_nxt = x.s.rcv_nxt /\ s.snd_seq_q = x.s.snd_seq_q
       /\ s.snd_nxt = x.s.snd_nxt /\ s.snd_q = x.s.snd_q
       /\ s.snd_una = x.s.snd_una /\ s.timers = x.s.timers
  BY <1>1 DEF Stream
<1> HIDE DEF s
<1>16. Counted(s) /\ Received(x.s, s)
  BY <1>12, <1>13, <1>14, <1>15 DEF Counted, Received
<1>17. Incoming(M, s, r)
  BY <1>1, <1>11, <1>15 DEF Incoming, Came, Fresh
<1>18. Received(s, w) /\ Incoming(M, w, r)
  BY <1>14, <1>16, <1>17, UpdateWndType, UpdateWndIncoming
<1> HIDE DEF w
<1>19. Received(x.s, w)
  BY <1>1, <1>16, <1>18, ReceivedTwice DEF Typed
<1>20. Good(L, M, acc, r, y)
  BY <1>18, <1>19, ReceivedGood
<1> HIDE DEF y
<1> QED
  BY <1>20, PlainGood
LEMMA ProcessDataGood ==
    ASSUME NEW L, NEW M, NEW acc, NEW r, NEW x, Good(L, M, acc, r, x),
           x.s.state = "ESTABLISHED", NEW p \in PacketType, Piece(M, p)
    PROVE  Good(L, M, acc, r, scp_process_data(x, p))
<1> DEFINE b == [seq |-> p.seq, data |-> p.data, sent |-> 0]
           s == drop_behind(x.s)
           y == [s |-> s, out |-> x.out]
           c == Cut(b, Diff(s.rcv_nxt, b.seq))
<1>1. /\ Typed(x) /\ x.s \in Stream /\ Counted(x.s) /\ Line(M) /\ Incoming(M, x.s, r)
      /\ r \in Seq(Nat)
  BY DEF Good, Typed
<1>2. \/ scp_process_data(x, p) = scp_output_ack(y)
      \/ /\ SEQ_GT(End(b), s.rcv_nxt) /\ SEQ_LEQ(b.seq, s.rcv_nxt)
         /\ scp_process_data(x, p) = in_order(y, c)
      \/ scp_process_data(x, p) = out_of_order(y, b)
  <2>1. [x EXCEPT !.s = s] = y
    BY <1>1 DEF Typed
  <2>2. SEQ_GT(End(b), s.rcv_nxt) <=> ~SEQ_LEQ(End(b), s.rcv_nxt)
    BY DEF SEQ_LEQ
  <2> HIDE DEF y
  <2> QED
    BY <2>1, <2>2 DEF scp_process_data
<1>3. b \in Buf /\ Numbered(b) /\ Piece(M, b)
  <2>1. b \in Buf
    BY DEF PacketType, Buf, Seqs
  <2>2. Piece(M, b)
    BY DEF Piece, EndAt
  <2> HIDE DEF b
  <2> QED
    BY <2>1, <2>2, BufNumbered
<1>4. Received(x.s, s) /\ Incoming(M, s, r) /\ s.rcv_nxt = x.s.rcv_nxt
  BY <1>1, DropBehindType, DropBehindIncoming
<1> HIDE DEF s, b
<1>5. Good(L, M, acc, r, y) /\ y.s = s
  BY <1>4, ReceivedGood
<1>6. s.state = "ESTABLISHED" /\ s \in Stream
  BY <1>4 DEF Received
<1> HIDE DEF y
<1>7. Good(L, M, acc, r, scp_output_ack(y))
  BY <1>5, PlainGood
<1>8. Good(L, M, acc, r, out_of_order(y, b))
  BY <1>3, <1>5, <1>6, OutOfOrderGood
<1>9. CASE SEQ_GT(End(b), s.rcv_nxt) /\ SEQ_LEQ(b.seq, s.rcv_nxt)
  <2> DEFINE n == s.rcv_nxt
  <2>1. n \in Seqs /\ At(M, n) <= M.used
    <3>1. n \in Seqs
      BY <1>6, StreamFields
    <3>2. At(M, n) = Len(Came(s, r)) /\ Len(Came(s, r)) <= M.whole
      BY <1>4, <1>6 DEF Incoming
    <3>3. M.whole \in Nat /\ M.used \in Nat /\ M.whole <= M.used
      BY <1>1 DEF Line, Lines
    <3>4. Len(Came(s, r)) \in Nat
      <4>1. Came(s, r) \in Seq(Nat)
        BY <1>4 DEF Incoming, Counting
      <4> QED
        BY <4>1
    <3> QED
      BY <3>1, <3>2, <3>3, <3>4
  <2>2. SEQ_GT(End(b), n) /\ SEQ_LEQ(b.seq, n) /\ c = Cut(b, Diff(n, b.seq))
    BY <1>9
  <2> HIDE DEF n, c
  <2>3. Diff(n, b.seq) \in 0..Len(b.data) /\ Plus(b.seq, Diff(n, b.seq)) = n
    BY <1>1, <1>3, <2>1, <2>2, Inside
  <2>4. Part(c, b) /\ c.seq = n
    <3>1. Part(c, b) /\ c.seq = Plus(b.seq, Diff(n, b.seq))
      BY <1>3, <2>2, <2>3, CutPart
    <3> QED
      BY <2>3, <3>1
  <2>5. c \in Buf
    <3>1. b.data \in Seq(Nat)
      BY <1>3 DEF Buf
    <3>2. Diff(n, b.seq) \in Nat
      BY <2>3, <3>1
    <3> QED
      BY <1>3, <2>2, <3>2, CutType
  <2>6. Piece(M, c)
    BY <1>1, <1>3, <2>4, PartPiece
  <2>7. y.s.state = "ESTABLISHED" /\ c.seq = y.s.rcv_nxt
    BY <1>5, <1>6, <2>4 DEF n
  <2>8. Good(L, M, acc, r, in_order(y, c))
    BY <1>5, <2>5, <2>6, <2>7, InOrderGood
  <2> QED
    BY <1>2, <1>7, <1>8, <2>8
<1> QED
  BY <1>2, <1>7, <1>8, <1>9

-----------------------------------------------------------------------------
(***************************************************************************)
(* What arrives, by the state of the stream.                               *)
(***************************************************************************)
\* An acknowledgement moves no byte that came, and sends only pieces.
LEMMA ProcessAckGood ==
    ASSUME NEW L, NEW M, NEW acc, NEW r, NEW x, Good(L, M, acc, r, x),
           NEW p \in PacketType
    PROVE  /\ Good(L, M, acc, r, scp_process_ack(x, p))
           /\ scp_process_ack(x, p).s.state = x.s.state
<1>1. Sends(x, scp_process_ack(x, p))
  BY ProcessAckSends DEF Good
<1>2. Good(L, M, acc, r, scp_process_ack(x, p))
  BY <1>1, SendsGood
<1> QED
  BY <1>1, <1>2 DEF Sends

\* A stream that is not yet connected takes the two first numbers.
LEMMA StartsGood ==
    ASSUME NEW L, NEW M, NEW acc, NEW r, NEW x, Good(L, M, acc, r, x),
           x.s.state \in {"CLOSED", "SYN_SENT", "SYN_RECV"}, NEW t, Keeps(x.s, t),
           t.snd_q = x.s.snd_q, t.state \in {"SYN_SENT", "SYN_RECV"},
           t.snd_nxt = L.first, t.snd_seq_q = L.first,
           t.state = "SYN_RECV" => t.rcv_nxt = M.first
    PROVE  /\ Good(L, M, acc, r, [x EXCEPT !.s = t])
           /\ [x EXCEPT !.s = t].s = t
<1>1. Typed(x) /\ Outgoing(L, x.s, acc) /\ Incoming(M, x.s, r)
  BY DEF Good
<1>2. Outgoing(L, t, acc)
  BY <1>1 DEF Outgoing, Fresh
<1>3. Incoming(M, t, r)
  BY <1>1 DEF Incoming, Fresh, Keeps, Came
<1>4. Good(L, M, acc, r, [x EXCEPT !.s = t])
  BY <1>2, <1>3, StreamGood
<1> QED
  BY <1>1, <1>4, KeepsTyped

LEMMA ListenGood ==
    ASSUME NEW L, NEW M, NEW acc, NEW r, NEW x, Good(L, M, acc, r, x),
           x.s.state = "CLOSED", NEW p \in PacketType, PacketOf(M, p),
           NEW i \in Seqs, p.kind = "CONNECT" => i = L.first
    PROVE  Good(L, M, acc, r, listen_like_process(x, p, i))
<1> DEFINE u == Start(x.s, "hs")
           t == [u EXCEPT
                    !.state = "SYN_RECV", !.retry = 0, !.rcv_nxt = p.seq,
                    !.snd_seq_q = i, !.snd_una = i, !.snd_nxt = i]
           y == [x EXCEPT !.s = t]
<1>1. x.s \in Stream /\ p.seq \in Seqs
  BY DEF Good, Typed, PacketType
<1>2. u \in Stream /\ Keeps(x.s, u) /\ u.snd_q = x.s.snd_q
  BY <1>1 DEF Start, Stream, Timers, Keeps
<1>3. y = [x EXCEPT !.s = [Start(@, "hs") EXCEPT
                !.state = "SYN_RECV", !.retry = 0, !.rcv_nxt = p.seq,
                !.snd_seq_q = i, !.snd_una = i, !.snd_nxt = i]]
  OBVIOUS
<1> HIDE DEF u
<1>4. t \in Stream
  <2>1. "SYN_RECV" \in States /\ 0 \in Nat
    BY DEF States
  <2> HIDE DEF Seqs, States
  <2> QED
    BY <1>1, <1>2, <2>1 DEF Stream
<1>5. /\ t.sb_cc = u.sb_cc /\ t.rcv_data_q = u.rcv_data_q /\ t.rcv_buf_q = u.rcv_buf_q
      /\ t.snd_q = u.snd_q /\ t.state = "SYN_RECV" /\ t.snd_nxt = i /\ t.snd_seq_q = i
      /\ t.rcv_nxt = p.seq
  BY <1>2 DEF Stream
<1>6. listen_like_process(x, p, i) =
          IF p.kind = "CONNECT" THEN scp_output_connect_ack(y) ELSE x
  <2> HIDE DEF y
  <2> QED
    BY <1>3 DEF listen_like_process
<1> HIDE DEF t
<1>7. Keeps(x.s, t) /\ t.snd_q = x.s.snd_q
  BY <1>2, <1>4, <1>5 DEF Keeps
<1>8. CASE p.kind = "CONNECT"
  <2>1. p.seq = M.first
    BY <1>8 DEF PacketOf
  <2>2. Good(L, M, acc, r, y) /\ y.s = t
    BY <1>5, <1>7, <1>8, <2>1, StartsGood
  <2>3. y.s.state \in {"SYN_SENT", "SYN_RECV"}
    BY <1>5, <2>2
  <2> HIDE DEF y
  <2>4. Good(L, M, acc, r, scp_output_connect_ack(y))
    BY <2>2, <2>3, HandshakeGood
  <2> QED
    BY <1>6, <1>8, <2>4
<1>9. CASE p.kind # "CONNECT"
  BY <1>6, <1>9
<1> QED
  BY <1>8, <1>9
LEMMA AtFirst == ASSUME NEW L, Line(L) PROVE At(L, L.first) = 0
<1>1. L.first \in Nat
  BY SeqsAreInt DEF Line, Lines
<1>2. L.first - L.first = 0 /\ 0 % SeqSpace = 0
  BY <1>1, SpaceIs, Remainders
<1> QED
  BY <1>2 DEF At, Diff

LEMMA EstablishedGood ==
    ASSUME NEW L, NEW M, NEW acc, NEW r, NEW x, Good(L, M, acc, r, x),
           x.s.state \in {"SYN_SENT", "SYN_RECV"}, x.s.rcv_nxt = M.first
    PROVE  Good(L, M, acc, r, [x EXCEPT !.s = Established(@)])
<1> DEFINE t == Established(x.s)
<1>1. /\ Typed(x) /\ x.s \in Stream /\ Line(L) /\ Line(M) /\ Outgoing(L, x.s, acc)
      /\ Incoming(M, x.s, r)
  BY DEF Good, Typed
<1>2. t \in Stream
  <2>1. (x.s.timers \ {"hs"}) \cup {"persist"} \in SUBSET Timers
    BY <1>1, StreamFields DEF Timers
  <2>2. "ESTABLISHED" \in States
    BY DEF States
  <2> QED
    BY <1>1, <2>1, <2>2 DEF Established, Stream
<1>3. /\ t.state = "ESTABLISHED" /\ t.snd_q = x.s.snd_q /\ t.snd_seq_q = x.s.snd_seq_q
      /\ t.rcv_nxt = x.s.rcv_nxt /\ t.rcv_data_q = x.s.rcv_data_q
      /\ t.rcv_buf_q = x.s.rcv_buf_q /\ t.sb_cc = x.s.sb_cc
  BY <1>1 DEF Established, Stream
<1> HIDE DEF t
<1>4. At(L, L.first) = 0 /\ At(M, M.first) = 0
  BY <1>1, AtFirst
<1>5. Outgoing(L, t, acc)
  BY <1>1, <1>3, <1>4 DEF Outgoing, Fresh
<1>6. Incoming(M, t, r)
  <2>1. /\ r = <<>> /\ x.s.rcv_data_q = <<>> /\ Counting(Came(x.s, r))
        /\ Len(Came(x.s, r)) <= M.whole
        /\ \A i \in DOMAIN x.s.rcv_buf_q : Piece(M, x.s.rcv_buf_q[i])
    BY <1>1 DEF Incoming, Fresh
  <2>2. Came(t, r) = Came(x.s, r) /\ Came(t, r) = <<>>
    BY <1>3, <2>1 DEF Came
  <2>3. Len(Came(t, r)) = 0
    BY <2>2
  <2> QED
    BY <1>3, <1>4, <2>1, <2>2, <2>3 DEF Incoming, Fresh
<1>7. Keeps(x.s, t)
  BY <1>2, <1>3 DEF Keeps
<1>8. Good(L, M, acc, r, [x EXCEPT !.s = t])
  BY <1>5, <1>6, <1>7, StreamGood
<1> QED
  BY <1>8 DEF t

LEMMA SynSentGood ==
    ASSUME NEW L, NEW M, NEW acc, NEW r, NEW x, Good(L, M, acc, r, x),
           x.s.state = "SYN_SENT", NEW p \in PacketType, PacketOf(M, p)
    PROVE  Good(L, M, acc, r, syn_sent_process(x, p))
<1> DEFINE t == [x.s EXCEPT !.rcv_nxt = p.seq]
           y == [x EXCEPT !.s = t]
           z == scp_output_ack(y)
<1>1. Typed(x) /\ x.s \in Stream /\ p.seq \in Seqs /\ Outgoing(L, x.s, acc)
  BY DEF Good, Typed, PacketType
<1>2. t \in Stream
  BY <1>1 DEF Stream
<1>3. /\ t.state = "SYN_SENT" /\ t.snd_q = x.s.snd_q /\ t.snd_seq_q = x.s.snd_seq_q
      /\ t.snd_nxt = x.s.snd_nxt /\ t.rcv_nxt = p.seq /\ Keeps(x.s, t)
  BY <1>1, <1>2 DEF Stream, Keeps
<1>4. y = [x EXCEPT !.s.rcv_nxt = p.seq]
  OBVIOUS
<1>5. syn_sent_process(x, p) =
          IF p.kind = "CONNECT_ACK" THEN [z EXCEPT !.s = Established(@)] ELSE x
  <2> HIDE DEF y
  <2> QED
    BY <1>4 DEF syn_sent_process, z
<1> HIDE DEF t
<1>6. CASE p.kind = "CONNECT_ACK"
  <2>1. p.seq = M.first /\ t.snd_seq_q = L.first /\ t.snd_nxt = L.first
    BY <1>1, <1>3, <1>6 DEF PacketOf, Outgoing
  <2>2. Good(L, M, acc, r, y) /\ y.s = t
    BY <1>3, <2>1, StartsGood
  <2> HIDE DEF y
  <2>3. Good(L, M, acc, r, z) /\ z.s = y.s
    BY <2>2, PlainGood, OutputAckType DEF Good
  <2>4. z.s.state = "SYN_SENT" /\ z.s.rcv_nxt = M.first
    BY <1>3, <2>1, <2>2, <2>3
  <2> HIDE DEF z
  <2>5. Good(L, M, acc, r, [z EXCEPT !.s = Established(@)])
    BY <2>3, <2>4, EstablishedGood
  <2> QED
    BY <1>5, <1>6, <2>5
<1>7. CASE p.kind # "CONNECT_ACK"
  BY <1>5, <1>7
<1> QED
  BY <1>6, <1>7

LEMMA SynRecvGood ==
    ASSUME NEW L, NEW M, NEW acc, NEW r, NEW x, Good(L, M, acc, r, x),
           x.s.state = "SYN_RECV", NEW p
    PROVE  Good(L, M, acc, r, syn_recv_process(x, p))
<1>1. x.s.rcv_nxt = M.first
  BY DEF Good, Incoming
<1>2. Good(L, M, acc, r, [x EXCEPT !.s = Established(@)])
  BY <1>1, EstablishedGood
<1> QED
  BY <1>2 DEF syn_recv_process

\* A FIN is passed: the stream is about to close, and never reads on.
LEMMA LastAckGood ==
    ASSUME NEW L, NEW M, NEW acc, NEW r, NEW y, Good(L, M, acc, r, y), NEW n \in Seqs
    PROVE  LET z == scp_output_ack([y EXCEPT !.s.rcv_nxt = n])
               v == [z EXCEPT !.s =
                       [Start(@, "fin") EXCEPT !.state = "LAST_ACK", !.retry = 0]]
           IN  Good(L, M, acc, r, scp_output_fin_first(v))
<1> DEFINE t == [y.s EXCEPT !.rcv_nxt = n]
           w == [y EXCEPT !.s = t]
           a == Acking(t, Packet("ACK", 0, <<>>))
           z == scp_output_ack(w)
           u == [Start(t, "fin") EXCEPT !.state = "LAST_ACK", !.retry = 0]
           g == [y EXCEPT !.s = u]
           h == Emit(g, a)
<1>1. Typed(y) /\ y.s \in Stream
  BY DEF Good, Typed
<1>2. t \in Stream
  BY <1>1 DEF Stream
<1>3. w = [y EXCEPT !.s.rcv_nxt = n] /\ Keeps(y.s, t) /\ t.snd_q = y.s.snd_q
  BY <1>1, <1>2 DEF Keeps, Stream
<1> HIDE DEF t
<1>4. Start(t, "fin") \in Stream /\ Keeps(t, Start(t, "fin")) /\ Start(t, "fin").snd_q = t.snd_q
  BY <1>2 DEF Start, Stream, Timers, Keeps
<1>5. u \in Stream
  <2> DEFINE f == Start(t, "fin")
  <2>1. f \in Stream /\ "LAST_ACK" \in States /\ 0 \in Nat
    BY <1>4 DEF States
  <2> HIDE DEF f, States
  <2>2. [f EXCEPT !.state = "LAST_ACK", !.retry = 0] \in Stream
    BY <2>1 DEF Stream
  <2> QED
    BY <2>2 DEF f
<1>6. Keeps(y.s, u) /\ u.state = "LAST_ACK" /\ u.snd_q = y.s.snd_q
  BY <1>3, <1>4, <1>5 DEF Keeps, Stream
<1>7. w = [s |-> t, out |-> y.out] /\ g = [s |-> u, out |-> y.out]
  BY <1>1 DEF Typed
<1>8. z = [s |-> t, out |-> y.out \cup {a}]
  <2>1. w.s = t
    BY <1>7
  <2>2. z = Emit(w, a)
    <3> HIDE DEF w
    <3> QED
      BY <2>1 DEF scp_output_ack
  <2> HIDE DEF a, w, z
  <2>3. Emit(w, a) = [s |-> t, out |-> y.out \cup {a}]
    BY <1>7 DEF Emit
  <2> QED
    BY <2>2, <2>3
<1>9. h = [s |-> u, out |-> y.out \cup {a}]
  <2> HIDE DEF a, g, u
  <2> QED
    BY <1>7 DEF Emit
<1>10. a \in PacketType /\ PacketOf(L, a)
  <2> DEFINE b == Packet("ACK", 0, <<>>)
  <2>1. "ACK" \in Kinds /\ <<>> \in Seq(Nat) /\ 0 \in Seqs
    BY SpaceIs DEF Kinds
  <2>2. b \in PacketType /\ b.kind = "ACK"
    BY <2>1, PacketIs DEF Packet
  <2> HIDE DEF b
  <2>3. Acking(t, b) \in PacketType /\ Acking(t, b).kind = "ACK"
    BY <1>2, <2>2, AckingIs DEF Acking, PacketType
  <2>4. a \in PacketType /\ a.kind = "ACK"
    BY <2>3 DEF b
  <2> HIDE DEF a
  <2> QED
    BY <2>4 DEF PacketOf
<1>11. [z EXCEPT !.s = [Start(@, "fin") EXCEPT !.state = "LAST_ACK", !.retry = 0]] = h
  <2> DEFINE o == y.out \cup {a}
  <2>1. z = [s |-> t, out |-> o] /\ h = [s |-> u, out |-> o]
    BY <1>8, <1>9
  <2> HIDE DEF h, z, o
  <2> QED
    BY <2>1
<1>12. Good(L, M, acc, r, g)
  BY <1>6, ClosingGood
<1>13. Good(L, M, acc, r, h) /\ h.s = u
  <2> HIDE DEF a, g
  <2>1. Good(L, M, acc, r, Emit(g, a))
    BY <1>10, <1>12, EmitGood
  <2> QED
    BY <1>9, <2>1
<1> HIDE DEF h, u
<1>14. Good(L, M, acc, r, scp_output_fin_first(h))
  BY <1>6, <1>13, FinFirstGood
<1> QED
  BY <1>3, <1>11, <1>14

LEMMA EstProcessGood ==
    ASSUME NEW L, NEW M, NEW acc, NEW r, NEW x, Good(L, M, acc, r, x),
           x.s.state = "ESTABLISHED", NEW p \in PacketType, PacketOf(M, p)
    PROVE  Good(L, M, acc, r, est_process(x, p))
<1> DEFINE a == scp_process_ack(x, p)
           y == IF p.kind = "FIN" THEN a ELSE x
           n == Plus(p.seq, 1)
           z == scp_output_ack([y EXCEPT !.s.rcv_nxt = n])
           v == [z EXCEPT !.s = [Start(@, "fin") EXCEPT !.state = "LAST_ACK", !.retry = 0]]
<1>1. p.seq \in Int /\ p.kind \in Kinds
  BY SeqsAreInt DEF PacketType
<1>2. n \in Seqs
  BY <1>1, SeqsType
<1>3. \/ est_process(x, p) \in {a, scp_output_ack(x), scp_output_ack(y), x}
      \/ est_process(x, p) = scp_output_fin_first(v)
      \/ p.kind = "DATA" /\ est_process(x, p) = scp_process_data(x, p)
  <2> HIDE DEF v
  <2> QED
    BY <1>1 DEF est_process, Kinds, v
<1>4. Good(L, M, acc, r, a)
  BY ProcessAckGood
<1> HIDE DEF a, n
<1>5. Good(L, M, acc, r, y)
  BY <1>4
<1> HIDE DEF y
<1>6. Good(L, M, acc, r, scp_output_fin_first(v))
  BY <1>2, <1>5, LastAckGood
<1>7. Good(L, M, acc, r, scp_output_ack(x)) /\ Good(L, M, acc, r, scp_output_ack(y))
  BY <1>5, PlainGood
<1>8. p.kind = "DATA" => Good(L, M, acc, r, scp_process_data(x, p))
  BY ProcessDataGood DEF PacketOf
<1> HIDE DEF v
<1> QED
  BY <1>3, <1>4, <1>6, <1>7, <1>8
LEMMA ClosingProcessGood ==
    ASSUME NEW L, NEW M, NEW acc, NEW r, NEW x, Good(L, M, acc, r, x),
           NEW p \in PacketType
    PROVE  /\ x.s.state = "FIN_WAIT" => Good(L, M, acc, r, fin_wait_process(x, p))
           /\ Good(L, M, acc, r, last_ack_process(x, p))
<1> DEFINE y == scp_process_ack(x, p)
           n == IF SEQ_GEQ(p.seq, y.s.rcv_nxt) THEN Plus(p.seq, 1) ELSE y.s.rcv_nxt
           t == [y.s EXCEPT !.rcv_nxt = n]
           z == [y EXCEPT !.s = t]
           a == scp_output_ack(z)
           f(u) == [u EXCEPT !.s = scp_stream_free]
<1>1. p.seq \in Int
  BY SeqsAreInt DEF PacketType
<1>2. Good(L, M, acc, r, y) /\ y.s.state = x.s.state
  BY ProcessAckGood
<1>3. /\ fin_wait_process(x, p) \in {y, scp_output_ack(x), f(a), x}
      /\ last_ack_process(x, p) \in {scp_output_ack(x), f(x), x}
  <2>1. z = [y EXCEPT !.s.rcv_nxt = IF SEQ_GEQ(p.seq, @) THEN Plus(p.seq, 1) ELSE @]
    OBVIOUS
  <2> HIDE DEF z
  <2> QED
    BY <2>1 DEF fin_wait_process, last_ack_process
<1>4. Good(L, M, acc, r, scp_output_ack(x)) /\ Good(L, M, acc, r, f(x))
  BY PlainGood, FreedGood
<1>5. ASSUME x.s.state = "FIN_WAIT" PROVE Good(L, M, acc, r, f(a))
  <2> HIDE DEF y
  <2>1. y.s \in Stream
    BY <1>2 DEF Good, Typed
  <2>2. n \in Seqs
    <3>1. y.s.rcv_nxt \in Seqs
      BY <2>1, StreamFields
    <3> QED
      BY <1>1, <3>1, SeqsType
  <2> HIDE DEF n
  <2>3. t \in Stream
    BY <2>1, <2>2 DEF Stream
  <2>4. Keeps(y.s, t) /\ t.state = "FIN_WAIT" /\ t.snd_q = y.s.snd_q
    BY <1>2, <1>5, <2>1, <2>3 DEF Keeps, Stream
  <2> HIDE DEF t
  <2>5. Good(L, M, acc, r, z)
    BY <1>2, <2>4, ClosingGood
  <2> HIDE DEF z
  <2>6. Good(L, M, acc, r, a)
    BY <2>5, PlainGood
  <2> HIDE DEF a
  <2> QED
    BY <2>6, FreedGood
<1> HIDE DEF y, a, f
<1> QED
  BY <1>2, <1>3, <1>4, <1>5

\* The number a listening stream takes.
LEMMA ListenTakes ==
    ASSUME NEW s \in Stream, Counted(s), s.state = "CLOSED",
           NEW p \in PacketType, p.kind = "CONNECT", NEW i \in Seqs
    PROVE  LET x == Processed(s, p, i)
           IN  x.s.state = "SYN_RECV" /\ x.s.snd_seq_q = i
<1> DEFINE t == [s EXCEPT !.idle_failures = 0]
           g == Start(t, "hs")
           u == [g EXCEPT
                    !.state = "SYN_RECV", !.retry = 0, !.rcv_nxt = p.seq,
                    !.snd_seq_q = i, !.snd_una = i, !.snd_nxt = i]
           w == Only(u)
           x == Processed(s, p, i)
<1>1. t \in Stream
  BY DEF Stream
<1>2. Only(t).s = t /\ [Only(t) EXCEPT !.s = u] = w
  BY DEF Only
<1>3. x = scp_output_connect_ack([Only(t) EXCEPT !.s = u])
  <2>1. x = listen_like_process(Only(t), p, i)
    BY DEF Processed
  <2> HIDE DEF x, t
  <2>2. [Only(t) EXCEPT !.s = [Start(@, "hs") EXCEPT
                    !.state = "SYN_RECV", !.retry = 0, !.rcv_nxt = p.seq,
                    !.snd_seq_q = i, !.snd_una = i, !.snd_nxt = i]]
            = [Only(t) EXCEPT !.s = u]
    BY <1>2
  <2> QED
    BY <2>1, <2>2 DEF listen_like_process
<1> HIDE DEF t, x
<1>4. g \in Stream
  BY <1>1 DEF Start, Stream, Timers
<1> HIDE DEF g
<1>5. u.state = "SYN_RECV" /\ u.snd_seq_q = i
  BY <1>4 DEF Stream
<1> HIDE DEF u
<1>6. x.s = u
  BY <1>2, <1>3 DEF scp_output_connect_ack, Emit, Only
<1> QED
  BY <1>5, <1>6 DEF x

\* A stream that hears something is not idle.
LEMMA ProcessedGood ==
    ASSUME NEW L, NEW M, NEW acc, NEW r, NEW s, Good(L, M, acc, r, Only(s)),
           NEW p \in PacketType, PacketOf(M, p), NEW i \in Seqs,
           s.state = "CLOSED" /\ p.kind = "CONNECT" => i = L.first
    PROVE  Good(L, M, acc, r, Processed(s, p, i))
<1> DEFINE t == [s EXCEPT !.idle_failures = 0]
           x == Only(t)
<1>1. s \in Stream
  BY DEF Good, Typed, Only
<1>2. t \in Stream
  BY <1>1 DEF Stream
<1>3. Alike(s, t) /\ t.state = s.state
  <2>1. /\ t.state = s.state /\ t.snd_seq_q = s.snd_seq_q /\ t.snd_nxt = s.snd_nxt
        /\ t.rcv_nxt = s.rcv_nxt /\ t.rcv_data_q = s.rcv_data_q
        /\ t.rcv_buf_q = s.rcv_buf_q /\ t.sb_cc = s.sb_cc /\ t.snd_q = s.snd_q
    BY <1>1 DEF Stream
  <2> HIDE DEF t
  <2> QED
    BY <1>1, <1>2, <2>1, AlikeFields
<1> HIDE DEF t
<1>4. Good(L, M, acc, r, x) /\ x.s.state = s.state
  <2> DEFINE o == Only(s)
  <2>1. o.s = s /\ o.out = {} /\ x = [s |-> t, out |-> {}] /\ x.s = t
    BY DEF Only
  <2>2. Good(L, M, acc, r, o)
    OBVIOUS
  <2> HIDE DEF o, x
  <2>3. Good(L, M, acc, r, [s |-> t, out |-> o.out])
    BY <1>3, <2>1, <2>2, AlikeGood
  <2> QED
    BY <1>3, <2>1, <2>3
<1> HIDE DEF x
<1>5. s.state \in States
  BY <1>1, StreamFields
<1>6. \/ s.state = "CLOSED" /\ Processed(s, p, i) = listen_like_process(x, p, i)
      \/ s.state = "SYN_SENT" /\ Processed(s, p, i) = syn_sent_process(x, p)
      \/ s.state = "SYN_RECV" /\ Processed(s, p, i) = syn_recv_process(x, p)
      \/ s.state = "ESTABLISHED" /\ Processed(s, p, i) = est_process(x, p)
      \/ s.state = "FIN_WAIT" /\ Processed(s, p, i) = fin_wait_process(x, p)
      \/ s.state = "LAST_ACK" /\ Processed(s, p, i) = last_ack_process(x, p)
      \/ s.state = "FREED" /\ Processed(s, p, i) = Only(s)
  BY <1>5 DEF Processed, x, t, States
<1>7. CASE s.state = "CLOSED" /\ Processed(s, p, i) = listen_like_process(x, p, i)
  BY <1>4, <1>7, ListenGood
<1>8. CASE s.state = "SYN_SENT" /\ Processed(s, p, i) = syn_sent_process(x, p)
  BY <1>4, <1>8, SynSentGood
<1>9. CASE s.state = "SYN_RECV" /\ Processed(s, p, i) = syn_recv_process(x, p)
  BY <1>4, <1>9, SynRecvGood
<1>10. CASE s.state = "ESTABLISHED" /\ Processed(s, p, i) = est_process(x, p)
  BY <1>4, <1>10, EstProcessGood
<1>11. CASE s.state = "FIN_WAIT" /\ Processed(s, p, i) = fin_wait_process(x, p)
  BY <1>4, <1>11, ClosingProcessGood
<1>12. CASE s.state = "LAST_ACK" /\ Processed(s, p, i) = last_ack_process(x, p)
  BY <1>4, <1>12, ClosingProcessGood
<1> QED
  BY <1>6, <1>7, <1>8, <1>9, <1>10, <1>11, <1>12
-----------------------------------------------------------------------------
(***************************************************************************)
(* The two directions of a connection, and the steps.                      *)
(***************************************************************************)
\* The line L holds what n sent, where it is now: in its queue, on the link,
\* in the tree and the queue of its peer, read.
Direction(L, n) ==
    /\ Line(L)
    /\ Outgoing(L, stream[n], accepted[n])
    /\ Incoming(L, stream[Peer(n)], readout[n])
    /\ \A m \in link : m[1] = Peer(n) => PacketOf(L, m[2])

\* Where scp_send never fails there is no gap.
NeverFails == \A z \in Sizes : z.fails = {}
Gapless(L) == NeverFails => L.whole = L.used

StreamIInv(first) ==
    \A n \in Ends : \E L : L.first = first[n] /\ Direction(L, n) /\ Gapless(L)

\* The two lines a step of n starts from.
Ready(L, M, n, first) ==
    /\ L.first = first[n] /\ M.first = first[Peer(n)]
    /\ Direction(L, n) /\ Direction(M, Peer(n)) /\ Gapless(L) /\ Gapless(M)
    /\ Good(L, M, accepted[n], readout[Peer(n)], Only(stream[n]))

LEMMA PeerOfPeer == ASSUME NEW n \in Ends PROVE Peer(Peer(n)) = n
BY PeerIs

LEMMA ReadyIs ==
    ASSUME ScpIInv, NEW first, StreamIInv(first), NEW n \in Ends
    PROVE  \E L, M : Ready(L, M, n, first)
<1> DEFINE k == Peer(n)
           s == stream[n]
<1>1. k \in Ends /\ Peer(k) = n
  BY PeerIs, PeerOfPeer
<1>2. PICK L : L.first = first[n] /\ Direction(L, n) /\ Gapless(L)
  BY DEF StreamIInv
<1> HIDE DEF k
<1>3. PICK M : M.first = first[k] /\ Direction(M, k) /\ Gapless(M)
  BY <1>1 DEF StreamIInv
<1>4. s \in Stream /\ Counted(s) /\ accepted[n] \in Nat /\ readout[k] \in Seq(Nat)
  BY <1>1, StepFrom
<1>5. Line(L) /\ Line(M) /\ Outgoing(L, s, accepted[n]) /\ Incoming(M, s, readout[k])
  BY <1>1, <1>2, <1>3 DEF Direction
<1> HIDE DEF s
<1>6. Typed(Only(s)) /\ Only(s).s = s /\ Only(s).out = {}
  BY <1>4, OnlyTyped DEF Keeps
<1>7. Good(L, M, accepted[n], readout[k], Only(s))
  BY <1>4, <1>5, <1>6 DEF Good
<1> QED
  BY <1>2, <1>3, <1>7 DEF Ready, k, s

\* What came is where it was on a line that grew.
LEMMA IncomingGrows ==
    ASSUME NEW L, NEW N, Grows(L, N), NEW s \in Stream, NEW r, Incoming(L, s, r)
    PROVE  Incoming(N, s, r)
<1>1. /\ N.first = L.first /\ L.whole \in Nat /\ N.whole \in Nat /\ N.whole >= L.whole
  BY DEF Grows, Line, Lines
<1>2. Counting(Came(s, r)) /\ Len(Came(s, r)) <= L.whole
  BY DEF Incoming
<1>3. Len(Came(s, r)) <= N.whole
  <2>1. Len(Came(s, r)) \in Nat
    <3>1. Came(s, r) \in Seq(Nat)
      BY <1>2 DEF Counting
    <3> QED
      BY <3>1
  <2> QED
    BY <1>1, <1>2, <2>1
<1>4. \A i \in DOMAIN s.rcv_buf_q : Piece(N, s.rcv_buf_q[i])
  <2> SUFFICES ASSUME NEW i \in DOMAIN s.rcv_buf_q PROVE Piece(N, s.rcv_buf_q[i])
    OBVIOUS
  <2> DEFINE b == s.rcv_buf_q[i]
  <2>1. b \in Buf
    <3>1. s.rcv_buf_q \in Seq(Buf)
      BY StreamFields
    <3> QED
      BY <3>1
  <2>2. Numbered(b) /\ Piece(L, b)
    BY <2>1, BufNumbered DEF Incoming
  <2> HIDE DEF b
  <2>3. Piece(N, b)
    BY <2>2, PieceGrows
  <2> QED
    BY <2>3 DEF b
<1>5. At(N, s.rcv_nxt) = At(L, s.rcv_nxt)
  BY <1>1 DEF At
<1> QED
  BY <1>1, <1>2, <1>3, <1>4, <1>5 DEF Incoming

\* Node n is left as x says, and new packets are those that x sends.
Moves(n, x) ==
    /\ stream' = [stream EXCEPT ![n] = x.s]
    /\ \A m \in link' : m \in link \/ (m[1] = Peer(n) /\ m[2] \in x.out)

LEMMA LeaveMoves ==
    ASSUME NEW n, NEW x, NEW used, Leave(n, x, used)
    PROVE  Moves(n, x)
<1>1. PICK kept \in SUBSET ({Peer(n)} \X x.out) : link' = (link \ used) \cup kept
  BY DEF Leave
<1>2. \A m \in kept : m[1] = Peer(n) /\ m[2] \in x.out
  <2>1. \A m \in {Peer(n)} \X x.out : m[1] = Peer(n) /\ m[2] \in x.out
    OBVIOUS
  <2> QED
    BY <1>1, <2>1
<1>3. stream' = [stream EXCEPT ![n] = x.s]
  BY DEF Leave
<1> QED
  BY <1>1, <1>2, <1>3 DEF Moves

\* A step of n that takes its line L to N carries both directions along.
LEMMA Carries ==
    ASSUME ScpIInv, NEW first, NEW n \in Ends, NEW L, NEW M, NEW N, Ready(L, M, n, first),
           Grows(L, N), Gapless(N), NEW x, Moves(n, x),
           Good(N, M, accepted'[n], readout'[Peer(n)], x),
           accepted'[Peer(n)] = accepted[Peer(n)], readout'[n] = readout[n]
    PROVE  StreamIInv(first)'
<1> DEFINE k == Peer(n)
<1>1. k \in Ends /\ k # n /\ Peer(k) = n /\ \A m \in Ends : m = n \/ m = k
  BY PeerIs, PeerOfPeer
<1>2. /\ stream \in [Ends -> Stream] /\ \A m \in link : m[2] \in PacketType
  BY DEF ScpIInv, ScpTypeOK
<1>3. stream' = [stream EXCEPT ![n] = x.s]
  BY DEF Moves
<1>4. stream'[n] = x.s /\ stream'[k] = stream[k]
  BY <1>1, <1>2, <1>3
<1>5. /\ Line(L) /\ Incoming(L, stream[k], readout[n])
      /\ \A m \in link : m[1] = k => PacketOf(L, m[2])
  BY DEF Ready, Direction
<1>6. /\ Line(M) /\ Outgoing(M, stream[k], accepted[k])
      /\ \A m \in link : m[1] = n => PacketOf(M, m[2])
  BY <1>1 DEF Ready, Direction
<1>7. /\ Line(N) /\ Outgoing(N, x.s, accepted'[n]) /\ Incoming(M, x.s, readout'[k])
      /\ \A p \in x.out : PacketOf(N, p)
  BY DEF Good
<1>8. \A m \in link' : m \in link \/ (m[1] = k /\ m[2] \in x.out)
  BY DEF Moves
<1>9. accepted'[k] = accepted[k]
  OBVIOUS
<1> HIDE DEF k
<1>10. Direction(N, n)'
  <2>1. Incoming(N, stream[k], readout[n])
    BY <1>1, <1>2, <1>5, IncomingGrows
  <2>2. \A p \in PacketType : PacketOf(L, p) => PacketOf(N, p)
    <3> SUFFICES ASSUME NEW p \in PacketType, PacketOf(L, p) PROVE PacketOf(N, p)
      OBVIOUS
    <3>1. p.kind = "DATA" => Piece(N, p)
      BY BufNumbered, PieceGrows DEF PacketOf
    <3>2. N.first = L.first
      BY DEF Grows
    <3> QED
      BY <3>1, <3>2 DEF PacketOf
  <2>3. \A m \in link' : m[1] = k => PacketOf(N, m[2])
    BY <1>2, <1>5, <1>7, <1>8, <2>2
  <2> QED
    BY <1>4, <1>7, <2>1, <2>3 DEF Direction, k
<1>11. Direction(M, k)'
  <2>1. \A m \in link' : m[1] = n => PacketOf(M, m[2])
    BY <1>1, <1>6, <1>8
  <2> QED
    BY <1>1, <1>4, <1>6, <1>7, <1>9, <2>1 DEF Direction
<1>12. N.first = first[n] /\ M.first = first[k] /\ Gapless(N) /\ Gapless(M)
  BY DEF Ready, Grows, k
<1> QED
  BY <1>1, <1>10, <1>11, <1>12 DEF StreamIInv

\* A step that no application takes.
LEMMA QuietStep ==
    ASSUME ScpIInv, NEW first, StreamIInv(first), NEW n \in Ends, NEW x, NEW used,
           Leave(n, x, used), accepted' = accepted, readout' = readout,
           \A L, M : Ready(L, M, n, first) =>
              Good(L, M, accepted[n], readout[Peer(n)], x)
    PROVE  StreamIInv(first)'
<1>1. PICK L, M : Ready(L, M, n, first)
  BY ReadyIs
<1>2. Good(L, M, accepted'[n], readout'[Peer(n)], x)
  BY <1>1
<1>3. Grows(L, L) /\ Gapless(L)
  BY <1>1 DEF Ready, Direction, Grows, Line, Lines
<1>4. Moves(n, x)
  BY LeaveMoves
<1> QED
  BY <1>1, <1>2, <1>3, <1>4, Carries
\* The link may keep a packet for ever, and nothing in a packet says of which
\* attempt it is or how often the numbers came round.  So it is supposed that an
\* end that connects again starts with the number it had, and that it uses less
\* than half the numbers.
NumbersFrom(first) ==
    \A n \in Ends :
       /\ stream[n].state \in {"SYN_SENT", "SYN_RECV"} => stream[n].snd_seq_q = first[n]
       /\ stream[n].state = "ESTABLISHED" =>
             Diff(stream[n].snd_seq_q, first[n]) < SeqSpace \div 2

\* Constants under which it is so: there is one initial number, scp_send does not
\* fail, and less than half the numbers are sent.
OneNumber(first) == \A n \in Ends : Iss[n] = {first[n]}
FewBytes == NeverFails /\ \A z \in Sizes, n \in Ends : z.total[n] < SeqSpace \div 2
Numbering(first) == NumbersFrom(first)' \/ (OneNumber(first) /\ FewBytes)

LEMMA OnlyIs ==
    ASSUME NEW s, NEW t
    PROVE  /\ [Only(s) EXCEPT !.s = t] = Only(t) /\ [s |-> t, out |-> Only(s).out] = Only(t)
           /\ Only(s).s = s
BY DEF Only

\* Fields that say nothing of what was sent or came.
LEMMA OnlyAlike ==
    ASSUME NEW L, NEW M, NEW acc, NEW r, NEW s, Good(L, M, acc, r, Only(s)),
           NEW t \in Stream,
           t.state = s.state, t.snd_seq_q = s.snd_seq_q, t.snd_nxt = s.snd_nxt,
           t.rcv_nxt = s.rcv_nxt, t.rcv_data_q = s.rcv_data_q,
           t.rcv_buf_q = s.rcv_buf_q, t.sb_cc = s.sb_cc, t.snd_q = s.snd_q
    PROVE  Good(L, M, acc, r, Only(t))
<1>1. s \in Stream
  BY OnlyIs DEF Good, Typed
<1>2. Alike(s, t)
  BY <1>1, AlikeFields
<1> DEFINE x == Only(s)
<1>3. Good(L, M, acc, r, x) /\ x.s = s /\ [s |-> t, out |-> x.out] = Only(t)
  BY OnlyIs
<1> HIDE DEF x
<1>4. Good(L, M, acc, r, [s |-> t, out |-> x.out])
  BY <1>2, <1>3, AlikeGood
<1> QED
  BY <1>3, <1>4

\* Where a step leaves the stream of n.
LEMMA LeaveIs ==
    ASSUME ScpIInv, NEW n \in Ends, NEW x, NEW used, Leave(n, x, used)
    PROVE  stream'[n] = x.s
BY DEF ScpIInv, ScpTypeOK, Leave

LEMMA ConnectStreams ==
    ASSUME ScpIInv, NEW first, StreamIInv(first), Numbering(first),
           NEW n \in Ends, scp_connect(n)
    PROVE  StreamIInv(first)'
<1>1. PICK i \in Iss[n] :
         Leave(n, scp_output_connect(Only([Start(stream[n], "hs") EXCEPT
                      !.state = "SYN_SENT", !.retry = 0,
                      !.snd_seq_q = i, !.snd_una = i, !.snd_nxt = i])), {})
  BY DEF scp_connect
<1> DEFINE s == stream[n]
           u == Start(s, "hs")
           t == [u EXCEPT !.state = "SYN_SENT", !.retry = 0,
                          !.snd_seq_q = i, !.snd_una = i, !.snd_nxt = i]
           x == scp_output_connect(Only(t))
<1>2. s \in Stream /\ i \in Seqs
  BY StepFrom
<1>3. Leave(n, x, {}) /\ s.state = "CLOSED"
  BY <1>1 DEF scp_connect
<1> HIDE DEF s
<1>4. u \in Stream /\ Keeps(s, u) /\ u.snd_q = s.snd_q
  BY <1>2 DEF Start, Stream, Timers, Keeps
<1> HIDE DEF u
<1>5. t \in Stream
  <2>1. "SYN_SENT" \in States /\ 0 \in Nat
    BY DEF States
  <2> HIDE DEF Seqs, States
  <2> QED
    BY <1>2, <1>4, <2>1 DEF Stream
<1>6. /\ Keeps(s, t) /\ t.snd_q = s.snd_q /\ t.state = "SYN_SENT"
      /\ t.snd_nxt = i /\ t.snd_seq_q = i
  BY <1>4, <1>5 DEF Keeps, Stream
<1> HIDE DEF t
<1>7. x.s = t
  BY OnlyIs DEF scp_output_connect, Emit, Only
<1>8. i = first[n]
  <2> HIDE DEF x
  <2>1. stream'[n] = t
    BY <1>3, <1>7, LeaveIs
  <2> QED
    BY <1>6, <2>1 DEF Numbering, NumbersFrom, OneNumber
<1> HIDE DEF x
<1>9. ASSUME NEW L, NEW M, Ready(L, M, n, first)
      PROVE  Good(L, M, accepted[n], readout[Peer(n)], x)
  <2> DEFINE acc == accepted[n]
             r == readout[Peer(n)]
             o == Only(s)
             y == [o EXCEPT !.s = t]
  <2>1. Good(L, M, acc, r, o) /\ L.first = i /\ o.s = s /\ y = Only(t)
    BY <1>8, <1>9, OnlyIs DEF Ready, s
  <2> HIDE DEF acc, r, o
  <2>2. Good(L, M, acc, r, y) /\ y.s = t
    BY <1>3, <1>6, <2>1, StartsGood
  <2> HIDE DEF y
  <2>3. Good(L, M, acc, r, scp_output_connect(y))
    BY <1>6, <2>2, HandshakeGood
  <2> QED
    BY <2>1, <2>3 DEF x, acc, r
<1>10. accepted' = accepted /\ readout' = readout
  BY DEF scp_connect
<1> QED
  BY <1>3, <1>9, <1>10, QuietStep

LEMMA CloseStreams ==
    ASSUME ScpIInv, NEW first, StreamIInv(first), NEW n \in Ends, scp_close(n)
    PROVE  StreamIInv(first)'
<1> DEFINE s == stream[n]
           u == Start(s, "fin")
           t == [u EXCEPT !.state = "FIN_WAIT", !.retry = 0]
           x == scp_output_fin_first(Only(t))
           f == Only(scp_stream_free)
<1>1. s \in Stream
  BY StepFrom
<1>2. (Leave(n, x, {}) \/ Leave(n, f, {})) /\ accepted' = accepted /\ readout' = readout
  BY DEF scp_close
<1>3. u \in Stream /\ Keeps(s, u) /\ u.snd_q = s.snd_q
  BY <1>1 DEF Start, Stream, Timers, Keeps
<1> HIDE DEF s, u
<1>4. t \in Stream
  <2>1. "FIN_WAIT" \in States /\ 0 \in Nat
    BY DEF States
  <2> HIDE DEF States
  <2> QED
    BY <1>3, <2>1 DEF Stream
<1>5. Keeps(s, t) /\ t.state = "FIN_WAIT" /\ t.snd_q = s.snd_q
  BY <1>3, <1>4 DEF Keeps, Stream
<1> HIDE DEF t, x, f
<1>6. ASSUME NEW L, NEW M, Ready(L, M, n, first)
      PROVE  /\ Good(L, M, accepted[n], readout[Peer(n)], x)
             /\ Good(L, M, accepted[n], readout[Peer(n)], f)
  <2> DEFINE acc == accepted[n]
             r == readout[Peer(n)]
             o == Only(s)
             y == [o EXCEPT !.s = t]
  <2>1. Good(L, M, acc, r, o) /\ o.s = s /\ y = Only(t) /\ Only(t).s = t
    BY <1>6, OnlyIs DEF Ready, s
  <2> HIDE DEF acc, r, o
  <2>2. Good(L, M, acc, r, y) /\ y.s = t
    BY <1>5, <2>1, ClosingGood
  <2> HIDE DEF y
  <2>3. Good(L, M, acc, r, scp_output_fin_first(y))
    BY <1>5, <2>2, FinFirstGood
  <2>4. Good(L, M, acc, r, Only(scp_stream_free))
    BY <2>1, FreedGood
  <2> QED
    BY <2>1, <2>3, <2>4 DEF x, f, acc, r
<1> QED
  BY <1>2, <1>6, QuietStep

LEMMA InputStreams ==
    ASSUME ScpIInv, NEW first, StreamIInv(first), Numbering(first),
           NEW n \in Ends, scp_input(n)
    PROVE  StreamIInv(first)'
<1>1. PICK m \in {m \in link : m[1] = n}, i \in Iss[n] :
         Leave(n, Processed(stream[n], m[2], i), {m})
  BY DEF scp_input
<1> DEFINE s == stream[n]
           p == m[2]
           x == Processed(s, p, i)
<1>2. accepted' = accepted /\ readout' = readout /\ Leave(n, x, {m})
  BY <1>1 DEF scp_input
<1>3. p \in PacketType /\ i \in Seqs /\ m \in link /\ m[1] = n
  BY StepFrom DEF ScpIInv, ScpTypeOK
<1>4. stream'[n] = x.s
  <2> HIDE DEF x
  <2> QED
    BY <1>2, LeaveIs
<1>5. s.state = "CLOSED" /\ p.kind = "CONNECT" => i = first[n]
  <2> SUFFICES ASSUME s.state = "CLOSED", p.kind = "CONNECT" PROVE i = first[n]
    OBVIOUS
  <2>1. s \in Stream /\ Counted(s)
    BY StepFrom
  <2> HIDE DEF s, p
  <2>2. x.s.state = "SYN_RECV" /\ x.s.snd_seq_q = i
    BY <1>3, <2>1, ListenTakes
  <2> HIDE DEF x
  <2> QED
    BY <1>4, <2>2 DEF Numbering, NumbersFrom, OneNumber
<1>6. ASSUME NEW L, NEW M, Ready(L, M, n, first)
      PROVE  Good(L, M, accepted[n], readout[Peer(n)], x)
  <2> DEFINE acc == accepted[n]
             r == readout[Peer(n)]
  <2>1. Good(L, M, acc, r, Only(s)) /\ L.first = first[n]
    BY <1>6 DEF Ready
  <2>2. PacketOf(M, p)
    <3>1. \A q \in link : q[1] = n => PacketOf(M, q[2])
      BY <1>6, PeerOfPeer DEF Ready, Direction
    <3> QED
      BY <1>3, <3>1
  <2> HIDE DEF acc, r, s, p
  <2>3. Good(L, M, acc, r, Processed(s, p, i))
    BY <1>3, <1>5, <2>1, <2>2, ProcessedGood
  <2> QED
    BY <2>3 DEF acc, r
<1> HIDE DEF x
<1> QED
  BY <1>2, <1>6, QuietStep
\* A handshake that is given up.
LEMMA ClosedGood ==
    ASSUME NEW L, NEW M, NEW acc, NEW r, NEW s, Good(L, M, acc, r, Only(s)),
           s.state \in {"SYN_SENT", "SYN_RECV"}, NEW t, Keeps(s, t),
           t.state = "CLOSED", t.snd_q = s.snd_q
    PROVE  Good(L, M, acc, r, Only(t))
<1> DEFINE x == Only(s)
<1>1. Good(L, M, acc, r, x) /\ x.s = s /\ [x EXCEPT !.s = t] = Only(t)
  BY OnlyIs
<1> HIDE DEF x
<1>2. Outgoing(L, s, acc) /\ Incoming(M, s, r)
  BY <1>1 DEF Good
<1>3. Outgoing(L, t, acc)
  BY <1>2 DEF Outgoing, Fresh
<1>4. Incoming(M, t, r)
  BY <1>2 DEF Incoming, Fresh, Keeps, Came
<1>5. Good(L, M, acc, r, [x EXCEPT !.s = t])
  BY <1>1, <1>3, <1>4, StreamGood
<1> QED
  BY <1>1, <1>5

LEMMA HandshakeTimeoutStreams ==
    ASSUME ScpIInv, NEW first, StreamIInv(first), NEW n \in Ends,
           scp_handle_handshake_timeout(n)
    PROVE  StreamIInv(first)'
<1> DEFINE g == stream[n]
           s == Stop(g, "hs")
           c == [s EXCEPT !.state = "CLOSED"]
           a == [Start(s, "hs") EXCEPT !.retry = s.retry + 1]
           x == scp_output_connect(Only(a))
           y == scp_output_connect_ack(Only(a))
           syn == s.state \in {"SYN_SENT", "SYN_RECV"}
<1>1. \/ Leave(n, Only(s), {})
      \/ syn /\ (Leave(n, Only(c), {}) \/ Leave(n, x, {}) \/ Leave(n, y, {}))
  <2>1. [Start(s, "hs") EXCEPT !.retry = @ + 1] = a
    BY DEF Start
  <2> QED
    BY <2>1 DEF scp_handle_handshake_timeout
<1>2. accepted' = accepted /\ readout' = readout
  BY DEF scp_handle_handshake_timeout
<1>3. g \in Stream
  BY StepFrom
<1> HIDE DEF g
<1>4. /\ s \in Stream /\ s.state = g.state /\ s.snd_seq_q = g.snd_seq_q
      /\ s.snd_nxt = g.snd_nxt /\ s.rcv_nxt = g.rcv_nxt /\ s.rcv_data_q = g.rcv_data_q
      /\ s.rcv_buf_q = g.rcv_buf_q /\ s.sb_cc = g.sb_cc /\ s.snd_q = g.snd_q
  BY <1>3 DEF Stop, Stream
<1> HIDE DEF s
<1>5. /\ a \in Stream /\ a.state = s.state /\ a.snd_seq_q = s.snd_seq_q
      /\ a.snd_nxt = s.snd_nxt /\ a.rcv_nxt = s.rcv_nxt /\ a.rcv_data_q = s.rcv_data_q
      /\ a.rcv_buf_q = s.rcv_buf_q /\ a.sb_cc = s.sb_cc /\ a.snd_q = s.snd_q
  <2>1. s.retry + 1 \in Nat
    BY <1>4, StreamFields
  <2> QED
    BY <1>4, <2>1 DEF Start, Stream, Timers
<1>6. Keeps(s, c) /\ c.state = "CLOSED" /\ c.snd_q = s.snd_q
  <2>1. c \in Stream
    BY <1>4 DEF Stream, States
  <2> QED
    BY <1>4, <2>1 DEF Keeps, Stream
<1> HIDE DEF a, c
<1>7. ASSUME NEW L, NEW M, Ready(L, M, n, first)
      PROVE  /\ Good(L, M, accepted[n], readout[Peer(n)], Only(s))
             /\ syn => /\ Good(L, M, accepted[n], readout[Peer(n)], Only(c))
                       /\ Good(L, M, accepted[n], readout[Peer(n)], x)
                       /\ Good(L, M, accepted[n], readout[Peer(n)], y)
  <2> DEFINE acc == accepted[n]
             r == readout[Peer(n)]
             o == Only(a)
  <2>1. Good(L, M, acc, r, Only(g))
    BY <1>7 DEF Ready, g
  <2> HIDE DEF acc, r
  <2>2. Good(L, M, acc, r, Only(s))
    BY <1>4, <2>1, OnlyAlike
  <2>3. Good(L, M, acc, r, o) /\ o.s = a
    BY <1>5, <2>2, OnlyAlike, OnlyIs
  <2>4. syn => Good(L, M, acc, r, Only(c))
    BY <1>6, <2>2, ClosedGood
  <2> HIDE DEF o
  <2>5. syn => Good(L, M, acc, r, scp_output_connect(o))
                /\ Good(L, M, acc, r, scp_output_connect_ack(o))
    BY <1>5, <2>3, HandshakeGood
  <2> QED
    BY <2>2, <2>4, <2>5 DEF o, acc, r
<1> DEFINE v == Only(c)
           w == Only(s)
<1>8. CASE Leave(n, w, {})
  <2> HIDE DEF w
  <2>1. \A L, M : Ready(L, M, n, first) => Good(L, M, accepted[n], readout[Peer(n)], w)
    BY <1>7 DEF w
  <2> QED
    BY <1>2, <1>8, <2>1, QuietStep
<1>9. CASE syn /\ (Leave(n, v, {}) \/ Leave(n, x, {}) \/ Leave(n, y, {}))
  <2>1. \A L, M : Ready(L, M, n, first) =>
           /\ Good(L, M, accepted[n], readout[Peer(n)], v)
           /\ Good(L, M, accepted[n], readout[Peer(n)], x)
           /\ Good(L, M, accepted[n], readout[Peer(n)], y)
    BY <1>7, <1>9
  <2> HIDE DEF v, x, y
  <2> QED
    BY <1>2, <1>9, <2>1, QuietStep
<1> QED
  BY <1>1, <1>8, <1>9

LEMMA FinTimeoutStreams ==
    ASSUME ScpIInv, NEW first, StreamIInv(first), NEW n \in Ends,
           scp_handle_fin_timeout(n)
    PROVE  StreamIInv(first)'
<1> DEFINE s == stream[n]
           t == Stop(s, "fin")
           a == [s EXCEPT !.retry = s.retry + 1]
           f == Only(scp_stream_free)
           w == Only(t)
           x == scp_output_fin_retrans(Only(a))
<1>1. Leave(n, w, {}) \/ Leave(n, f, {}) \/ Leave(n, x, {})
  BY DEF scp_handle_fin_timeout
<1>2. accepted' = accepted /\ readout' = readout
  BY DEF scp_handle_fin_timeout
<1>3. s \in Stream
  BY StepFrom
<1> HIDE DEF s
<1>4. /\ t \in Stream /\ t.state = s.state /\ t.snd_seq_q = s.snd_seq_q
      /\ t.snd_nxt = s.snd_nxt /\ t.rcv_nxt = s.rcv_nxt /\ t.rcv_data_q = s.rcv_data_q
      /\ t.rcv_buf_q = s.rcv_buf_q /\ t.sb_cc = s.sb_cc /\ t.snd_q = s.snd_q
  BY <1>3 DEF Stop, Stream
<1>5. /\ a \in Stream /\ a.state = s.state /\ a.snd_seq_q = s.snd_seq_q
      /\ a.snd_nxt = s.snd_nxt /\ a.rcv_nxt = s.rcv_nxt /\ a.rcv_data_q = s.rcv_data_q
      /\ a.rcv_buf_q = s.rcv_buf_q /\ a.sb_cc = s.sb_cc /\ a.snd_q = s.snd_q
  <2>1. s.retry + 1 \in Nat
    BY <1>3, StreamFields
  <2> QED
    BY <1>3, <2>1 DEF Stream
<1> HIDE DEF t, a
<1>6. ASSUME NEW L, NEW M, Ready(L, M, n, first)
      PROVE  /\ Good(L, M, accepted[n], readout[Peer(n)], w)
             /\ Good(L, M, accepted[n], readout[Peer(n)], f)
             /\ Good(L, M, accepted[n], readout[Peer(n)], x)
  <2> DEFINE acc == accepted[n]
             r == readout[Peer(n)]
             o == Only(a)
             g == Only(s)
  <2>1. Good(L, M, acc, r, g)
    BY <1>6 DEF Ready, s
  <2> HIDE DEF acc, r
  <2>2. Good(L, M, acc, r, w) /\ Good(L, M, acc, r, o)
    BY <1>4, <1>5, <2>1, OnlyAlike
  <2> HIDE DEF o, g
  <2>3. Good(L, M, acc, r, scp_output_fin_retrans(o))
    BY <2>2, PlainGood
  <2>4. Good(L, M, acc, r, Only(scp_stream_free))
    BY <2>1, FreedGood
  <2> QED
    BY <2>2, <2>3, <2>4 DEF o, acc, r
<1> HIDE DEF w, f, x
<1> QED
  BY <1>1, <1>2, <1>6, QuietStep

LEMMA RetransStreams ==
    ASSUME ScpIInv, NEW first, StreamIInv(first), NEW n \in Ends, scp_timer_retrans_cb(n)
    PROVE  StreamIInv(first)'
<1> DEFINE s == stream[n]
           h == HalfFlight(s)
           k == s.timeout_count + 1
           t == [s EXCEPT !.ssthresh = h, !.cwnd = Mss, !.dup_acks = 0,
                          !.fr_active = FALSE, !.timeout_count = k]
           x(m) == scp_retransmit(Only(t), m)
           f(m) == [x(m) EXCEPT !.s = scp_stream_free]
<1>1. PICK m \in FragCounts : Leave(n, f(m), {}) \/ Leave(n, x(m), {})
  <2>1. t = [s EXCEPT !.ssthresh = HalfFlight(s), !.cwnd = Mss, !.dup_acks = 0,
                      !.fr_active = FALSE, !.timeout_count = @ + 1]
    OBVIOUS
  <2> HIDE DEF t
  <2> QED
    BY <2>1 DEF scp_timer_retrans_cb
<1>2. accepted' = accepted /\ readout' = readout
  BY DEF scp_timer_retrans_cb
<1>3. s \in Stream
  BY StepFrom
<1> HIDE DEF s
<1>4. h \in Nat /\ k \in Nat /\ Mss \in Nat
  <2>1. h \in Nat
    BY <1>3, GrowType
  <2>2. s.timeout_count \in Nat
    BY <1>3, StreamFields
  <2> HIDE DEF h
  <2> QED
    BY <2>1, <2>2, SizesAre
<1> HIDE DEF h, k
<1> DEFINE u == [s EXCEPT !.dup_acks = 0, !.fr_active = FALSE]
<1>5. t = [u EXCEPT !.ssthresh = h, !.cwnd = Mss, !.timeout_count = k]
  BY <1>3 DEF Stream
<1>6. u \in Stream
  <2>1. 0 \in 0..4 /\ FALSE \in BOOLEAN
    OBVIOUS
  <2> QED
    BY <1>3, <2>1 DEF Stream
<1>7. /\ t.state = s.state /\ t.snd_seq_q = s.snd_seq_q
      /\ t.snd_nxt = s.snd_nxt /\ t.rcv_nxt = s.rcv_nxt /\ t.rcv_data_q = s.rcv_data_q
      /\ t.rcv_buf_q = s.rcv_buf_q /\ t.sb_cc = s.sb_cc /\ t.snd_q = s.snd_q
  BY <1>3 DEF Stream
<1> HIDE DEF t, u
<1>8. t \in Stream
  BY <1>4, <1>5, <1>6 DEF Stream
<1>9. ASSUME NEW L, NEW M, Ready(L, M, n, first)
      PROVE  /\ Good(L, M, accepted[n], readout[Peer(n)], x(m))
             /\ Good(L, M, accepted[n], readout[Peer(n)], f(m))
  <2> DEFINE acc == accepted[n]
             r == readout[Peer(n)]
             o == Only(t)
             y == scp_retransmit(o, m)
  <2>1. Good(L, M, acc, r, Only(s))
    BY <1>9 DEF Ready, s
  <2> HIDE DEF acc, r
  <2>2. Good(L, M, acc, r, o)
    BY <1>7, <1>8, <2>1, OnlyAlike
  <2> HIDE DEF o
  <2>3. Sends(o, y)
    BY <2>2, RetransmitSends DEF Good
  <2> HIDE DEF y
  <2>4. Good(L, M, acc, r, y)
    BY <2>2, <2>3, SendsGood
  <2>5. Good(L, M, acc, r, [y EXCEPT !.s = scp_stream_free])
    BY <2>4, FreedGood
  <2> QED
    BY <2>4, <2>5 DEF y, o, acc, r
<1> DEFINE v == x(m)
           w == f(m)
<1>10. Leave(n, w, {}) \/ Leave(n, v, {})
  BY <1>1
<1>11. \A L, M : Ready(L, M, n, first) =>
          /\ Good(L, M, accepted[n], readout[Peer(n)], v)
          /\ Good(L, M, accepted[n], readout[Peer(n)], w)
  BY <1>9
<1> HIDE DEF v, w
<1> QED
  BY <1>2, <1>10, <1>11, QuietStep

LEMMA PersistStreams ==
    ASSUME ScpIInv, NEW first, StreamIInv(first), NEW n \in Ends, scp_timer_persist_cb(n)
    PROVE  StreamIInv(first)'
<1> DEFINE s == stream[n]
           k(idle) == IF idle THEN s.idle_failures + 1 ELSE s.idle_failures
           t(idle) == [s EXCEPT !.idle_failures = k(idle)]
           x(idle) == Only(t(idle))
           y(idle) == scp_send_window_probe(x(idle))
           f == Only(scp_stream_free)
<1>1. PICK idle \in BOOLEAN :
         Leave(n, f, {}) \/ Leave(n, y(idle), {}) \/ Leave(n, x(idle), {})
  <2>1. \A idle \in BOOLEAN :
           t(idle) = [s EXCEPT !.idle_failures = IF idle THEN @ + 1 ELSE @]
    OBVIOUS
  <2> HIDE DEF t
  <2> QED
    BY <2>1 DEF scp_timer_persist_cb
<1>2. accepted' = accepted /\ readout' = readout
  BY DEF scp_timer_persist_cb
<1>3. s \in Stream
  BY StepFrom
<1> HIDE DEF s
<1> DEFINE j == k(idle)
           u == [s EXCEPT !.idle_failures = j]
           v == Only(u)
           w == scp_send_window_probe(v)
<1>4. Leave(n, f, {}) \/ Leave(n, w, {}) \/ Leave(n, v, {})
  BY <1>1
<1>5. j \in Nat
  BY <1>3, StreamFields
<1> HIDE DEF j
<1>6. /\ u \in Stream /\ u.state = s.state /\ u.snd_seq_q = s.snd_seq_q
      /\ u.snd_nxt = s.snd_nxt /\ u.rcv_nxt = s.rcv_nxt /\ u.rcv_data_q = s.rcv_data_q
      /\ u.rcv_buf_q = s.rcv_buf_q /\ u.sb_cc = s.sb_cc /\ u.snd_q = s.snd_q
  BY <1>3, <1>5 DEF Stream
<1> HIDE DEF u
<1>7. ASSUME NEW L, NEW M, Ready(L, M, n, first)
      PROVE  /\ Good(L, M, accepted[n], readout[Peer(n)], v)
             /\ Good(L, M, accepted[n], readout[Peer(n)], w)
             /\ Good(L, M, accepted[n], readout[Peer(n)], f)
  <2> DEFINE acc == accepted[n]
             r == readout[Peer(n)]
             g == Only(s)
  <2>1. Good(L, M, acc, r, g)
    BY <1>7 DEF Ready, s
  <2> HIDE DEF acc, r
  <2>2. Good(L, M, acc, r, v)
    BY <1>6, <2>1, OnlyAlike
  <2> HIDE DEF v, g
  <2>3. Good(L, M, acc, r, w)
    BY <2>2, PlainGood
  <2>4. Good(L, M, acc, r, f)
    BY <2>1, FreedGood
  <2> QED
    BY <2>2, <2>3, <2>4 DEF acc, r
<1> HIDE DEF f, v, w
<1> QED
  BY <1>2, <1>4, <1>7, QuietStep
\* The next len numbers are taken.
LEMMA NumbersTaken ==
    ASSUME NEW L, Line(L), NEW seq \in Seqs, At(L, seq) = L.used, NEW len \in Nat,
           len < SeqSpace \div 2, At(L, Plus(seq, len)) < SeqSpace \div 2
    PROVE  /\ At(L, Plus(seq, len)) = L.used + len
           /\ L.used + len \in Nat /\ L.used + len < SeqSpace \div 2
<1>1. L.used \in Nat /\ L.used < SeqSpace \div 2
  BY DEF Line, Lines
<1>2. At(L, seq) + len < SeqSpace
  <2> DEFINE u == L.used
  <2>1. u \in Nat /\ u < SeqSpace \div 2 /\ At(L, seq) = u
    BY <1>1
  <2> HIDE DEF u
  <2> QED
    BY <2>1, SpaceIs
<1>3. At(L, Plus(seq, len)) = At(L, seq) + len
  BY <1>2, AtPlus
<1> QED
  BY <1>1, <1>3

\* CanSend bounds what is taken at once.
LEMMA CanSendBounds ==
    ASSUME ScpIInv, NEW n \in Ends, NEW len \in SendSizes, CanSend(n, len)
    PROVE  /\ len \in Nat /\ len > 0 /\ len < SeqSpace \div 2
           /\ stream[n].state = "ESTABLISHED"
<1>1. len \in Nat /\ len > 0
  BY ScpAssumption
<1>2. stream[n].snd_seq_q \in Int /\ stream[n].snd_una \in Int
  BY StepFrom, StreamFields, SeqsAreInt
<1> DEFINE d == Diff(stream[n].snd_seq_q, stream[n].snd_una)
<1>3. d \in Nat
  <2>1. d \in Seqs
    BY <1>2, SeqsType
  <2> HIDE DEF d
  <2> QED
    BY <2>1, SeqsAreInt
<1>4. d + len < SeqSpace \div 2 /\ stream[n].state = "ESTABLISHED"
  BY DEF CanSend
<1> HIDE DEF d
<1> QED
  BY <1>1, <1>3, <1>4, SpaceIs

\* The buffer scp_send takes, at the end of the queue.
TakenBuf(s, acc, len) ==
    [seq |-> s.snd_seq_q, sent |-> 0, data |-> [i \in 1..len |-> acc + i]]
Enqueued(s, acc, len) ==
    [s EXCEPT !.snd_q = Append(@, TakenBuf(s, acc, len)), !.snd_seq_q = Plus(@, len)]

LEMMA EnqueuedIs ==
    ASSUME NEW s \in Stream, NEW acc \in Nat, NEW len \in Nat, len > 0
    PROVE  LET t == Enqueued(s, acc, len)
               b == TakenBuf(s, acc, len)
           IN  /\ b \in SndBuf /\ b.seq = s.snd_seq_q
               /\ b.data \in Seq(Nat) /\ Len(b.data) = len
               /\ \A i \in 1..len : b.data[i] = acc + i
               /\ t \in Stream /\ Keeps(s, t) /\ t.state = s.state /\ t.timers = s.timers
               /\ t.snd_q = Append(s.snd_q, b) /\ t.snd_seq_q = Plus(s.snd_seq_q, len)
               /\ t.snd_una = s.snd_una /\ t.snd_nxt = s.snd_nxt
               /\ t.rcv_nxt = s.rcv_nxt /\ t.rcv_wnd = s.rcv_wnd
<1> DEFINE data == [i \in 1..len |-> acc + i]
           b == [seq |-> s.snd_seq_q, sent |-> 0, data |-> data]
           q == Append(s.snd_q, b)
           e == Plus(s.snd_seq_q, len)
           t == [s EXCEPT !.snd_q = q, !.snd_seq_q = e]
<1>1. s.snd_q \in Seq(SndBuf) /\ s.snd_seq_q \in Seqs /\ s.snd_seq_q \in Int
  BY StreamFields, SeqsAreInt
<1>2. data \in Seq(Nat) /\ Len(data) = len /\ \A i \in 1..len : data[i] = acc + i
  <2>1. data = [i \in 1..len |-> acc + i]
    OBVIOUS
  <2> HIDE DEF data
  <2> QED
    BY <2>1
<1> HIDE DEF data
<1>3. b \in SndBuf /\ b.seq = s.snd_seq_q /\ b.data = data
  BY <1>1, <1>2 DEF SndBuf, Buf, Seqs
<1>4. b = TakenBuf(s, acc, len)
  BY DEF TakenBuf, data
<1> HIDE DEF b
<1>5. q \in Seq(SndBuf)
  BY <1>1, <1>3
<1>6. e \in Seqs
  BY <1>1, SeqsType
<1>7. t = Enqueued(s, acc, len) /\ q = Append(s.snd_q, TakenBuf(s, acc, len))
  BY <1>4 DEF Enqueued
<1> HIDE DEF q, e
<1>8. t \in Stream
  <2> HIDE DEF Seqs
  <2> QED
    BY <1>5, <1>6 DEF Stream, SndBuf
<1>9. /\ Keeps(s, t) /\ t.state = s.state /\ t.snd_seq_q = e /\ t.snd_q = q
      /\ t.rcv_nxt = s.rcv_nxt /\ t.timers = s.timers /\ t.snd_una = s.snd_una
      /\ t.snd_nxt = s.snd_nxt /\ t.rcv_wnd = s.rcv_wnd
  BY <1>8 DEF Keeps, Stream
<1> HIDE DEF t
<1> QED
  BY <1>2, <1>3, <1>4, <1>7, <1>8, <1>9 DEF e

LEMMA SendIs ==
    ASSUME ScpIInv, NEW n \in Ends, NEW len \in SendSizes, scp_send(n, len)
    PROVE  LET t == Enqueued(stream[n], accepted[n], len)
           IN  /\ stream[n] \in Stream /\ stream[n].state = "ESTABLISHED"
               /\ accepted[n] \in Nat /\ len \in Nat /\ len > 0
               /\ Leave(n, scp_output(Only(t)), {}) /\ readout' = readout
               /\ accepted'[n] = accepted[n] + len /\ accepted'[Peer(n)] = accepted[Peer(n)]
<1>1. /\ stream[n] \in Stream /\ accepted \in [Ends -> Nat]
      /\ len \in Nat /\ len > 0 /\ stream[n].state = "ESTABLISHED"
  BY StepFrom, CanSendBounds DEF scp_send
<1>2. /\ Leave(n, scp_output(Only(Enqueued(stream[n], accepted[n], len))), {})
      /\ accepted' = [accepted EXCEPT ![n] = @ + len] /\ readout' = readout
  BY DEF scp_send, Enqueued, TakenBuf
<1> QED
  BY <1>1, <1>2, PeerIs

\* Where the line goes on without a gap it gets the bytes, else only numbers.
LEMMA SendGrows ==
    ASSUME ScpIInv, NEW first, Numbering(first),
           NEW n \in Ends, NEW len \in SendSizes, scp_send(n, len),
           NEW L, NEW M, Ready(L, M, n, first)
    PROVE  \E N : /\ Grows(L, N) /\ Gapless(N) /\ N.used = L.used + len
                  /\ Good(N, M, accepted[n] + len, readout[Peer(n)],
                          Only(Enqueued(stream[n], accepted[n], len)))
<1> DEFINE s == stream[n]
           b == TakenBuf(s, accepted[n], len)
           data == b.data
           t == Enqueued(s, accepted[n], len)
           q == t.snd_q
           e == Plus(s.snd_seq_q, len)
           x == scp_output(Only(t))
           acc == accepted[n]
           r == readout[Peer(n)]
           H == SeqSpace \div 2
<1>1. /\ s \in Stream /\ Counted(s) /\ acc \in Nat
      /\ len \in Nat /\ len > 0 /\ len < H /\ s.state = "ESTABLISHED"
  BY StepFrom, CanSendBounds DEF scp_send
<1>2. Leave(n, x, {})
  BY SendIs
<1>3. /\ s.snd_q \in Seq(SndBuf) /\ s.snd_seq_q \in Seqs /\ s.snd_seq_q \in Int
  BY <1>1, StreamFields, SeqsAreInt
<1>4. Ready(L, M, n, first)
  OBVIOUS
<1>5. /\ Line(L) /\ Line(M) /\ Outgoing(L, s, acc) /\ Incoming(M, s, r)
      /\ r \in Seq(Nat) /\ L.first = first[n]
  BY <1>4, OnlyIs DEF Ready, Good
<1>6. /\ b \in SndBuf /\ b.seq = s.snd_seq_q /\ data \in Seq(Nat) /\ Len(data) = len
      /\ \A i \in 1..len : data[i] = acc + i
      /\ t \in Stream /\ Keeps(s, t) /\ t.state = s.state /\ t.snd_seq_q = e
      /\ q = Append(s.snd_q, b) /\ t.rcv_nxt = s.rcv_nxt
  <2> HIDE DEF s, acc
  <2>1. /\ TakenBuf(s, acc, len) \in SndBuf /\ TakenBuf(s, acc, len).seq = s.snd_seq_q
        /\ TakenBuf(s, acc, len).data \in Seq(Nat) /\ Len(TakenBuf(s, acc, len).data) = len
        /\ \A i \in 1..len : TakenBuf(s, acc, len).data[i] = acc + i
    BY <1>1, EnqueuedIs
  <2>2. LET v == Enqueued(s, acc, len)
        IN  /\ v \in Stream /\ Keeps(s, v) /\ v.state = s.state
            /\ v.snd_seq_q = Plus(s.snd_seq_q, len) /\ v.rcv_nxt = s.rcv_nxt
            /\ v.snd_q = Append(s.snd_q, TakenBuf(s, acc, len))
    BY <1>1, EnqueuedIs
  <2> QED
    BY <2>1, <2>2 DEF acc
<1> HIDE DEF s, H
<1>7. data \in Seq(Nat) /\ Len(data) = len /\ \A i \in 1..len : data[i] = acc + i
  BY <1>6
<1>8. b \in SndBuf /\ b.seq = s.snd_seq_q /\ b.data = data
  BY <1>6
<1> HIDE DEF data, acc, r, b, t
<1>9. /\ q \in Seq(SndBuf) /\ Len(s.snd_q) \in Nat /\ DOMAIN s.snd_q = 1..Len(s.snd_q)
      /\ DOMAIN q = 1..(Len(s.snd_q) + 1) /\ q[Len(s.snd_q) + 1] = b
      /\ \A i \in 1..Len(s.snd_q) : q[i] = s.snd_q[i]
  <2> DEFINE w == s.snd_q
  <2>1. w \in Seq(SndBuf) /\ q = Append(w, b)
    BY <1>3, <1>6
  <2> HIDE DEF w, q
  <2>2. /\ Append(w, b) \in Seq(SndBuf) /\ Len(w) \in Nat /\ DOMAIN w = 1..Len(w)
        /\ DOMAIN Append(w, b) = 1..(Len(w) + 1) /\ Append(w, b)[Len(w) + 1] = b
        /\ \A i \in 1..Len(w) : Append(w, b)[i] = w[i]
    BY <1>8, <2>1
  <2> QED
    BY <2>1, <2>2 DEF w
<1>10. /\ t \in Stream /\ Keeps(s, t) /\ t.state = s.state /\ t.snd_seq_q = e
       /\ t.snd_q = q /\ t.rcv_nxt = s.rcv_nxt
  BY <1>6
<1> HIDE DEF q
<1>11. Typed(Only(t)) /\ Only(t).s = t /\ Only(t).out = {}
  BY <1>1, <1>10, OnlyTyped
<1>12. Sends(Only(t), x)
  BY <1>11, OutputSends
<1>13. ASSUME NumbersFrom(first)' PROVE At(L, e) < H
  <2>1. stream'[n] = x.s
    <3> HIDE DEF x
    <3> QED
      BY <1>2, LeaveIs
  <2>2. x.s.state = "ESTABLISHED" /\ x.s.snd_seq_q = e
    BY <1>1, <1>10, <1>11, <1>12 DEF Sends
  <2> HIDE DEF x, e
  <2> QED
    BY <1>5, <1>13, <2>1, <2>2 DEF NumbersFrom, At, H
<1>14. At(L, s.snd_seq_q) = L.used /\ (L.whole = L.used => acc = L.used) /\ L.whole <= acc
  BY <1>1, <1>5 DEF Outgoing
<1>15. At(L, e) = L.used + len /\ L.used + len \in Nat /\ L.used + len < H
  <2>1. CASE NumbersFrom(first)'
    BY <1>1, <1>3, <1>5, <1>13, <1>14, <2>1, NumbersTaken DEF H
  <2>2. CASE OneNumber(first) /\ FewBytes
    <3>1. acc = L.used /\ acc + len < H
      <4>1. acc = L.used
        BY <1>4, <1>14, <2>2 DEF FewBytes, Ready, Gapless
      <4>2. acc + len <= size.total[n] /\ size.total[n] < H /\ size.total[n] \in Nat
        BY <2>2, StepFrom, ScpAssumption DEF FewBytes, scp_send, CanSend, acc, H
      <4>3. H \in Nat
        BY SpaceIs DEF H
      <4> QED
        BY <1>1, <4>1, <4>2, <4>3
    <3>2. At(L, s.snd_seq_q) + len < SeqSpace
      <4>1. H \in Nat /\ SeqSpace = 2 * H
        BY SpaceIs DEF H
      <4> QED
        BY <1>1, <1>14, <3>1, <4>1
    <3>3. At(L, e) = L.used + len
      BY <1>1, <1>3, <1>5, <1>14, <3>2, AtPlus
    <3> QED
      BY <1>1, <3>1, <3>3
  <2> QED
    BY <2>1, <2>2 DEF Numbering
<1> HIDE DEF e
<1> DEFINE k == IF L.whole = L.used THEN L.used + len ELSE L.whole
           N == [first |-> L.first, whole |-> k, used |-> L.used + len]
<1>16. /\ L.first \in Seqs /\ L.whole \in Nat /\ L.used \in Nat /\ L.whole <= L.used
  BY <1>5 DEF Line, Lines
<1>17. /\ k \in Nat /\ k <= L.used + len /\ k <= acc + len /\ k >= L.whole
       /\ (k = L.whole \/ L.whole = L.used) /\ (k = L.used + len => acc + len = L.used + len)
       /\ (L.whole = L.used => k = L.used + len) /\ (L.whole # L.used => L.used > k)
  BY <1>1, <1>14, <1>15, <1>16
<1> HIDE DEF k
<1>18. N.first = L.first /\ N.whole = k /\ N.used = L.used + len /\ N \in Lines
  BY <1>15, <1>16, <1>17 DEF Lines
<1> HIDE DEF N
<1>19. Line(N)
  BY <1>15, <1>17, <1>18 DEF Line, H
<1>20. Grows(L, N) /\ Gapless(N)
  <2>1. N.used >= L.used
    BY <1>1, <1>16, <1>18
  <2>2. Gapless(N)
    BY <1>4, <1>17, <1>18 DEF Ready, Gapless
  <2> QED
    BY <1>5, <1>17, <1>18, <1>19, <2>1, <2>2 DEF Grows
<1>21. \A seq : At(N, seq) = At(L, seq)
  BY <1>18 DEF At
<1>22. Piece(N, b)
  <2>1. At(N, b.seq) = L.used /\ EndAt(N, b) = L.used + len /\ Len(b.data) = len
    BY <1>7, <1>8, <1>14, <1>21 DEF EndAt
  <2>2. EndAt(N, b) <= N.used
    BY <1>15, <1>18, <2>1
  <2>3. CASE L.whole = L.used
    <3>1. EndAt(N, b) <= N.whole
      BY <1>15, <1>17, <1>18, <2>1, <2>3
    <3>2. \A i \in 1..Len(b.data) : b.data[i] = At(N, b.seq) + i
      BY <1>7, <1>8, <1>14, <2>1, <2>3
    <3> QED
      BY <2>2, <3>1, <3>2 DEF Piece
  <2>4. CASE L.whole # L.used
    <3>1. At(N, b.seq) > N.whole
      BY <1>17, <1>18, <2>1, <2>4
    <3> QED
      BY <2>2, <3>1 DEF Piece
  <2> QED
    BY <2>3, <2>4
<1>23. \A i \in DOMAIN t.snd_q : Piece(N, t.snd_q[i])
  <2> SUFFICES ASSUME NEW i \in 1..(Len(s.snd_q) + 1) PROVE Piece(N, q[i])
    BY <1>9, <1>10
  <2>1. CASE i \in 1..Len(s.snd_q)
    <3> DEFINE c == s.snd_q[i]
    <3>1. c \in Buf /\ Piece(L, c) /\ q[i] = c
      <4>1. c \in SndBuf
        BY <1>3, <2>1
      <4>2. Piece(L, c)
        BY <1>5, <1>9, <2>1 DEF Outgoing
      <4> QED
        BY <1>9, <2>1, <4>1, <4>2 DEF SndBuf
    <3> HIDE DEF c
    <3>2. Piece(N, c)
      BY <1>20, <3>1, BufNumbered, PieceGrows
    <3> QED
      BY <3>1, <3>2
  <2>2. CASE i = Len(s.snd_q) + 1
    BY <1>9, <1>22, <2>2
  <2> QED
    BY <1>9, <2>1, <2>2
<1>24. Outgoing(N, t, acc + len)
  BY <1>1, <1>10, <1>15, <1>17, <1>18, <1>21, <1>23 DEF Outgoing, Fresh
<1>25. Incoming(M, t, r)
  BY <1>5, <1>10, SameIncoming DEF Keeps
<1>26. Good(N, M, acc + len, r, Only(t))
  <2>1. acc + len \in Nat
    BY <1>1
  <2> QED
    BY <1>5, <1>11, <1>19, <1>24, <1>25, <2>1 DEF Good
<1> QED
  BY <1>18, <1>20, <1>26 DEF s, t, acc, r

LEMMA SendStreams ==
    ASSUME ScpIInv, NEW first, StreamIInv(first), Numbering(first),
           NEW n \in Ends, NEW len \in SendSizes, scp_send(n, len)
    PROVE  StreamIInv(first)'
<1> DEFINE t == Enqueued(stream[n], accepted[n], len)
           o == Only(t)
           x == scp_output(o)
           k == accepted[n] + len
           r == readout[Peer(n)]
<1>1. PICK L, M : Ready(L, M, n, first)
  BY ReadyIs
<1>2. PICK N : Grows(L, N) /\ Gapless(N) /\ Good(N, M, k, r, o)
  BY <1>1, SendGrows
<1>3. /\ Leave(n, x, {}) /\ readout' = readout
      /\ accepted'[n] = k /\ accepted'[Peer(n)] = accepted[Peer(n)]
  BY SendIs
<1> HIDE DEF o, k, r
<1>4. Sends(o, x)
  BY <1>2, OutputSends DEF Good
<1>5. Good(N, M, k, r, x)
  BY <1>2, <1>4, SendsGood
<1> HIDE DEF x
<1>6. Good(N, M, accepted'[n], readout'[Peer(n)], x)
  BY <1>3, <1>5 DEF r
<1>7. Moves(n, x)
  BY <1>3, LeaveMoves
<1> QED
  BY <1>1, <1>2, <1>3, <1>6, <1>7, Carries

\* The numbers are taken, and no byte has them.
Refused(s, len) == [s EXCEPT !.snd_seq_q = Plus(@, len)]

LEMMA SendFailsIs ==
    ASSUME ScpIInv, NEW n \in Ends, NEW len \in SendSizes, scp_send_fails(n, len)
    PROVE  LET t == Refused(stream[n], len)
           IN  /\ stream[n].state = "ESTABLISHED" /\ stream'[n] = t
               /\ t \in Stream /\ Keeps(stream[n], t) /\ t.state = stream[n].state
               /\ t.snd_seq_q = Plus(stream[n].snd_seq_q, len)
               /\ t.snd_q = stream[n].snd_q /\ t.rcv_nxt = stream[n].rcv_nxt
               /\ t.snd_una = stream[n].snd_una /\ t.snd_nxt = stream[n].snd_nxt
               /\ t.timers = stream[n].timers
               /\ Moves(n, Only(t)) /\ accepted' = accepted /\ readout' = readout
<1> DEFINE s == stream[n]
           e == Plus(s.snd_seq_q, len)
           t == [s EXCEPT !.snd_seq_q = e]
<1>1. s \in Stream /\ len \in Nat /\ s.state = "ESTABLISHED" /\ stream \in [Ends -> Stream]
  BY StepFrom, CanSendBounds DEF scp_send_fails, ScpIInv, ScpTypeOK
<1>2. /\ stream' = [stream EXCEPT ![n] = t] /\ link' = link /\ accepted' = accepted
      /\ readout' = readout
  BY DEF scp_send_fails
<1>3. t = Refused(s, len)
  BY DEF Refused
<1>4. e \in Seqs
  <2>1. s.snd_seq_q \in Int
    BY <1>1, StreamFields, SeqsAreInt
  <2> QED
    BY <1>1, <2>1, SeqsType
<1> HIDE DEF e, s
<1>5. t \in Stream
  <2> HIDE DEF Seqs
  <2> QED
    BY <1>1, <1>4 DEF Stream
<1>6. /\ Keeps(s, t) /\ t.state = s.state /\ t.snd_seq_q = e /\ t.snd_q = s.snd_q
      /\ t.rcv_nxt = s.rcv_nxt /\ t.snd_una = s.snd_una /\ t.snd_nxt = s.snd_nxt
      /\ t.timers = s.timers
  BY <1>1, <1>5 DEF Keeps, Stream
<1> HIDE DEF t
<1>7. Moves(n, Only(t)) /\ stream'[n] = t
  BY <1>1, <1>2 DEF Moves, Only
<1> QED
  BY <1>1, <1>2, <1>3, <1>5, <1>6, <1>7 DEF s, e

LEMMA SendFailsGrows ==
    ASSUME ScpIInv, NEW first, Numbering(first),
           NEW n \in Ends, NEW len \in SendSizes, scp_send_fails(n, len),
           NEW L, NEW M, Ready(L, M, n, first)
    PROVE  \E N : /\ Grows(L, N) /\ Gapless(N) /\ N.used = L.used + len
                  /\ Good(N, M, accepted[n], readout[Peer(n)], Only(Refused(stream[n], len)))
<1> DEFINE s == stream[n]
           e == Plus(s.snd_seq_q, len)
           t == Refused(s, len)
           x == Only(t)
           acc == accepted[n]
           r == readout[Peer(n)]
           H == SeqSpace \div 2
<1>1. /\ s \in Stream /\ Counted(s)
      /\ len \in Nat /\ len > 0 /\ len < H /\ s.state = "ESTABLISHED"
  BY StepFrom, CanSendBounds DEF scp_send_fails
<1>2. /\ stream'[n] = t /\ t \in Stream /\ Keeps(s, t) /\ t.state = s.state
      /\ t.snd_seq_q = e /\ t.snd_q = s.snd_q /\ t.rcv_nxt = s.rcv_nxt
  BY SendFailsIs
<1>3. s.snd_seq_q \in Seqs /\ s.snd_seq_q \in Int
  BY <1>1, StreamFields, SeqsAreInt
<1>4. /\ Line(L) /\ Line(M) /\ Outgoing(L, s, acc) /\ Incoming(M, s, r)
      /\ r \in Seq(Nat) /\ acc \in Nat /\ L.first = first[n]
  BY OnlyIs DEF Ready, Good
<1> HIDE DEF s, acc, r, H, e, t
<1>5. Typed(x) /\ x.s = t /\ x.out = {}
  BY <1>1, <1>2, OnlyTyped
<1>6. At(L, s.snd_seq_q) = L.used /\ L.whole <= acc
  BY <1>1, <1>4 DEF Outgoing
<1>7. ~NeverFails
  BY StepFrom DEF NeverFails, scp_send_fails
<1>8. At(L, e) < H
  <2>1. NumbersFrom(first)'
    BY <1>7 DEF Numbering, FewBytes
  <2> QED
    BY <1>1, <1>2, <1>4, <2>1 DEF NumbersFrom, At, H
<1>9. At(L, e) = L.used + len /\ L.used + len \in Nat /\ L.used + len < H
  BY <1>1, <1>3, <1>4, <1>6, <1>8, NumbersTaken DEF H, e
<1> DEFINE N == [first |-> L.first, whole |-> L.whole, used |-> L.used + len]
<1>10. /\ L.first \in Seqs /\ L.whole \in Nat /\ L.used \in Nat /\ L.whole <= L.used
  BY <1>4 DEF Line, Lines
<1>11. N.first = L.first /\ N.whole = L.whole /\ N.used = L.used + len /\ N \in Lines
  BY <1>9, <1>10 DEF Lines
<1> HIDE DEF N
<1>12. N.whole <= N.used /\ N.whole # N.used /\ N.used >= L.used /\ N.whole >= L.whole
  BY <1>1, <1>10, <1>11
<1>13. Line(N)
  BY <1>9, <1>11, <1>12 DEF Line, H
<1>14. Grows(L, N) /\ Gapless(N)
  BY <1>4, <1>7, <1>11, <1>12, <1>13 DEF Grows, Gapless
<1>15. At(N, e) = N.used
  BY <1>9, <1>11 DEF At
<1>16. \A i \in DOMAIN t.snd_q : Piece(N, t.snd_q[i])
  <2> SUFFICES ASSUME NEW i \in DOMAIN s.snd_q PROVE Piece(N, s.snd_q[i])
    BY <1>2
  <2> DEFINE b == s.snd_q[i]
  <2>1. b \in SndBuf
    <3>1. s.snd_q \in Seq(SndBuf)
      BY <1>1, StreamFields
    <3> QED
      BY <3>1
  <2>2. Numbered(b) /\ Piece(L, b)
    BY <1>4, <2>1, BufNumbered DEF Outgoing, SndBuf
  <2> HIDE DEF b
  <2>3. Piece(N, b)
    BY <1>14, <2>2, PieceGrows
  <2> QED
    BY <2>3 DEF b
<1>17. Outgoing(N, t, acc)
  BY <1>1, <1>2, <1>6, <1>11, <1>12, <1>15, <1>16 DEF Outgoing, Fresh
<1>18. Incoming(M, t, r)
  BY <1>2, <1>4, SameIncoming DEF Keeps
<1>19. Good(N, M, acc, r, x)
  BY <1>4, <1>5, <1>13, <1>17, <1>18 DEF Good
<1> QED
  BY <1>11, <1>14, <1>19 DEF x, t, s, acc, r

LEMMA SendFailsStreams ==
    ASSUME ScpIInv, NEW first, StreamIInv(first), Numbering(first),
           NEW n \in Ends, NEW len \in SendSizes, scp_send_fails(n, len)
    PROVE  StreamIInv(first)'
<1> DEFINE x == Only(Refused(stream[n], len))
<1>1. PICK L, M : Ready(L, M, n, first)
  BY ReadyIs
<1>2. PICK N : /\ Grows(L, N) /\ Gapless(N)
               /\ Good(N, M, accepted[n], readout[Peer(n)], x)
  BY <1>1, SendFailsGrows
<1>3. Moves(n, x) /\ accepted' = accepted /\ readout' = readout
  BY SendFailsIs
<1> HIDE DEF x
<1> QED
  BY <1>1, <1>2, <1>3, Carries

\* What scp_recv takes: front is read, and t is left; the peer is told when the
\* window opens again.
Reads(s, r, t, front) ==
    /\ t \in Stream /\ Counted(t) /\ front \in Seq(Nat)
    /\ t.state = s.state /\ t.snd_seq_q = s.snd_seq_q /\ t.snd_nxt = s.snd_nxt
    /\ t.snd_una = s.snd_una /\ t.snd_q = s.snd_q /\ t.timers = s.timers
    /\ t.rcv_nxt = s.rcv_nxt /\ t.rcv_buf_q = s.rcv_buf_q
    /\ Came(t, r \o front) = Came(s, r)
    /\ t.sb_cc = 0 => t.rcv_wnd = Hiwat

ReadAnswer(s, t) ==
    IF s.rcv_wnd = 0 /\ t.rcv_wnd > 0 THEN scp_output_ack(Only(t)) ELSE Only(t)

LEMMA RecvIs ==
    ASSUME ScpIInv, NEW first, NEW n \in Ends, NEW len \in RecvSizes, scp_recv(n, len)
    PROVE  \E t, front :
              /\ Leave(n, ReadAnswer(stream[n], t), {}) /\ accepted' = accepted
              /\ readout'[Peer(n)] = readout[Peer(n)] \o front /\ readout'[n] = readout[n]
              /\ Reads(stream[n], readout[Peer(n)], t, front)
              /\ \A L, M : Ready(L, M, n, first) =>
                    Good(L, M, accepted[n], readout[Peer(n)] \o front, Only(t))
<1> DEFINE s == stream[n]
           d == s.rcv_data_q
           k == Least(len, Len(d))
           rest == SubSeq(d, k + 1, Len(d))
           front == SubSeq(d, 1, k)
           c == Most(0, s.sb_cc - k)
           u == [s EXCEPT !.rcv_data_q = rest, !.sb_cc = c]
           t == scp_update_rcv_wnd(u)
           x == Only(t)
           r == readout[Peer(n)]
           acc == accepted[n]
<1>1. s \in Stream /\ Counted(s) /\ len \in Nat /\ r \in Seq(Nat)
  <2>1. len \in Nat
    BY ScpAssumption
  <2>2. r \in Seq(Nat)
    BY StepFrom, PeerIs
  <2> QED
    BY <2>1, <2>2, StepFrom
<1>2. /\ Leave(n, ReadAnswer(s, t), {}) /\ accepted' = accepted
      /\ readout' = [readout EXCEPT ![Peer(n)] = r \o front]
  BY DEF scp_recv, ReadAnswer
<1>3. readout'[Peer(n)] = r \o front /\ readout'[n] = readout[n]
  <2>1. readout \in [Ends -> Seq(Nat)]
    BY StepFrom
  <2> HIDE DEF front, r
  <2> QED
    BY <1>2, <2>1, PeerIs
<1> HIDE DEF s, r, acc
<1>4. /\ d \in Seq(Nat) /\ s.rcv_buf_q \in Seq(Buf) /\ s.sb_cc \in Nat
      /\ s.sb_cc = Len(d) + Bytes(s.rcv_buf_q)
  BY <1>1, StreamFields DEF Counted
<1> HIDE DEF d
<1>5. k \in 0..Len(d) /\ Len(d) \in Nat
  BY <1>1, <1>4 DEF Least
<1> HIDE DEF k
<1>6. /\ front \in Seq(Nat) /\ rest \in Seq(Nat) /\ (r \o front) \o rest = r \o d
      /\ r \o front \in Seq(Nat) /\ Len(r \o front) = Len(r) + k
      /\ Len(rest) = Len(d) - k
  BY <1>1, <1>4, <1>5, FrontRead
<1> HIDE DEF front, rest
<1>7. c \in Nat /\ c = Len(rest) + Bytes(s.rcv_buf_q)
  <2>1. Bytes(s.rcv_buf_q) \in Nat
    BY <1>4, LengthsAre
  <2>2. s.sb_cc - k = (Len(d) - k) + Bytes(s.rcv_buf_q) /\ Len(d) - k \in Nat
    BY <1>4, <1>5, <2>1
  <2>3. s.sb_cc - k \in Nat
    BY <2>1, <2>2
  <2>4. c = s.sb_cc - k
    BY <2>3 DEF Most
  <2> QED
    BY <1>6, <2>2, <2>3, <2>4
<1> HIDE DEF c
<1>8. u \in Stream
  BY <1>1, <1>6, <1>7 DEF Stream
<1>9. /\ u.sb_cc = c /\ u.rcv_data_q = rest /\ u.rcv_buf_q = s.rcv_buf_q
      /\ u.state = s.state /\ u.snd_q = s.snd_q /\ u.snd_seq_q = s.snd_seq_q
      /\ u.snd_nxt = s.snd_nxt /\ u.rcv_nxt = s.rcv_nxt
      /\ u.snd_una = s.snd_una /\ u.timers = s.timers
  BY <1>1 DEF Stream
<1> HIDE DEF u
<1>10. Counted(u)
  BY <1>7, <1>9 DEF Counted
<1>11. Received(u, t)
  BY <1>8, <1>10, UpdateWndType
<1>12. /\ t.rcv_nxt = u.rcv_nxt /\ t.rcv_data_q = u.rcv_data_q /\ t.rcv_buf_q = u.rcv_buf_q
       /\ t.sb_cc = 0 => t.rcv_wnd = Hiwat
  <2>1. Hiwat \in Nat /\ Hiwat > 0
    BY SizesAre, ScpAssumption
  <2> DEFINE e == IF u.sb_cc >= Hiwat THEN 0 ELSE Hiwat - u.sb_cc
  <2>2. t = [u EXCEPT !.rcv_wnd = e]
    BY DEF scp_update_rcv_wnd
  <2>3. u.sb_cc = 0 => e = Hiwat
    BY <2>1
  <2> HIDE DEF e, t
  <2> QED
    BY <1>8, <2>2, <2>3 DEF Stream
<1> HIDE DEF t
<1>13. Came(t, r \o front) = Came(s, r)
  BY <1>6, <1>9, <1>12 DEF Came, d
<1>14. Reads(s, r, t, front)
  BY <1>6, <1>9, <1>11, <1>12, <1>13 DEF Reads, Received
<1>15. ASSUME NEW L, NEW M, Ready(L, M, n, first)
       PROVE  Good(L, M, acc, r \o front, x)
  <2>1. /\ Line(L) /\ Line(M) /\ Outgoing(L, s, acc) /\ Incoming(M, s, r) /\ acc \in Nat
    BY <1>15, OnlyIs DEF Ready, Good, acc, r, s
  <2>2. s.state \in Fresh => r = <<>> /\ d = <<>>
    BY <2>1 DEF Incoming, d
  <2>3. s.state \in Fresh => r \o front = <<>> /\ rest = <<>>
    <3> SUFFICES ASSUME s.state \in Fresh PROVE r \o front = <<>> /\ rest = <<>>
      OBVIOUS
    <3>1. Len(r) = 0 /\ Len(d) = 0
      BY <2>2
    <3>2. k = 0
      BY <1>5, <3>1
    <3>3. Len(r \o front) = 0 /\ Len(rest) = 0
      BY <1>6, <3>1, <3>2
    <3>4. \A w \in Seq(Nat) : Len(w) = 0 => w = <<>>
      OBVIOUS
    <3> QED
      BY <1>6, <3>3, <3>4
  <2>4. Outgoing(L, t, acc)
    BY <1>14, <2>1, SameOutgoing DEF Reads
  <2>5. Incoming(M, t, r \o front)
    BY <1>9, <1>12, <1>13, <1>14, <2>1, <2>3 DEF Incoming, Reads
  <2>6. Typed(x) /\ x.s = t /\ x.out = {}
    <3>1. t \in Stream /\ Counted(t) /\ Keeps(t, t)
      BY <1>14 DEF Reads, Keeps
    <3> QED
      BY <3>1, OnlyTyped
  <2> QED
    BY <1>6, <2>1, <2>4, <2>5, <2>6 DEF Good
<1> QED
  BY <1>2, <1>3, <1>14, <1>15 DEF s, r, acc

LEMMA RecvStreams ==
    ASSUME ScpIInv, NEW first, StreamIInv(first),
           NEW n \in Ends, NEW len \in RecvSizes, scp_recv(n, len)
    PROVE  StreamIInv(first)'
<1> DEFINE s == stream[n]
           r == readout[Peer(n)]
           acc == accepted[n]
<1>1. PICK t, front :
         /\ Leave(n, ReadAnswer(s, t), {}) /\ accepted' = accepted
         /\ readout'[Peer(n)] = r \o front /\ readout'[n] = readout[n]
         /\ \A L, M : Ready(L, M, n, first) => Good(L, M, acc, r \o front, Only(t))
  BY RecvIs
<1>2. PICK L, M : Ready(L, M, n, first)
  BY ReadyIs
<1> DEFINE x == Only(t)
           y == ReadAnswer(s, t)
<1>3. Good(L, M, acc, r \o front, x)
  BY <1>1, <1>2
<1> HIDE DEF s, r, acc, x
<1>4. Good(L, M, acc, r \o front, y)
  <2>1. Good(L, M, acc, r \o front, scp_output_ack(x))
    BY <1>3, PlainGood
  <2> QED
    BY <1>3, <2>1 DEF ReadAnswer, x
<1> HIDE DEF y
<1>5. Good(L, M, accepted'[n], readout'[Peer(n)], y)
  BY <1>1, <1>4 DEF acc
<1>6. Grows(L, L) /\ Gapless(L)
  BY <1>2 DEF Grows, Line, Lines, Ready, Direction
<1>7. Moves(n, y)
  BY <1>1, LeaveMoves DEF y
<1> QED
  BY <1>1, <1>2, <1>5, <1>6, <1>7, Carries

\* Nothing was sent and nothing is on its way.
LEMMA InitStreams ==
    ASSUME ScpInit, NEW first \in [Ends -> Seqs]
    PROVE  StreamIInv(first)
<1> SUFFICES ASSUME NEW n \in Ends
             PROVE  \E L : L.first = first[n] /\ Direction(L, n) /\ Gapless(L)
  BY DEF StreamIInv
<1> DEFINE s == scp_stream_alloc
           L == [first |-> first[n], whole |-> 0, used |-> 0]
<1>1. /\ stream[n] = s /\ stream[Peer(n)] = s /\ link = {}
      /\ accepted[n] = 0 /\ readout[n] = <<>>
  BY PeerIs DEF ScpInit
<1>2. /\ s.state = "CLOSED" /\ s.snd_q = <<>> /\ s.rcv_data_q = <<>> /\ s.rcv_buf_q = <<>>
  BY DEF scp_stream_alloc
<1>3. L.first = first[n] /\ L.whole = 0 /\ L.used = 0 /\ first[n] \in Seqs
  OBVIOUS
<1>4. Line(L)
  <2>1. 0 < SeqSpace \div 2
    BY SpaceIs
  <2>2. L \in Lines
    BY <1>3 DEF Lines
  <2> HIDE DEF L
  <2> QED
    BY <1>3, <2>1, <2>2 DEF Line
<1> HIDE DEF s, L
<1>5. Outgoing(L, s, 0)
  BY <1>2, <1>3 DEF Outgoing
<1>6. Incoming(L, s, <<>>)
  <2>1. Came(s, <<>>) = <<>> /\ Len(<<>>) = 0
    BY <1>2 DEF Came
  <2>2. Counting(<<>>)
    BY DEF Counting
  <2>3. Counting(Came(s, <<>>)) /\ Len(Came(s, <<>>)) <= L.whole
    BY <1>3, <2>1, <2>2
  <2> QED
    BY <1>2, <2>3 DEF Incoming
<1>7. Direction(L, n)
  BY <1>1, <1>4, <1>5, <1>6 DEF Direction
<1> QED
  BY <1>3, <1>7 DEF Gapless

LEMMA NextStreams ==
    ASSUME ScpIInv, NEW first, StreamIInv(first), Numbering(first), [ScpNext]_scp_vars
    PROVE  StreamIInv(first)'
<1>1. CASE ScpNext
  <2>1. PICK n \in Ends :
          \/ scp_connect(n) \/ scp_close(n) \/ scp_input(n)
          \/ \E len \in SendSizes : scp_send(n, len) \/ scp_send_fails(n, len)
          \/ \E len \in RecvSizes : scp_recv(n, len)
          \/ scp_handle_handshake_timeout(n) \/ scp_handle_fin_timeout(n)
          \/ scp_timer_retrans_cb(n) \/ scp_timer_persist_cb(n)
    BY <1>1 DEF ScpNext
  <2>2. CASE scp_connect(n)
    BY <2>2, ConnectStreams
  <2>3. CASE scp_close(n)
    BY <2>3, CloseStreams
  <2>4. CASE scp_input(n)
    BY <2>4, InputStreams
  <2>5. CASE \E len \in SendSizes : scp_send(n, len) \/ scp_send_fails(n, len)
    BY <2>5, SendStreams, SendFailsStreams
  <2>6. CASE \E len \in RecvSizes : scp_recv(n, len)
    BY <2>6, RecvStreams
  <2>7. CASE scp_handle_handshake_timeout(n)
    BY <2>7, HandshakeTimeoutStreams
  <2>8. CASE scp_handle_fin_timeout(n)
    BY <2>8, FinTimeoutStreams
  <2>9. CASE scp_timer_retrans_cb(n)
    BY <2>9, RetransStreams
  <2>10. CASE scp_timer_persist_cb(n)
    BY <2>10, PersistStreams
  <2> QED
    BY <2>1, <2>2, <2>3, <2>4, <2>5, <2>6, <2>7, <2>8, <2>9, <2>10
<1>2. CASE UNCHANGED scp_vars
  <2>1. ASSUME NEW n \in Ends, NEW L, Direction(L, n) PROVE Direction(L, n)'
    BY <1>2, <2>1 DEF scp_vars, Direction
  <2>2. ASSUME NEW n \in Ends
        PROVE  \E L : L.first = first[n] /\ Direction(L, n)' /\ Gapless(L)
    BY <2>1 DEF StreamIInv
  <2> QED
    BY <2>2 DEF StreamIInv
<1> QED
  BY <1>1, <1>2

\* What was read are the first bytes that were sent.
LEMMA ReadIs ==
    ASSUME NEW L, Line(L), NEW s, NEW acc \in Nat, Outgoing(L, s, acc),
           NEW t \in Stream, NEW r \in Seq(Nat), Incoming(L, t, r)
    PROVE  r = [i \in 1..Len(r) |-> i] /\ Len(r) <= acc
<1> DEFINE d == t.rcv_data_q
<1>1. L.whole \in Nat /\ L.whole <= acc /\ Counting(r \o d) /\ Len(r \o d) <= L.whole
  BY DEF Line, Lines, Outgoing, Incoming, Came
<1>2. d \in Seq(Nat)
  BY StreamFields
<1> HIDE DEF d
<1>3. /\ Len(r \o d) = Len(r) + Len(d) /\ Len(r) \in Nat /\ Len(d) \in Nat
      /\ \A i \in 1..Len(r) : (r \o d)[i] = r[i]
  BY <1>2, OneAfterOther
<1>4. Len(r) <= acc
  BY <1>1, <1>3
<1>5. \A i \in 1..Len(r) : r[i] = i
  <2> SUFFICES ASSUME NEW i \in 1..Len(r) PROVE r[i] = i
    OBVIOUS
  <2>1. i \in 1..Len(r \o d)
    BY <1>3
  <2>2. (r \o d)[i] = i
    BY <1>1, <2>1 DEF Counting
  <2> QED
    BY <1>3, <2>2
<1>6. r = [i \in 1..Len(r) |-> r[i]]
  OBVIOUS
<1> QED
  BY <1>4, <1>5, <1>6

\* scp_recv is a step of the stream: its reader gets nothing, or the next bytes.
LEMMA RecvReads ==
    ASSUME ScpIInv, ScpIInv', NEW first, StreamIInv(first)',
           NEW n \in Ends, NEW len \in RecvSizes, scp_recv(n, len)
    PROVE  [Promise!Next]_<<accepted, readout>>
<1> DEFINE d == stream[n].rcv_data_q
           k == Least(len, Len(d))
           front == SubSeq(d, 1, k)
           j == Peer(n)
           r == readout[j]
<1>1. d \in Seq(Nat) /\ len \in Nat /\ readout \in [Ends -> Seq(Nat)] /\ j \in Ends
  BY PeerIs, StepFrom, StreamFields, ScpAssumption
<1>2. readout' = [readout EXCEPT ![j] = r \o front] /\ accepted' = accepted
  BY DEF scp_recv
<1> HIDE DEF d, j
<1>3. k \in 0..Len(d)
  BY <1>1 DEF Least
<1> HIDE DEF k
<1>4. front \in Seq(Nat) /\ Len(front) = k /\ r \in Seq(Nat)
  BY <1>1, <1>3
<1> HIDE DEF front
<1>5. readout'[j] = r \o front
  BY <1>1, <1>2
<1>6. Len(r \o front) = Len(r) + k /\ Len(r) \in Nat
  BY <1>4, OneAfterOther
<1>7. CASE k = 0
  <2>1. front = <<>>
    BY <1>4, <1>7
  <2>2. r \o front = r
    BY <1>4, <2>1
  <2>3. readout' = readout
    BY <1>1, <1>2, <2>2
  <2> QED
    BY <1>2, <2>3
<1>8. CASE k # 0
  <2> DEFINE w == readout'[j]
  <2>1. Len(w) > Len(r)
    BY <1>3, <1>5, <1>6, <1>8
  <2>2. w = [i \in 1..Len(w) |-> i] /\ Len(w) <= accepted'[j]
    <3>1. PICK L : Direction(L, j)'
      BY <1>1 DEF StreamIInv
    <3>2. Peer(j) \in Ends
      BY <1>1, PeerIs
    <3>3. stream'[Peer(j)] \in Stream /\ accepted'[j] \in Nat /\ w \in Seq(Nat)
      BY <1>1, <3>2 DEF ScpIInv, ScpTypeOK
    <3>4. /\ Line(L) /\ Outgoing(L, stream'[j], accepted'[j])
          /\ Incoming(L, stream'[Peer(j)], w)
      BY <3>1 DEF Direction
    <3> HIDE DEF w
    <3> QED
      BY <3>3, <3>4, ReadIs
  <2>3. readout' = [readout EXCEPT ![j] = w]
    BY <1>2, <1>5
  <2> HIDE DEF w
  <2>4. readout' = [readout EXCEPT ![j] = [i \in 1..Len(w) |-> i]]
    BY <2>2, <2>3
  <2>5. Promise!Read(j)
    BY <1>2, <2>1, <2>2, <2>4 DEF Promise!Read, w, r
  <2> QED
    BY <1>1, <2>5 DEF Promise!Next
<1> QED
  BY <1>7, <1>8

\* Every step is a step of the stream, or none.
LEMMA StepsStream ==
    ASSUME ScpIInv, ScpIInv', NEW first, StreamIInv(first)', [ScpNext]_scp_vars
    PROVE  [Promise!Next]_<<accepted, readout>>
<1>1. CASE \E n \in Ends, len \in SendSizes : scp_send(n, len)
  <2>1. PICK n \in Ends, len \in SendSizes : scp_send(n, len)
    BY <1>1
  <2>2. /\ accepted' = [accepted EXCEPT ![n] = @ + len] /\ readout' = readout
        /\ accepted \in [Ends -> Nat] /\ len \in Nat /\ len > 0
    BY <2>1, StepFrom, ScpAssumption, SMTT(30) DEF scp_send
  <2>3. accepted'[n] = accepted[n] + len
    BY <2>2
  <2>4. accepted' = [accepted EXCEPT ![n] = accepted'[n]] /\ accepted'[n] > accepted[n]
    BY <2>2, <2>3
  <2>5. Promise!Write(n)
    BY <2>2, <2>4 DEF Promise!Write
  <2> QED
    BY <2>5 DEF Promise!Next
<1>2. CASE \E n \in Ends, len \in RecvSizes : scp_recv(n, len)
  BY <1>2, RecvReads
<1>3. CASE UNCHANGED <<accepted, readout>>
  BY <1>3
<1>4. ASSUME NEW n \in Ends
      PROVE  /\ scp_connect(n) => UNCHANGED <<accepted, readout>>
             /\ scp_close(n) => UNCHANGED <<accepted, readout>>
             /\ scp_input(n) => UNCHANGED <<accepted, readout>>
             /\ \A len \in SendSizes :
                   scp_send_fails(n, len) => UNCHANGED <<accepted, readout>>
             /\ scp_handle_handshake_timeout(n) => UNCHANGED <<accepted, readout>>
             /\ scp_handle_fin_timeout(n) => UNCHANGED <<accepted, readout>>
             /\ scp_timer_retrans_cb(n) => UNCHANGED <<accepted, readout>>
             /\ scp_timer_persist_cb(n) => UNCHANGED <<accepted, readout>>
  <2>1. scp_connect(n) => UNCHANGED <<accepted, readout>>
    BY DEF scp_connect
  <2>2. scp_close(n) => UNCHANGED <<accepted, readout>>
    BY DEF scp_close
  <2>3. scp_input(n) => UNCHANGED <<accepted, readout>>
    BY DEF scp_input
  <2>4. \A len \in SendSizes : scp_send_fails(n, len) => UNCHANGED <<accepted, readout>>
    BY DEF scp_send_fails
  <2>5. scp_handle_handshake_timeout(n) => UNCHANGED <<accepted, readout>>
    BY DEF scp_handle_handshake_timeout
  <2>6. scp_handle_fin_timeout(n) => UNCHANGED <<accepted, readout>>
    BY DEF scp_handle_fin_timeout
  <2>7. scp_timer_retrans_cb(n) => UNCHANGED <<accepted, readout>>
    BY DEF scp_timer_retrans_cb
  <2>8. scp_timer_persist_cb(n) => UNCHANGED <<accepted, readout>>
    BY DEF scp_timer_persist_cb
  <2> QED
    BY <2>1, <2>2, <2>3, <2>4, <2>5, <2>6, <2>7, <2>8
<1>5. UNCHANGED scp_vars => UNCHANGED <<accepted, readout>>
  BY DEF scp_vars
<1> QED
  BY <1>1, <1>2, <1>3, <1>4, <1>5 DEF ScpNext

LEMMA InitStream == ScpInit => Promise!Init
BY DEF ScpInit, Promise!Init

\* scp.c as a whole: scp_input puts what came in order, drops what it has,
\* cuts what overlaps and keeps the rest in the tree, scp_recv reads on, and the
\* timers send again from snd_una.  Whatever the link loses or turns round,
\* the reader gets the bytes that were sent, in order, each once, as long as a
\* connection starts from one number and does not come back to it.
THEOREM StreamIsOrdered ==
    ASSUME NEW first \in [Ends -> Seqs]
    PROVE  ScpSpec /\ []NumbersFrom(first) => ImplementsStream
<1> DEFINE I == ScpIInv /\ StreamIInv(first)
           F == NumbersFrom(first)
<1>1. ScpInit => I
  BY InitKeeps, InitStreams
<1>2. I /\ [ScpNext]_scp_vars /\ F' => I'
  BY NextKeeps, NextStreams DEF Numbering
<1>3. I /\ I' /\ [ScpNext]_scp_vars => [Promise!Next]_<<accepted, readout>>
  BY StepsStream
<1>4. ScpInit => Promise!Init
  BY InitStream
<1> HIDE DEF I, F
<1>5. ScpSpec /\ []F => ImplementsStream
  BY <1>1, <1>2, <1>3, <1>4, PTL DEF ScpSpec, ImplementsStream, Promise!Spec
<1> QED
  BY <1>5 DEF F

\* The same from constants alone: where random32 has one answer for each end,
\* scp_send does not run out of memory, and less than half the sequence space
\* is sent, scp_send, scp_input, scp_recv and the timers implement the stream.
THEOREM ImplementsByteStream ==
    ASSUME NEW first \in [Ends -> Seqs], OneNumber(first), FewBytes
    PROVE  ScpSpec => ImplementsStream
<1> DEFINE I == ScpIInv /\ StreamIInv(first)
<1>1. ScpInit => I
  BY InitKeeps, InitStreams
<1>2. I /\ [ScpNext]_scp_vars => I'
  BY NextKeeps, NextStreams DEF Numbering
<1>3. I /\ I' /\ [ScpNext]_scp_vars => [Promise!Next]_<<accepted, readout>>
  BY StepsStream
<1>4. ScpInit => Promise!Init
  BY InitStream
<1> HIDE DEF I
<1> QED
  BY <1>1, <1>2, <1>3, <1>4, PTL DEF ScpSpec, ImplementsStream, Promise!Spec
-----------------------------------------------------------------------------
(***************************************************************************)
(* What a sender lets out, on its line.                                    *)
(***************************************************************************)
\* What waits in the queue of s, and what was sent of it, is on the line.
OnLine(L, s) ==
    /\ Line(L) /\ At(L, s.snd_nxt) <= L.used
    /\ \A i \in DOMAIN s.snd_q : Piece(L, s.snd_q[i])

\* A handler that sends, more closely: the queue keeps its bytes, snd_nxt does
\* not go back, and new packets are data up to it.
Flows(L, x, y) ==
    /\ Sends(x, y) /\ OnLine(L, x.s) /\ OnLine(L, y.s)
    /\ y.s.snd_una = x.s.snd_una /\ y.s.rcv_wnd = x.s.rcv_wnd
    /\ Len(y.s.snd_q) = Len(x.s.snd_q)
    /\ \A i \in 1..Len(x.s.snd_q) : SameBytes(y.s.snd_q[i], x.s.snd_q[i])
    /\ At(L, x.s.snd_nxt) <= At(L, y.s.snd_nxt)
    /\ \A p \in y.out : p \in x.out \/ (p.kind = "DATA" /\ EndAt(L, p) <= At(L, y.s.snd_nxt))

LEMMA AtIs ==
    ASSUME NEW L, Line(L), NEW a \in Seqs
    PROVE  At(L, a) \in Nat /\ At(L, a) \in Seqs
<1>1. L.first \in Seqs
  BY DEF Line, Lines
<1>2. a \in Int /\ L.first \in Int
  BY <1>1, SeqsAreInt
<1>3. At(L, a) \in Seqs
  BY <1>2, SeqsType DEF At
<1> QED
  BY <1>3, SeqsAreInt

LEMMA FlowsTwice ==
    ASSUME NEW L, NEW x, NEW y, NEW z, Flows(L, x, y), Flows(L, y, z)
    PROVE  Flows(L, x, z)
<1>1. Sends(x, z)
  BY SendsTwice DEF Flows
<1>2. At(L, x.s.snd_nxt) <= At(L, z.s.snd_nxt)
  <2>1. x.s \in Stream /\ y.s \in Stream /\ z.s \in Stream /\ Line(L)
    BY DEF Flows, Sends, Typed, OnLine
  <2>2. x.s.snd_nxt \in Seqs /\ y.s.snd_nxt \in Seqs /\ z.s.snd_nxt \in Seqs
    BY <2>1, StreamFields
  <2>3. At(L, x.s.snd_nxt) \in Nat /\ At(L, y.s.snd_nxt) \in Nat /\ At(L, z.s.snd_nxt) \in Nat
    BY <2>1, <2>2, AtIs
  <2> QED
    BY <2>3 DEF Flows
<1>3. \A p \in z.out :
         p \in x.out \/ (p.kind = "DATA" /\ EndAt(L, p) <= At(L, z.s.snd_nxt))
  <2> SUFFICES ASSUME NEW p \in z.out, p \notin x.out
               PROVE  p.kind = "DATA" /\ EndAt(L, p) <= At(L, z.s.snd_nxt)
    OBVIOUS
  <2>1. CASE p \notin y.out
    BY <2>1 DEF Flows
  <2>2. CASE p \in y.out
    <3>1. p.kind = "DATA" /\ EndAt(L, p) <= At(L, y.s.snd_nxt) /\ p \in PacketType
      BY <2>2 DEF Flows, Sends, Typed
    <3>2. At(L, y.s.snd_nxt) <= At(L, z.s.snd_nxt)
      BY DEF Flows
    <3>3. y.s \in Stream /\ z.s \in Stream /\ Line(L)
      BY DEF Flows, Sends, Typed, OnLine
    <3>4. y.s.snd_nxt \in Seqs /\ z.s.snd_nxt \in Seqs /\ p.seq \in Seqs /\ p.data \in Seq(Nat)
      BY <3>1, <3>3, StreamFields DEF PacketType
    <3>5. At(L, y.s.snd_nxt) \in Nat /\ At(L, z.s.snd_nxt) \in Nat /\ At(L, p.seq) \in Nat
      BY <3>3, <3>4, AtIs
    <3>6. EndAt(L, p) \in Nat
      BY <3>4, <3>5 DEF EndAt
    <3> QED
      BY <3>1, <3>2, <3>5, <3>6
  <2> QED
    BY <2>1, <2>2
<1>4. /\ z.s.snd_una = x.s.snd_una /\ z.s.rcv_wnd = x.s.rcv_wnd
      /\ Len(z.s.snd_q) = Len(x.s.snd_q)
      /\ \A i \in 1..Len(x.s.snd_q) : SameBytes(z.s.snd_q[i], x.s.snd_q[i])
  BY DEF Flows, SameBytes
<1> QED
  BY <1>1, <1>2, <1>3, <1>4 DEF Flows

\* A piece is one whatever was counted as sent of it.
LEMMA SamePiece ==
    ASSUME NEW L, NEW b, NEW c, SameBytes(b, c), Piece(L, c)
    PROVE  Piece(L, b)
BY DEF SameBytes, Piece, EndAt, At

LEMMA EditFlows ==
    ASSUME NEW L, NEW x, NEW t, Typed(x), OnLine(L, x.s), Edits(x.s, t)
    PROVE  Flows(L, x, [s |-> t, out |-> x.out])
<1> DEFINE y == [s |-> t, out |-> x.out]
<1>1. Sends(x, y)
  BY AlikeSends DEF Edits
<1>2. x.s \in Stream /\ t \in Stream /\ Line(L)
  BY DEF Typed, Edits, Alike, OnLine
<1>3. x.s.snd_nxt \in Seqs /\ t.snd_q \in Seq(SndBuf) /\ x.s.snd_q \in Seq(SndBuf)
  BY <1>2, StreamFields
<1>4. At(L, x.s.snd_nxt) \in Nat
  BY <1>2, <1>3, AtIs
<1>5. t.snd_nxt = x.s.snd_nxt
  BY DEF Edits, Alike
<1>6. OnLine(L, t)
  <2>1. DOMAIN t.snd_q = 1..Len(x.s.snd_q) /\ DOMAIN x.s.snd_q = 1..Len(x.s.snd_q)
    BY <1>3 DEF Edits
  <2>2. \A i \in DOMAIN t.snd_q : Piece(L, t.snd_q[i])
    BY <2>1, SamePiece DEF Edits, OnLine
  <2> QED
    BY <1>5, <2>2 DEF OnLine
<1>7. y.s = t /\ y.out = x.out
  OBVIOUS
<1> HIDE DEF y
<1> SUFFICES Flows(L, x, y)
  BY DEF y
<1> QED
  BY <1>1, <1>4, <1>5, <1>6, <1>7 DEF Flows, Edits

LEMMA FlowsSelf ==
    ASSUME NEW L, NEW x, Typed(x), OnLine(L, x.s)
    PROVE  Flows(L, x, x)
<1>1. x.s \in Stream /\ x = [s |-> x.s, out |-> x.out]
  BY DEF Typed
<1>2. Alike(x.s, x.s)
  BY <1>1, AlikeFields
<1>3. Edits(x.s, x.s)
  BY <1>2 DEF Edits, SameBytes
<1>4. Flows(L, x, [s |-> x.s, out |-> x.out])
  BY <1>3, EditFlows
<1> QED
  BY <1>1, <1>4

\* Packets that are parts of what waits end within the numbers used.
LEMMA SliceEnds ==
    ASSUME NEW L, Line(L), NEW b \in Buf, Piece(L, b), NEW p, SliceOf(p, b)
    PROVE  /\ p.kind = "DATA" /\ p.seq \in Seqs /\ p.data \in Seq(Nat)
           /\ End(p) \in Seqs /\ EndAt(L, p) = At(L, End(p)) /\ At(L, End(p)) <= L.used
           /\ At(L, End(p)) \in Nat
<1>1. p \in PacketType /\ p.kind = "DATA"
  BY DEF SliceOf
<1>2. Numbered(p) /\ Numbered(b)
  BY <1>1, BufNumbered
<1>3. PacketOf(L, p)
  BY <1>2, SlicePiece
<1>4. Piece(L, p)
  BY <1>1, <1>3 DEF PacketOf
<1>5. /\ At(L, End(p)) = At(L, p.seq) + Len(p.data) /\ End(p) \in Seqs
      /\ At(L, End(p)) <= L.used
  BY <1>2, <1>4, EndOfPiece
<1> QED
  BY <1>1, <1>2, <1>5, AtIs DEF EndAt, Numbered

\* scp_output_data sends data up to the new snd_nxt.
LEMMA OutputDataFlows ==
    ASSUME NEW L, NEW x, Typed(x), OnLine(L, x.s), NEW P, SlicesOf(P, x.s.snd_q)
    PROVE  Flows(L, x, scp_output_data(x, P))
<1> DEFINE y == scp_output_data(x, P)
           nxt == x.s.snd_nxt
           further == {Diff(End(p), nxt) : p \in {p \in P : SEQ_GT(End(p), nxt)}}
           S == {0} \cup further
           m == Max(S)
<1>1. P \in SUBSET PacketType /\ x.s \in Stream /\ Line(L)
  BY SlicesType DEF Typed, OnLine
<1>2. Typed(y) /\ y.out = x.out \cup P /\ y.s = [x.s EXCEPT !.snd_nxt = y.s.snd_nxt]
  BY <1>1, OutputDataType
<1>3. Sends(x, y)
  BY OutputDataSends
<1>4. nxt \in Seqs /\ x.s.snd_q \in Seq(SndBuf) /\ At(L, nxt) \in Nat /\ At(L, nxt) <= L.used
  BY <1>1, StreamFields, AtIs DEF OnLine
<1>5. ASSUME NEW p \in P
      PROVE  /\ p.kind = "DATA" /\ End(p) \in Seqs /\ EndAt(L, p) = At(L, End(p))
             /\ At(L, End(p)) <= L.used /\ At(L, End(p)) \in Nat
  <2>1. PICK i \in DOMAIN x.s.snd_q : SliceOf(p, x.s.snd_q[i])
    BY DEF SlicesOf
  <2>2. x.s.snd_q[i] \in Buf /\ Piece(L, x.s.snd_q[i])
    BY <1>4, <2>1 DEF SndBuf, OnLine
  <2> QED
    BY <1>1, <2>1, <2>2, SliceEnds
<1>6. y.s.snd_nxt = Plus(nxt, m)
  BY <1>1 DEF scp_output_data, Stream
<1>7. ASSUME NEW p \in P
      PROVE  /\ SEQ_GT(End(p), nxt) <=> At(L, End(p)) > At(L, nxt)
             /\ SEQ_GT(End(p), nxt) => Diff(End(p), nxt) = At(L, End(p)) - At(L, nxt)
  <2>1. End(p) \in Seqs /\ At(L, End(p)) <= L.used /\ At(L, End(p)) \in Nat
    BY <1>5
  <2>2. /\ SEQ_GT(End(p), nxt) <=> At(L, End(p)) > At(L, nxt)
        /\ At(L, End(p)) >= At(L, nxt) => Diff(End(p), nxt) = At(L, End(p)) - At(L, nxt)
    BY <1>1, <1>4, <2>1, AtOrder
  <2> HIDE DEF nxt
  <2> QED
    BY <1>4, <2>1, <2>2
<1>8. L.used \in Nat /\ L.used < SeqSpace
  BY <1>1, SpaceIs DEF Line, Lines
<1>9. further \subseteq 0..L.used
  <2> SUFFICES ASSUME NEW p \in P, SEQ_GT(End(p), nxt)
               PROVE  Diff(End(p), nxt) \in 0..L.used
    OBVIOUS
  <2>1. Diff(End(p), nxt) = At(L, End(p)) - At(L, nxt) /\ At(L, End(p)) > At(L, nxt)
    BY <1>7
  <2>2. At(L, End(p)) \in Nat /\ At(L, End(p)) <= L.used
    BY <1>5
  <2> HIDE DEF nxt
  <2> QED
    BY <1>1, <1>4, <1>8, <2>1, <2>2
<1>10. m \in S /\ m \in 0..L.used /\ \A d \in S : d <= m
  <2>1. UpTo(S, L.used)
    BY <1>1, <1>8, <1>9 DEF UpTo
  <2> HIDE DEF S
  <2>2. Greatest(S, L.used, Max(S))
    BY <2>1, MaxIs
  <2> QED
    BY <2>2 DEF Greatest
<1>11. At(L, nxt) + m <= L.used
  <2>1. CASE m = 0
    BY <1>1, <1>4, <1>8, <2>1
  <2>2. CASE m # 0
    <3>1. m \in further
      BY <1>10, <2>2
    <3>2. PICK p \in P : SEQ_GT(End(p), nxt) /\ m = Diff(End(p), nxt)
      BY <3>1
    <3>3. m = At(L, End(p)) - At(L, nxt) /\ At(L, End(p)) <= L.used /\ At(L, End(p)) \in Nat
      BY <1>5, <1>7, <3>2
    <3> HIDE DEF m, nxt
    <3> QED
      BY <1>1, <1>4, <1>8, <3>3
  <2> QED
    BY <2>1, <2>2
<1>12. At(L, y.s.snd_nxt) = At(L, nxt) + m
  <2> HIDE DEF y, m, nxt
  <2>1. m \in Nat /\ At(L, nxt) + m < SeqSpace
    BY <1>1, <1>4, <1>8, <1>10, <1>11, SpaceIs
  <2>2. At(L, Plus(nxt, m)) = At(L, nxt) + m
    BY <1>1, <1>4, <2>1, AtPlus
  <2> QED
    BY <1>6, <2>2
<1>13. \A p \in P : EndAt(L, p) <= At(L, y.s.snd_nxt)
  <2> SUFFICES ASSUME NEW p \in P PROVE At(L, End(p)) <= At(L, nxt) + m
    BY <1>5, <1>12
  <2>1. At(L, End(p)) \in Nat
    BY <1>5
  <2>2. CASE SEQ_GT(End(p), nxt)
    <3>1. Diff(End(p), nxt) \in S
      BY <2>2
    <3>2. Diff(End(p), nxt) <= m /\ Diff(End(p), nxt) = At(L, End(p)) - At(L, nxt)
      BY <1>7, <1>10, <2>2, <3>1
    <3> HIDE DEF m, nxt
    <3> QED
      BY <1>4, <1>10, <2>1, <3>2
  <2>3. CASE ~SEQ_GT(End(p), nxt)
    <3>1. ~(At(L, End(p)) > At(L, nxt))
      BY <1>7, <2>3
    <3> HIDE DEF m, nxt
    <3> QED
      BY <1>4, <1>10, <2>1, <3>1
  <2> QED
    BY <2>2, <2>3
<1>14. /\ y.s.snd_una = x.s.snd_una /\ y.s.rcv_wnd = x.s.rcv_wnd
       /\ y.s.snd_q = x.s.snd_q
  BY <1>1, <1>2 DEF Stream
<1> HIDE DEF y, m
<1>15. OnLine(L, y.s)
  BY <1>1, <1>11, <1>12, <1>14 DEF OnLine
<1>16. At(L, x.s.snd_nxt) <= At(L, y.s.snd_nxt)
  BY <1>4, <1>10, <1>12
<1>17. \A p \in y.out : p \in x.out \/ (p.kind = "DATA" /\ EndAt(L, p) <= At(L, y.s.snd_nxt))
  BY <1>2, <1>5, <1>13
<1>18. Flows(L, x, y)
  BY <1>3, <1>14, <1>15, <1>16, <1>17 DEF Flows, SameBytes
<1> QED
  BY <1>18 DEF y

LEMMA OutputFlows ==
    ASSUME NEW L, NEW x, Typed(x), OnLine(L, x.s)
    PROVE  Flows(L, x, scp_output(x))
<1>1. PICK P, t : /\ SlicesOf(P, x.s.snd_q) /\ Edits(scp_output_data(x, P).s, t)
                  /\ Typed(scp_output_data(x, P))
                  /\ scp_output(x) = [s |-> t, out |-> scp_output_data(x, P).out]
  BY OutputIs
<1> DEFINE y == scp_output_data(x, P)
<1>2. Flows(L, x, y)
  BY <1>1, OutputDataFlows
<1> HIDE DEF y
<1>3. Flows(L, y, [s |-> t, out |-> y.out])
  BY <1>1, <1>2, EditFlows DEF Flows, y
<1> QED
  BY <1>1, <1>2, <1>3, FlowsTwice DEF y

LEMMA GapFlows ==
    ASSUME NEW L, NEW x, Typed(x), OnLine(L, x.s), NEW lo \in Seqs, NEW hi \in Seqs
    PROVE  Flows(L, x, scp_retransmit_gap(x, lo, hi))
BY RetransmitGapIs, OutputDataFlows

LEMMA RetransmitFlows ==
    ASSUME NEW L, NEW x, Typed(x), OnLine(L, x.s), NEW m
    PROVE  Flows(L, x, scp_retransmit(x, m))
BY RetransmitIs, OutputDataFlows

\* What the ends of a flow are.
LEMMA FlowEnds ==
    ASSUME NEW L, NEW x, NEW y, Flows(L, x, y)
    PROVE  Typed(x) /\ Typed(y) /\ OnLine(L, x.s) /\ OnLine(L, y.s)
BY DEF Flows, Sends

LEMMA NewAckFlows ==
    ASSUME NEW L, NEW x, Typed(x), OnLine(L, x.s), NEW acked \in Nat
    PROVE  Flows(L, x, new_ack(x, acked))
<1>1. PICK t : /\ Edits(x.s, t) /\ new_ack(x, acked) = scp_output([s |-> t, out |-> x.out])
  BY NewAckIs
<1> DEFINE y == [s |-> t, out |-> x.out]
<1>2. Flows(L, x, y)
  BY <1>1, EditFlows
<1>3. new_ack(x, acked) = scp_output(y)
  BY <1>1
<1> HIDE DEF y
<1>4. Flows(L, y, scp_output(y))
  BY <1>2, FlowEnds, OutputFlows
<1> QED
  BY <1>2, <1>3, <1>4, FlowsTwice

LEMMA DupAckFlows ==
    ASSUME NEW L, NEW x, Typed(x), OnLine(L, x.s), NEW p \in PacketType
    PROVE  Flows(L, x, dup_ack(x, p))
<1> DEFINE Y(t) == [s |-> t, out |-> x.out]
<1>1. PICK t : /\ Edits(x.s, t)
               /\ \/ dup_ack(x, p) = scp_output(Y(t))
                  \/ dup_ack(x, p) = scp_output(scp_retransmit_gap(Y(t), p.ack, p.sack))
  BY DupAckIs
<1> DEFINE y == Y(t)
           a == scp_retransmit_gap(y, p.ack, p.sack)
<1>2. Flows(L, x, y)
  BY <1>1, EditFlows
<1>3. dup_ack(x, p) \in {scp_output(y), scp_output(a)}
  BY <1>1
<1> HIDE DEF y
<1>4. Typed(y) /\ OnLine(L, y.s) /\ p.ack \in Seqs /\ p.sack \in Seqs
  BY <1>2, FlowEnds DEF PacketType
<1>5. Flows(L, y, a)
  BY <1>4, GapFlows
<1>6. Flows(L, x, a)
  BY <1>2, <1>5, FlowsTwice
<1> HIDE DEF a
<1>7. Flows(L, y, scp_output(y)) /\ Flows(L, a, scp_output(a))
  BY <1>4, <1>6, FlowEnds, OutputFlows
<1>8. Flows(L, x, scp_output(y)) /\ Flows(L, x, scp_output(a))
  BY <1>2, <1>6, <1>7, FlowsTwice
<1> QED
  BY <1>3, <1>8

\* An acknowledgement is refused, or taken and more is sent.
LEMMA ProcessAckFlows ==
    ASSUME NEW L, NEW x, Typed(x), NEW p \in PacketType,
           OnLine(L, x.s), OnLine(L, AckedBy(x.s, p))
    PROVE  \/ scp_process_ack(x, p) = x
           \/ /\ ~SEQ_LT(p.ack, x.s.snd_una) /\ ~SEQ_GT(p.ack, x.s.snd_nxt)
              /\ Flows(L, [s |-> AckedBy(x.s, p), out |-> x.out], scp_process_ack(x, p))
<1> DEFINE y == [s |-> AckedBy(x.s, p), out |-> x.out]
           res == scp_process_ack(x, p)
<1>1. x.s \in Stream /\ p.ack \in Seqs /\ p.sack \in Seqs /\ p.ack \in Int
  BY SeqsAreInt DEF Typed, PacketType
<1>2. Typed(y) /\ OnLine(L, y.s)
  <2>1. Sends(x, y)
    BY <1>1, AckedByIs, AlikeSends
  <2>2. y.s = AckedBy(x.s, p)
    OBVIOUS
  <2> HIDE DEF y
  <2> QED
    BY <2>1, <2>2 DEF Sends
<1>3. \/ res = x
      \/ /\ ~SEQ_LT(p.ack, x.s.snd_una) /\ ~SEQ_GT(p.ack, x.s.snd_nxt)
         /\ \E z : AfterGap(y, z, p) /\ AckTaken(x.s, z, p, res)
  BY ProcessAckIs
<1> HIDE DEF y, res
<1>4. ASSUME NEW z, AfterGap(y, z, p) PROVE Flows(L, y, z)
  <2>1. CASE z = y
    BY <1>2, <2>1, FlowsSelf
  <2>2. CASE z # y
    <3> DEFINE g == scp_retransmit_gap(y, p.ack, p.sack)
    <3>1. Flows(L, y, g)
      BY <1>1, <1>2, GapFlows
    <3>2. PICK u : Edits(g.s, u) /\ z = [s |-> u, out |-> g.out]
      BY <1>4, <2>2 DEF AfterGap
    <3> HIDE DEF g
    <3>3. Flows(L, g, z)
      BY <3>1, <3>2, FlowEnds, EditFlows
    <3> QED
      BY <3>1, <3>3, FlowsTwice
  <2> QED
    BY <2>1, <2>2
<1>5. ASSUME NEW z, AfterGap(y, z, p), AckTaken(x.s, z, p, res) PROVE Flows(L, y, res)
  <2>1. Flows(L, y, z) /\ Typed(z) /\ OnLine(L, z.s)
    BY <1>4, <1>5, FlowEnds
  <2>2. Diff(p.ack, x.s.snd_una) \in Nat
    BY <1>1, StreamFields, SeqsType, SeqsAreInt
  <2>3. /\ Flows(L, z, new_ack(z, Diff(p.ack, x.s.snd_una)))
        /\ Flows(L, z, dup_ack(z, p))
    BY <2>1, <2>2, NewAckFlows, DupAckFlows
  <2> QED
    BY <1>5, <2>1, <2>3, FlowsTwice DEF AckTaken
<1> QED
  BY <1>3, <1>5 DEF res, y
-----------------------------------------------------------------------------
(***************************************************************************)
(* What waits behind a place of the queue.                                 *)
(***************************************************************************)
\* The bytes of the buffers from the i-th on.
Left(q, i) == Bytes(SubSeq(q, i, Len(q)))

LEMMA BytesSame ==
    ASSUME NEW q \in Seq(Buf), NEW r \in Seq(Buf), Len(q) = Len(r),
           \A i \in 1..Len(q) : q[i].data = r[i].data
    PROVE  Bytes(q) = Bytes(r)
<1>1. DOMAIN q = 1..Len(q) /\ DOMAIN r = 1..Len(q)
  OBVIOUS
<1>2. [i \in DOMAIN q |-> Len(q[i].data)] = [i \in DOMAIN r |-> Len(r[i].data)]
  BY <1>1
<1> QED
  BY <1>2 DEF Bytes

LEMMA LeftIs ==
    ASSUME NEW q \in Seq(Buf)
    PROVE  /\ Left(q, 1) = Bytes(q) /\ Bytes(q) \in Nat
           /\ Left(q, Len(q) + 1) = 0
           /\ \A i \in 1..Len(q) : /\ Left(q, i) \in Nat /\ Left(q, i + 1) \in Nat
                                   /\ Left(q, i) = Len(q[i].data) + Left(q, i + 1)
                                   /\ Len(q[i].data) \in Nat
<1>1. SubSeq(q, 1, Len(q)) = q
  OBVIOUS
<1>2. Bytes(q) \in Nat
  BY LengthsAre
<1>3. Left(q, Len(q) + 1) = 0
  <2>1. SubSeq(q, Len(q) + 1, Len(q)) = <<>>
    OBVIOUS
  <2> QED
    BY <2>1, BytesOfFew DEF Left
<1>4. ASSUME NEW i \in 1..Len(q)
      PROVE  /\ Left(q, i) \in Nat /\ Left(q, i + 1) \in Nat
             /\ Left(q, i) = Len(q[i].data) + Left(q, i + 1) /\ Len(q[i].data) \in Nat
  <2> DEFINE n == Len(q)
             u == SubSeq(q, i, n)
             v == SubSeq(q, i + 1, n)
  <2>1. n \in Nat /\ i \in Nat /\ 1 <= i /\ i <= n /\ q[i] \in Buf
    OBVIOUS
  <2>2. u \in Seq(Buf) /\ v \in Seq(Buf)
    OBVIOUS
  <2>3. <<q[i]>> \in Seq(Buf)
    BY <2>1
  <2>4. u = <<q[i]>> \o v
    OBVIOUS
  <2>5. Bytes(u) = Bytes(<<q[i]>>) + Bytes(v) /\ Bytes(<<q[i]>>) = Len(q[i].data)
    <3> HIDE DEF u, v
    <3> QED
      BY <2>1, <2>2, <2>3, <2>4, BytesConcat, BytesOfFew
  <2>6. Bytes(u) \in Nat /\ Bytes(v) \in Nat
    BY <2>2, LengthsAre
  <2>7. Len(q[i].data) \in Nat
    BY <2>1 DEF Buf
  <2> QED
    BY <2>5, <2>6, <2>7 DEF Left
<1> QED
  BY <1>1, <1>2, <1>3, <1>4 DEF Left

LEMMA LeftSame ==
    ASSUME NEW q \in Seq(Buf), NEW r \in Seq(Buf), Len(q) = Len(r),
           \A i \in 1..Len(q) : q[i].data = r[i].data
    PROVE  Bytes(q) = Bytes(r) /\ \A i \in 1..Len(q) : Left(q, i) = Left(r, i)
<1>1. Bytes(q) = Bytes(r)
  BY BytesSame
<1>2. ASSUME NEW i \in 1..Len(q) PROVE Left(q, i) = Left(r, i)
  <2> DEFINE n == Len(q)
             u == SubSeq(q, i, n)
             v == SubSeq(r, i, n)
  <2>1. /\ u \in Seq(Buf) /\ Len(u) = n - i + 1
        /\ \A j \in 1..(n - i + 1) : i + j - 1 \in 1..n /\ u[j] = q[i + j - 1]
    OBVIOUS
  <2>2. /\ v \in Seq(Buf) /\ Len(v) = n - i + 1
        /\ \A j \in 1..(n - i + 1) : v[j] = r[i + j - 1]
    OBVIOUS
  <2> HIDE DEF u, v
  <2>3. \A j \in 1..Len(u) : u[j].data = v[j].data
    BY <2>1, <2>2
  <2>4. Bytes(u) = Bytes(v)
    BY <2>1, <2>2, <2>3, BytesSame
  <2> QED
    BY <2>4 DEF u, v, Left
<1> QED
  BY <1>1, <1>2

\* What waits behind a place when the first k buffers are gone.
LEMMA LeftLater ==
    ASSUME NEW q \in Seq(Buf), NEW k \in 0..Len(q), NEW i \in 1..(Len(q) - k)
    PROVE  Left(SubSeq(q, k + 1, Len(q)), i) = Left(q, k + i)
<1> DEFINE n == Len(q)
           r == SubSeq(q, k + 1, n)
           u == SubSeq(r, i, n - k)
           v == SubSeq(q, k + i, n)
<1>1. n \in Nat /\ k \in Nat /\ k <= n /\ i \in Nat /\ 1 <= i /\ i <= n - k
  OBVIOUS
<1>2. r \in Seq(Buf) /\ Len(r) = n - k /\ \A j \in 1..(n - k) : r[j] = q[k + j]
  BY SuffixIs
<1>3. /\ v \in Seq(Buf) /\ Len(v) = n - k - i + 1
      /\ \A j \in 1..(n - k - i + 1) : v[j] = q[k + i + j - 1]
  <2>1. v \in Seq(Buf)
    OBVIOUS
  <2>2. Len(v) = n - k - i + 1
    BY <1>1
  <2>3. \A j \in 1..(n - k - i + 1) : v[j] = q[k + i + j - 1]
    BY <1>1
  <2> QED
    BY <2>1, <2>2, <2>3
<1> HIDE DEF r
<1>4. /\ u \in Seq(Buf) /\ Len(u) = n - k - i + 1
      /\ \A j \in 1..(n - k - i + 1) : u[j] = r[i + j - 1]
  BY <1>1, <1>2
<1> HIDE DEF u, v, n
<1>5. \A j \in 1..(n - k - i + 1) : u[j] = v[j]
  BY <1>1, <1>2, <1>3, <1>4
<1>6. Bytes(u) = Bytes(v)
  BY <1>3, <1>4, <1>5, BytesSame
<1> QED
  BY <1>2, <1>6 DEF u, v, n, r, Left

\* The buffers that go end before the acknowledged number.
LEMMA BehindIs ==
    ASSUME NEW S, NEW q \in Seq(S), NEW seq
    PROVE  /\ Behind(q, seq) \in 0..Len(q)
           /\ \A i \in 1..Behind(q, seq) : SEQ_LEQ(End(q[i]), seq)
<1> DEFINE L == Len(q)
           K == {k \in 0..L : \A i \in 1..k : SEQ_LEQ(End(q[i]), seq)}
<1>1. L \in Nat
  OBVIOUS
<1> HIDE DEF L
<1>2. 0 \in K
  BY <1>1
<1>3. UpTo(K, L)
  BY <1>1, <1>2 DEF UpTo
<1>4. Behind(q, seq) = Max(K)
  BY DEF Behind, L
<1>5. Max(K) \in K
  <2> HIDE DEF K
  <2>1. Greatest(K, L, Max(K))
    BY <1>3, MaxIs
  <2> QED
    BY <2>1 DEF Greatest
<1> QED
  BY <1>4, <1>5 DEF L
-----------------------------------------------------------------------------
(***************************************************************************)
(* The queue and the acknowledgements.                                     *)
(***************************************************************************)
\* The queue of s holds the last of the acc bytes it took, each buffer at a
\* number no nearer than the bytes before it; what it let go is acknowledged.
Queued(L, s, acc) ==
    /\ At(L, s.snd_una) <= At(L, s.snd_nxt) /\ At(L, s.snd_nxt) <= At(L, s.snd_seq_q)
    /\ acc <= At(L, s.snd_seq_q)
    /\ acc - Bytes(s.snd_q) <= At(L, s.snd_una)
    /\ \A i \in 1..Len(s.snd_q) : acc - Left(s.snd_q, i) <= At(L, s.snd_q[i].seq)

\* An acknowledgement that is not refused is of what was sent, and of no less
\* than those before it.
LEMMA AckBetween ==
    ASSUME NEW L, Line(L), NEW una \in Seqs, NEW nxt \in Seqs, NEW ack \in Seqs,
           At(L, una) <= At(L, nxt), At(L, nxt) <= L.used,
           ~SEQ_LT(ack, una), ~SEQ_GT(ack, nxt)
    PROVE  /\ At(L, una) <= At(L, ack) /\ At(L, ack) <= At(L, nxt)
           /\ At(L, una) \in Nat /\ At(L, ack) \in Nat /\ At(L, nxt) \in Nat
<1> DEFINE S == SeqSpace
           H == SeqSpace \div 2
           f == L.first
           u == At(L, una)
           n == At(L, nxt)
           a == At(L, ack)
           d == Diff(ack, una)
           e == Diff(ack, nxt)
<1>1. /\ S \in Nat /\ S > 0 /\ f \in 0..(S - 1) /\ una \in 0..(S - 1) /\ nxt \in 0..(S - 1)
      /\ ack \in 0..(S - 1) /\ H \in Nat /\ S = 2 * H
  BY SpaceIs DEF Line, Lines, Seqs
<1>2. /\ u = (una - f) % S /\ n = (nxt - f) % S /\ a = (ack - f) % S
      /\ d = (ack - una) % S /\ e = (ack - nxt) % S
  BY DEF At, Diff
<1>3. u \in Nat /\ n \in Nat /\ a \in Nat /\ a < S /\ u <= n /\ n < H
  <2>1. L.used < H /\ L.used \in Nat
    BY DEF Line, Lines
  <2>2. u \in Nat /\ n \in Nat /\ a \in Nat /\ a < S
    BY <1>1, <1>2
  <2> QED
    BY <1>1, <2>1, <2>2
<1>4. ~(d >= H) /\ ~(e \in 1..(H - 1))
  BY DEF SEQ_LT, SEQ_GT
<1> HIDE DEF S, H, f, u, n, a, d, e
<1>5. /\ u = una - f \/ u = (una - f) + S
      /\ n = nxt - f \/ n = (nxt - f) + S
      /\ a = ack - f \/ a = (ack - f) + S
  BY <1>1, <1>2, Remainders
<1>6. /\ a >= u => d = a - u
      /\ a < u => d = (a - u) + S
  <2>1. ack - una \in {a - u, (a - u) - S, (a - u) + S}
    BY <1>1, <1>3, <1>5
  <2>2. CASE ack - una = a - u
    BY <1>1, <1>2, <1>3, <2>2, Remainders
  <2>3. CASE ack - una = (a - u) - S
    BY <1>1, <1>2, <1>3, <2>3, Remainders
  <2>4. CASE ack - una = (a - u) + S
    BY <1>1, <1>2, <1>3, <2>4, Remainders
  <2> QED
    BY <2>1, <2>2, <2>3, <2>4
<1>7. a > n => e = a - n
  <2> SUFFICES ASSUME a > n PROVE e = a - n
    OBVIOUS
  <2>1. ack - nxt \in {a - n, (a - n) - S, (a - n) + S}
    BY <1>1, <1>3, <1>5
  <2>2. CASE ack - nxt = a - n
    BY <1>1, <1>2, <1>3, <2>2, Remainders
  <2>3. CASE ack - nxt = (a - n) - S
    BY <1>1, <1>2, <1>3, <2>3, Remainders
  <2>4. CASE ack - nxt = (a - n) + S
    BY <1>1, <1>3, <2>4
  <2> QED
    BY <2>1, <2>2, <2>3, <2>4
<1>8. a >= u
  <2> SUFFICES ASSUME a < u PROVE FALSE
    BY <1>3
  <2>1. d = (a - u) + S
    BY <1>6
  <2> QED
    BY <1>1, <1>3, <1>4, <2>1
<1>9. a <= n
  <2> SUFFICES ASSUME a > n PROVE FALSE
    BY <1>3
  <2>1. e = a - n /\ d = a - u
    BY <1>3, <1>6, <1>7, <1>8
  <2> QED
    BY <1>1, <1>3, <1>4, <2>1
<1> QED
  BY <1>3, <1>8, <1>9 DEF u, n, a

\* What a taken acknowledgement leaves.
LEMMA AckQueued ==
    ASSUME NEW L, NEW s \in Stream, OnLine(L, s), NEW acc \in Nat, Queued(L, s, acc),
           NEW p \in PacketType, ~SEQ_LT(p.ack, s.snd_una), ~SEQ_GT(p.ack, s.snd_nxt)
    PROVE  /\ Queued(L, AckedBy(s, p), acc) /\ OnLine(L, AckedBy(s, p))
           /\ At(L, s.snd_una) <= At(L, p.ack) /\ At(L, p.ack) <= At(L, s.snd_nxt)
<1> DEFINE t == AckedBy(s, p)
           q == s.snd_q
           n == Len(q)
           k == Behind(q, p.ack)
           r == SubSeq(q, k + 1, n)
           una == s.snd_una
           a == At(L, p.ack)
<1>1. /\ Line(L) /\ At(L, s.snd_nxt) <= L.used /\ \A i \in DOMAIN q : Piece(L, q[i])
      /\ p.ack \in Seqs /\ una \in Seqs /\ s.snd_nxt \in Seqs /\ q \in Seq(SndBuf)
      /\ s.snd_seq_q \in Seqs
  BY StreamFields DEF OnLine, PacketType
<1>2. /\ At(L, una) <= a /\ a <= At(L, s.snd_nxt)
      /\ At(L, una) \in Nat /\ a \in Nat /\ At(L, s.snd_nxt) \in Nat
  BY <1>1, AckBetween DEF Queued
<1>3. /\ t.snd_una = p.ack /\ t.snd_q = r /\ t.snd_nxt = s.snd_nxt
      /\ t.snd_seq_q = s.snd_seq_q
  <2>1. Alike(s, t) /\ t.snd_una = p.ack /\ t.snd_q = scp_snd_buf_free(q, p.ack)
    BY AckedByIs
  <2> QED
    BY <2>1 DEF Alike, scp_snd_buf_free
<1> HIDE DEF t, una, a, q
<1>4. q \in Seq(Buf) /\ n \in Nat /\ DOMAIN q = 1..n
  BY <1>1 DEF SndBuf
<1>5. k \in 0..n /\ \A i \in 1..k : SEQ_LEQ(End(q[i]), p.ack)
  BY <1>4, BehindIs, SMTT(30)
<1> HIDE DEF k
<1>6. /\ r \in Seq(Buf) /\ Len(r) = n - k
      /\ \A i \in 1..(n - k) : k + i \in 1..n /\ r[i] = q[k + i]
  BY <1>4, <1>5, SuffixIs
<1>7. \A i \in 1..(n - k) : Left(r, i) = Left(q, k + i)
  BY <1>4, <1>5, LeftLater
<1>8. /\ Left(q, 1) = Bytes(q) /\ Bytes(q) \in Nat /\ Left(q, n + 1) = 0
      /\ \A i \in 1..n : /\ Left(q, i) \in Nat /\ Left(q, i + 1) \in Nat
                         /\ Left(q, i) = Len(q[i].data) + Left(q, i + 1)
                         /\ Len(q[i].data) \in Nat
  BY <1>4, LeftIs
<1>9. Bytes(r) = Left(q, k + 1)
  BY DEF Left
<1>10. /\ acc - Bytes(q) <= At(L, una)
       /\ \A i \in 1..n : acc - Left(q, i) <= At(L, q[i].seq)
  BY DEF Queued, q, una
<1>11. acc - Left(q, k + 1) <= a
  <2>1. CASE k = 0
    <3>1. Left(q, k + 1) = Bytes(q)
      BY <1>8, <2>1
    <3> QED
      BY <1>2, <1>8, <1>10, <3>1
  <2>2. CASE k # 0
    <3>1. k \in 1..n
      BY <1>4, <1>5, <2>2
    <3> DEFINE b == q[k]
    <3>2. Piece(L, b) /\ b \in Buf /\ SEQ_LEQ(End(b), p.ack)
      BY <1>1, <1>4, <1>5, <3>1
    <3>3. /\ Left(q, k) = Len(b.data) + Left(q, k + 1) /\ Len(b.data) \in Nat
          /\ Left(q, k) \in Nat /\ Left(q, k + 1) \in Nat
          /\ acc - Left(q, k) <= At(L, b.seq)
      BY <1>8, <1>10, <3>1
    <3> HIDE DEF b
    <3>4. /\ At(L, End(b)) = At(L, b.seq) + Len(b.data) /\ End(b) \in Seqs
          /\ At(L, b.seq) \in Nat /\ At(L, End(b)) <= L.used
      BY <1>1, <3>2, BufNumbered, EndOfPiece
    <3>5. a <= L.used
      <4>1. L.used \in Nat
        BY <1>1 DEF Line, Lines
      <4> QED
        BY <1>1, <1>2, <4>1
    <3>6. ~(At(L, End(b)) > a)
      <4>1. SEQ_GT(End(b), p.ack) <=> At(L, End(b)) > At(L, p.ack)
        BY <1>1, <3>4, <3>5, AtOrder DEF a
      <4> QED
        BY <3>2, <4>1 DEF SEQ_LEQ, a
    <3> QED
      BY <1>2, <3>3, <3>4, <3>6
  <2> QED
    BY <2>1, <2>2
<1>12. \A i \in 1..Len(r) : acc - Left(r, i) <= At(L, r[i].seq)
  BY <1>6, <1>7, <1>10
<1>13. Queued(L, t, acc)
  BY <1>2, <1>3, <1>9, <1>11, <1>12 DEF Queued, a
<1>14. OnLine(L, t)
  <2>1. DOMAIN r = 1..(n - k)
    BY <1>6
  <2>2. \A i \in DOMAIN r : Piece(L, r[i])
    BY <1>1, <1>4, <1>6, <2>1
  <2> QED
    BY <1>1, <1>3, <2>2 DEF OnLine
<1> QED
  BY <1>2, <1>13, <1>14 DEF t, una, a

LEMMA QueueOf ==
    ASSUME NEW s \in Stream
    PROVE  s.snd_q \in Seq(Buf)
<1>1. s.snd_q \in Seq(SndBuf)
  BY StreamFields
<1> QED
  BY <1>1 DEF SndBuf

\* A handler that sends keeps what the queue says.
LEMMA FlowQueued ==
    ASSUME NEW L, NEW x, NEW y, Flows(L, x, y), NEW acc \in Nat, Queued(L, x.s, acc),
           At(L, x.s.snd_seq_q) = L.used
    PROVE  Queued(L, y.s, acc)
<1>1. x.s \in Stream /\ y.s \in Stream /\ Line(L)
  BY DEF Flows, Sends, Typed, OnLine
<1>2. /\ x.s.snd_q \in Seq(Buf) /\ y.s.snd_q \in Seq(Buf)
      /\ x.s.snd_nxt \in Seqs /\ y.s.snd_nxt \in Seqs /\ x.s.snd_una \in Seqs
  BY <1>1, StreamFields, QueueOf
<1>3. At(L, x.s.snd_nxt) \in Nat /\ At(L, y.s.snd_nxt) \in Nat /\ At(L, x.s.snd_una) \in Nat
  BY <1>1, <1>2, AtIs
<1>4. /\ y.s.snd_una = x.s.snd_una /\ y.s.snd_seq_q = x.s.snd_seq_q
      /\ Len(y.s.snd_q) = Len(x.s.snd_q)
      /\ \A i \in 1..Len(x.s.snd_q) : SameBytes(y.s.snd_q[i], x.s.snd_q[i])
      /\ At(L, x.s.snd_nxt) <= At(L, y.s.snd_nxt) /\ At(L, y.s.snd_nxt) <= L.used
  BY DEF Flows, Sends, OnLine
<1>5. /\ Bytes(y.s.snd_q) = Bytes(x.s.snd_q)
      /\ \A i \in 1..Len(y.s.snd_q) : Left(y.s.snd_q, i) = Left(x.s.snd_q, i)
  BY <1>2, <1>4, LeftSame DEF SameBytes
<1>6. At(L, y.s.snd_una) <= At(L, y.s.snd_nxt) /\ At(L, y.s.snd_nxt) <= At(L, y.s.snd_seq_q)
  BY <1>3, <1>4 DEF Queued
<1>7. \A i \in 1..Len(y.s.snd_q) : acc - Left(y.s.snd_q, i) <= At(L, y.s.snd_q[i].seq)
  BY <1>4, <1>5 DEF Queued, SameBytes
<1> QED
  BY <1>4, <1>5, <1>6, <1>7 DEF Queued
-----------------------------------------------------------------------------
(***************************************************************************)
(* What the two ends know of each other.                                   *)
(***************************************************************************)
\* A stream that closes never sends again what it took; one that reads.
Closing == {"FIN_WAIT", "LAST_ACK", "FREED"}
Reading == {"ESTABLISHED", "FIN_WAIT"}

\* How far s has sent, while it does not close.
SentTo(L, s) == IF s.state = "ESTABLISHED" THEN At(L, s.snd_nxt) ELSE 0

\* s sends; its peer, in state peer, took tk bytes.
Sender(L, s, acc, peer, tk) ==
    s.state = "ESTABLISHED" =>
        Queued(L, s, acc) /\ (peer # "FREED" => At(L, s.snd_una) <= tk)

\* s reads what its peer, in state peer, has sent up to hi.
Within(M, s, hi) ==
    /\ At(M, s.rcv_nxt) <= hi
    /\ \A i \in DOMAIN s.rcv_buf_q : EndAt(M, s.rcv_buf_q[i]) <= hi
Receiver(M, s, r, peer, hi) ==
    /\ s.state \in Reading =>
          /\ At(M, s.rcv_nxt) = Len(Came(s, r))
          /\ peer \notin Closing => Within(M, s, hi)
    /\ s.state = "LAST_ACK" => peer \in Closing
    /\ s.state \in Fresh => s.rcv_wnd > 0

\* A packet p of a sender in state st that has sent up to to.
Onwards(L, p, st, to) ==
    /\ p.kind = "DATA" /\ st \notin Closing => EndAt(L, p) <= to
    /\ p.kind = "FIN" => st \in Closing

\* A packet p to a sender in state st that has sent up to to, from a peer in
\* state peer that took tk bytes.
Back(L, p, st, to, peer, tk) ==
    p.kind \in {"ACK", "FIN"} /\ st \notin Closing =>
        At(L, p.sack) <= to /\ (peer # "FREED" => At(L, p.ack) <= tk)

\* Where a step of an end finds both: the line L of what it sends and M of what
\* comes, the acc bytes it took from its application and the bytes r its own has
\* read; its peer in state peer, which has sent up to hi and took tk bytes; and
\* itself in state from, having sent up to sent and taken took bytes.
Context(C) ==
    /\ C.hi \in Nat /\ C.hi <= C.M.used /\ C.tk \in Nat
    /\ C.sent \in Nat /\ C.took \in Nat

\* It does not open again, and goes on from there.
Since(C, s) ==
    /\ C.from \in Closing => s.state \in Closing
    /\ C.from = "FREED" => s.state = "FREED"
    /\ s.state \notin Closing => C.sent <= SentTo(C.L, s)
    /\ s.state # "FREED" => C.took <= Len(Came(s, C.r))

\* What it may say.
Said(C, s, p) ==
    /\ Onwards(C.L, p, s.state, SentTo(C.L, s))
    /\ Back(C.M, p, C.peer, C.hi, s.state, Len(Came(s, C.r)))

\* A handler takes a stream, and the packets it sends, with these properties to
\* one that has them again.
Aware(C, x) ==
    /\ Context(C) /\ Good(C.L, C.M, C.acc, C.r, x)
    /\ Sender(C.L, x.s, C.acc, C.peer, C.tk)
    /\ Receiver(C.M, x.s, C.r, C.peer, C.hi)
    /\ Since(C, x.s)
    /\ \A p \in x.out : Said(C, x.s, p)

\* What came is a number of bytes.
LEMMA CameIs ==
    ASSUME NEW L, NEW M, NEW acc, NEW r, NEW x, Good(L, M, acc, r, x)
    PROVE  /\ x.s \in Stream /\ Typed(x) /\ Line(L) /\ Line(M)
           /\ Came(x.s, r) \in Seq(Nat) /\ Len(Came(x.s, r)) \in Nat
           /\ acc \in Nat /\ r \in Seq(Nat)
<1>1. x.s \in Stream /\ r \in Seq(Nat)
  BY DEF Good, Typed
<1>2. x.s.rcv_data_q \in Seq(Nat)
  BY <1>1, ReceiverFields
<1>3. Came(x.s, r) \in Seq(Nat) /\ Len(Came(x.s, r)) \in Nat
  BY <1>1, <1>2 DEF Came
<1> QED
  BY <1>1, <1>3 DEF Good

\* Fields change that say nothing of numbers and bytes.
Quiet(s, t) ==
    /\ t \in Stream
    /\ t.state = s.state /\ t.snd_seq_q = s.snd_seq_q /\ t.snd_nxt = s.snd_nxt
    /\ t.snd_una = s.snd_una /\ t.snd_q = s.snd_q
    /\ t.rcv_nxt = s.rcv_nxt /\ t.rcv_data_q = s.rcv_data_q
    /\ t.rcv_buf_q = s.rcv_buf_q /\ t.sb_cc = s.sb_cc /\ t.rcv_wnd = s.rcv_wnd

LEMMA QuietAware ==
    ASSUME NEW C, NEW x, Aware(C, x), NEW t, Quiet(x.s, t)
    PROVE  Aware(C, [s |-> t, out |-> x.out])
<1> DEFINE y == [s |-> t, out |-> x.out]
<1>1. Good(C.L, C.M, C.acc, C.r, y)
  <2>1. x.s \in Stream /\ t \in Stream
    BY DEF Aware, Good, Typed, Quiet
  <2>2. Alike(x.s, t)
    BY <2>1, AlikeFields DEF Quiet
  <2> QED
    BY <2>2, AlikeGood DEF Aware
<1>2. Sender(C.L, t, C.acc, C.peer, C.tk)
  BY DEF Aware, Sender, Queued, Quiet
<1>3. Receiver(C.M, t, C.r, C.peer, C.hi)
  BY DEF Aware, Receiver, Within, Quiet, Came
<1>4. SentTo(C.L, t) = SentTo(C.L, x.s) /\ Came(t, C.r) = Came(x.s, C.r) /\ t.state = x.s.state
  BY DEF Quiet, SentTo, Came
<1>5. Since(C, t)
  BY <1>4 DEF Aware, Since
<1>6. \A p \in x.out : Said(C, t, p)
  BY <1>4 DEF Aware, Said
<1>7. y.s = t /\ y.out = x.out
  OBVIOUS
<1> HIDE DEF y
<1> QED
  BY <1>1, <1>2, <1>3, <1>5, <1>6, <1>7 DEF Aware, y

\* A packet more.
LEMMA EmitAware ==
    ASSUME NEW C, NEW x, Aware(C, x), NEW p \in PacketType, PacketOf(C.L, p),
           Said(C, x.s, p)
    PROVE  Aware(C, Emit(x, p)) /\ Emit(x, p).s = x.s
<1>1. Good(C.L, C.M, C.acc, C.r, Emit(x, p))
  BY EmitGood DEF Aware
<1>2. Typed(x)
  BY DEF Aware, Good
<1>3. Emit(x, p).s = x.s
  BY <1>2, EmitType
<1>4. Emit(x, p).out = x.out \cup {p}
  BY <1>2 DEF Emit, Typed
<1>5. \A e \in Emit(x, p).out : Said(C, x.s, e)
  BY <1>4 DEF Aware
<1> QED
  BY <1>1, <1>3, <1>5 DEF Aware

\* In a stream that closes no condition is left on what it sends.
LEMMA ClosingSendsAware ==
    ASSUME NEW C, NEW x, Aware(C, x), x.s.state \in Closing, NEW y, Sends(x, y)
    PROVE  Aware(C, y)
<1>1. Good(C.L, C.M, C.acc, C.r, y)
  BY SendsGood DEF Aware
<1>2. /\ y.s.state = x.s.state /\ y.s.rcv_nxt = x.s.rcv_nxt
      /\ y.s.rcv_data_q = x.s.rcv_data_q /\ y.s.rcv_buf_q = x.s.rcv_buf_q
  BY DEF Sends
<1>3. y.s.state # "ESTABLISHED" /\ y.s.state \notin Fresh
  BY <1>2 DEF Closing, Fresh
<1>4. Sender(C.L, y.s, C.acc, C.peer, C.tk)
  BY <1>3 DEF Sender
<1>5. Came(y.s, C.r) = Came(x.s, C.r)
  BY <1>2 DEF Came
<1>6. Receiver(C.M, y.s, C.r, C.peer, C.hi)
  BY <1>2, <1>3, <1>5 DEF Aware, Receiver, Within
<1>7. Since(C, y.s)
  BY <1>2, <1>5 DEF Aware, Since
<1>8. PICK P : y.out = x.out \cup P /\ SlicesOf(P, x.s.snd_q)
  BY DEF Sends
<1>9. \A p \in P : p.kind = "DATA"
  BY <1>8 DEF SlicesOf, SliceOf
<1>10. ASSUME NEW p \in y.out PROVE Said(C, y.s, p)
  <2>1. CASE p \in x.out
    <3>1. Said(C, x.s, p)
      BY <2>1 DEF Aware
    <3> QED
      BY <1>2, <1>5, <3>1 DEF Said, Onwards
  <2>2. CASE p \in P
    BY <1>2, <1>9, <2>2 DEF Said, Onwards, Back
  <2> QED
    BY <1>8, <2>1, <2>2
<1> QED
  BY <1>1, <1>4, <1>6, <1>7, <1>10 DEF Aware

\* A stream that is open sends.
LEMMA FlowsAware ==
    ASSUME NEW C, NEW x, Aware(C, x), x.s.state = "ESTABLISHED", NEW y, Flows(C.L, x, y)
    PROVE  Aware(C, y)
<1>1. Good(C.L, C.M, C.acc, C.r, y) /\ Sends(x, y)
  BY SendsGood DEF Aware, Flows
<1>2. /\ y.s.state = x.s.state /\ y.s.rcv_nxt = x.s.rcv_nxt
      /\ y.s.rcv_data_q = x.s.rcv_data_q /\ y.s.rcv_buf_q = x.s.rcv_buf_q
      /\ y.s.snd_una = x.s.snd_una
  BY DEF Sends, Flows
<1>3. y.s.state = "ESTABLISHED" /\ y.s.state \notin Fresh
  BY <1>2 DEF Fresh
<1>4. C.acc \in Nat /\ Queued(C.L, x.s, C.acc) /\ At(C.L, x.s.snd_seq_q) = C.L.used
  BY DEF Aware, Good, Outgoing, Sender
<1>5. Queued(C.L, y.s, C.acc)
  BY <1>4, FlowQueued
<1>6. Sender(C.L, y.s, C.acc, C.peer, C.tk)
  BY <1>2, <1>5 DEF Aware, Sender
<1>7. Came(y.s, C.r) = Came(x.s, C.r)
  BY <1>2 DEF Came
<1>8. Receiver(C.M, y.s, C.r, C.peer, C.hi)
  BY <1>2, <1>3, <1>7 DEF Aware, Receiver, Within
<1>9. /\ At(C.L, x.s.snd_nxt) \in Nat /\ At(C.L, y.s.snd_nxt) \in Nat
      /\ At(C.L, x.s.snd_nxt) <= At(C.L, y.s.snd_nxt)
  <2>1. x.s \in Stream /\ y.s \in Stream /\ Line(C.L)
    BY <1>1 DEF Sends, Typed, Good
  <2> QED
    BY <2>1, StreamFields, AtIs DEF Flows
<1>10. SentTo(C.L, x.s) = At(C.L, x.s.snd_nxt) /\ SentTo(C.L, y.s) = At(C.L, y.s.snd_nxt)
  BY <1>3 DEF SentTo
<1>11. Since(C, y.s)
  <2>1. C.sent \in Nat
    BY DEF Aware, Context
  <2> QED
    BY <1>2, <1>3, <1>7, <1>9, <1>10, <2>1 DEF Aware, Since, Closing
<1>12. ASSUME NEW p \in y.out PROVE Said(C, y.s, p)
  <2>1. CASE p \in x.out
    <3>1. Said(C, x.s, p) /\ p \in PacketType
      BY <1>1, <2>1 DEF Aware, Sends, Typed
    <3>2. Line(C.L) /\ p.seq \in Seqs /\ p.data \in Seq(Nat)
      BY <1>1, <3>1 DEF Good, PacketType
    <3>3. EndAt(C.L, p) \in Nat
      BY <3>2, AtIs DEF EndAt
    <3>4. Onwards(C.L, p, y.s.state, SentTo(C.L, y.s))
      BY <1>2, <1>9, <1>10, <3>1, <3>3 DEF Said, Onwards
    <3> QED
      BY <1>2, <1>7, <3>1, <3>4 DEF Said
  <2>2. CASE p \notin x.out
    <3>1. p.kind = "DATA" /\ EndAt(C.L, p) <= At(C.L, y.s.snd_nxt)
      BY <2>2 DEF Flows
    <3> QED
      BY <1>10, <3>1 DEF Said, Onwards, Back
  <2> QED
    BY <2>1, <2>2
<1> QED
  BY <1>1, <1>6, <1>8, <1>11, <1>12 DEF Aware

\* Where a receiver stands, it may say so.
LEMMA SackIs ==
    ASSUME NEW M, Line(M), NEW s \in Stream, NEW hi \in Nat, Within(M, s, hi)
    PROVE  At(M, scp_calc_sack(s)) <= hi
<1> DEFINE q == s.rcv_buf_q
<1>1. q \in Seq(Buf) /\ s.rcv_nxt \in Seqs
  BY StreamFields
<1>2. CASE q = <<>>
  BY <1>2 DEF scp_calc_sack, Within
<1>3. CASE q # <<>>
  <2>1. 1 \in DOMAIN q /\ Head(q) = q[1] /\ q[1] \in Buf
    BY <1>1, <1>3
  <2>2. EndAt(M, q[1]) <= hi /\ scp_calc_sack(s) = q[1].seq
    BY <1>3, <2>1 DEF Within, scp_calc_sack
  <2>3. q[1].seq \in Seqs /\ Len(q[1].data) \in Nat
    BY <2>1 DEF Buf, Seqs
  <2> HIDE DEF q
  <2>4. At(M, q[1].seq) \in Nat
    BY <2>3, AtIs
  <2> QED
    BY <2>2, <2>3, <2>4 DEF EndAt
<1> QED
  BY <1>2, <1>3

Speaking == {"ESTABLISHED", "FIN_WAIT", "LAST_ACK"}
LEMMA AckSaid ==
    ASSUME NEW C, NEW x, Aware(C, x), x.s.state \in Speaking,
           NEW k \in {"ACK", "FIN"}, k = "FIN" => x.s.state \in Closing, NEW seq
    PROVE  Said(C, x.s, Acking(x.s, Packet(k, seq, <<>>)))
<1> DEFINE p == Acking(x.s, Packet(k, seq, <<>>))
<1>1. p.kind = k /\ p.ack = x.s.rcv_nxt /\ p.sack = scp_calc_sack(x.s)
  BY DEF Acking, Packet
<1> HIDE DEF p
<1>2. Onwards(C.L, p, x.s.state, SentTo(C.L, x.s))
  BY <1>1 DEF Onwards
<1>3. Back(C.M, p, C.peer, C.hi, x.s.state, Len(Came(x.s, C.r)))
  <2> SUFFICES ASSUME C.peer \notin Closing
               PROVE  /\ At(C.M, p.sack) <= C.hi
                      /\ At(C.M, p.ack) <= Len(Came(x.s, C.r))
    BY DEF Back
  <2>1. x.s.state \in Reading
    BY DEF Aware, Receiver, Speaking, Reading
  <2>2. At(C.M, x.s.rcv_nxt) = Len(Came(x.s, C.r)) /\ Within(C.M, x.s, C.hi)
    BY <2>1 DEF Aware, Receiver
  <2>3. x.s \in Stream /\ Line(C.M) /\ Len(Came(x.s, C.r)) \in Nat
    BY CameIs DEF Aware
  <2>4. At(C.M, p.sack) <= C.hi
    BY <1>1, <2>2, <2>3, SackIs DEF Aware, Context
  <2> QED
    BY <1>1, <2>2, <2>3, <2>4
<1> QED
  BY <1>2, <1>3 DEF Said, p

LEMMA OutputAckAware ==
    ASSUME NEW C, NEW x, Aware(C, x), x.s.state \in Speaking
    PROVE  Aware(C, scp_output_ack(x)) /\ scp_output_ack(x).s = x.s
<1> DEFINE p == Acking(x.s, Packet("ACK", 0, <<>>))
<1>1. p \in PacketType /\ p.kind = "ACK"
  <2>1. x.s \in Stream /\ "ACK" \in Kinds /\ 0 \in Seqs /\ <<>> \in Seq(Nat)
    BY SpaceIs DEF Aware, Good, Typed, Kinds
  <2>2. Packet("ACK", 0, <<>>) \in PacketType
    BY <2>1, PacketIs
  <2> QED
    BY <2>1, <2>2, AckingIs DEF Acking, Packet
<1>2. Said(C, x.s, p)
  BY AckSaid
<1>3. PacketOf(C.L, p)
  BY <1>1 DEF PacketOf
<1>4. scp_output_ack(x) = Emit(x, p)
  BY DEF scp_output_ack
<1> HIDE DEF p
<1> QED
  BY <1>1, <1>2, <1>3, <1>4, EmitAware

\* Packets that say nothing of numbers.
LEMMA PlainAware ==
    ASSUME NEW C, NEW x, Aware(C, x), NEW p \in PacketType, PacketOf(C.L, p),
           p.kind \in {"CONNECT", "CONNECT_ACK", "PING"}
    PROVE  Aware(C, Emit(x, p)) /\ Emit(x, p).s = x.s
<1>1. Said(C, x.s, p)
  BY DEF Said, Onwards, Back
<1> QED
  BY <1>1, EmitAware

LEMMA HandshakeAware ==
    ASSUME NEW C, NEW x, Aware(C, x)
    PROVE  /\ x.s.state \in {"SYN_SENT", "SYN_RECV"} =>
                 Aware(C, scp_output_connect(x)) /\ Aware(C, scp_output_connect_ack(x))
           /\ Aware(C, scp_send_window_probe(x))
<1> DEFINE a == Packet("CONNECT", x.s.snd_nxt, <<>>)
           b == Packet("CONNECT_ACK", x.s.snd_nxt, <<>>)
           c == Packet("PING", 0, <<>>)
<1>1. x.s \in Stream
  BY DEF Aware, Good, Typed
<1>2. /\ a \in PacketType /\ b \in PacketType /\ c \in PacketType
      /\ a.kind = "CONNECT" /\ b.kind = "CONNECT_ACK" /\ c.kind = "PING"
      /\ a.seq = x.s.snd_nxt /\ b.seq = x.s.snd_nxt
  <2>1. x.s.snd_nxt \in Seqs /\ 0 \in Seqs /\ <<>> \in Seq(Nat)
    BY <1>1, StreamFields, SpaceIs
  <2>2. "CONNECT" \in Kinds /\ "CONNECT_ACK" \in Kinds /\ "PING" \in Kinds
    BY DEF Kinds
  <2>3. a \in PacketType /\ b \in PacketType /\ c \in PacketType
    BY <2>1, <2>2, PacketIs
  <2> QED
    BY <2>3 DEF Packet
<1>3. /\ scp_output_connect(x) = Emit(x, a) /\ scp_output_connect_ack(x) = Emit(x, b)
      /\ scp_send_window_probe(x) = Emit(x, c)
  BY DEF scp_output_connect, scp_output_connect_ack, scp_send_window_probe
<1> HIDE DEF a, b, c
<1>4. PacketOf(C.L, c)
  BY <1>2 DEF PacketOf
<1>5. Aware(C, Emit(x, c))
  BY <1>2, <1>4, PlainAware
<1>6. ASSUME x.s.state \in {"SYN_SENT", "SYN_RECV"}
      PROVE  Aware(C, Emit(x, a)) /\ Aware(C, Emit(x, b))
  <2>1. x.s.snd_nxt = C.L.first
    BY <1>6 DEF Aware, Good, Outgoing
  <2>2. PacketOf(C.L, a) /\ PacketOf(C.L, b)
    BY <1>2, <2>1 DEF PacketOf
  <2> QED
    BY <1>2, <2>2, PlainAware
<1> QED
  BY <1>3, <1>5, <1>6

LEMMA FinAware ==
    ASSUME NEW C, NEW x, Aware(C, x), x.s.state \in {"FIN_WAIT", "LAST_ACK"}
    PROVE  Aware(C, scp_output_fin_retrans(x)) /\ Aware(C, scp_output_fin_first(x))
<1> DEFINE seq == x.s.snd_nxt
           a == Acking(x.s, Packet("FIN", Plus(seq, -1), <<>>))
           b == Acking(x.s, Packet("FIN", seq, <<>>))
           y == Emit(x, b)
           z == [y EXCEPT !.s.snd_nxt = Plus(@, 1)]
<1>1. x.s \in Stream /\ Typed(x) /\ x.s.state \in Closing /\ x.s.state \in Speaking
  BY DEF Aware, Good, Typed, Closing, Speaking
<1>2. a \in PacketType /\ b \in PacketType /\ a.kind = "FIN" /\ b.kind = "FIN"
  <2>1. seq \in Seqs /\ <<>> \in Seq(Nat) /\ "FIN" \in Kinds
    BY <1>1, StreamFields DEF Kinds
  <2>2. Plus(seq, -1) \in Seqs
    <3>1. seq \in Int
      BY <2>1, SeqsAreInt
    <3> QED
      BY <3>1, SpaceIs, SeqsType
  <2>3. Packet("FIN", Plus(seq, -1), <<>>) \in PacketType /\ Packet("FIN", seq, <<>>) \in PacketType
    BY <2>1, <2>2, PacketIs
  <2> QED
    BY <1>1, <2>3, AckingIs DEF Acking, Packet
<1>3. Said(C, x.s, a) /\ Said(C, x.s, b)
  BY <1>1, AckSaid
<1>4. PacketOf(C.L, a) /\ PacketOf(C.L, b)
  BY <1>2 DEF PacketOf
<1>5. scp_output_fin_retrans(x) = Emit(x, a) /\ scp_output_fin_first(x) = z
  BY DEF scp_output_fin_retrans, scp_output_fin_first
<1> HIDE DEF a, b
<1>6. Aware(C, Emit(x, a)) /\ Aware(C, y) /\ y.s = x.s
  BY <1>2, <1>3, <1>4, EmitAware
<1>7. Good(C.L, C.M, C.acc, C.r, z)
  BY <1>5, FinFirstGood DEF Aware
<1> HIDE DEF y
<1>8. /\ y.s \in Stream /\ z.out = y.out /\ z.s = [y.s EXCEPT !.snd_nxt = Plus(@, 1)]
  BY <1>6 DEF Aware, Good, Typed
<1>9. /\ z.s.state = y.s.state /\ z.s.rcv_nxt = y.s.rcv_nxt
      /\ z.s.rcv_data_q = y.s.rcv_data_q /\ z.s.rcv_buf_q = y.s.rcv_buf_q
  <2> DEFINE u == y.s
             k == Plus(u.snd_nxt, 1)
  <2>1. u \in Stream /\ z.s = [u EXCEPT !.snd_nxt = k]
    BY <1>8
  <2> HIDE DEF u, k
  <2>2. /\ z.s.state = u.state /\ z.s.rcv_nxt = u.rcv_nxt
        /\ z.s.rcv_data_q = u.rcv_data_q /\ z.s.rcv_buf_q = u.rcv_buf_q
    BY <2>1 DEF Stream
  <2> QED
    BY <2>2 DEF u
<1>10. z.s.state \notin {"ESTABLISHED"} /\ z.s.state \notin Fresh /\ z.s.state \in Closing
  BY <1>1, <1>6, <1>9 DEF Closing, Fresh
<1> HIDE DEF z
<1>11. Came(z.s, C.r) = Came(y.s, C.r)
  BY <1>9 DEF Came
<1>12. Sender(C.L, z.s, C.acc, C.peer, C.tk)
  BY <1>10 DEF Sender
<1>13. Receiver(C.M, z.s, C.r, C.peer, C.hi)
  BY <1>6, <1>9, <1>10, <1>11 DEF Aware, Receiver, Within
<1>14. Since(C, z.s)
  BY <1>6, <1>9, <1>10, <1>11 DEF Aware, Since
<1>15. \A p \in z.out : Said(C, z.s, p)
  BY <1>6, <1>8, <1>9, <1>10, <1>11 DEF Aware, Said, Onwards
<1>16. Aware(C, z)
  BY <1>6, <1>7, <1>12, <1>13, <1>14, <1>15 DEF Aware
<1> QED
  BY <1>5, <1>6, <1>16

\* What is on the line of an open stream.
LEMMA AwareOnLine ==
    ASSUME NEW C, NEW x, Aware(C, x), x.s.state = "ESTABLISHED"
    PROVE  /\ OnLine(C.L, x.s) /\ At(C.L, x.s.snd_seq_q) = C.L.used
           /\ Queued(C.L, x.s, C.acc) /\ Typed(x) /\ x.s \in Stream /\ C.acc \in Nat
<1>1. /\ Typed(x) /\ x.s \in Stream /\ C.acc \in Nat /\ Line(C.L)
      /\ At(C.L, x.s.snd_seq_q) = C.L.used /\ Queued(C.L, x.s, C.acc)
      /\ \A i \in DOMAIN x.s.snd_q : Piece(C.L, x.s.snd_q[i])
  BY DEF Aware, Good, Outgoing, Sender, Typed
<1>2. At(C.L, x.s.snd_nxt) <= C.L.used
  BY <1>1 DEF Queued
<1> QED
  BY <1>1, <1>2 DEF OnLine

\* An acknowledgement that is taken: the peer has what goes.
LEMMA TakenAware ==
    ASSUME NEW C, NEW x, Aware(C, x), x.s.state = "ESTABLISHED", NEW p \in PacketType,
           p.kind \in {"ACK", "FIN"}, Back(C.L, p, x.s.state, SentTo(C.L, x.s), C.peer, C.tk),
           ~SEQ_LT(p.ack, x.s.snd_una), ~SEQ_GT(p.ack, x.s.snd_nxt)
    PROVE  Aware(C, [s |-> AckedBy(x.s, p), out |-> x.out])
<1> DEFINE t == AckedBy(x.s, p)
           y == [s |-> t, out |-> x.out]
<1>1. /\ OnLine(C.L, x.s) /\ Queued(C.L, x.s, C.acc) /\ Typed(x) /\ x.s \in Stream
      /\ C.acc \in Nat
  BY AwareOnLine
<1>2. Queued(C.L, t, C.acc)
  BY <1>1, AckQueued
<1>3. /\ Alike(x.s, t) /\ t.snd_una = p.ack /\ t.rcv_wnd = x.s.rcv_wnd
  BY <1>1, AckedByIs
<1>4. Good(C.L, C.M, C.acc, C.r, y)
  BY <1>3, AlikeGood DEF Aware
<1> HIDE DEF t
<1>5. C.peer # "FREED" => At(C.L, p.ack) <= C.tk
  BY DEF Back, Closing
<1>6. Sender(C.L, t, C.acc, C.peer, C.tk)
  BY <1>2, <1>3, <1>5 DEF Sender
<1>7. /\ t.state = x.s.state /\ t.rcv_nxt = x.s.rcv_nxt /\ t.snd_nxt = x.s.snd_nxt
      /\ t.rcv_data_q = x.s.rcv_data_q /\ t.rcv_buf_q = x.s.rcv_buf_q
  BY <1>3 DEF Alike
<1>8. Came(t, C.r) = Came(x.s, C.r) /\ SentTo(C.L, t) = SentTo(C.L, x.s)
  BY <1>7 DEF Came, SentTo
<1>9. Receiver(C.M, t, C.r, C.peer, C.hi)
  BY <1>3, <1>7, <1>8 DEF Aware, Receiver, Within
<1>10. Since(C, t)
  BY <1>7, <1>8 DEF Aware, Since
<1>11. \A e \in x.out : Said(C, t, e)
  BY <1>7, <1>8 DEF Aware, Said
<1>12. y.s = t /\ y.out = x.out
  OBVIOUS
<1> HIDE DEF y
<1> QED
  BY <1>4, <1>6, <1>9, <1>10, <1>11, <1>12 DEF Aware, y, t

\* An acknowledgement arrives.
LEMMA ProcessAckAware ==
    ASSUME NEW C, NEW x, Aware(C, x), x.s.state \in Reading, NEW p \in PacketType,
           p.kind \in {"ACK", "FIN"}, Back(C.L, p, x.s.state, SentTo(C.L, x.s), C.peer, C.tk)
    PROVE  Aware(C, scp_process_ack(x, p)) /\ scp_process_ack(x, p).s.state = x.s.state
<1> DEFINE y == [s |-> AckedBy(x.s, p), out |-> x.out]
           res == scp_process_ack(x, p)
<1>1. Sends(x, res)
  BY ProcessAckSends DEF Aware, Good
<1>2. res.s.state = x.s.state
  BY <1>1 DEF Sends
<1>3. CASE x.s.state = "FIN_WAIT"
  <2>1. x.s.state \in Closing
    BY <1>3 DEF Closing
  <2> QED
    BY <1>1, <1>2, <2>1, ClosingSendsAware
<1>4. CASE x.s.state = "ESTABLISHED"
  <2>1. \/ res = x
        \/ ~SEQ_LT(p.ack, x.s.snd_una) /\ ~SEQ_GT(p.ack, x.s.snd_nxt)
    BY ProcessAckIs DEF Aware, Good
  <2>2. CASE res = x
    BY <1>2, <2>2
  <2>3. CASE ~SEQ_LT(p.ack, x.s.snd_una) /\ ~SEQ_GT(p.ack, x.s.snd_nxt)
    <3>1. Aware(C, y) /\ y.s = AckedBy(x.s, p)
      BY <1>4, <2>3, TakenAware
    <3>2. y.s.state = "ESTABLISHED"
      <4>1. Alike(x.s, AckedBy(x.s, p))
        BY AckedByIs DEF Aware, Good, Typed
      <4> QED
        BY <1>4, <3>1, <4>1 DEF Alike
    <3>3. OnLine(C.L, AckedBy(x.s, p)) /\ OnLine(C.L, x.s) /\ Typed(x)
      <4> HIDE DEF y
      <4> QED
        BY <1>4, <3>1, <3>2, AwareOnLine
    <3>4. res = x \/ Flows(C.L, y, res)
      BY <3>3, ProcessAckFlows
    <3> HIDE DEF y, res
    <3>5. Aware(C, res)
      BY <3>1, <3>2, <3>4, FlowsAware
    <3> QED
      BY <1>2, <3>5 DEF res
  <2> QED
    BY <2>1, <2>2, <2>3
<1> QED
  BY <1>3, <1>4 DEF Reading
-----------------------------------------------------------------------------
(***************************************************************************)
(* The timers.                                                             *)
(***************************************************************************)
\* What is in flight is guarded.
Guarded(s) ==
    /\ s.state \in Fresh => s.snd_una = s.snd_nxt
    /\ s.state = "ESTABLISHED" /\ s.snd_una # s.snd_nxt => "retrans" \in s.timers
    /\ s.state \in {"FIN_WAIT", "LAST_ACK"} => "fin" \in s.timers

\* A handler that stops no timer and acknowledges nothing.
Watches(s, t) ==
    t.state = s.state /\ t.snd_una = s.snd_una /\ s.timers \subseteq t.timers

LEMMA NotBoth ==
    ASSUME NEW a \in Seqs, NEW b \in Seqs, ~SEQ_LT(a, b), ~SEQ_GT(a, b)
    PROVE  a = b
<1> DEFINE S == SeqSpace
           H == SeqSpace \div 2
           d == Diff(a, b)
<1>1. /\ S \in Nat /\ S > 0 /\ a \in 0..(S - 1) /\ b \in 0..(S - 1)
      /\ H \in Nat /\ S = 2 * H /\ d = (a - b) % S
  BY SpaceIs DEF Seqs, Diff
<1>2. ~(d >= H) /\ ~(d \in 1..(H - 1))
  BY DEF SEQ_LT, SEQ_GT
<1> HIDE DEF S, H, d
<1>3. (a >= b => d = a - b) /\ (a < b => d = (a - b) + S)
  BY <1>1, Remainders
<1> QED
  BY <1>1, <1>2, <1>3

\* Nothing that follows itself.
LEMMA NotItself ==
    ASSUME NEW a \in Seqs
    PROVE  ~SEQ_LT(a, a) /\ ~SEQ_GT(a, a)
<1>1. Diff(a, a) = 0
  BY SpaceIs DEF Diff, Seqs
<1>2. SeqSpace \div 2 > 0 /\ SeqSpace \div 2 \in Nat
  BY SpaceIs
<1> QED
  BY <1>1, <1>2 DEF SEQ_LT, SEQ_GT

LEMMA DataWatches ==
    ASSUME NEW x, Typed(x), NEW P, SlicesOf(P, x.s.snd_q)
    PROVE  /\ Watches(x.s, scp_output_data(x, P).s)
           /\ scp_output_data(x, P).s.timers = x.s.timers
           /\ P = {} => scp_output_data(x, P).s.snd_nxt = x.s.snd_nxt
<1> DEFINE y == scp_output_data(x, P)
           nxt == x.s.snd_nxt
           further == {Diff(End(p), nxt) : p \in {p \in P : SEQ_GT(End(p), nxt)}}
<1>1. x.s \in Stream /\ P \in SUBSET PacketType
  BY SlicesType DEF Typed
<1>2. y.s = [x.s EXCEPT !.snd_nxt = y.s.snd_nxt]
  BY <1>1, OutputDataType
<1>3. P = {} => y.s.snd_nxt = nxt
  <2> SUFFICES ASSUME P = {} PROVE y.s.snd_nxt = nxt
    OBVIOUS
  <2>1. {0} \cup further = {0}
    OBVIOUS
  <2>2. y.s.snd_nxt = Plus(nxt, Max({0} \cup further))
    BY <1>1 DEF scp_output_data, Stream
  <2> DEFINE S == {0}
  <2>3. Max(S) = 0
    <3>1. UpTo(S, 0)
      BY DEF UpTo
    <3> HIDE DEF S
    <3>2. Greatest(S, 0, Max(S))
      BY <3>1, MaxIs
    <3> QED
      BY <3>2 DEF Greatest, S
  <2>4. nxt \in Seqs
    BY <1>1, StreamFields
  <2>5. Plus(nxt, 0) = nxt
    BY <2>4, SpaceIs DEF Plus, Seqs
  <2> QED
    BY <2>1, <2>2, <2>3, <2>5
<1> HIDE DEF y
<1>4. y.s.timers = x.s.timers /\ y.s.state = x.s.state /\ y.s.snd_una = x.s.snd_una
  BY <1>1, <1>2 DEF Stream
<1> QED
  BY <1>3, <1>4 DEF Watches, y

\* scp_output starts the timer where nothing was in flight.
LEMMA OutputWatches ==
    ASSUME NEW x, Typed(x)
    PROVE  /\ Watches(x.s, scp_output(x).s)
           /\ x.s.snd_una = x.s.snd_nxt =>
                 \/ scp_output(x).s.snd_nxt = x.s.snd_nxt
                 \/ "retrans" \in scp_output(x).s.timers
<1>1. PICK P, t :
         /\ SlicesOf(P, x.s.snd_q) /\ Edits(scp_output_data(x, P).s, t)
         /\ scp_output(x) = [s |-> t, out |-> scp_output_data(x, P).out]
         /\ scp_output_data(x, P).s.timers \subseteq t.timers
         /\ x.s.snd_nxt = x.s.snd_una /\ P # {} => "retrans" \in t.timers
  BY OutputIs
<1> DEFINE y == scp_output_data(x, P)
<1>2. Watches(x.s, y.s) /\ (P = {} => y.s.snd_nxt = x.s.snd_nxt)
  BY <1>1, DataWatches
<1>3. t.state = y.s.state /\ t.snd_una = y.s.snd_una /\ t.snd_nxt = y.s.snd_nxt
  BY <1>1 DEF Edits, Alike
<1>4. scp_output(x).s = t
  BY <1>1
<1> HIDE DEF y
<1> QED
  BY <1>1, <1>2, <1>3, <1>4 DEF Watches, y

LEMMA WatchesGuards ==
    ASSUME NEW s, NEW t, Guarded(s), Watches(s, t), s.state \in Speaking,
           s.snd_una = s.snd_nxt => t.snd_nxt = s.snd_nxt \/ "retrans" \in t.timers
    PROVE  Guarded(t)
BY DEF Guarded, Watches, Speaking, Fresh

LEMMA ProcessAckGuarded ==
    ASSUME NEW x, Typed(x), Guarded(x.s), x.s.state \in Reading, NEW p \in PacketType,
           x.s.state = "ESTABLISHED" /\ x.s.snd_una = x.s.snd_nxt /\ p.ack = x.s.snd_una
              => ~SEQ_GT(p.sack, p.ack)
    PROVE  Guarded(scp_process_ack(x, p).s)
<1> DEFINE y == [s |-> AckedBy(x.s, p), out |-> x.out]
           res == scp_process_ack(x, p)
<1>1. /\ x.s \in Stream /\ p.ack \in Seqs /\ p.sack \in Seqs /\ p.ack \in Int
      /\ x.s.snd_una \in Seqs /\ x.s.snd_nxt \in Seqs
  BY StreamFields, SeqsAreInt DEF Typed, PacketType
<1>2. /\ Typed(y) /\ y.s.state = x.s.state /\ y.s.snd_una = p.ack
      /\ y.s.timers = x.s.timers /\ y.s.snd_nxt = x.s.snd_nxt
  <2>1. /\ Alike(x.s, AckedBy(x.s, p)) /\ AckedBy(x.s, p).snd_una = p.ack
        /\ AckedBy(x.s, p).timers = x.s.timers
    BY <1>1, AckedByIs
  <2>2. Sends(x, y)
    BY <2>1, AlikeSends
  <2>3. y.s = AckedBy(x.s, p)
    OBVIOUS
  <2> HIDE DEF y
  <2> QED
    BY <2>1, <2>2, <2>3 DEF Sends, Alike
<1>3. \/ res = x
      \/ /\ ~SEQ_LT(p.ack, x.s.snd_una) /\ ~SEQ_GT(p.ack, x.s.snd_nxt)
         /\ \E z : AfterGap(y, z, p) /\ AckTaken(x.s, z, p, res)
  BY ProcessAckIs
<1> HIDE DEF y, res
<1>4. ASSUME NEW z, AfterGap(y, z, p)
      PROVE  /\ Typed(z) /\ z.s.state = x.s.state /\ z.s.snd_una = p.ack
             /\ z.s.timers = x.s.timers
             /\ ~SEQ_GT(p.sack, p.ack) => z.s.snd_nxt = x.s.snd_nxt
  <2>1. CASE z = y
    BY <1>2, <2>1
  <2>2. CASE z # y
    <3> DEFINE g == scp_retransmit_gap(y, p.ack, p.sack)
    <3>1. Sends(y, g) /\ g.s.timers = y.s.timers /\ Watches(y.s, g.s)
      BY <1>1, <1>2, RetransmitGapIs, OutputDataSends, DataWatches
    <3>2. PICK u : Edits(g.s, u) /\ z = [s |-> u, out |-> g.out] /\ u.timers = g.s.timers
      BY <1>4, <2>2 DEF AfterGap
    <3>3. SEQ_GT(p.sack, p.ack)
      BY <1>4, <2>2 DEF AfterGap
    <3> HIDE DEF g
    <3>4. Typed(z)
      <4>1. Typed(g) /\ Alike(g.s, u)
        BY <3>1, <3>2 DEF Edits, Sends
      <4>2. Sends(g, z)
        BY <3>2, <4>1, AlikeSends
      <4> QED
        BY <4>2 DEF Sends
    <3>5. z.s = u
      BY <3>2
    <3> QED
      BY <1>2, <3>1, <3>2, <3>3, <3>4, <3>5 DEF Watches, Edits, Alike
  <2> QED
    BY <2>1, <2>2
<1>5. ASSUME NEW z, AfterGap(y, z, p), res = new_ack(z, Diff(p.ack, x.s.snd_una))
      PROVE  Guarded(res.s)
  <2>1. Diff(p.ack, x.s.snd_una) \in Nat
    BY <1>1, SeqsAreInt, SeqsType
  <2>2. Typed(z) /\ z.s.state = x.s.state /\ z.s.timers = x.s.timers
    BY <1>4, <1>5
  <2>3. PICK t : /\ Edits(z.s, t) /\ res = scp_output([s |-> t, out |-> z.out])
                 /\ z.s.timers \ {"retrans"} \subseteq t.timers
                 /\ z.s.snd_una # z.s.snd_nxt => "retrans" \in t.timers
    BY <1>5, <2>1, <2>2, NewAckIs
  <2>4. t.state = z.s.state /\ t.snd_una = z.s.snd_una /\ t.snd_nxt = z.s.snd_nxt
    BY <2>3 DEF Edits, Alike
  <2>5. Guarded(t) /\ t.state \in Speaking
    BY <2>2, <2>3, <2>4 DEF Guarded, Reading, Speaking, Fresh
  <2> DEFINE v == [s |-> t, out |-> z.out]
  <2>6. Typed(v) /\ v.s = t
    <3>1. Sends(z, v)
      BY <2>2, <2>3, AlikeSends DEF Edits
    <3> QED
      BY <3>1 DEF Sends
  <2>7. res = scp_output(v)
    BY <2>3
  <2> HIDE DEF v
  <2>8. /\ Watches(v.s, res.s)
        /\ v.s.snd_una = v.s.snd_nxt =>
              res.s.snd_nxt = v.s.snd_nxt \/ "retrans" \in res.s.timers
    BY <2>6, <2>7, OutputWatches
  <2> QED
    BY <2>5, <2>6, <2>8, WatchesGuards
<1>6. ASSUME NEW z, AfterGap(y, z, p), SEQ_LT(p.ack, z.s.snd_nxt), p.ack = x.s.snd_una
      PROVE  /\ x.s.state = "ESTABLISHED" => "retrans" \in z.s.timers
             /\ x.s.state = "FIN_WAIT" => "fin" \in z.s.timers
  <2>1. z.s.timers = x.s.timers /\ (~SEQ_GT(p.sack, p.ack) => z.s.snd_nxt = x.s.snd_nxt)
    BY <1>4, <1>6
  <2>2. CASE x.s.snd_una # x.s.snd_nxt
    BY <2>1, <2>2 DEF Guarded
  <2>3. CASE x.s.snd_una = x.s.snd_nxt
    <3> SUFFICES x.s.state # "ESTABLISHED"
      BY <2>1 DEF Guarded
    <3> SUFFICES ASSUME x.s.state = "ESTABLISHED" PROVE FALSE
      OBVIOUS
    <3>1. z.s.snd_nxt = p.ack
      BY <1>6, <2>1, <2>3
    <3> QED
      BY <1>1, <1>6, <3>1, NotItself
  <2> QED
    BY <2>2, <2>3
<1>7. ASSUME NEW z, AfterGap(y, z, p), SEQ_LT(p.ack, z.s.snd_nxt), p.ack = x.s.snd_una,
             res = dup_ack(z, p)
      PROVE  Guarded(res.s)
  <2>1. Typed(z) /\ z.s.state = x.s.state
    BY <1>4, <1>7
  <2> DEFINE Y(t) == [s |-> t, out |-> z.out]
  <2>2. PICK t : /\ Edits(z.s, t) /\ z.s.timers \subseteq t.timers
                 /\ \/ res = scp_output(Y(t))
                    \/ res = scp_output(scp_retransmit_gap(Y(t), p.ack, p.sack))
    BY <1>7, <2>1, DupAckIs
  <2> DEFINE v == Y(t)
             g == scp_retransmit_gap(v, p.ack, p.sack)
  <2>3. Typed(v) /\ v.s = t
    <3>1. Sends(z, v)
      BY <2>1, <2>2, AlikeSends DEF Edits
    <3> QED
      BY <3>1 DEF Sends
  <2>4. res = scp_output(v) \/ res = scp_output(g)
    BY <2>2
  <2> HIDE DEF v
  <2>5. Typed(g) /\ Watches(v.s, g.s)
    <3>1. Sends(v, g) /\ Watches(v.s, g.s)
      BY <1>1, <2>3, RetransmitGapIs, OutputDataSends, DataWatches
    <3> QED
      BY <3>1 DEF Sends
  <2> HIDE DEF g
  <2>6. Watches(v.s, scp_output(v).s) /\ Watches(g.s, scp_output(g).s)
    BY <2>3, <2>5, OutputWatches
  <2>7. res.s.state = x.s.state /\ z.s.timers \subseteq res.s.timers
    BY <2>1, <2>2, <2>3, <2>4, <2>5, <2>6 DEF Watches, Edits, Alike
  <2>8. /\ x.s.state = "ESTABLISHED" => "retrans" \in z.s.timers
        /\ x.s.state = "FIN_WAIT" => "fin" \in z.s.timers
    BY <1>6, <1>7
  <2> QED
    BY <2>7, <2>8 DEF Guarded, Reading, Fresh
<1>8. ASSUME NEW z, AfterGap(y, z, p), p.ack = x.s.snd_una, res = z
      PROVE  Guarded(res.s)
  <2>1. /\ z.s.state = x.s.state /\ z.s.snd_una = p.ack /\ z.s.timers = x.s.timers
        /\ ~SEQ_GT(p.sack, p.ack) => z.s.snd_nxt = x.s.snd_nxt
    BY <1>4, <1>8
  <2> QED
    BY <1>8, <2>1 DEF Guarded, Reading, Fresh
<1>9. CASE res = x
  BY <1>9 DEF res
<1>10. ASSUME NEW z, AfterGap(y, z, p), AckTaken(x.s, z, p, res),
              ~SEQ_LT(p.ack, x.s.snd_una)
       PROVE  Guarded(res.s)
  <2>1. ~SEQ_GT(p.ack, x.s.snd_una) => p.ack = x.s.snd_una
    BY <1>1, <1>10, NotBoth
  <2> QED
    BY <1>5, <1>7, <1>8, <1>10, <2>1 DEF AckTaken
<1> QED
  BY <1>3, <1>9, <1>10 DEF res
-----------------------------------------------------------------------------
(***************************************************************************)
(* The receiving side.  A receiver does not go beyond what its peer has    *)
(* sent: what it takes lies on the line cut off there.                     *)
(***************************************************************************)
Short(M, hi) == [M EXCEPT !.used = hi, !.whole = Least(@, hi)]

LEMMA ShortLine ==
    ASSUME NEW M, Line(M), NEW hi \in Nat, hi <= M.used
    PROVE  /\ Line(Short(M, hi)) /\ Short(M, hi).first = M.first /\ Short(M, hi).used = hi
           /\ Short(M, hi).whole \in Nat /\ Short(M, hi).whole <= hi
           /\ Short(M, hi).whole <= M.whole
           /\ \A k \in Nat : k <= M.whole /\ k <= hi => k <= Short(M, hi).whole
<1> DEFINE w == Least(M.whole, hi)
           N == [M EXCEPT !.used = hi, !.whole = w]
<1>1. M \in Lines /\ M.whole \in Nat /\ M.used \in Nat /\ M.used < SeqSpace \div 2
  BY DEF Line, Lines
<1>2. /\ w \in Nat /\ w <= hi /\ w <= M.whole
      /\ \A k \in Nat : k <= M.whole /\ k <= hi => k <= w
  BY <1>1 DEF Least
<1> HIDE DEF w
<1>3. N \in Lines /\ N.first = M.first /\ N.used = hi /\ N.whole = w
  BY <1>1, <1>2 DEF Lines
<1>4. hi < SeqSpace \div 2
  BY <1>1, SpaceIs
<1>5. Short(M, hi) = N
  BY DEF Short, w
<1> HIDE DEF N
<1> QED
  BY <1>2, <1>3, <1>4, <1>5 DEF Line

\* What is not beyond the cut is on the shorter line, and the reverse.
LEMMA ShortPiece ==
    ASSUME NEW M, Line(M), NEW hi \in Nat, hi <= M.used, NEW b, Numbered(b)
    PROVE  /\ Piece(M, b) /\ EndAt(M, b) <= hi => Piece(Short(M, hi), b)
           /\ Piece(Short(M, hi), b) => EndAt(M, b) <= hi
<1> DEFINE N == Short(M, hi)
<1>1. /\ N.first = M.first /\ N.used = hi /\ N.whole \in Nat /\ N.whole <= M.whole
      /\ \A k \in Nat : k <= M.whole /\ k <= hi => k <= N.whole
  BY ShortLine
<1> HIDE DEF N
<1>2. At(N, b.seq) = At(M, b.seq) /\ EndAt(N, b) = EndAt(M, b)
  BY <1>1 DEF At, EndAt
<1>3. At(M, b.seq) \in Nat /\ EndAt(M, b) \in Nat /\ M.whole \in Nat
  BY AtIs DEF Numbered, EndAt, Line, Lines
<1>4. Piece(N, b) => EndAt(M, b) <= hi
  BY <1>1, <1>2 DEF Piece
<1>5. ASSUME Piece(M, b), EndAt(M, b) <= hi PROVE Piece(N, b)
  <2>1. CASE EndAt(M, b) <= M.whole /\ \A i \in 1..Len(b.data) : b.data[i] = At(M, b.seq) + i
    <3>1. EndAt(M, b) <= N.whole
      BY <1>1, <1>3, <1>5, <2>1
    <3> QED
      BY <1>1, <1>2, <1>5, <2>1, <3>1 DEF Piece
  <2>2. CASE At(M, b.seq) > M.whole
    <3>1. At(M, b.seq) > N.whole
      BY <1>1, <1>3, <2>2
    <3> QED
      BY <1>1, <1>2, <1>5, <3>1 DEF Piece
  <2> QED
    BY <1>5, <2>1, <2>2 DEF Piece
<1> QED
  BY <1>4, <1>5 DEF N

LEMMA ShortGood ==
    ASSUME NEW L, NEW M, NEW acc, NEW r, NEW x, Good(L, M, acc, r, x),
           x.s.state = "ESTABLISHED", NEW hi \in Nat, hi <= M.used
    PROVE  Within(M, x.s, hi) <=> Good(L, Short(M, hi), acc, r, x)
<1> DEFINE N == Short(M, hi)
           s == x.s
<1>1. Line(M) /\ Incoming(M, s, r) /\ s \in Stream
  BY DEF Good, Typed
<1>2. /\ Line(N) /\ N.first = M.first /\ N.whole <= hi /\ N.whole \in Nat
      /\ \A k \in Nat : k <= M.whole /\ k <= hi => k <= N.whole
  BY <1>1, ShortLine
<1>3. \A b \in Buf : /\ Piece(M, b) /\ EndAt(M, b) <= hi => Piece(N, b)
                     /\ Piece(N, b) => EndAt(M, b) <= hi
  <2> TAKE b \in Buf
  <2> QED
    BY <1>1, BufNumbered, ShortPiece
<1> HIDE DEF N
<1>4. At(N, s.rcv_nxt) = At(M, s.rcv_nxt)
  BY <1>2 DEF At
<1>5. At(M, s.rcv_nxt) = Len(Came(s, r)) /\ Len(Came(s, r)) <= M.whole
  BY <1>1 DEF Incoming
<1>6. \A i \in DOMAIN s.rcv_buf_q : s.rcv_buf_q[i] \in Buf /\ Piece(M, s.rcv_buf_q[i])
  <2>1. s.rcv_buf_q \in Seq(Buf)
    BY <1>1, StreamFields
  <2> QED
    BY <1>1, <2>1 DEF Incoming
<1>7. Len(Came(s, r)) \in Nat
  <2>1. Came(s, r) \in Seq(Nat)
    BY <1>1 DEF Incoming, Counting
  <2> QED
    BY <2>1
<1>8. ASSUME Within(M, s, hi) PROVE Good(L, N, acc, r, x)
  <2>1. Len(Came(s, r)) <= N.whole
    BY <1>2, <1>5, <1>7, <1>8 DEF Within
  <2>2. \A i \in DOMAIN s.rcv_buf_q : Piece(N, s.rcv_buf_q[i])
    BY <1>3, <1>6, <1>8 DEF Within
  <2>3. Incoming(N, s, r)
    BY <1>1, <1>4, <1>5, <2>1, <2>2 DEF Incoming, Fresh
  <2> QED
    BY <1>2, <2>3 DEF Good
<1>9. ASSUME Good(L, N, acc, r, x) PROVE Within(M, s, hi)
  <2>1. Len(Came(s, r)) <= N.whole /\ \A i \in DOMAIN s.rcv_buf_q : Piece(N, s.rcv_buf_q[i])
    BY <1>9 DEF Good, Incoming
  <2>2. At(M, s.rcv_nxt) <= hi
    BY <1>2, <1>5, <1>7, <2>1
  <2>3. \A i \in DOMAIN s.rcv_buf_q : EndAt(M, s.rcv_buf_q[i]) <= hi
    BY <1>3, <1>6, <2>1
  <2> QED
    BY <2>2, <2>3 DEF Within
<1> QED
  BY <1>8, <1>9 DEF N

\* The receiving side of an open stream is changed.
LEMMA ReceivedAware ==
    ASSUME NEW C, NEW x, Aware(C, x), x.s.state = "ESTABLISHED",
           NEW t, Received(x.s, t),
           Good(C.L, C.M, C.acc, C.r, [s |-> t, out |-> x.out]),
           C.peer \notin Closing => Within(C.M, t, C.hi)
    PROVE  Aware(C, [s |-> t, out |-> x.out])
<1> DEFINE y == [s |-> t, out |-> x.out]
           s == x.s
<1>1. y.s = t /\ y.out = x.out
  OBVIOUS
<1>2. /\ t.state = "ESTABLISHED" /\ t.snd_seq_q = s.snd_seq_q /\ t.snd_nxt = s.snd_nxt
      /\ t.snd_una = s.snd_una /\ t.snd_q = s.snd_q
  BY DEF Received
<1>3. Sender(C.L, t, C.acc, C.peer, C.tk)
  BY <1>2 DEF Aware, Sender, Queued
<1>4. At(C.M, t.rcv_nxt) = Len(Came(t, C.r))
  BY <1>1, <1>2 DEF Good, Incoming
<1>5. Receiver(C.M, t, C.r, C.peer, C.hi)
  BY <1>2, <1>4 DEF Receiver, Fresh
<1>6. SentTo(C.L, t) = SentTo(C.L, s)
  BY <1>2 DEF SentTo
<1>7. /\ Len(Came(s, C.r)) \in Nat /\ Len(Came(t, C.r)) \in Nat
      /\ Len(Came(s, C.r)) <= Len(Came(t, C.r))
  <2>1. s \in Stream /\ t \in Stream /\ C.r \in Seq(Nat)
    BY DEF Aware, Good, Typed, Received
  <2>2. s.rcv_data_q \in Seq(Nat) /\ t.rcv_data_q \in Seq(Nat)
    BY <2>1, ReceiverFields, Zenon
  <2> DEFINE u == s.rcv_data_q
             v == t.rcv_data_q
             r == C.r
  <2>3. u \in Seq(Nat) /\ v \in Seq(Nat) /\ r \in Seq(Nat) /\ Len(u) <= Len(v)
    BY <2>1, <2>2 DEF Received
  <2>4. Came(s, C.r) = r \o u /\ Came(t, C.r) = r \o v
    BY DEF Came
  <2> HIDE DEF u, v, r
  <2>5. /\ Len(r \o u) = Len(r) + Len(u) /\ Len(r \o v) = Len(r) + Len(v)
        /\ Len(r) \in Nat /\ Len(u) \in Nat /\ Len(v) \in Nat
    BY <2>3
  <2> QED
    BY <2>3, <2>4, <2>5
<1>8. Since(C, t)
  <2>1. C.took \in Nat /\ s.state = "ESTABLISHED"
    BY DEF Aware, Context
  <2> QED
    BY <1>2, <1>6, <1>7, <2>1 DEF Aware, Since
<1>9. ASSUME NEW p \in x.out PROVE Said(C, t, p)
  <2>1. Said(C, s, p)
    BY DEF Aware
  <2>2. At(C.M, p.ack) \in Nat
    <3>1. p \in PacketType /\ Line(C.M)
      BY DEF Aware, Good, Typed
    <3> QED
      BY <3>1, AtIs DEF PacketType
  <2>3. C.hi \in Nat
    BY DEF Aware, Context
  <2> QED
    BY <1>2, <1>6, <1>7, <2>1, <2>2, <2>3 DEF Said, Onwards, Back
<1>10. Context(C)
  BY DEF Aware
<1> HIDE DEF y
<1> QED
  BY <1>1, <1>3, <1>5, <1>8, <1>9, <1>10 DEF Aware, y

\* Data arrives: what the peer has sent.
LEMMA ProcessDataAware ==
    ASSUME NEW C, NEW x, Aware(C, x), x.s.state = "ESTABLISHED",
           NEW p \in PacketType, Piece(C.M, p), C.peer \notin Closing => EndAt(C.M, p) <= C.hi
    PROVE  Aware(C, scp_process_data(x, p))
<1> DEFINE z == scp_process_data(x, p)
<1>1. Good(C.L, C.M, C.acc, C.r, x) /\ Typed(x) /\ Line(C.M) /\ C.hi \in Nat /\ C.hi <= C.M.used
  BY DEF Aware, Good, Context
<1>2. Good(C.L, C.M, C.acc, C.r, z)
  BY <1>1, ProcessDataGood
<1>3. Arrived(x, z)
  BY <1>1, ProcessDataIs
<1>4. z.s.state = "ESTABLISHED"
  BY <1>1, <1>3, ArrivedType
<1>5. C.peer \notin Closing => Within(C.M, z.s, C.hi)
  <2> SUFFICES ASSUME C.peer \notin Closing PROVE Within(C.M, z.s, C.hi)
    OBVIOUS
  <2> DEFINE N == Short(C.M, C.hi)
  <2>1. Within(C.M, x.s, C.hi)
    BY DEF Aware, Receiver, Reading
  <2>2. Good(C.L, N, C.acc, C.r, x)
    BY <1>1, <2>1, ShortGood
  <2>3. Piece(N, p)
    BY <1>1, BufNumbered, ShortPiece
  <2> HIDE DEF N
  <2>4. Good(C.L, N, C.acc, C.r, z)
    BY <2>2, <2>3, ProcessDataGood
  <2> HIDE DEF z
  <2> QED
    BY <1>1, <1>2, <1>4, <2>4, ShortGood DEF N
<1> HIDE DEF z
<1>6. PICK t : /\ Received(x.s, t)
               /\ z \in {[s |-> t, out |-> x.out], scp_output_ack([s |-> t, out |-> x.out])}
  BY <1>3 DEF Arrived
<1> DEFINE y == [s |-> t, out |-> x.out]
<1>7. y.s = t /\ y.out = x.out /\ Typed(y)
  BY <1>1, <1>6 DEF Typed, Received
<1>8. z = y \/ z = scp_output_ack(y)
  BY <1>6
<1>9. z.s = t
  <2> HIDE DEF y
  <2> QED
    BY <1>7, <1>8, OutputAckType
<1>10. Good(C.L, C.M, C.acc, C.r, y)
  <2>1. Outgoing(C.L, t, C.acc) /\ Incoming(C.M, t, C.r)
    BY <1>2, <1>9 DEF Good
  <2> HIDE DEF y
  <2> QED
    BY <1>1, <1>7, <2>1 DEF Good
<1>11. Aware(C, y)
  BY <1>5, <1>6, <1>9, <1>10, ReceivedAware
<1>12. y.s.state \in Speaking
  BY <1>4, <1>7, <1>9 DEF Speaking
<1> HIDE DEF y
<1>13. Aware(C, scp_output_ack(y))
  BY <1>11, <1>12, OutputAckAware
<1> QED
  BY <1>8, <1>11, <1>13 DEF z
-----------------------------------------------------------------------------
(***************************************************************************)
(* What arrives, state by state.                                           *)
(***************************************************************************)
\* Once its peer closes, a stream that answers a FIN has nothing to promise.
LEMMA ClosesAware ==
    ASSUME NEW C, NEW y, Aware(C, y), y.s.state # "FREED", C.peer \in Closing,
           NEW w, Good(C.L, C.M, C.acc, C.r, w), w.s.state = "LAST_ACK",
           w.s.rcv_data_q = y.s.rcv_data_q
    PROVE  Aware(C, w)
<1>1. /\ w.s.state \in Closing /\ w.s.state # "ESTABLISHED" /\ w.s.state \notin Fresh
      /\ w.s.state \notin Reading /\ w.s.state # "FREED"
  BY DEF Closing, Fresh, Reading
<1>2. Came(w.s, C.r) = Came(y.s, C.r)
  BY DEF Came
<1>3. Sender(C.L, w.s, C.acc, C.peer, C.tk) /\ Receiver(C.M, w.s, C.r, C.peer, C.hi)
  BY <1>1 DEF Sender, Receiver
<1>4. Since(C, w.s)
  BY <1>1, <1>2 DEF Aware, Since
<1>5. \A p \in w.out : Said(C, w.s, p)
  BY <1>1 DEF Said, Onwards, Back
<1> QED
  BY <1>3, <1>4, <1>5 DEF Aware

\* A stream given up.
LEMMA FreedAware ==
    ASSUME NEW C, Context(C), NEW w, Good(C.L, C.M, C.acc, C.r, w), w.s.state = "FREED",
           C.peer \notin Closing => \A p \in w.out : \E s : Said(C, s, p)
    PROVE  Aware(C, w) /\ Guarded(w.s)
<1>1. /\ w.s.state \in Closing /\ w.s.state # "ESTABLISHED" /\ w.s.state \notin Fresh
      /\ w.s.state \notin Reading /\ w.s.state # "LAST_ACK" /\ w.s.state # "FIN_WAIT"
  BY DEF Closing, Fresh, Reading
<1>2. Sender(C.L, w.s, C.acc, C.peer, C.tk) /\ Receiver(C.M, w.s, C.r, C.peer, C.hi)
  BY <1>1 DEF Sender, Receiver
<1>3. Since(C, w.s)
  BY <1>1 DEF Since
<1>4. \A p \in w.out : Said(C, w.s, p)
  BY <1>1 DEF Said, Onwards, Back
<1>5. Guarded(w.s)
  BY <1>1 DEF Guarded
<1> QED
  BY <1>2, <1>3, <1>4, <1>5 DEF Aware

\* A stream that is not connected, and starts nothing but a handshake.
Starting == {"CONNECT", "CONNECT_ACK"}
LEMMA FreshAware ==
    ASSUME NEW C, NEW x, Aware(C, x), x.s.state \in Fresh,
           NEW w, Good(C.L, C.M, C.acc, C.r, w), w.s.state \in Fresh,
           w.s.rcv_wnd = x.s.rcv_wnd, w.s.rcv_data_q = x.s.rcv_data_q,
           \A p \in w.out : p \in x.out \/ p.kind \in Starting
    PROVE  Aware(C, w)
<1>1. /\ w.s.state \notin Closing /\ w.s.state # "ESTABLISHED" /\ w.s.state \notin Reading
      /\ x.s.state \notin Closing /\ x.s.state # "ESTABLISHED" /\ x.s.state # "FREED"
      /\ w.s.state # "LAST_ACK"
  BY DEF Closing, Fresh, Reading
<1>2. Came(w.s, C.r) = Came(x.s, C.r) /\ SentTo(C.L, w.s) = SentTo(C.L, x.s)
  BY <1>1 DEF Came, SentTo
<1>3. Sender(C.L, w.s, C.acc, C.peer, C.tk)
  BY <1>1 DEF Sender
<1>4. Receiver(C.M, w.s, C.r, C.peer, C.hi)
  BY <1>1 DEF Aware, Receiver
<1>5. Since(C, w.s)
  BY <1>1, <1>2 DEF Aware, Since
<1>6. \A p \in x.out : Said(C, w.s, p)
  <2> TAKE p \in x.out
  <2>1. Said(C, x.s, p) /\ w.s.state # "FREED"
    BY <1>1 DEF Aware, Closing
  <2> QED
    BY <1>1, <1>2, <2>1 DEF Said, Onwards, Back
<1>7. \A p : p.kind \in Starting => Said(C, w.s, p)
  BY DEF Starting, Said, Onwards, Back
<1> QED
  BY <1>3, <1>4, <1>5, <1>6, <1>7 DEF Aware

\* The connection opens: nothing was sent, and nothing came.
LEMMA OpensAware ==
    ASSUME NEW C, NEW x, Aware(C, x), x.s.state \in {"SYN_SENT", "SYN_RECV"},
           x.s.snd_una = x.s.snd_nxt,
           NEW w, Good(C.L, C.M, C.acc, C.r, w), w.s.state = "ESTABLISHED",
           w.s.snd_una = x.s.snd_una, w.s.snd_nxt = x.s.snd_nxt, w.s.snd_q = x.s.snd_q,
           w.s.snd_seq_q = x.s.snd_seq_q, w.s.rcv_nxt = C.M.first,
           w.s.rcv_data_q = x.s.rcv_data_q, w.s.rcv_buf_q = x.s.rcv_buf_q,
           \A p \in w.out : \/ p \in x.out
                            \/ p.kind = "ACK" /\ p.ack = C.M.first /\ p.sack = C.M.first
    PROVE  Aware(C, w) /\ Guarded(w.s)
<1>1. /\ Line(C.L) /\ Line(C.M) /\ C.hi \in Nat /\ C.tk \in Nat /\ C.sent \in Nat
      /\ x.s.state \in Fresh /\ x.s.state \notin Closing /\ x.s.state # "FREED"
      /\ x.s.state # "ESTABLISHED" /\ "ESTABLISHED" \notin Fresh
      /\ "ESTABLISHED" \notin Closing
  BY DEF Aware, Good, Context, Fresh, Closing
<1>2. At(C.L, C.L.first) = 0 /\ At(C.M, C.M.first) = 0
  BY <1>1, AtFirst
<1>3. x.s.snd_nxt = C.L.first /\ x.s.snd_seq_q = C.L.first /\ C.acc = 0 /\ x.s.snd_q = <<>>
  BY <1>1 DEF Aware, Good, Outgoing
<1>4. C.r = <<>> /\ x.s.rcv_data_q = <<>> /\ x.s.rcv_buf_q = <<>>
  BY <1>1 DEF Aware, Good, Incoming
<1>5. Queued(C.L, w.s, C.acc)
  <2>1. Bytes(w.s.snd_q) = 0 /\ Len(w.s.snd_q) = 0
    BY <1>3, BytesOfFew
  <2>2. /\ At(C.L, w.s.snd_una) = 0 /\ At(C.L, w.s.snd_nxt) = 0 /\ At(C.L, w.s.snd_seq_q) = 0
    BY <1>2, <1>3
  <2> QED
    BY <1>3, <2>1, <2>2 DEF Queued
<1>6. Sender(C.L, w.s, C.acc, C.peer, C.tk)
  BY <1>1, <1>2, <1>3, <1>5 DEF Sender
<1>7. Came(w.s, C.r) = Came(x.s, C.r) /\ Len(Came(w.s, C.r)) = 0
  <2>1. Came(w.s, C.r) = <<>>
    BY <1>4 DEF Came
  <2> QED
    BY <2>1 DEF Came
<1>8. Receiver(C.M, w.s, C.r, C.peer, C.hi)
  <2>1. Within(C.M, w.s, C.hi)
    BY <1>1, <1>2, <1>4 DEF Within
  <2> QED
    BY <1>1, <1>2, <1>7, <2>1 DEF Receiver
<1>9. SentTo(C.L, w.s) = SentTo(C.L, x.s)
  BY <1>1, <1>2, <1>3 DEF SentTo
<1>10. Since(C, w.s)
  BY <1>1, <1>7, <1>9 DEF Aware, Since
<1>11. ASSUME NEW p \in w.out PROVE Said(C, w.s, p)
  <2>1. CASE p \in x.out
    <3>1. Said(C, x.s, p)
      BY <2>1 DEF Aware
    <3> QED
      BY <1>1, <1>7, <1>9, <3>1 DEF Said, Onwards, Back
  <2>2. CASE p.kind = "ACK" /\ p.ack = C.M.first /\ p.sack = C.M.first
    BY <1>1, <1>2, <1>7, <2>2 DEF Said, Onwards, Back
  <2> QED
    BY <2>1, <2>2
<1>12. Guarded(w.s)
  BY <1>1 DEF Guarded
<1> QED
  BY <1>6, <1>8, <1>10, <1>11, <1>12 DEF Aware

\* A packet p that comes: what its sender may say.
Hears(C, s, p) ==
    /\ PacketOf(C.M, p) /\ Onwards(C.M, p, C.peer, C.hi)
    /\ Back(C.L, p, s.state, SentTo(C.L, s), C.peer, C.tk)

\* An acknowledgement is never of what was not sent.
LEMMA AckGuarded ==
    ASSUME NEW C, NEW x, Aware(C, x), Guarded(x.s), x.s.state \in Reading,
           NEW p \in PacketType, p.kind \in {"ACK", "FIN"}, Hears(C, x.s, p)
    PROVE  Guarded(scp_process_ack(x, p).s)
<1>1. Typed(x)
  BY DEF Aware, Good
<1>2. ASSUME x.s.state = "ESTABLISHED", x.s.snd_una = x.s.snd_nxt, p.ack = x.s.snd_una
      PROVE  ~SEQ_GT(p.sack, p.ack)
  <2>1. OnLine(C.L, x.s) /\ x.s \in Stream
    BY <1>2, AwareOnLine
  <2>2. At(C.L, p.sack) <= At(C.L, p.ack)
    BY <1>2 DEF Hears, Back, Closing, SentTo
  <2>3. /\ Line(C.L) /\ At(C.L, p.ack) <= C.L.used /\ p.ack \in Seqs /\ p.sack \in Seqs
        /\ C.L.used \in Nat
    BY <1>2, <2>1 DEF OnLine, PacketType, Line, Lines
  <2>4. At(C.L, p.sack) \in Nat /\ At(C.L, p.ack) \in Nat
    BY <2>3, AtIs
  <2>5. At(C.L, p.sack) <= C.L.used
    BY <2>2, <2>3, <2>4
  <2>6. SEQ_GT(p.sack, p.ack) => At(C.L, p.sack) > At(C.L, p.ack)
    BY <2>3, <2>5, AtOrder
  <2> QED
    BY <2>2, <2>4, <2>6
<1> QED
  BY <1>1, <1>2, ProcessAckGuarded

\* The answer to a FIN: the stream waits for the last acknowledgement.
LEMMA LastAckAware ==
    ASSUME NEW C, NEW y, Aware(C, y), y.s.state = "ESTABLISHED", C.peer \in Closing,
           NEW n \in Seqs
    PROVE  LET z == scp_output_ack([y EXCEPT !.s.rcv_nxt = n])
               v == [z EXCEPT !.s =
                       [Start(@, "fin") EXCEPT !.state = "LAST_ACK", !.retry = 0]]
               w == scp_output_fin_first(v)
           IN  Aware(C, w) /\ Guarded(w.s)
<1> DEFINE t == [y.s EXCEPT !.rcv_nxt = n]
           z == scp_output_ack([y EXCEPT !.s.rcv_nxt = n])
           u == [Start(t, "fin") EXCEPT !.state = "LAST_ACK", !.retry = 0]
           v == [z EXCEPT !.s =
                   [Start(@, "fin") EXCEPT !.state = "LAST_ACK", !.retry = 0]]
           w == scp_output_fin_first(v)
<1>1. Good(C.L, C.M, C.acc, C.r, y) /\ Typed(y) /\ y.s \in Stream
  BY DEF Aware, Good, Typed
<1>2. Good(C.L, C.M, C.acc, C.r, w)
  BY <1>1, LastAckGood
<1>3. t \in Stream /\ t.rcv_data_q = y.s.rcv_data_q
  BY <1>1 DEF Stream
<1>4. z.s = t /\ z.s \in Stream /\ z = [s |-> t, out |-> z.out]
  <2>1. [y EXCEPT !.s.rcv_nxt = n] = [s |-> t, out |-> y.out]
    BY <1>1 DEF Typed
  <2> DEFINE e == [s |-> t, out |-> y.out]
  <2>2. z = scp_output_ack(e) /\ e.s = t /\ e.out = y.out
    BY <2>1
  <2> HIDE DEF z, t
  <2>3. scp_output_ack(e) = [s |-> t, out |-> y.out \cup {Acking(t, Packet("ACK", 0, <<>>))}]
    <3> DEFINE k == Packet("ACK", 0, <<>>)
    <3>1. scp_output_ack(e) = Emit(e, Acking(e.s, k))
      BY DEF scp_output_ack
    <3> HIDE DEF k
    <3>2. Emit(e, Acking(t, k)) = [s |-> t, out |-> y.out \cup {Acking(t, k)}]
      BY DEF Emit
    <3> QED
      BY <2>2, <3>1, <3>2 DEF k
  <2> QED
    BY <1>3, <2>2, <2>3
<1> HIDE DEF t, z
<1>5. u.state = "LAST_ACK" /\ u.rcv_data_q = t.rcv_data_q /\ "fin" \in u.timers
  BY <1>3 DEF Start, Stream
<1>6. v = [s |-> u, out |-> z.out]
  BY <1>4
<1> HIDE DEF u, v
<1>7. w.s = [u EXCEPT !.snd_nxt = Plus(@, 1)]
  BY <1>6 DEF scp_output_fin_first, Emit
<1> HIDE DEF w
<1>8. w.s.state = "LAST_ACK" /\ w.s.rcv_data_q = y.s.rcv_data_q /\ "fin" \in w.s.timers
  <2> DEFINE k == Plus(u.snd_nxt, 1)
  <2>1. w.s = [u EXCEPT !.snd_nxt = k]
    BY <1>7
  <2> HIDE DEF k
  <2> QED
    BY <1>3, <1>5, <2>1 DEF Stream
<1>9. Guarded(w.s)
  BY <1>8 DEF Guarded, Fresh
<1>10. Aware(C, w)
  BY <1>2, <1>8, ClosesAware
<1> QED
  BY <1>9, <1>10 DEF w, v, z

LEMMA EstProcessAware ==
    ASSUME NEW C, NEW x, Aware(C, x), Guarded(x.s), x.s.state = "ESTABLISHED",
           NEW p \in PacketType, Hears(C, x.s, p)
    PROVE  Aware(C, est_process(x, p)) /\ Guarded(est_process(x, p).s)
<1> DEFINE a == scp_process_ack(x, p)
           y == IF p.kind = "FIN" THEN a ELSE x
           n == Plus(p.seq, 1)
           z == scp_output_ack([y EXCEPT !.s.rcv_nxt = n])
           v == [z EXCEPT !.s = [Start(@, "fin") EXCEPT !.state = "LAST_ACK", !.retry = 0]]
           d == scp_process_data(x, p)
           w == scp_output_fin_first(v)
           e == est_process(x, p)
<1>1. p.seq \in Int /\ p.kind \in Kinds
  BY SeqsAreInt DEF PacketType
<1>2. n \in Seqs
  BY <1>1, SeqsType
<1>3. \/ p.kind = "ACK" /\ e = a
      \/ p.kind = "FIN" /\ (e = scp_output_ack(a) \/ (y = a /\ e = w))
      \/ p.kind = "DATA" /\ e = d
      \/ e \in {scp_output_ack(x), x}
  <2> HIDE DEF v
  <2> QED
    BY <1>1 DEF est_process, Kinds, v
<1>4. x.s.state \in Reading /\ x.s.state \in Speaking /\ Typed(x)
  BY DEF Reading, Speaking, Aware, Good
<1>5. ASSUME p.kind \in {"ACK", "FIN"}
      PROVE  Aware(C, a) /\ Guarded(a.s) /\ a.s.state = "ESTABLISHED"
  <2>1. Back(C.L, p, x.s.state, SentTo(C.L, x.s), C.peer, C.tk)
    BY DEF Hears
  <2> QED
    BY <1>4, <1>5, <2>1, ProcessAckAware, AckGuarded
<1>6. ASSUME p.kind = "DATA" PROVE Aware(C, d) /\ Guarded(d.s)
  <2>1. Piece(C.M, p) /\ (C.peer \notin Closing => EndAt(C.M, p) <= C.hi)
    BY <1>6 DEF Hears, PacketOf, Onwards
  <2>2. Received(x.s, d.s)
    BY <1>4, ProcessDataIs, ArrivedType
  <2>3. Guarded(d.s)
    BY <2>2 DEF Received, Guarded
  <2> QED
    BY <2>1, <2>3, ProcessDataAware
<1>7. Aware(C, scp_output_ack(x)) /\ Guarded(scp_output_ack(x).s)
  BY <1>4, OutputAckAware
<1>8. ASSUME p.kind = "FIN", y = a PROVE Aware(C, w) /\ Guarded(w.s)
  <2>1. C.peer \in Closing
    BY <1>8 DEF Hears, Onwards
  <2>2. Aware(C, y) /\ y.s.state = "ESTABLISHED"
    BY <1>5, <1>8
  <2> HIDE DEF y, n
  <2> QED
    BY <1>2, <2>1, <2>2, LastAckAware
<1>9. ASSUME p.kind = "FIN" PROVE Aware(C, scp_output_ack(a)) /\ Guarded(scp_output_ack(a).s)
  <2>1. Aware(C, a) /\ Guarded(a.s) /\ a.s.state \in Speaking
    BY <1>5, <1>9 DEF Speaking
  <2> HIDE DEF a
  <2> QED
    BY <2>1, OutputAckAware
<1> HIDE DEF a, y, w, d, e
<1>10. Aware(C, e) /\ Guarded(e.s)
  BY <1>3, <1>5, <1>6, <1>7, <1>8, <1>9
<1> QED
  BY <1>10 DEF e

LEMMA FinWaitAware ==
    ASSUME NEW C, NEW x, Aware(C, x), Guarded(x.s), x.s.state = "FIN_WAIT",
           NEW p \in PacketType, Hears(C, x.s, p)
    PROVE  Aware(C, fin_wait_process(x, p)) /\ Guarded(fin_wait_process(x, p).s)
<1> DEFINE y == scp_process_ack(x, p)
           z == [y EXCEPT !.s.rcv_nxt = IF SEQ_GEQ(p.seq, @) THEN Plus(p.seq, 1) ELSE @]
           a == scp_output_ack(z)
           w == [a EXCEPT !.s = scp_stream_free]
           e == fin_wait_process(x, p)
<1>1. \/ p.kind = "ACK" /\ e = y
      \/ p.kind = "FIN" /\ e = w
      \/ e \in {scp_output_ack(x), x}
  <2> HIDE DEF a
  <2> QED
    BY DEF fin_wait_process, a
<1>2. /\ Good(C.L, C.M, C.acc, C.r, x) /\ Typed(x) /\ x.s.state \in Reading
      /\ x.s.state \in Speaking /\ Context(C)
  BY DEF Reading, Speaking, Aware, Good
<1>3. Good(C.L, C.M, C.acc, C.r, e)
  BY <1>2, ClosingProcessGood
<1>4. Typed(y)
  BY <1>2, ProcessAckGood DEF Good
<1>5. ASSUME p.kind = "ACK" PROVE Aware(C, y) /\ Guarded(y.s)
  <2>1. Back(C.L, p, x.s.state, SentTo(C.L, x.s), C.peer, C.tk)
    BY DEF Hears
  <2> QED
    BY <1>2, <1>5, <2>1, ProcessAckAware, AckGuarded
<1>6. Aware(C, scp_output_ack(x)) /\ Guarded(scp_output_ack(x).s)
  BY <1>2, OutputAckAware
<1>7. w.s.state = "FREED"
  <2> HIDE DEF y
  <2> DEFINE n == IF SEQ_GEQ(p.seq, y.s.rcv_nxt) THEN Plus(p.seq, 1) ELSE y.s.rcv_nxt
             t == [y.s EXCEPT !.rcv_nxt = n]
  <2>1. z = [s |-> t, out |-> y.out]
    BY <1>4 DEF Typed
  <2> HIDE DEF t, z
  <2>2. \A k : Emit(z, k) = [s |-> t, out |-> y.out \cup {k}]
    BY <2>1 DEF Emit
  <2>3. \E k : a = Emit(z, k)
    BY DEF scp_output_ack
  <2> HIDE DEF a
  <2>4. w.s = scp_stream_free
    BY <2>2, <2>3
  <2> QED
    BY <2>4 DEF scp_stream_free, scp_stream_alloc
<1> HIDE DEF y, w, e
<1>8. ASSUME p.kind = "FIN", e = w PROVE Aware(C, w) /\ Guarded(w.s)
  <2>1. C.peer \in Closing
    BY <1>8 DEF Hears, Onwards
  <2> QED
    BY <1>2, <1>3, <1>7, <1>8, <2>1, FreedAware
<1>9. Aware(C, e) /\ Guarded(e.s)
  BY <1>1, <1>5, <1>6, <1>8
<1> QED
  BY <1>9 DEF e

\* A stream is given up, and what it sent before goes on.
LEMMA GivenUpAware ==
    ASSUME NEW C, NEW x, Aware(C, x)
    PROVE  LET w == [x EXCEPT !.s = scp_stream_free]
           IN  Aware(C, w) /\ Guarded(w.s)
<1> DEFINE w == [x EXCEPT !.s = scp_stream_free]
<1>1. Good(C.L, C.M, C.acc, C.r, x) /\ Typed(x) /\ Context(C)
  BY DEF Aware, Good
<1>2. Good(C.L, C.M, C.acc, C.r, w)
  BY <1>1, FreedGood
<1>3. w.s = scp_stream_free /\ w.out = x.out
  BY <1>1 DEF Typed
<1>4. w.s.state = "FREED"
  BY <1>3 DEF scp_stream_free, scp_stream_alloc
<1>5. \A p \in w.out : \E s : Said(C, s, p)
  BY <1>3 DEF Aware
<1> HIDE DEF w
<1>6. Aware(C, w) /\ Guarded(w.s)
  BY <1>1, <1>2, <1>4, <1>5, FreedAware
<1> QED
  BY <1>6 DEF w

LEMMA LastAckProcessAware ==
    ASSUME NEW C, NEW x, Aware(C, x), Guarded(x.s), x.s.state = "LAST_ACK",
           NEW p \in PacketType
    PROVE  Aware(C, last_ack_process(x, p)) /\ Guarded(last_ack_process(x, p).s)
<1> DEFINE w == [x EXCEPT !.s = scp_stream_free]
           e == last_ack_process(x, p)
<1>1. e \in {scp_output_ack(x), w, x}
  BY DEF last_ack_process
<1>2. Aware(C, w) /\ Guarded(w.s)
  BY GivenUpAware
<1>3. Aware(C, scp_output_ack(x)) /\ Guarded(scp_output_ack(x).s)
  BY OutputAckAware DEF Speaking
<1> HIDE DEF e, w
<1>4. Aware(C, e) /\ Guarded(e.s)
  BY <1>1, <1>2, <1>3
<1> QED
  BY <1>4 DEF e

\* A stream that is fresh becomes t, the packet p is sent.
LEMMA HandshakeStep ==
    ASSUME NEW C, NEW x, Aware(C, x), x.s.state \in Fresh, NEW t \in Stream,
           t.state \in Fresh, t.rcv_wnd = x.s.rcv_wnd, t.rcv_data_q = x.s.rcv_data_q,
           t.snd_una = t.snd_nxt,
           NEW p, p.kind \in Starting,
           NEW w, Good(C.L, C.M, C.acc, C.r, w), w = [s |-> t, out |-> x.out \cup {p}]
    PROVE  Aware(C, w) /\ Guarded(w.s)
<1>1. w.s = t /\ \A e \in w.out : e \in x.out \/ e.kind \in Starting
  OBVIOUS
<1>2. Aware(C, w)
  BY <1>1, FreshAware
<1>3. Guarded(w.s)
  BY <1>1 DEF Guarded, Fresh
<1> QED
  BY <1>2, <1>3

LEMMA ListenAware ==
    ASSUME NEW C, NEW x, Aware(C, x), Guarded(x.s), x.s.state = "CLOSED",
           NEW p \in PacketType, PacketOf(C.M, p),
           NEW i \in Seqs, p.kind = "CONNECT" => i = C.L.first
    PROVE  LET w == listen_like_process(x, p, i) IN Aware(C, w) /\ Guarded(w.s)
<1> DEFINE w == listen_like_process(x, p, i)
           u == Start(x.s, "hs")
           t == [u EXCEPT
                    !.state = "SYN_RECV", !.retry = 0, !.rcv_nxt = p.seq,
                    !.snd_seq_q = i, !.snd_una = i, !.snd_nxt = i]
           y == [x EXCEPT !.s = t]
           c == Packet("CONNECT_ACK", i, <<>>)
<1>1. Good(C.L, C.M, C.acc, C.r, x) /\ Typed(x) /\ x.s \in Stream /\ p.seq \in Seqs
  BY DEF Aware, Good, Typed, PacketType
<1>2. Good(C.L, C.M, C.acc, C.r, w)
  BY <1>1, ListenGood
<1>3. CASE p.kind # "CONNECT"
  <2>1. w = x
    BY <1>3 DEF listen_like_process
  <2> HIDE DEF w
  <2> QED
    BY <2>1 DEF w
<1>4. CASE p.kind = "CONNECT"
  <2>1. u \in Stream /\ u.rcv_wnd = x.s.rcv_wnd /\ u.rcv_data_q = x.s.rcv_data_q
    BY <1>1 DEF Start, Stream, Timers
  <2>2. w = scp_output_connect_ack(y)
    BY <1>4 DEF listen_like_process
  <2> HIDE DEF u, w
  <2>3. t \in Stream
    <3>1. "SYN_RECV" \in States /\ 0 \in Nat
      BY DEF States
    <3> HIDE DEF Seqs, States
    <3> QED
      BY <1>1, <2>1, <3>1 DEF Stream
  <2>4. /\ t.state = "SYN_RECV" /\ t.rcv_wnd = u.rcv_wnd /\ t.rcv_data_q = u.rcv_data_q
        /\ t.snd_una = i /\ t.snd_nxt = i
    BY <2>1 DEF Stream
  <2>5. y = [s |-> t, out |-> x.out]
    BY <1>1 DEF Typed
  <2> HIDE DEF t, y
  <2>6. w = Emit(y, c)
    BY <2>2, <2>4, <2>5 DEF scp_output_connect_ack
  <2>7. c.kind \in Starting
    BY DEF Packet, Starting
  <2> HIDE DEF c
  <2>8. w = [s |-> t, out |-> x.out \cup {c}]
    BY <2>5, <2>6 DEF Emit
  <2>9. x.s.state \in Fresh /\ t.state \in Fresh
    BY <2>4 DEF Fresh
  <2>10. t.snd_una = t.snd_nxt /\ t.rcv_wnd = x.s.rcv_wnd /\ t.rcv_data_q = x.s.rcv_data_q
    BY <2>1, <2>4
  <2>11. Aware(C, w) /\ Guarded(w.s)
    BY <1>2, <2>3, <2>7, <2>8, <2>9, <2>10, HandshakeStep
  <2> QED
    BY <2>11 DEF w
<1> QED
  BY <1>3, <1>4

LEMMA EstablishedIs ==
    ASSUME NEW s \in Stream
    PROVE  LET t == Established(s)
           IN  /\ t.state = "ESTABLISHED" /\ t.snd_una = s.snd_una /\ t.snd_nxt = s.snd_nxt
               /\ t.snd_q = s.snd_q /\ t.snd_seq_q = s.snd_seq_q /\ t.rcv_nxt = s.rcv_nxt
               /\ t.rcv_data_q = s.rcv_data_q /\ t.rcv_buf_q = s.rcv_buf_q
BY DEF Established, Stream

LEMMA SynRecvAware ==
    ASSUME NEW C, NEW x, Aware(C, x), Guarded(x.s), x.s.state = "SYN_RECV", NEW p
    PROVE  LET w == syn_recv_process(x, p) IN Aware(C, w) /\ Guarded(w.s)
<1> DEFINE t == Established(x.s)
           w == [x EXCEPT !.s = Established(@)]
           e == syn_recv_process(x, p)
<1>1. Good(C.L, C.M, C.acc, C.r, x) /\ Typed(x) /\ x.s \in Stream
  BY DEF Aware, Good, Typed
<1>2. x.s.rcv_nxt = C.M.first /\ x.s.snd_una = x.s.snd_nxt
  BY <1>1 DEF Good, Incoming, Guarded, Fresh
<1>3. Good(C.L, C.M, C.acc, C.r, w)
  BY <1>1, <1>2, EstablishedGood
<1>4. w = [s |-> t, out |-> x.out]
  BY <1>1 DEF Typed
<1>5. e \in {w, x}
  BY DEF syn_recv_process
<1> HIDE DEF w, e
<1>6. /\ t.state = "ESTABLISHED" /\ t.snd_una = x.s.snd_una /\ t.snd_nxt = x.s.snd_nxt
      /\ t.snd_q = x.s.snd_q /\ t.snd_seq_q = x.s.snd_seq_q /\ t.rcv_nxt = x.s.rcv_nxt
      /\ t.rcv_data_q = x.s.rcv_data_q /\ t.rcv_buf_q = x.s.rcv_buf_q
  BY <1>1, EstablishedIs
<1> HIDE DEF t
<1>7. w.s = t /\ w.out = x.out
  BY <1>4
<1>8. Aware(C, w) /\ Guarded(w.s)
  BY <1>2, <1>3, <1>6, <1>7, OpensAware
<1>9. Aware(C, e) /\ Guarded(e.s)
  BY <1>5, <1>8
<1> QED
  BY <1>9 DEF e

LEMMA SynSentAware ==
    ASSUME NEW C, NEW x, Aware(C, x), Guarded(x.s), x.s.state = "SYN_SENT",
           NEW p \in PacketType, PacketOf(C.M, p)
    PROVE  LET w == syn_sent_process(x, p) IN Aware(C, w) /\ Guarded(w.s)
<1> DEFINE t == [x.s EXCEPT !.rcv_nxt = p.seq]
           y == [x EXCEPT !.s.rcv_nxt = p.seq]
           k == Acking(t, Packet("ACK", 0, <<>>))
           z == scp_output_ack(y)
           u == Established(t)
           w == [z EXCEPT !.s = Established(@)]
           e == syn_sent_process(x, p)
<1>1. Good(C.L, C.M, C.acc, C.r, x) /\ Typed(x) /\ x.s \in Stream /\ p.seq \in Seqs
  BY DEF Aware, Good, Typed, PacketType
<1>2. Good(C.L, C.M, C.acc, C.r, e)
  BY <1>1, SynSentGood
<1>3. x.s.snd_una = x.s.snd_nxt /\ x.s.rcv_buf_q = <<>>
  BY <1>1 DEF Good, Incoming, Guarded, Fresh
<1>4. CASE p.kind # "CONNECT_ACK"
  <2>1. e = x
    BY <1>4 DEF syn_sent_process
  <2> HIDE DEF e
  <2> QED
    BY <2>1 DEF e
<1>5. CASE p.kind = "CONNECT_ACK"
  <2>1. p.seq = C.M.first
    BY <1>5 DEF PacketOf
  <2>2. t \in Stream
    BY <1>1 DEF Stream
  <2>3. /\ t.rcv_nxt = p.seq /\ t.rcv_buf_q = x.s.rcv_buf_q /\ t.snd_una = x.s.snd_una
        /\ t.snd_nxt = x.s.snd_nxt /\ t.snd_q = x.s.snd_q /\ t.snd_seq_q = x.s.snd_seq_q
        /\ t.rcv_data_q = x.s.rcv_data_q
    BY <1>1 DEF Stream
  <2>4. y = [s |-> t, out |-> x.out]
    BY <1>1 DEF Typed
  <2>5. e = w
    BY <1>5 DEF syn_sent_process
  <2> HIDE DEF t, e, y
  <2>6. /\ u.state = "ESTABLISHED" /\ u.snd_una = t.snd_una /\ u.snd_nxt = t.snd_nxt
        /\ u.snd_q = t.snd_q /\ u.snd_seq_q = t.snd_seq_q /\ u.rcv_nxt = t.rcv_nxt
        /\ u.rcv_data_q = t.rcv_data_q /\ u.rcv_buf_q = t.rcv_buf_q
    BY <2>2, EstablishedIs
  <2>7. k.kind = "ACK" /\ k.ack = t.rcv_nxt /\ k.sack = t.rcv_nxt
    BY <1>3, <2>3 DEF Acking, Packet, scp_calc_sack
  <2>8. z = [s |-> t, out |-> x.out \cup {k}]
    <3> DEFINE b == Packet("ACK", 0, <<>>)
    <3>1. z = Emit(y, Acking(y.s, b))
      BY DEF scp_output_ack
    <3>2. y.s = t
      BY <2>4
    <3>3. k = Acking(t, b)
      OBVIOUS
    <3> HIDE DEF b, k, z
    <3> QED
      BY <2>4, <3>1, <3>2, <3>3 DEF Emit
  <2> HIDE DEF k, z
  <2>9. w = [s |-> u, out |-> x.out \cup {k}]
    <3> HIDE DEF u
    <3> QED
      BY <2>8 DEF u
  <2> HIDE DEF u, w
  <2>10. e.s = u /\ \A q \in e.out : q \in x.out \/ q = k
    BY <2>5, <2>9
  <2>11. Aware(C, e) /\ Guarded(e.s)
    <3>1. /\ e.s.state = "ESTABLISHED" /\ e.s.snd_una = x.s.snd_una
          /\ e.s.snd_nxt = x.s.snd_nxt /\ e.s.snd_q = x.s.snd_q
          /\ e.s.snd_seq_q = x.s.snd_seq_q /\ e.s.rcv_nxt = C.M.first
          /\ e.s.rcv_data_q = x.s.rcv_data_q /\ e.s.rcv_buf_q = x.s.rcv_buf_q
      BY <2>1, <2>3, <2>6, <2>10
    <3>2. \A q \in e.out : \/ q \in x.out
                           \/ q.kind = "ACK" /\ q.ack = C.M.first /\ q.sack = C.M.first
      BY <2>1, <2>3, <2>7, <2>10
    <3> QED
      BY <1>2, <1>3, <3>1, <3>2, OpensAware
  <2> QED
    BY <2>11 DEF e
<1> QED
  BY <1>4, <1>5

\* Nothing finds a stream that was given up.
LEMMA QuietGuards ==
    ASSUME NEW s, NEW t, Guarded(s), t.state = s.state, t.snd_una = s.snd_una,
           t.snd_nxt = s.snd_nxt, t.timers = s.timers
    PROVE  Guarded(t)
BY DEF Guarded

LEMMA ProcessedAware ==
    ASSUME NEW C, NEW s, Aware(C, Only(s)), Guarded(s),
           NEW p \in PacketType, Hears(C, s, p), NEW i \in Seqs,
           s.state = "CLOSED" /\ p.kind = "CONNECT" => i = C.L.first
    PROVE  LET w == Processed(s, p, i) IN Aware(C, w) /\ Guarded(w.s)
<1> DEFINE t == [s EXCEPT !.idle_failures = 0]
           x == Only(t)
           w == Processed(s, p, i)
<1>1. s \in Stream /\ Only(s).s = s /\ Only(s).out = {}
  <2>1. Only(s).s = s /\ Only(s).out = {}
    BY DEF Only
  <2> QED
    BY <2>1 DEF Aware, Good, Typed
<1>2. t \in Stream
  BY <1>1 DEF Stream
<1>3. Quiet(s, t) /\ t.timers = s.timers
  BY <1>1, <1>2 DEF Stream, Quiet
<1>4. s.state \in States
  BY <1>1, StreamFields
<1>5. \/ s.state = "CLOSED" /\ w = listen_like_process(x, p, i)
      \/ s.state = "SYN_SENT" /\ w = syn_sent_process(x, p)
      \/ s.state = "SYN_RECV" /\ w = syn_recv_process(x, p)
      \/ s.state = "ESTABLISHED" /\ w = est_process(x, p)
      \/ s.state = "FIN_WAIT" /\ w = fin_wait_process(x, p)
      \/ s.state = "LAST_ACK" /\ w = last_ack_process(x, p)
      \/ s.state = "FREED" /\ w = Only(s)
  BY <1>4 DEF Processed, x, t, States
<1> HIDE DEF t
<1>6. x.s = t /\ x = [s |-> t, out |-> Only(s).out]
  BY DEF Only
<1> HIDE DEF x, w
<1>7. Aware(C, x)
  BY <1>1, <1>3, <1>6, QuietAware
<1>8. Guarded(x.s) /\ x.s.state = s.state
  BY <1>3, <1>6, QuietGuards DEF Quiet
<1>9. Hears(C, x.s, p) /\ PacketOf(C.M, p)
  BY <1>3, <1>6 DEF Hears, Quiet, SentTo
<1>10. Aware(C, w) /\ Guarded(w.s)
  <2>1. CASE s.state = "CLOSED" /\ w = listen_like_process(x, p, i)
    BY <1>7, <1>8, <1>9, <2>1, ListenAware
  <2>2. CASE s.state = "SYN_SENT" /\ w = syn_sent_process(x, p)
    BY <1>7, <1>8, <1>9, <2>2, SynSentAware
  <2>3. CASE s.state = "SYN_RECV" /\ w = syn_recv_process(x, p)
    BY <1>7, <1>8, <1>9, <2>3, SynRecvAware
  <2>4. CASE s.state = "ESTABLISHED" /\ w = est_process(x, p)
    BY <1>7, <1>8, <1>9, <2>4, EstProcessAware
  <2>5. CASE s.state = "FIN_WAIT" /\ w = fin_wait_process(x, p)
    BY <1>7, <1>8, <1>9, <2>5, FinWaitAware
  <2>6. CASE s.state = "LAST_ACK" /\ w = last_ack_process(x, p)
    BY <1>7, <1>8, <1>9, <2>6, LastAckProcessAware
  <2>7. CASE s.state = "FREED" /\ w = Only(s)
    BY <1>1, <2>7
  <2> QED
    BY <1>5, <2>1, <2>2, <2>3, <2>4, <2>5, <2>6, <2>7
<1> QED
  BY <1>10 DEF w
-----------------------------------------------------------------------------
(***************************************************************************)
(* The two directions of a connection, and the steps.                      *)
(***************************************************************************)
\* What n sends along L, and what its peer answers.
Heard(L, n) ==
    LET s == stream[n]
        t == stream[Peer(n)]
        tk == Len(Came(t, readout[n]))
        to == SentTo(L, s)
    IN  /\ Sender(L, s, accepted[n], t.state, tk)
        /\ Receiver(L, t, readout[n], s.state, to)
        /\ Guarded(s)
        /\ \A m \in link : /\ m[1] = Peer(n) => Onwards(L, m[2], s.state, to)
                           /\ m[1] = n => Back(L, m[2], s.state, to, t.state, tk)

AckIInv(first) == \A n \in Ends : \A L : L.first = first[n] => Heard(L, n)

\* Where a step of n starts; acc and r are what its applications have then.
Found(L, M, n, acc, r) ==
    [L |-> L, M |-> M, acc |-> acc, r |-> r,
     peer |-> stream[Peer(n)].state, hi |-> SentTo(M, stream[Peer(n)]),
     tk |-> Len(Came(stream[Peer(n)], readout[n])),
     from |-> stream[n].state, sent |-> SentTo(L, stream[n]),
     took |-> Len(Came(stream[n], readout[Peer(n)]))]

\* What a step of n finds.
LEMMA SentIs ==
    ASSUME NEW L, Line(L), NEW s \in Stream
    PROVE  SentTo(L, s) \in Nat
BY StreamFields, AtIs DEF SentTo

LEMMA CameType ==
    ASSUME NEW s \in Stream, NEW r \in Seq(Nat)
    PROVE  Came(s, r) \in Seq(Nat) /\ Len(Came(s, r)) \in Nat
<1>1. s.rcv_data_q \in Seq(Nat)
  BY ReceiverFields, Zenon
<1> DEFINE d == s.rcv_data_q
<1>2. d \in Seq(Nat) /\ Came(s, r) = r \o d
  BY <1>1 DEF Came
<1> HIDE DEF d
<1> QED
  BY <1>2

LEMMA FoundContext ==
    ASSUME ScpIInv, NEW first, AckIInv(first), NEW n \in Ends, NEW L, NEW M,
           Ready(L, M, n, first), NEW acc, NEW r
    PROVE  Context(Found(L, M, n, acc, r))
<1> DEFINE k == Peer(n)
           s == stream[n]
           t == stream[k]
<1>1. k \in Ends /\ Peer(k) = n
  BY PeerIs, PeerOfPeer
<1>2. /\ s \in Stream /\ t \in Stream /\ readout[n] \in Seq(Nat) /\ readout[k] \in Seq(Nat)
      /\ Line(L) /\ Line(M)
  BY <1>1, StepFrom DEF Ready, Direction
<1>3. M.first = first[k] /\ Outgoing(M, t, accepted[k])
  BY <1>1 DEF Ready, Direction
<1>4. Sender(M, t, accepted[k], s.state, Len(Came(s, readout[k])))
  BY <1>1, <1>3 DEF AckIInv, Heard
<1>5. /\ Len(Came(t, readout[n])) \in Nat /\ Len(Came(s, readout[k])) \in Nat
      /\ SentTo(L, s) \in Nat /\ SentTo(M, t) \in Nat
  BY <1>2, CameType, SentIs
<1>6. SentTo(M, t) <= M.used
  <2>1. M.used \in Nat
    BY <1>2 DEF Line, Lines
  <2>2. CASE t.state = "ESTABLISHED"
    <3>1. Queued(M, t, accepted[k]) /\ At(M, t.snd_seq_q) = M.used
      BY <1>3, <1>4, <2>2 DEF Sender, Outgoing
    <3> QED
      BY <2>2, <3>1 DEF Queued, SentTo
  <2>3. CASE t.state # "ESTABLISHED"
    BY <2>1, <2>3 DEF SentTo
  <2> QED
    BY <2>2, <2>3
<1> HIDE DEF s, t
<1> QED
  BY <1>5, <1>6 DEF Context, Found, s, t, k

LEMMA FoundAware ==
    ASSUME ScpIInv, NEW first, AckIInv(first), NEW n \in Ends, NEW L, NEW M,
           Ready(L, M, n, first)
    PROVE  /\ Aware(Found(L, M, n, accepted[n], readout[Peer(n)]), Only(stream[n]))
           /\ Guarded(stream[n])
<1> DEFINE k == Peer(n)
           s == stream[n]
           t == stream[k]
           C == Found(L, M, n, accepted[n], readout[k])
           x == Only(s)
<1>1. k \in Ends /\ Peer(k) = n
  BY PeerIs, PeerOfPeer
<1>2. L.first = first[n] /\ M.first = first[k] /\ Good(L, M, accepted[n], readout[k], x)
  BY DEF Ready
<1>3. Context(C)
  BY FoundContext
<1>4. Heard(L, n) /\ Heard(M, k)
  BY <1>1, <1>2 DEF AckIInv
<1>5. /\ Sender(L, s, accepted[n], t.state, Len(Came(t, readout[n]))) /\ Guarded(s)
      /\ Receiver(M, s, readout[k], t.state, SentTo(M, t))
  BY <1>1, <1>4 DEF Heard
<1>6. x.s = s /\ x.out = {}
  BY DEF Only
<1>7. /\ C.L = L /\ C.M = M /\ C.acc = accepted[n] /\ C.r = readout[k]
      /\ C.peer = t.state /\ C.hi = SentTo(M, t) /\ C.tk = Len(Came(t, readout[n]))
      /\ C.from = s.state /\ C.sent = SentTo(L, s) /\ C.took = Len(Came(s, readout[k]))
  BY DEF Found
<1> HIDE DEF C, x
<1>8. Since(C, s)
  BY <1>3, <1>7 DEF Since, Context
<1>9. Aware(C, x)
  BY <1>2, <1>3, <1>5, <1>6, <1>7, <1>8 DEF Aware
<1> QED
  BY <1>5, <1>9 DEF C, x, k

\* What was said stays true when the sender goes on or closes, and when the
\* receiver takes more.
LEMMA ReceiverOn ==
    ASSUME NEW M, Line(M), NEW s \in Stream, NEW r, NEW st, NEW hi \in Nat,
           Receiver(M, s, r, st, hi), NEW sd, NEW ho \in Nat,
           st \in Closing => sd \in Closing, sd \notin Closing => hi <= ho
    PROVE  Receiver(M, s, r, sd, ho)
<1>1. At(M, s.rcv_nxt) \in Nat /\ \A i \in DOMAIN s.rcv_buf_q : EndAt(M, s.rcv_buf_q[i]) \in Nat
  <2>1. s.rcv_nxt \in Seqs /\ s.rcv_buf_q \in Seq(Buf)
    BY StreamFields
  <2>2. \A b \in Buf : b.seq \in Seqs /\ b.data \in Seq(Nat)
    BY DEF Buf, Seqs
  <2>3. \A b \in Buf : EndAt(M, b) \in Nat
    BY <2>2, AtIs DEF EndAt
  <2> QED
    BY <2>1, <2>3, AtIs
<1>2. Within(M, s, hi) /\ hi <= ho => Within(M, s, ho)
  BY <1>1 DEF Within
<1> QED
  BY <1>2 DEF Receiver

LEMMA PacketOn ==
    ASSUME NEW L, Line(L), NEW p \in PacketType, NEW st, NEW to \in Nat,
           NEW sd, NEW tu \in Nat, st \in Closing => sd \in Closing,
           sd \notin Closing => to <= tu
    PROVE  /\ Onwards(L, p, st, to) => Onwards(L, p, sd, tu)
           /\ \A peer, tk : Back(L, p, st, to, peer, tk) => Back(L, p, sd, tu, peer, tk)
<1>1. At(L, p.sack) \in Nat /\ EndAt(L, p) \in Nat
  <2>1. p.seq \in Seqs /\ p.sack \in Seqs /\ p.data \in Seq(Nat)
    BY DEF PacketType
  <2> QED
    BY <2>1, AtIs DEF EndAt
<1> QED
  BY <1>1 DEF Onwards, Back

LEMMA TakenOn ==
    ASSUME NEW M, Line(M), NEW peer, NEW tk \in Nat, NEW pear, NEW tl \in Nat,
           peer = "FREED" => pear = "FREED", pear # "FREED" => tk <= tl
    PROVE  /\ \A p \in PacketType : \A st, to :
                 Back(M, p, st, to, peer, tk) => Back(M, p, st, to, pear, tl)
           /\ \A s \in Stream : \A acc :
                 Sender(M, s, acc, peer, tk) => Sender(M, s, acc, pear, tl)
<1>1. \A p \in PacketType : At(M, p.ack) \in Nat
  BY AtIs DEF PacketType
<1>2. \A s \in Stream : At(M, s.snd_una) \in Nat
  BY StreamFields, AtIs
<1> QED
  BY <1>1, <1>2 DEF Back, Sender

\* Only where a line begins is looked at.
LEMMA SameFirst ==
    ASSUME NEW L, NEW N, L.first = N.first
    PROVE  /\ \A s, acc, peer, tk : Sender(N, s, acc, peer, tk) => Sender(L, s, acc, peer, tk)
           /\ \A s, r, st, hi : Receiver(N, s, r, st, hi) => Receiver(L, s, r, st, hi)
           /\ \A s : SentTo(L, s) = SentTo(N, s)
           /\ \A p, st, to : Onwards(N, p, st, to) => Onwards(L, p, st, to)
           /\ \A p, st, to, peer, tk : Back(N, p, st, to, peer, tk) => Back(L, p, st, to, peer, tk)
<1>1. \A a : At(L, a) = At(N, a)
  BY DEF At
<1>2. \A b : EndAt(L, b) = EndAt(N, b)
  BY <1>1 DEF EndAt
<1>3. \A s, acc : Queued(N, s, acc) => Queued(L, s, acc)
  BY <1>1 DEF Queued
<1>4. \A s, hi : Within(N, s, hi) => Within(L, s, hi)
  BY <1>1, <1>2 DEF Within
<1>5. \A s, acc, peer, tk : Sender(N, s, acc, peer, tk) => Sender(L, s, acc, peer, tk)
  BY <1>1, <1>3 DEF Sender
<1>6. \A s, r, st, hi : Receiver(N, s, r, st, hi) => Receiver(L, s, r, st, hi)
  BY <1>1, <1>4 DEF Receiver
<1> QED
  BY <1>1, <1>2, <1>5, <1>6 DEF SentTo, Onwards, Back

LEMMA HeardAlong ==
    ASSUME NEW n \in Ends, NEW L, NEW N, L.first = N.first, Heard(N, n)'
    PROVE  Heard(L, n)'
BY SameFirst DEF Heard

\* A step of n that leaves it aware carries both directions along.
LEMMA CarriesAck ==
    ASSUME ScpIInv, ScpIInv', NEW first, AckIInv(first), NEW n \in Ends, NEW N, NEW M,
           Line(M), N.first = first[n], M.first = first[Peer(n)],
           NEW x, Moves(n, x), Guarded(x.s),
           Aware(Found(N, M, n, accepted'[n], readout'[Peer(n)]), x),
           accepted'[Peer(n)] = accepted[Peer(n)], readout'[n] = readout[n]
    PROVE  AckIInv(first)'
<1> DEFINE k == Peer(n)
           s == stream[n]
           t == stream[k]
           C == Found(N, M, n, accepted'[n], readout'[k])
<1>1. k \in Ends /\ k # n /\ Peer(k) = n /\ \A m \in Ends : m = n \/ m = k
  BY PeerIs, PeerOfPeer
<1>2. /\ s \in Stream /\ t \in Stream /\ readout[n] \in Seq(Nat) /\ readout[k] \in Seq(Nat)
      /\ \A m \in link : m[2] \in PacketType
  BY <1>1, StepFrom DEF ScpIInv, ScpTypeOK
<1>3. readout'[k] \in Seq(Nat)
  BY <1>1 DEF ScpIInv, ScpTypeOK
<1>4. stream'[n] = x.s /\ stream'[k] = t
  BY <1>1 DEF ScpIInv, ScpTypeOK, Moves
<1>5. \A m \in link' : m \in link \/ (m[1] = k /\ m[2] \in x.out)
  BY DEF Moves
<1>6. Heard(N, n) /\ Heard(M, k)
  BY <1>1 DEF AckIInv
<1> DEFINE to == SentTo(N, s)
           hi == SentTo(M, t)
           tk == Len(Came(t, readout[n]))
           tj == Len(Came(s, readout[k]))
           tu == SentTo(N, x.s)
           tl == Len(Came(x.s, readout'[k]))
<1>7. /\ Receiver(N, t, readout[n], s.state, to)
      /\ \A m \in link : /\ m[1] = k => Onwards(N, m[2], s.state, to)
                         /\ m[1] = n => Back(N, m[2], s.state, to, t.state, tk)
  BY <1>6 DEF Heard
<1>8. /\ Sender(M, t, accepted[k], s.state, tj) /\ Guarded(t)
      /\ \A m \in link : /\ m[1] = n => Onwards(M, m[2], t.state, hi)
                         /\ m[1] = k => Back(M, m[2], t.state, hi, s.state, tj)
  BY <1>1, <1>6 DEF Heard
<1>9. /\ C.L = N /\ C.M = M /\ C.acc = accepted'[n] /\ C.r = readout'[k]
      /\ C.peer = t.state /\ C.hi = hi /\ C.tk = tk
      /\ C.from = s.state /\ C.sent = to /\ C.took = tj
  BY DEF Found
<1> HIDE DEF C
<1>10. /\ Sender(N, x.s, accepted'[n], t.state, tk)
       /\ Receiver(M, x.s, readout'[k], t.state, hi)
       /\ s.state \in Closing => x.s.state \in Closing
       /\ s.state = "FREED" => x.s.state = "FREED"
       /\ x.s.state \notin Closing => to <= tu
       /\ x.s.state # "FREED" => tj <= tl
       /\ \A p \in x.out : /\ Onwards(N, p, x.s.state, tu)
                           /\ Back(M, p, t.state, hi, x.s.state, tl)
       /\ Line(N) /\ x.s \in Stream
  BY <1>9 DEF C, Aware, Since, Said, Good, Typed
<1>11. to \in Nat /\ hi \in Nat /\ tu \in Nat /\ tj \in Nat /\ tl \in Nat
  BY <1>2, <1>3, <1>10, SentIs, CameType
<1>12. accepted'[k] = accepted[k] /\ readout'[n] = readout[n] /\ Guarded(x.s)
  OBVIOUS
<1> HIDE DEF k, s, t, to, hi, tk, tj, tu, tl
<1>13. Receiver(N, t, readout[n], x.s.state, tu)
  BY <1>2, <1>7, <1>10, <1>11, ReceiverOn
<1>14. \A m \in link' : /\ m[1] = k => Onwards(N, m[2], x.s.state, tu)
                        /\ m[1] = n => Back(N, m[2], x.s.state, tu, t.state, tk)
  <2> TAKE m \in link'
  <2>1. CASE m \in link
    <3>1. m[2] \in PacketType
      BY <1>2, <2>1
    <3> DEFINE p == m[2]
               st == s.state
               sd == x.s.state
    <3>2. /\ p \in PacketType /\ Line(N) /\ to \in Nat /\ tu \in Nat
          /\ st \in Closing => sd \in Closing
          /\ sd \notin Closing => to <= tu
      BY <1>10, <1>11, <3>1
    <3> HIDE DEF p, st, sd
    <3>3. /\ Onwards(N, p, st, to) => Onwards(N, p, sd, tu)
          /\ Back(N, p, st, to, t.state, tk) => Back(N, p, sd, tu, t.state, tk)
      BY <3>2, PacketOn
    <3> QED
      BY <1>7, <2>1, <3>3 DEF p, st, sd
  <2>2. CASE m[1] = k /\ m[2] \in x.out
    BY <1>1, <1>10, <2>2
  <2> QED
    BY <1>5, <2>1, <2>2
<1> DEFINE sf == s.state
           sg == x.s.state
<1>15. /\ Line(M) /\ tj \in Nat /\ tl \in Nat
       /\ sf = "FREED" => sg = "FREED"
       /\ sg # "FREED" => tj <= tl
  BY <1>10, <1>11
<1>16. /\ Sender(M, t, accepted[k], sf, tj)
       /\ \A m \in link : m[1] = k => Back(M, m[2], t.state, hi, sf, tj)
  BY <1>8
<1> HIDE DEF sf, sg
<1>17. /\ \A p \in PacketType : \A st, h :
             Back(M, p, st, h, sf, tj) => Back(M, p, st, h, sg, tl)
       /\ \A v \in Stream : \A acc :
             Sender(M, v, acc, sf, tj) => Sender(M, v, acc, sg, tl)
  BY <1>15, TakenOn
<1>18. Sender(M, t, accepted[k], x.s.state, tl)
  BY <1>2, <1>16, <1>17 DEF sg
<1>19. \A m \in link' : /\ m[1] = n => Onwards(M, m[2], t.state, hi)
                        /\ m[1] = k => Back(M, m[2], t.state, hi, x.s.state, tl)
  <2> TAKE m \in link'
  <2>1. CASE m \in link
    <3>1. m[2] \in PacketType
      BY <1>2, <2>1
    <3>2. m[1] = k => Back(M, m[2], t.state, hi, x.s.state, tl)
      BY <1>16, <1>17, <2>1, <3>1 DEF sg
    <3> QED
      BY <1>8, <2>1, <3>2
  <2>2. CASE m[1] = k /\ m[2] \in x.out
    BY <1>1, <1>10, <2>2
  <2> QED
    BY <1>5, <2>1, <2>2
<1>20. Heard(N, n)'
  <2>1. /\ tk = Len(Came(t, readout'[n])) /\ tu = SentTo(N, stream'[n])
        /\ stream'[n] = x.s /\ stream'[Peer(n)] = t
    BY <1>4, <1>12 DEF tk, tu, k
  <2> QED
    BY <1>10, <1>12, <1>13, <1>14, <2>1 DEF Heard, k
<1>21. Heard(M, k)'
  <2>1. /\ tl = Len(Came(x.s, readout'[k])) /\ hi = SentTo(M, stream'[k])
        /\ stream'[n] = x.s /\ stream'[k] = t
    BY <1>4 DEF tl, hi
  <2> QED
    BY <1>1, <1>8, <1>10, <1>12, <1>18, <1>19, <2>1 DEF Heard
<1>22. N.first = first[n] /\ M.first = first[k]
  BY DEF k
<1>23. ASSUME NEW m \in Ends, NEW L, L.first = first[m] PROVE Heard(L, m)'
  <2>1. CASE m = n
    BY <1>20, <1>22, <1>23, <2>1, HeardAlong
  <2>2. CASE m = k
    BY <1>1, <1>21, <1>22, <1>23, <2>2, HeardAlong
  <2> QED
    BY <1>1, <2>1, <2>2
<1> QED
  BY <1>23 DEF AckIInv

\* A step that no application takes.
LEMMA QuietAckStep ==
    ASSUME ScpIInv, ScpIInv', NEW first, StreamIInv(first), AckIInv(first),
           NEW n \in Ends, NEW x, NEW used,
           Leave(n, x, used), accepted' = accepted, readout' = readout,
           \A L, M : Ready(L, M, n, first) =>
              /\ Aware(Found(L, M, n, accepted[n], readout[Peer(n)]), x)
              /\ Guarded(x.s)
    PROVE  AckIInv(first)'
<1>1. PICK L, M : Ready(L, M, n, first)
  BY ReadyIs
<1>2. /\ Aware(Found(L, M, n, accepted'[n], readout'[Peer(n)]), x)
      /\ Guarded(x.s)
  BY <1>1
<1>3. L.first = first[n] /\ M.first = first[Peer(n)] /\ Line(M)
  BY <1>1 DEF Ready, Direction
<1>4. Moves(n, x)
  BY LeaveMoves
<1>5. accepted'[Peer(n)] = accepted[Peer(n)] /\ readout'[n] = readout[n]
  OBVIOUS
<1> QED
  BY <1>2, <1>3, <1>4, <1>5, CarriesAck

LEMMA OnlyAware ==
    ASSUME NEW C, NEW s, Aware(C, Only(s)), NEW t, Quiet(s, t)
    PROVE  Aware(C, Only(t))
<1> DEFINE x == Only(s)
<1>1. Aware(C, x) /\ x.s = s /\ [s |-> t, out |-> x.out] = Only(t)
  BY OnlyIs
<1> HIDE DEF x
<1>2. Aware(C, [s |-> t, out |-> x.out])
  BY <1>1, QuietAware
<1> QED
  BY <1>1, <1>2

LEMMA FoundIs ==
    ASSUME NEW L, NEW M, NEW n, NEW acc, NEW r
    PROVE  LET C == Found(L, M, n, acc, r)
           IN  C.L = L /\ C.M = M /\ C.acc = acc /\ C.r = r
BY DEF Found

LEMMA AckConnect ==
    ASSUME ScpIInv, ScpIInv', NEW first, StreamIInv(first), AckIInv(first), Numbering(first),
           NEW n \in Ends, scp_connect(n)
    PROVE  AckIInv(first)'
<1>1. PICK i \in Iss[n] :
         Leave(n, scp_output_connect(Only([Start(stream[n], "hs") EXCEPT
                      !.state = "SYN_SENT", !.retry = 0,
                      !.snd_seq_q = i, !.snd_una = i, !.snd_nxt = i])), {})
  BY DEF scp_connect
<1> DEFINE s == stream[n]
           u == Start(s, "hs")
           t == [u EXCEPT !.state = "SYN_SENT", !.retry = 0,
                          !.snd_seq_q = i, !.snd_una = i, !.snd_nxt = i]
           x == scp_output_connect(Only(t))
           p == Packet("CONNECT", i, <<>>)
<1>2. s \in Stream /\ i \in Seqs
  BY StepFrom
<1>3. Leave(n, x, {}) /\ s.state = "CLOSED"
  BY <1>1 DEF scp_connect
<1> HIDE DEF s
<1>4. /\ u \in Stream /\ Keeps(s, u) /\ u.snd_q = s.snd_q /\ u.rcv_wnd = s.rcv_wnd
      /\ u.rcv_data_q = s.rcv_data_q
  BY <1>2 DEF Start, Stream, Timers, Keeps
<1> HIDE DEF u
<1>5. t \in Stream
  <2>1. "SYN_SENT" \in States /\ 0 \in Nat
    BY DEF States
  <2> HIDE DEF Seqs, States
  <2> QED
    BY <1>2, <1>4, <2>1 DEF Stream
<1>6. /\ Keeps(s, t) /\ t.snd_q = s.snd_q /\ t.state = "SYN_SENT"
      /\ t.snd_nxt = i /\ t.snd_seq_q = i /\ t.snd_una = i
      /\ t.rcv_wnd = s.rcv_wnd /\ t.rcv_data_q = s.rcv_data_q
  BY <1>4, <1>5 DEF Keeps, Stream
<1> HIDE DEF t
<1>7. x.s = t /\ x = [s |-> t, out |-> {p}] /\ p.kind \in Starting
  <2> DEFINE o == Only(t)
  <2>1. o.s = t /\ o.out = {}
    BY DEF Only
  <2> HIDE DEF o
  <2>2. scp_output_connect(o) = Emit(o, p)
    BY <1>6, <2>1 DEF scp_output_connect
  <2>3. p.kind \in Starting
    BY DEF Packet, Starting
  <2> HIDE DEF p
  <2>4. o = [s |-> t, out |-> {}]
    BY DEF o, Only
  <2>5. Emit(o, p) = [s |-> t, out |-> {p}]
    BY <2>4 DEF Emit
  <2> QED
    BY <2>2, <2>3, <2>5 DEF o
<1>8. i = first[n]
  <2> HIDE DEF x
  <2>1. stream'[n] = t
    BY <1>3, <1>7, LeaveIs
  <2> QED
    BY <1>6, <2>1 DEF Numbering, NumbersFrom, OneNumber
<1> HIDE DEF x, p
<1>9. ASSUME NEW L, NEW M, Ready(L, M, n, first)
      PROVE  /\ Aware(Found(L, M, n, accepted[n], readout[Peer(n)]), x)
             /\ Guarded(x.s)
  <2> DEFINE acc == accepted[n]
             r == readout[Peer(n)]
             o == Only(s)
             y == [o EXCEPT !.s = t]
             C == Found(L, M, n, acc, r)
  <2>1. /\ Good(L, M, acc, r, o) /\ L.first = i /\ o.s = s /\ y = Only(t)
        /\ Aware(C, o) /\ C.L = L /\ C.M = M /\ C.acc = acc /\ C.r = r
        /\ o.out = {}
    BY <1>8, <1>9, OnlyIs, FoundAware, FoundIs DEF Ready, s, Only
  <2> HIDE DEF acc, r, o, C
  <2>2. Good(L, M, acc, r, y) /\ y.s = t
    BY <1>3, <1>6, <2>1, StartsGood
  <2> HIDE DEF y
  <2>3. Good(L, M, acc, r, scp_output_connect(y))
    BY <1>6, <2>2, HandshakeGood
  <2>4. Good(L, M, acc, r, x)
    BY <2>1, <2>3 DEF x
  <2>5. /\ o.s.state \in Fresh /\ t.state \in Fresh /\ t.snd_una = t.snd_nxt
        /\ t.rcv_wnd = o.s.rcv_wnd /\ t.rcv_data_q = o.s.rcv_data_q
    BY <1>3, <1>6, <2>1 DEF Fresh
  <2>6. x = [s |-> t, out |-> o.out \cup {p}] /\ Good(C.L, C.M, C.acc, C.r, x)
    BY <1>7, <2>1, <2>4
  <2>7. Aware(C, x) /\ Guarded(x.s)
    BY <1>5, <1>7, <2>1, <2>5, <2>6, HandshakeStep
  <2> QED
    BY <2>7 DEF C, acc, r
<1>10. accepted' = accepted /\ readout' = readout
  BY DEF scp_connect
<1> QED
  BY <1>3, <1>9, <1>10, QuietAckStep

LEMMA FreedNow ==
    ASSUME NEW C, NEW s, Aware(C, Only(s))
    PROVE  LET w == Only(scp_stream_free) IN Aware(C, w) /\ Guarded(w.s)
<1> DEFINE x == Only(s)
           w == [x EXCEPT !.s = scp_stream_free]
<1>1. w = Only(scp_stream_free)
  BY OnlyIs
<1>2. Aware(C, w) /\ Guarded(w.s)
  BY GivenUpAware
<1> QED
  BY <1>1, <1>2

\* A stream that closes: nothing says any more what it sent.
LEMMA CloseAware ==
    ASSUME NEW C, NEW x, Aware(C, x), x.out = {}, x.s.state = "ESTABLISHED",
           NEW t, Keeps(x.s, t), t.state = "FIN_WAIT", t.snd_q = x.s.snd_q,
           t.rcv_nxt = x.s.rcv_nxt, "fin" \in t.timers, NEW y, y = [s |-> t, out |-> x.out]
    PROVE  LET w == scp_output_fin_first(y) IN Aware(C, w) /\ Guarded(w.s)
<1> DEFINE w == scp_output_fin_first(y)
<1>1. Good(C.L, C.M, C.acc, C.r, x) /\ Typed(x) /\ Context(C)
  BY DEF Aware, Good
<1>2. y = [x EXCEPT !.s = t] /\ y.s = t /\ y.out = {}
  BY <1>1 DEF Typed
<1>3. Good(C.L, C.M, C.acc, C.r, y)
  BY <1>1, <1>2, ClosingGood
<1>4. t.state \in Reading /\ x.s.state \in Reading /\ t.state \in Closing
  BY DEF Reading, Closing
<1>5. Receiver(C.M, t, C.r, C.peer, C.hi)
  <2>1. Receiver(C.M, x.s, C.r, C.peer, C.hi)
    BY DEF Aware
  <2> QED
    BY <1>4, <2>1 DEF Receiver, Within, Came, Keeps, Fresh
<1>6. Since(C, t)
  <2>1. Since(C, x.s)
    BY DEF Aware
  <2> QED
    BY <1>4, <2>1 DEF Since, Came, Keeps
<1>7. Sender(C.L, t, C.acc, C.peer, C.tk)
  BY DEF Sender
<1>8. Aware(C, y)
  BY <1>1, <1>2, <1>3, <1>5, <1>6, <1>7 DEF Aware
<1>9. Aware(C, w)
  BY <1>2, <1>8, FinAware
<1>10. w.s.state = "FIN_WAIT" /\ "fin" \in w.s.timers
  <2> DEFINE k == Plus(t.snd_nxt, 1)
  <2>1. w.s = [t EXCEPT !.snd_nxt = k] /\ t \in Stream
    BY <1>2 DEF scp_output_fin_first, Emit, Keeps
  <2> HIDE DEF k, w
  <2> QED
    BY <2>1 DEF Stream
<1> HIDE DEF w
<1>11. Guarded(w.s)
  BY <1>10 DEF Guarded, Fresh
<1> QED
  BY <1>9, <1>11 DEF w

LEMMA AckClose ==
    ASSUME ScpIInv, ScpIInv', NEW first, StreamIInv(first), AckIInv(first),
           NEW n \in Ends, scp_close(n)
    PROVE  AckIInv(first)'
<1> DEFINE s == stream[n]
           u == Start(s, "fin")
           t == [u EXCEPT !.state = "FIN_WAIT", !.retry = 0]
           y == Only(t)
           x == scp_output_fin_first(y)
           f == Only(scp_stream_free)
<1>1. s \in Stream
  BY StepFrom
<1>2. /\ (s.state = "ESTABLISHED" /\ Leave(n, x, {})) \/ Leave(n, f, {})
      /\ accepted' = accepted /\ readout' = readout
  BY DEF scp_close
<1>3. /\ u \in Stream /\ Keeps(s, u) /\ u.snd_q = s.snd_q /\ "fin" \in u.timers
      /\ u.rcv_nxt = s.rcv_nxt
  BY <1>1 DEF Start, Stream, Timers, Keeps
<1> HIDE DEF s, u
<1>4. t \in Stream
  <2>1. "FIN_WAIT" \in States /\ 0 \in Nat
    BY DEF States
  <2> HIDE DEF States
  <2> QED
    BY <1>3, <2>1 DEF Stream
<1>5. /\ Keeps(s, t) /\ t.state = "FIN_WAIT" /\ t.snd_q = s.snd_q /\ "fin" \in t.timers
      /\ t.rcv_nxt = s.rcv_nxt
  BY <1>3, <1>4 DEF Keeps, Stream
<1> HIDE DEF t, x, f
<1>6. ASSUME NEW L, NEW M, Ready(L, M, n, first)
      PROVE  /\ s.state = "ESTABLISHED" =>
                   /\ Aware(Found(L, M, n, accepted[n], readout[Peer(n)]), x)
                   /\ Guarded(x.s)
             /\ Aware(Found(L, M, n, accepted[n], readout[Peer(n)]), f)
             /\ Guarded(f.s)
  <2> DEFINE o == Only(s)
             C == Found(L, M, n, accepted[n], readout[Peer(n)])
  <2>1. o.s = s /\ o.out = {} /\ y = [s |-> t, out |-> o.out] /\ Aware(C, o)
    BY <1>6, OnlyIs, FoundAware DEF Only, s
  <2>2. Aware(C, f) /\ Guarded(f.s)
    <3> HIDE DEF C
    <3> QED
      BY <2>1, FreedNow DEF f
  <2> HIDE DEF o, C, y
  <2>3. s.state = "ESTABLISHED" => Aware(C, x) /\ Guarded(x.s)
    BY <1>5, <2>1, CloseAware DEF x
  <2> QED
    BY <2>2, <2>3 DEF C
<1>7. CASE s.state = "ESTABLISHED" /\ Leave(n, x, {})
  <2>1. \A L, M : Ready(L, M, n, first) =>
           /\ Aware(Found(L, M, n, accepted[n], readout[Peer(n)]), x)
           /\ Guarded(x.s)
    BY <1>6, <1>7
  <2> QED
    BY <1>2, <1>7, <2>1, QuietAckStep
<1>8. CASE Leave(n, f, {})
  <2>1. \A L, M : Ready(L, M, n, first) =>
           /\ Aware(Found(L, M, n, accepted[n], readout[Peer(n)]), f)
           /\ Guarded(f.s)
    BY <1>6
  <2> QED
    BY <1>2, <1>8, <2>1, QuietAckStep
<1> QED
  BY <1>2, <1>7, <1>8

LEMMA AckInput ==
    ASSUME ScpIInv, ScpIInv', NEW first, StreamIInv(first), AckIInv(first), Numbering(first),
           NEW n \in Ends, scp_input(n)
    PROVE  AckIInv(first)'
<1>1. PICK m \in {m \in link : m[1] = n}, i \in Iss[n] :
         Leave(n, Processed(stream[n], m[2], i), {m})
  BY DEF scp_input
<1> DEFINE s == stream[n]
           p == m[2]
           x == Processed(s, p, i)
<1>2. accepted' = accepted /\ readout' = readout /\ Leave(n, x, {m})
  BY <1>1 DEF scp_input
<1>3. p \in PacketType /\ i \in Seqs /\ m \in link /\ m[1] = n
  BY StepFrom DEF ScpIInv, ScpTypeOK
<1>4. stream'[n] = x.s
  <2> HIDE DEF x
  <2> QED
    BY <1>2, LeaveIs
<1>5. s.state = "CLOSED" /\ p.kind = "CONNECT" => i = first[n]
  <2> SUFFICES ASSUME s.state = "CLOSED", p.kind = "CONNECT" PROVE i = first[n]
    OBVIOUS
  <2>1. s \in Stream /\ Counted(s)
    BY StepFrom
  <2> HIDE DEF s, p
  <2>2. x.s.state = "SYN_RECV" /\ x.s.snd_seq_q = i
    BY <1>3, <2>1, ListenTakes
  <2> HIDE DEF x
  <2> QED
    BY <1>4, <2>2 DEF Numbering, NumbersFrom, OneNumber
<1>6. ASSUME NEW L, NEW M, Ready(L, M, n, first)
      PROVE  /\ Aware(Found(L, M, n, accepted[n], readout[Peer(n)]), x)
             /\ Guarded(x.s)
  <2> DEFINE k == Peer(n)
             t == stream[k]
             C == Found(L, M, n, accepted[n], readout[k])
  <2>1. Aware(C, Only(s)) /\ Guarded(s) /\ L.first = first[n] /\ M.first = first[k]
    BY <1>6, FoundAware DEF Ready
  <2>2. k \in Ends /\ Peer(k) = n
    BY PeerIs, PeerOfPeer
  <2>3. PacketOf(M, p)
    <3>1. \A q \in link : q[1] = n => PacketOf(M, q[2])
      BY <1>6, PeerOfPeer DEF Ready, Direction
    <3> QED
      BY <1>3, <3>1
  <2>4. Heard(L, n) /\ Heard(M, k)
    BY <2>1, <2>2 DEF AckIInv
  <2>5. /\ Onwards(M, p, t.state, SentTo(M, t))
        /\ Back(L, p, s.state, SentTo(L, s), t.state, Len(Came(t, readout[n])))
    BY <1>3, <2>2, <2>4 DEF Heard
  <2>6. /\ C.L = L /\ C.M = M /\ C.peer = t.state /\ C.hi = SentTo(M, t)
        /\ C.tk = Len(Came(t, readout[n]))
    BY DEF Found
  <2> HIDE DEF s, p, t, k, C
  <2>7. Hears(C, s, p)
    BY <2>3, <2>5, <2>6 DEF Hears
  <2>8. s.state = "CLOSED" /\ p.kind = "CONNECT" => i = C.L.first
    BY <1>5, <2>1, <2>6
  <2>9. Aware(C, x) /\ Guarded(x.s)
    BY <1>3, <2>1, <2>7, <2>8, ProcessedAware
  <2> QED
    BY <2>9 DEF C, k
<1> HIDE DEF x
<1> QED
  BY <1>2, <1>6, QuietAckStep

LEMMA TimersGuard ==
    ASSUME NEW s, NEW t, Guarded(s), t.state = s.state, t.snd_una = s.snd_una,
           t.snd_nxt = s.snd_nxt, s.timers \ {"hs"} \subseteq t.timers
    PROVE  Guarded(t)
BY DEF Guarded

LEMMA AckHandshakeTimeout ==
    ASSUME ScpIInv, ScpIInv', NEW first, StreamIInv(first), AckIInv(first),
           NEW n \in Ends, scp_handle_handshake_timeout(n)
    PROVE  AckIInv(first)'
<1> DEFINE g == stream[n]
           s == Stop(g, "hs")
           c == [s EXCEPT !.state = "CLOSED"]
           a == [Start(s, "hs") EXCEPT !.retry = s.retry + 1]
           o == Only(a)
           x == scp_output_connect(o)
           y == scp_output_connect_ack(o)
           v == Only(c)
           w == Only(s)
           syn == s.state \in {"SYN_SENT", "SYN_RECV"}
<1>1. \/ Leave(n, w, {})
      \/ syn /\ (Leave(n, v, {}) \/ Leave(n, x, {}) \/ Leave(n, y, {}))
  <2>1. [Start(s, "hs") EXCEPT !.retry = @ + 1] = a
    BY DEF Start
  <2> QED
    BY <2>1 DEF scp_handle_handshake_timeout
<1>2. accepted' = accepted /\ readout' = readout
  BY DEF scp_handle_handshake_timeout
<1>3. g \in Stream
  BY StepFrom
<1> HIDE DEF g
<1>4. Quiet(g, s) /\ g.timers \ {"hs"} \subseteq s.timers
  <2>1. s \in Stream
    BY <1>3 DEF Stop, Stream
  <2> QED
    BY <1>3, <2>1 DEF Stop, Stream, Quiet
<1>5. s \in Stream
  BY <1>4 DEF Quiet
<1> HIDE DEF s
<1>6. Quiet(s, a) /\ s.timers \subseteq a.timers
  <2>1. s.retry + 1 \in Nat
    BY <1>5, StreamFields
  <2>2. a \in Stream
    BY <1>5, <2>1 DEF Start, Stream, Timers
  <2> QED
    BY <1>5, <2>2 DEF Start, Stream, Quiet
<1>7. /\ Keeps(s, c) /\ c.state = "CLOSED" /\ c.snd_q = s.snd_q
      /\ c.snd_una = s.snd_una /\ c.snd_nxt = s.snd_nxt
      /\ c.rcv_wnd = s.rcv_wnd /\ c.rcv_data_q = s.rcv_data_q
  <2>1. c \in Stream
    BY <1>5 DEF Stream, States
  <2> QED
    BY <1>5, <2>1 DEF Keeps, Stream
<1> HIDE DEF a, c
<1>8. w.s = s /\ w.out = {} /\ v.s = c /\ v.out = {} /\ o.s = a
  BY DEF Only
<1> HIDE DEF o, x, y, v, w
<1>9. ASSUME NEW L, NEW M, Ready(L, M, n, first)
      PROVE  LET C == Found(L, M, n, accepted[n], readout[Peer(n)])
             IN  /\ Aware(C, w) /\ Guarded(w.s)
                 /\ syn => /\ Aware(C, v) /\ Guarded(v.s)
                           /\ Aware(C, x) /\ Guarded(x.s)
                           /\ Aware(C, y) /\ Guarded(y.s)
  <2> DEFINE C == Found(L, M, n, accepted[n], readout[Peer(n)])
  <2>1. Aware(C, Only(g)) /\ Guarded(g)
    BY <1>9, FoundAware DEF g
  <2> HIDE DEF C
  <2>2. Aware(C, w) /\ Guarded(w.s)
    <3>1. Guarded(s)
      BY <1>4, <2>1, TimersGuard DEF Quiet
    <3> QED
      BY <1>4, <1>8, <2>1, <3>1, OnlyAware DEF w
  <2>3. Aware(C, o) /\ Guarded(o.s) /\ o.s.state = s.state
    <3>1. Guarded(a)
      BY <1>6, <1>8, <2>2, TimersGuard DEF Quiet
    <3>2. Aware(C, Only(s))
      BY <2>2 DEF w
    <3>3. Aware(C, Only(a))
      BY <1>6, <3>2, OnlyAware
    <3> QED
      BY <1>6, <1>8, <3>1, <3>3 DEF o, Quiet
  <2>4. ASSUME syn PROVE Aware(C, v) /\ Guarded(v.s)
    <3>1. Good(C.L, C.M, C.acc, C.r, Only(s))
      BY <2>2 DEF Aware, w
    <3>2. Good(C.L, C.M, C.acc, C.r, v)
      BY <1>7, <2>4, <3>1, ClosedGood DEF v
    <3>3. /\ w.s.state \in Fresh /\ v.s.state \in Fresh /\ v.s.rcv_wnd = w.s.rcv_wnd
          /\ v.s.rcv_data_q = w.s.rcv_data_q
      BY <1>7, <1>8, <2>4 DEF Fresh
    <3>4. \A p \in v.out : p \in w.out \/ p.kind \in Starting
      BY <1>8
    <3>5. Aware(C, v)
      BY <2>2, <3>2, <3>3, <3>4, FreshAware
    <3>6. Guarded(v.s)
      BY <1>7, <1>8, <2>2, <3>3 DEF Guarded, Fresh
    <3> QED
      BY <3>5, <3>6
  <2>5. ASSUME syn PROVE Aware(C, x) /\ Guarded(x.s) /\ Aware(C, y) /\ Guarded(y.s)
    <3>1. Aware(C, x) /\ Aware(C, y)
      BY <2>3, <2>5, HandshakeAware DEF x, y
    <3>2. x.s = o.s /\ y.s = o.s
      <4>1. Typed(o)
        BY <2>3 DEF Aware, Good
      <4> QED
        BY <4>1 DEF Typed, x, y, scp_output_connect, scp_output_connect_ack, Emit
    <3> QED
      BY <2>3, <3>1, <3>2
  <2> QED
    BY <2>2, <2>4, <2>5 DEF C
<1>10. CASE Leave(n, w, {})
  <2>1. \A L, M : Ready(L, M, n, first) =>
           /\ Aware(Found(L, M, n, accepted[n], readout[Peer(n)]), w)
           /\ Guarded(w.s)
    BY <1>9
  <2> QED
    BY <1>2, <1>10, <2>1, QuietAckStep
<1>11. ASSUME syn, NEW z \in {v, x, y}, Leave(n, z, {}) PROVE AckIInv(first)'
  <2>1. \A L, M : Ready(L, M, n, first) =>
           /\ Aware(Found(L, M, n, accepted[n], readout[Peer(n)]), z)
           /\ Guarded(z.s)
    BY <1>9, <1>11
  <2> QED
    BY <1>2, <1>11, <2>1, QuietAckStep
<1> QED
  BY <1>1, <1>10, <1>11

LEMMA AckFinTimeout ==
    ASSUME ScpIInv, ScpIInv', NEW first, StreamIInv(first), AckIInv(first),
           NEW n \in Ends, scp_handle_fin_timeout(n)
    PROVE  AckIInv(first)'
<1> DEFINE s == stream[n]
           t == Stop(s, "fin")
           a == [s EXCEPT !.retry = s.retry + 1]
           f == Only(scp_stream_free)
           w == Only(t)
           o == Only(a)
           x == scp_output_fin_retrans(o)
           fin == s.state \in {"FIN_WAIT", "LAST_ACK"}
<1>1. \/ ~fin /\ Leave(n, w, {})
      \/ fin /\ (Leave(n, f, {}) \/ Leave(n, x, {}))
  BY DEF scp_handle_fin_timeout
<1>2. accepted' = accepted /\ readout' = readout
  BY DEF scp_handle_fin_timeout
<1>3. s \in Stream
  BY StepFrom
<1> HIDE DEF s
<1>4. Quiet(s, t) /\ s.timers \ {"fin"} \subseteq t.timers
  <2>1. t \in Stream
    BY <1>3 DEF Stop, Stream
  <2> QED
    BY <1>3, <2>1 DEF Stop, Stream, Quiet
<1>5. Quiet(s, a) /\ a.timers = s.timers
  <2>1. s.retry + 1 \in Nat
    BY <1>3, StreamFields
  <2>2. a \in Stream
    BY <1>3, <2>1 DEF Stream
  <2> QED
    BY <1>3, <2>2 DEF Stream, Quiet
<1> HIDE DEF t, a
<1>6. w.s = t /\ o.s = a
  BY DEF Only
<1> HIDE DEF f, w, o, x
<1>7. ASSUME NEW L, NEW M, Ready(L, M, n, first)
      PROVE  LET C == Found(L, M, n, accepted[n], readout[Peer(n)])
             IN  /\ ~fin => Aware(C, w) /\ Guarded(w.s)
                 /\ fin => /\ Aware(C, f) /\ Guarded(f.s)
                           /\ Aware(C, x) /\ Guarded(x.s)
  <2> DEFINE C == Found(L, M, n, accepted[n], readout[Peer(n)])
  <2>1. Aware(C, Only(s)) /\ Guarded(s)
    BY <1>7, FoundAware DEF s
  <2> HIDE DEF C
  <2>2. ASSUME ~fin PROVE Aware(C, w) /\ Guarded(w.s)
    <3>1. Guarded(t)
      BY <1>4, <2>1, <2>2 DEF Guarded, Quiet
    <3> QED
      BY <1>4, <1>6, <2>1, <3>1, OnlyAware DEF w
  <2>3. Aware(C, f) /\ Guarded(f.s)
    BY <2>1, FreedNow DEF f
  <2>4. Aware(C, o) /\ Guarded(a) /\ a.state = s.state
    BY <1>5, <2>1, QuietGuards, OnlyAware DEF o, Quiet
  <2>5. ASSUME fin PROVE Aware(C, x) /\ Guarded(x.s)
    <3>1. Aware(C, x)
      BY <1>6, <2>4, <2>5, FinAware DEF x
    <3>2. x.s = o.s
      <4>1. Typed(o)
        BY <2>4 DEF Aware, Good
      <4> QED
        BY <4>1 DEF Typed, x, scp_output_fin_retrans, Emit
    <3> QED
      BY <1>6, <2>4, <3>1, <3>2
  <2> QED
    BY <2>2, <2>3, <2>5 DEF C
<1>8. ASSUME ~fin, Leave(n, w, {}) PROVE AckIInv(first)'
  <2>1. \A L, M : Ready(L, M, n, first) =>
           /\ Aware(Found(L, M, n, accepted[n], readout[Peer(n)]), w)
           /\ Guarded(w.s)
    BY <1>7, <1>8
  <2> QED
    BY <1>2, <1>8, <2>1, QuietAckStep
<1>9. ASSUME fin, NEW z \in {f, x}, Leave(n, z, {}) PROVE AckIInv(first)'
  <2>1. \A L, M : Ready(L, M, n, first) =>
           /\ Aware(Found(L, M, n, accepted[n], readout[Peer(n)]), z)
           /\ Guarded(z.s)
    BY <1>7, <1>9
  <2> QED
    BY <1>2, <1>9, <2>1, QuietAckStep
<1> QED
  BY <1>1, <1>8, <1>9

\* Nothing waits before the connection is made, and nothing is sent again.
LEMMA RetransmitAware ==
    ASSUME NEW C, NEW x, Aware(C, x), Guarded(x.s), "retrans" \in x.s.timers, NEW m
    PROVE  LET y == scp_retransmit(x, m) IN Aware(C, y) /\ Guarded(y.s)
<1> DEFINE y == scp_retransmit(x, m)
<1>1. Typed(x) /\ Good(C.L, C.M, C.acc, C.r, x) /\ x.s \in Stream
  BY DEF Aware, Good, Typed
<1>2. PICK P : SlicesOf(P, x.s.snd_q) /\ y = scp_output_data(x, P)
  BY <1>1, RetransmitIs
<1>3. Sends(x, y)
  BY <1>1, RetransmitSends
<1>4. Watches(x.s, y.s) /\ (P = {} => y.s.snd_nxt = x.s.snd_nxt)
  BY <1>1, <1>2, DataWatches
<1>5. x.s.state \in States
  BY <1>1, StreamFields
<1>6. CASE x.s.state \in Fresh
  <2>1. x.s.snd_q = <<>>
    BY <1>1, <1>6 DEF Good, Outgoing
  <2>2. P = {}
    BY <1>2, <2>1 DEF SlicesOf
  <2>3. P \in SUBSET PacketType
    BY <1>2, SlicesType
  <2>4. y.out = x.out \cup P /\ y.s = [x.s EXCEPT !.snd_nxt = y.s.snd_nxt]
    BY <1>1, <1>2, <2>3, OutputDataType
  <2>5. y.s.rcv_wnd = x.s.rcv_wnd /\ y.s.rcv_data_q = x.s.rcv_data_q
    <3> DEFINE k == y.s.snd_nxt
    <3>1. y.s = [x.s EXCEPT !.snd_nxt = k]
      BY <2>4
    <3> HIDE DEF y, k
    <3> QED
      BY <1>1, <3>1 DEF Stream
  <2>6. Good(C.L, C.M, C.acc, C.r, y)
    BY <1>1, <1>3, SendsGood
  <2>7. y.s.state \in Fresh /\ \A p \in y.out : p \in x.out \/ p.kind \in Starting
    BY <1>4, <1>6, <2>2, <2>4 DEF Watches
  <2> HIDE DEF y
  <2>8. Aware(C, y)
    BY <1>6, <2>5, <2>6, <2>7, FreshAware
  <2>9. Guarded(y.s)
    BY <1>4, <1>6, <2>2, <2>7 DEF Guarded, Watches, Fresh
  <2> QED
    BY <2>8, <2>9 DEF y
<1>7. CASE x.s.state = "ESTABLISHED"
  <2>1. OnLine(C.L, x.s)
    BY <1>7, AwareOnLine
  <2>2. Flows(C.L, x, y)
    BY <1>1, <2>1, RetransmitFlows
  <2> HIDE DEF y
  <2>3. Aware(C, y)
    BY <1>7, <2>2, FlowsAware
  <2>4. Guarded(y.s)
    BY <1>4, <1>7 DEF Guarded, Watches, Fresh
  <2> QED
    BY <2>3, <2>4 DEF y
<1>8. CASE x.s.state \in Closing
  <2> HIDE DEF y
  <2>1. Aware(C, y)
    BY <1>3, <1>8, ClosingSendsAware
  <2>2. Guarded(y.s)
    BY <1>4, <1>8 DEF Guarded, Watches, Fresh, Closing
  <2> QED
    BY <2>1, <2>2 DEF y
<1> QED
  BY <1>5, <1>6, <1>7, <1>8 DEF States, Fresh, Closing

LEMMA AckRetrans ==
    ASSUME ScpIInv, ScpIInv', NEW first, StreamIInv(first), AckIInv(first),
           NEW n \in Ends, scp_timer_retrans_cb(n)
    PROVE  AckIInv(first)'
<1> DEFINE s == stream[n]
           h == HalfFlight(s)
           k == s.timeout_count + 1
           t == [s EXCEPT !.ssthresh = h, !.cwnd = Mss, !.dup_acks = 0,
                          !.fr_active = FALSE, !.timeout_count = k]
           o == Only(t)
           x(m) == scp_retransmit(o, m)
           f(m) == [x(m) EXCEPT !.s = scp_stream_free]
<1>1. PICK m \in FragCounts : Leave(n, f(m), {}) \/ Leave(n, x(m), {})
  <2>1. t = [s EXCEPT !.ssthresh = HalfFlight(s), !.cwnd = Mss, !.dup_acks = 0,
                      !.fr_active = FALSE, !.timeout_count = @ + 1]
    OBVIOUS
  <2> HIDE DEF t
  <2> QED
    BY <2>1 DEF scp_timer_retrans_cb
<1>2. accepted' = accepted /\ readout' = readout /\ "retrans" \in s.timers
  BY DEF scp_timer_retrans_cb, Due
<1>3. s \in Stream
  BY StepFrom
<1> HIDE DEF s
<1>4. h \in Nat /\ k \in Nat /\ Mss \in Nat
  <2>1. h \in Nat
    BY <1>3, GrowType
  <2>2. s.timeout_count \in Nat
    BY <1>3, StreamFields
  <2> HIDE DEF h
  <2> QED
    BY <2>1, <2>2, SizesAre
<1> HIDE DEF h, k
<1> DEFINE u == [s EXCEPT !.dup_acks = 0, !.fr_active = FALSE]
<1>5. t = [u EXCEPT !.ssthresh = h, !.cwnd = Mss, !.timeout_count = k]
  BY <1>3 DEF Stream
<1>6. u \in Stream
  <2>1. 0 \in 0..4 /\ FALSE \in BOOLEAN
    OBVIOUS
  <2> QED
    BY <1>3, <2>1 DEF Stream
<1>7. /\ t.state = s.state /\ t.snd_seq_q = s.snd_seq_q /\ t.snd_una = s.snd_una
      /\ t.snd_nxt = s.snd_nxt /\ t.rcv_nxt = s.rcv_nxt /\ t.rcv_data_q = s.rcv_data_q
      /\ t.rcv_buf_q = s.rcv_buf_q /\ t.sb_cc = s.sb_cc /\ t.snd_q = s.snd_q
      /\ t.rcv_wnd = s.rcv_wnd /\ t.timers = s.timers
  BY <1>3 DEF Stream
<1> HIDE DEF t, u
<1>8. t \in Stream
  BY <1>4, <1>5, <1>6 DEF Stream
<1>9. Quiet(s, t)
  BY <1>7, <1>8 DEF Quiet
<1>10. ASSUME NEW L, NEW M, Ready(L, M, n, first)
       PROVE  LET C == Found(L, M, n, accepted[n], readout[Peer(n)])
              IN  /\ Aware(C, x(m)) /\ Guarded(x(m).s)
                  /\ Aware(C, f(m)) /\ Guarded(f(m).s)
  <2> DEFINE C == Found(L, M, n, accepted[n], readout[Peer(n)])
             y == scp_retransmit(o, m)
  <2>1. Aware(C, Only(s)) /\ Guarded(s)
    BY <1>10, FoundAware DEF s
  <2> HIDE DEF C
  <2>2. Aware(C, o)
    BY <1>9, <2>1, OnlyAware
  <2>3. Guarded(o.s) /\ "retrans" \in o.s.timers
    <3>1. Guarded(t)
      BY <1>7, <2>1, QuietGuards
    <3> QED
      BY <1>2, <1>7, <3>1, OnlyIs
  <2> HIDE DEF o
  <2>4. Aware(C, y) /\ Guarded(y.s)
    BY <2>2, <2>3, RetransmitAware
  <2> HIDE DEF y
  <2>5. LET w == [y EXCEPT !.s = scp_stream_free] IN Aware(C, w) /\ Guarded(w.s)
    BY <2>4, GivenUpAware
  <2> QED
    BY <2>4, <2>5 DEF y, C
<1> DEFINE v == x(m)
           w == f(m)
<1>11. Leave(n, w, {}) \/ Leave(n, v, {})
  BY <1>1
<1>12. \A L, M : Ready(L, M, n, first) =>
          /\ Aware(Found(L, M, n, accepted[n], readout[Peer(n)]), v) /\ Guarded(v.s)
          /\ Aware(Found(L, M, n, accepted[n], readout[Peer(n)]), w) /\ Guarded(w.s)
  BY <1>10
<1> HIDE DEF v, w
<1>13. ASSUME NEW z \in {v, w}, Leave(n, z, {}) PROVE AckIInv(first)'
  <2>1. \A L, M : Ready(L, M, n, first) =>
           /\ Aware(Found(L, M, n, accepted[n], readout[Peer(n)]), z)
           /\ Guarded(z.s)
    BY <1>12
  <2> QED
    BY <1>2, <1>13, <2>1, QuietAckStep
<1> QED
  BY <1>11, <1>13

LEMMA AckPersist ==
    ASSUME ScpIInv, ScpIInv', NEW first, StreamIInv(first), AckIInv(first),
           NEW n \in Ends, scp_timer_persist_cb(n)
    PROVE  AckIInv(first)'
<1> DEFINE s == stream[n]
           k(idle) == IF idle THEN s.idle_failures + 1 ELSE s.idle_failures
           t(idle) == [s EXCEPT !.idle_failures = k(idle)]
           x(idle) == Only(t(idle))
           y(idle) == scp_send_window_probe(x(idle))
           f == Only(scp_stream_free)
<1>1. PICK idle \in BOOLEAN :
         Leave(n, f, {}) \/ Leave(n, y(idle), {}) \/ Leave(n, x(idle), {})
  <2>1. \A idle \in BOOLEAN :
           t(idle) = [s EXCEPT !.idle_failures = IF idle THEN @ + 1 ELSE @]
    OBVIOUS
  <2> HIDE DEF t
  <2> QED
    BY <2>1 DEF scp_timer_persist_cb
<1>2. accepted' = accepted /\ readout' = readout
  BY DEF scp_timer_persist_cb
<1>3. s \in Stream
  BY StepFrom
<1> HIDE DEF s
<1> DEFINE j == k(idle)
           u == [s EXCEPT !.idle_failures = j]
           v == Only(u)
           w == scp_send_window_probe(v)
<1>4. Leave(n, f, {}) \/ Leave(n, w, {}) \/ Leave(n, v, {})
  BY <1>1
<1>5. j \in Nat
  BY <1>3, StreamFields
<1> HIDE DEF j
<1>6. Quiet(s, u) /\ u.timers = s.timers
  <2>1. u \in Stream
    BY <1>3, <1>5 DEF Stream
  <2> QED
    BY <1>3, <2>1 DEF Stream, Quiet
<1> HIDE DEF u
<1>7. v.s = u
  BY DEF Only
<1> HIDE DEF f, v, w
<1>8. ASSUME NEW L, NEW M, Ready(L, M, n, first)
      PROVE  LET C == Found(L, M, n, accepted[n], readout[Peer(n)])
             IN  \A z \in {f, v, w} : Aware(C, z) /\ Guarded(z.s)
  <2> DEFINE C == Found(L, M, n, accepted[n], readout[Peer(n)])
  <2>1. Aware(C, Only(s)) /\ Guarded(s)
    BY <1>8, FoundAware DEF s
  <2> HIDE DEF C
  <2>2. Aware(C, v) /\ Guarded(v.s)
    BY <1>6, <1>7, <2>1, OnlyAware, QuietGuards DEF v, Quiet
  <2>3. Aware(C, w)
    BY <2>2, HandshakeAware DEF w
  <2>4. w.s = v.s
    <3>1. Typed(v)
      BY <2>2 DEF Aware, Good
    <3> QED
      BY <3>1 DEF Typed, w, scp_send_window_probe, Emit
  <2>5. Aware(C, f) /\ Guarded(f.s)
    BY <2>1, FreedNow DEF f
  <2> QED
    BY <2>2, <2>3, <2>4, <2>5 DEF C
<1>9. ASSUME NEW z \in {f, v, w}, Leave(n, z, {}) PROVE AckIInv(first)'
  <2>1. \A L, M : Ready(L, M, n, first) =>
           /\ Aware(Found(L, M, n, accepted[n], readout[Peer(n)]), z)
           /\ Guarded(z.s)
    BY <1>8
  <2> QED
    BY <1>2, <1>9, <2>1, QuietAckStep
<1> QED
  BY <1>4, <1>9

\* What was read was taken before, so nothing changes for the peer.  The window
\* is closed only while there is a connection, and an acknowledgement opens it.
LEMMA ReadAware ==
    ASSUME NEW C, NEW s, Aware(C, Only(s)), Guarded(s), s.state # "FREED",
           NEW t, NEW front, Reads(s, C.r, t, front),
           NEW D, Context(D), D.r = C.r \o front, D.L = C.L, D.M = C.M, D.acc = C.acc,
           D.peer = C.peer, D.hi = C.hi, D.tk = C.tk, D.from = C.from, D.sent = C.sent,
           D.took = C.took, Good(D.L, D.M, D.acc, D.r, Only(t))
    PROVE  LET y == ReadAnswer(s, t) IN Aware(D, y) /\ Guarded(y.s)
<1> DEFINE x == Only(t)
           o == Only(s)
           y == ReadAnswer(s, t)
<1>1. x.s = t /\ x.out = {} /\ o.s = s
  BY DEF Only
<1>2. /\ t \in Stream /\ Counted(t)
      /\ t.state = s.state /\ t.snd_seq_q = s.snd_seq_q /\ t.snd_nxt = s.snd_nxt
      /\ t.snd_una = s.snd_una /\ t.snd_q = s.snd_q /\ t.timers = s.timers
      /\ t.rcv_nxt = s.rcv_nxt /\ t.rcv_buf_q = s.rcv_buf_q
      /\ Came(t, D.r) = Came(s, C.r)
      /\ t.sb_cc = 0 => t.rcv_wnd = Hiwat
  BY DEF Reads
<1>3. /\ Sender(C.L, s, C.acc, C.peer, C.tk) /\ Receiver(C.M, s, C.r, C.peer, C.hi)
      /\ Since(C, s)
  BY <1>1 DEF Aware
<1> HIDE DEF x, o
<1>4. Sender(D.L, t, D.acc, D.peer, D.tk)
  BY <1>2, <1>3 DEF Sender, Queued
<1>5. t.state \in Fresh => t.rcv_wnd > 0
  <2> SUFFICES ASSUME t.state \in Fresh PROVE t.rcv_wnd > 0
    OBVIOUS
  <2>1. Incoming(D.M, t, D.r)
    BY <1>1 DEF Good, x
  <2>2. t.rcv_data_q = <<>> /\ t.rcv_buf_q = <<>>
    BY <2>1 DEF Incoming
  <2>3. t.sb_cc = 0
    BY <1>2, <2>2, BytesOfFew DEF Counted
  <2> QED
    BY <1>2, <2>3, ScpAssumption
<1>6. Receiver(D.M, t, D.r, D.peer, D.hi)
  BY <1>2, <1>3, <1>5 DEF Receiver, Within
<1>7. Since(D, t)
  BY <1>2, <1>3 DEF Since, SentTo
<1>8. Aware(D, x)
  BY <1>1, <1>4, <1>6, <1>7 DEF Aware, x
<1>9. Guarded(t)
  BY <1>2, QuietGuards
<1>10. CASE s.rcv_wnd = 0 /\ t.rcv_wnd > 0
  <2>1. y = scp_output_ack(x)
    BY <1>10 DEF ReadAnswer, x
  <2>2. s.state \notin Fresh
    BY <1>3, <1>10 DEF Receiver
  <2>3. s.state \in States
    <3>1. s \in Stream
      <4>1. Typed(o)
        BY DEF Aware, Good, o
      <4> QED
        BY <1>1, <4>1 DEF Typed
    <3> QED
      BY <3>1, StreamFields
  <2>4. x.s.state \in Speaking
    BY <1>1, <1>2, <2>2, <2>3 DEF Speaking, Fresh, States
  <2>5. Aware(D, scp_output_ack(x)) /\ scp_output_ack(x).s = x.s
    BY <1>8, <2>4, OutputAckAware
  <2> HIDE DEF y
  <2> QED
    BY <1>1, <1>9, <2>1, <2>5 DEF y
<1>11. CASE ~(s.rcv_wnd = 0 /\ t.rcv_wnd > 0)
  <2>1. y = x
    BY <1>11 DEF ReadAnswer, x
  <2> HIDE DEF y
  <2> QED
    BY <1>1, <1>8, <1>9, <2>1 DEF y
<1> QED
  BY <1>10, <1>11

LEMMA AckRecv ==
    ASSUME ScpIInv, ScpIInv', NEW first, StreamIInv(first), AckIInv(first),
           NEW n \in Ends, NEW len \in RecvSizes, scp_recv(n, len)
    PROVE  AckIInv(first)'
<1> DEFINE s == stream[n]
           r == readout[Peer(n)]
           acc == accepted[n]
<1>1. PICK t, front :
         /\ Leave(n, ReadAnswer(s, t), {}) /\ accepted' = accepted
         /\ readout'[Peer(n)] = r \o front /\ readout'[n] = readout[n]
         /\ Reads(s, r, t, front)
         /\ \A L, M : Ready(L, M, n, first) => Good(L, M, acc, r \o front, Only(t))
  BY RecvIs
<1>2. PICK L, M : Ready(L, M, n, first)
  BY ReadyIs
<1> DEFINE C == Found(L, M, n, acc, r)
           D == Found(L, M, n, acc, r \o front)
           y == ReadAnswer(s, t)
<1>3. Aware(C, Only(s)) /\ Guarded(s) /\ s.state # "FREED"
  BY <1>2, FoundAware DEF scp_recv, Open
<1>4. Context(D)
  BY <1>2, FoundContext
<1>5. /\ C.r = r /\ D.r = r \o front /\ D.L = C.L /\ D.M = C.M /\ D.acc = C.acc
      /\ D.peer = C.peer /\ D.hi = C.hi /\ D.tk = C.tk /\ D.from = C.from
      /\ D.sent = C.sent /\ D.took = C.took
      /\ D.L = L /\ D.M = M /\ D.acc = acc
  BY DEF Found
<1>6. Good(L, M, acc, r \o front, Only(t))
  BY <1>1, <1>2
<1> HIDE DEF s, r, acc, C, D
<1>7. Aware(D, y) /\ Guarded(y.s)
  BY <1>1, <1>3, <1>4, <1>5, <1>6, ReadAware
<1> HIDE DEF y
<1>8. D = Found(L, M, n, accepted'[n], readout'[Peer(n)])
  BY <1>1 DEF D, acc
<1>9. L.first = first[n] /\ M.first = first[Peer(n)] /\ Line(M)
  BY <1>2 DEF Ready, Direction
<1>10. Moves(n, y)
  BY <1>1, LeaveMoves DEF y
<1>11. accepted'[Peer(n)] = accepted[Peer(n)] /\ readout'[n] = readout[n]
  BY <1>1
<1> QED
  BY <1>7, <1>8, <1>9, <1>10, <1>11, CarriesAck

\* A buffer more at the end of the queue.
LEMMA LeftAppend ==
    ASSUME NEW q \in Seq(Buf), NEW b \in Buf
    PROVE  /\ Append(q, b) \in Seq(Buf) /\ Bytes(Append(q, b)) = Bytes(q) + Len(b.data)
           /\ \A i \in 1..Len(q) : Left(Append(q, b), i) = Left(q, i) + Len(b.data)
           /\ Left(Append(q, b), Len(q) + 1) = Len(b.data)
<1> DEFINE w == Append(q, b)
<1>1. <<b>> \in Seq(Buf) /\ Bytes(<<b>>) = Len(b.data) /\ w \in Seq(Buf) /\ Len(w) = Len(q) + 1
  BY BytesOfFew
<1>2. ASSUME NEW i \in 1..Len(q) PROVE Left(w, i) = Left(q, i) + Len(b.data)
  <2> DEFINE u == SubSeq(q, i, Len(q))
  <2>1. /\ u \in Seq(Buf) /\ Len(u) = Len(q) - i + 1
        /\ \A j \in 1..(Len(q) - i + 1) : u[j] = q[i + j - 1]
    OBVIOUS
  <2> DEFINE z == SubSeq(w, i, Len(w))
             k == Len(q) - i + 1
  <2>2. k \in Nat /\ Len(w) - i + 1 = k + 1 /\ i \in 1..Len(w) /\ i + k = Len(q) + 1
    BY <1>1
  <2>3. w[Len(q) + 1] = b /\ \A j \in 1..Len(q) : w[j] = q[j]
    OBVIOUS
  <2> HIDE DEF u, w
  <2>4. z \in Seq(Buf) /\ Len(z) = k + 1 /\ \A j \in 1..(k + 1) : z[j] = w[i + j - 1]
    BY <1>1, <2>2
  <2> DEFINE v == u \o <<b>>
  <2>5. /\ Len(v) = k + 1 /\ v \in Seq(Buf) /\ v[k + 1] = b
        /\ \A j \in 1..k : v[j] = u[j]
    <3>1. v = Append(u, b)
      BY <2>1
    <3>2. k = Len(u) /\ u \in Seq(Buf)
      BY <2>1
    <3> HIDE DEF v, k
    <3> QED
      BY <3>1, <3>2
  <2> HIDE DEF z, v, k
  <2>6. ASSUME NEW j \in 1..(k + 1) PROVE z[j] = v[j]
    <3>1. CASE j = k + 1
      <4>1. z[j] = w[Len(q) + 1]
        BY <2>2, <2>4, <3>1
      <4> QED
        BY <2>3, <2>5, <3>1, <4>1
    <3>2. CASE j # k + 1
      <4>1. j \in 1..k /\ i + j - 1 \in 1..Len(q)
        BY <2>2, <3>2
      <4>2. u[j] = q[i + j - 1]
        BY <2>1, <4>1 DEF k
      <4> QED
        BY <2>3, <2>4, <2>5, <4>1, <4>2
    <3> QED
      BY <3>1, <3>2
  <2>7. Bytes(z) = Bytes(v)
    BY <2>4, <2>5, <2>6, BytesSame
  <2> QED
    BY <1>1, <2>1, <2>7, BytesConcat DEF Left, u, v, z
<1>3. Left(w, Len(q) + 1) = Len(b.data)
  <2>1. w[Len(w)] = b /\ Len(w) \in 1..Len(w) /\ Len(w) = Len(q) + 1
    OBVIOUS
  <2>2. Len(b.data) \in Nat /\ Len(b.data) + 0 = Len(b.data)
    BY DEF Buf
  <2> HIDE DEF w
  <2> QED
    BY <1>1, <2>1, <2>2, LeftIs
<1>4. Bytes(w) = Bytes(q) + Len(b.data)
  <2>1. w = q \o <<b>>
    OBVIOUS
  <2> HIDE DEF w
  <2> QED
    BY <1>1, <2>1, BytesConcat
<1> QED
  BY <1>1, <1>2, <1>3, <1>4 DEF Left

\* The bytes are taken and queued at the numbers that come next.
LEMMA EnqueuedQueued ==
    ASSUME NEW L, NEW N, Line(L), Line(N), N.first = L.first, NEW len \in Nat,
           N.used = L.used + len, NEW s \in Stream, NEW t \in Stream, NEW acc \in Nat,
           NEW b \in Buf, b.seq = s.snd_seq_q, Len(b.data) = len,
           t.snd_q = Append(s.snd_q, b), t.snd_una = s.snd_una, t.snd_nxt = s.snd_nxt,
           Queued(L, s, acc), At(L, s.snd_seq_q) = L.used, At(N, t.snd_seq_q) = N.used
    PROVE  Queued(N, t, acc + len)
<1> DEFINE q == s.snd_q
           w == Append(q, b)
<1>1. q \in Seq(Buf)
  BY QueueOf
<1>2. \A a : At(N, a) = At(L, a)
  BY DEF At
<1>3. /\ At(L, s.snd_nxt) \in Nat /\ At(L, s.snd_una) \in Nat /\ L.used \in Nat
  BY StreamFields, AtIs DEF Line, Lines
<1>4. \A i \in 1..Len(q) : At(L, q[i].seq) \in Nat
  <2>1. \A c \in Buf : c.seq \in Seqs
    BY DEF Buf, Seqs
  <2>2. \A i \in 1..Len(q) : q[i] \in Buf
    BY <1>1
  <2> QED
    BY <2>1, <2>2, AtIs
<1>5. /\ At(L, s.snd_una) <= At(L, s.snd_nxt) /\ At(L, s.snd_nxt) <= L.used
      /\ acc <= L.used /\ acc - Bytes(q) <= At(L, s.snd_una)
      /\ \A i \in 1..Len(q) : acc - Left(q, i) <= At(L, q[i].seq)
  BY DEF Queued
<1> HIDE DEF q
<1>6. /\ Bytes(w) = Bytes(q) + len /\ Bytes(q) \in Nat
      /\ \A i \in 1..Len(q) : Left(w, i) = Left(q, i) + len /\ Left(q, i) \in Nat
      /\ Left(w, Len(q) + 1) = len
  BY <1>1, LeftAppend, LeftIs
<1>7. /\ Len(w) = Len(q) + 1 /\ w[Len(q) + 1] = b /\ Len(q) \in Nat
      /\ \A i \in 1..Len(q) : w[i] = q[i]
  BY <1>1
<1> HIDE DEF w
<1>8. (acc + len) - Bytes(w) <= At(L, s.snd_una)
  BY <1>3, <1>5, <1>6
<1>9. ASSUME NEW i \in 1..Len(w) PROVE (acc + len) - Left(w, i) <= At(L, w[i].seq)
  <2>1. CASE i \in 1..Len(q)
    <3>1. /\ w[i] = q[i] /\ Left(w, i) = Left(q, i) + len /\ Left(q, i) \in Nat
          /\ acc - Left(q, i) <= At(L, q[i].seq)
      BY <1>5, <1>6, <1>7, <2>1
    <3>2. (acc + len) - (Left(q, i) + len) = acc - Left(q, i)
      BY <3>1
    <3> QED
      BY <3>1, <3>2
  <2>2. CASE i = Len(q) + 1
    BY <1>3, <1>5, <1>6, <1>7, <2>2
  <2> QED
    BY <1>7, <2>1, <2>2
<1>10. t.snd_q = w
  BY DEF w, q
<1>11. At(L, s.snd_nxt) <= N.used /\ acc + len <= N.used
  BY <1>3, <1>5
<1> QED
  BY <1>2, <1>5, <1>8, <1>9, <1>10, <1>11 DEF Queued

\* Where n sends a line grows, and everything is found as before.
LEMMA FoundGrows ==
    ASSUME ScpIInv, NEW first, AckIInv(first), NEW n \in Ends, NEW L, NEW M,
           Ready(L, M, n, first), NEW N, Grows(L, N), NEW k,
           NEW t \in Stream, Keeps(stream[n], t), stream[n].state = "ESTABLISHED",
           t.state = "ESTABLISHED", t.snd_una = stream[n].snd_una,
           t.snd_nxt = stream[n].snd_nxt, t.rcv_nxt = stream[n].rcv_nxt,
           Queued(N, t, k), Good(N, M, k, readout[Peer(n)], Only(t))
    PROVE  Aware(Found(N, M, n, k, readout[Peer(n)]), Only(t))
<1> DEFINE s == stream[n]
           j == Peer(n)
           u == stream[j]
           C == Found(N, M, n, k, readout[j])
           D == Found(L, M, n, accepted[n], readout[j])
           x == Only(t)
           y == Only(s)
<1>1. Aware(D, y)
  BY FoundAware
<1>2. N.first = L.first
  BY DEF Grows
<1>3. \A q : At(N, q) = At(L, q)
  BY <1>2 DEF At
<1>4. SentTo(N, s) = SentTo(L, s)
  BY <1>3 DEF SentTo
<1>5. /\ C.L = N /\ C.M = M /\ C.acc = k /\ C.r = readout[j]
      /\ C.peer = D.peer /\ C.hi = D.hi /\ C.tk = D.tk /\ C.from = D.from
      /\ C.sent = D.sent /\ C.took = D.took
      /\ D.L = L /\ D.M = M /\ D.acc = accepted[n] /\ D.r = readout[j]
  BY <1>4 DEF Found
<1>6. x.s = t /\ x.out = {} /\ y.s = s
  BY DEF Only
<1>7. Good(C.L, C.M, C.acc, C.r, x)
  BY <1>5
<1> HIDE DEF s, C, D, x, y
<1>8. Context(C)
  BY <1>1, <1>5 DEF Aware, Context
<1>9. /\ t.rcv_data_q = s.rcv_data_q /\ t.rcv_buf_q = s.rcv_buf_q
      /\ t.state = s.state /\ s.state = "ESTABLISHED"
      /\ t.snd_una = s.snd_una /\ t.snd_nxt = s.snd_nxt /\ t.rcv_nxt = s.rcv_nxt
  BY DEF Keeps, s
<1>10. /\ Sender(L, s, D.acc, D.peer, D.tk) /\ Receiver(M, s, D.r, D.peer, D.hi)
       /\ Since(D, s)
  BY <1>1, <1>5, <1>6 DEF Aware
<1>11. Sender(N, t, k, C.peer, C.tk)
  BY <1>3, <1>5, <1>9, <1>10 DEF Sender
<1>12. Receiver(M, t, C.r, C.peer, C.hi)
  BY <1>5, <1>9, <1>10 DEF Receiver, Came, Within, Fresh
<1>13. Since(C, t)
  BY <1>3, <1>5, <1>9, <1>10 DEF Since, SentTo, Came
<1> QED
  BY <1>5, <1>6, <1>7, <1>8, <1>11, <1>12, <1>13 DEF Aware, C, x, j

LEMMA AckSend ==
    ASSUME ScpIInv, ScpIInv', NEW first, StreamIInv(first), AckIInv(first), Numbering(first),
           NEW n \in Ends, NEW len \in SendSizes, scp_send(n, len)
    PROVE  AckIInv(first)'
<1> DEFINE s == stream[n]
           acc == accepted[n]
           b == TakenBuf(s, acc, len)
           t == Enqueued(s, acc, len)
           o == Only(t)
           x == scp_output(o)
           r == readout[Peer(n)]
           C(N, M) == Found(N, M, n, acc + len, r)
<1>1. /\ s \in Stream /\ s.state = "ESTABLISHED" /\ acc \in Nat /\ len \in Nat /\ len > 0
      /\ Leave(n, x, {}) /\ readout' = readout
      /\ accepted'[n] = acc + len /\ accepted'[Peer(n)] = accepted[Peer(n)]
  BY SendIs
<1>2. PICK L, M : Ready(L, M, n, first)
  BY ReadyIs
<1>3. PICK N : Grows(L, N) /\ N.used = L.used + len /\ Good(N, M, acc + len, r, o)
  BY <1>2, SendGrows
<1>4. /\ Guarded(s) /\ Aware(Found(L, M, n, acc, r), Only(s))
  BY <1>2, FoundAware
<1> HIDE DEF acc, s
<1>5. /\ b \in Buf /\ b.seq = s.snd_seq_q /\ Len(b.data) = len
      /\ t \in Stream /\ Keeps(s, t) /\ t.state = s.state /\ t.timers = s.timers
      /\ t.snd_q = Append(s.snd_q, b) /\ t.snd_una = s.snd_una /\ t.snd_nxt = s.snd_nxt
      /\ t.rcv_nxt = s.rcv_nxt
  BY <1>1, EnqueuedIs, SMTT(30) DEF SndBuf
<1> HIDE DEF b, t, r
<1>6. o.s = t /\ o.out = {}
  BY DEF Only
<1>7. /\ At(L, s.snd_seq_q) = L.used /\ Queued(L, s, acc)
  <2> DEFINE D == Found(L, M, n, acc, r)
             y == Only(s)
  <2>1. D.L = L /\ D.acc = acc /\ y.s = s /\ Aware(D, y)
    BY <1>4 DEF Found, Only
  <2> HIDE DEF D, y
  <2> QED
    BY <1>1, <2>1, AwareOnLine
<1>8. At(N, t.snd_seq_q) = N.used
  BY <1>1, <1>3, <1>5, <1>6 DEF Good, Outgoing
<1>9. Queued(N, t, acc + len)
  BY <1>1, <1>3, <1>5, <1>7, <1>8, EnqueuedQueued DEF Grows
<1>10. Aware(C(N, M), o)
  BY <1>1, <1>2, <1>3, <1>5, <1>9, FoundGrows DEF s, r
<1>11. C(N, M).L = N /\ C(N, M) = Found(N, M, n, accepted'[n], readout'[Peer(n)])
  BY <1>1, FoundIs DEF r
<1>12. Typed(o) /\ o.s.state = "ESTABLISHED"
  BY <1>1, <1>3, <1>5, <1>6 DEF Good
<1> HIDE DEF C, o
<1>13. Aware(C(N, M), x)
  <2>1. OnLine(N, o.s)
    BY <1>10, <1>11, <1>12, AwareOnLine
  <2>2. Flows(N, o, x)
    BY <1>12, <2>1, OutputFlows
  <2> QED
    BY <1>10, <1>11, <1>12, <2>2, FlowsAware
<1>14. Guarded(x.s)
  <2>1. Guarded(t)
    BY <1>4, <1>5, QuietGuards
  <2>2. t.state \in Speaking
    BY <1>1, <1>5 DEF Speaking
  <2>3. /\ Watches(t, x.s)
        /\ t.snd_una = t.snd_nxt => x.s.snd_nxt = t.snd_nxt \/ "retrans" \in x.s.timers
    BY <1>6, <1>12, OutputWatches DEF o
  <2> HIDE DEF x
  <2> QED
    BY <2>1, <2>2, <2>3, WatchesGuards
<1>15. Moves(n, x)
  BY <1>1, LeaveMoves DEF o
<1>16. N.first = first[n] /\ M.first = first[Peer(n)] /\ Line(M) /\ readout'[n] = readout[n]
  BY <1>1, <1>2, <1>3 DEF Ready, Direction, Grows
<1> HIDE DEF x
<1> QED
  BY <1>1, <1>11, <1>13, <1>14, <1>15, <1>16, CarriesAck

LEMMA AckSendFails ==
    ASSUME ScpIInv, ScpIInv', NEW first, StreamIInv(first), AckIInv(first), Numbering(first),
           NEW n \in Ends, NEW len \in SendSizes, scp_send_fails(n, len)
    PROVE  AckIInv(first)'
<1> DEFINE s == stream[n]
           acc == accepted[n]
           t == Refused(s, len)
           x == Only(t)
           r == readout[Peer(n)]
<1>1. /\ s.state = "ESTABLISHED" /\ t \in Stream /\ Keeps(s, t) /\ t.state = s.state
      /\ t.snd_q = s.snd_q /\ t.rcv_nxt = s.rcv_nxt /\ t.snd_una = s.snd_una
      /\ t.snd_nxt = s.snd_nxt /\ t.timers = s.timers
      /\ Moves(n, x) /\ accepted' = accepted /\ readout' = readout
  BY SendFailsIs
<1>2. PICK L, M : Ready(L, M, n, first)
  BY ReadyIs
<1>3. PICK N : Grows(L, N) /\ N.used = L.used + len /\ Good(N, M, acc, r, x)
  BY <1>2, SendFailsGrows
<1>4. /\ Guarded(s) /\ Aware(Found(L, M, n, acc, r), Only(s))
  BY <1>2, FoundAware
<1>5. s \in Stream /\ len \in Nat
  BY StepFrom, ScpAssumption
<1> HIDE DEF acc, s, t, r
<1>6. x.s = t
  BY DEF Only
<1>7. At(L, s.snd_seq_q) = L.used /\ Queued(L, s, acc) /\ acc \in Nat
  <2> DEFINE D == Found(L, M, n, acc, r)
             y == Only(s)
  <2>1. D.L = L /\ D.acc = acc /\ y.s = s /\ Aware(D, y)
    BY <1>4 DEF Found, Only
  <2> HIDE DEF D, y
  <2> QED
    BY <1>1, <2>1, AwareOnLine
<1>8. At(N, t.snd_seq_q) = N.used
  BY <1>1, <1>3, <1>6 DEF Good, Outgoing
<1>9. Queued(N, t, acc)
  <2>1. /\ At(L, s.snd_nxt) \in Nat /\ L.used \in Nat /\ L.used <= N.used /\ N.used \in Nat
        /\ \A a : At(N, a) = At(L, a)
    BY <1>3, <1>5, StreamFields, AtIs DEF Grows, Line, Lines, At
  <2>2. At(L, s.snd_nxt) <= L.used /\ acc <= L.used
    BY <1>7 DEF Queued
  <2>3. At(L, s.snd_nxt) <= N.used /\ acc <= N.used
    BY <1>7, <2>1, <2>2
  <2> QED
    BY <1>1, <1>7, <1>8, <2>1, <2>3 DEF Queued
<1>10. Aware(Found(N, M, n, accepted'[n], readout'[Peer(n)]), x)
  BY <1>1, <1>2, <1>3, <1>9, FoundGrows DEF s, r, acc
<1>11. Guarded(x.s)
  BY <1>1, <1>4, <1>6, QuietGuards
<1>12. N.first = first[n] /\ M.first = first[Peer(n)] /\ Line(M) /\ readout'[n] = readout[n]
       /\ accepted'[Peer(n)] = accepted[Peer(n)]
  BY <1>1, <1>2, <1>3 DEF Ready, Direction, Grows
<1> HIDE DEF x
<1>13. Moves(n, x)
  BY <1>1 DEF x
<1> QED
  BY <1>10, <1>11, <1>12, <1>13, CarriesAck

\* Nothing was sent, so nothing is acknowledged or in flight.
LEMMA AckInit ==
    ASSUME ScpInit, NEW first
    PROVE  AckIInv(first)
<1> SUFFICES ASSUME NEW n \in Ends, NEW L PROVE Heard(L, n)
  BY DEF AckIInv
<1> DEFINE s == scp_stream_alloc
<1>1. stream[n] = s /\ stream[Peer(n)] = s /\ link = {}
  BY PeerIs DEF ScpInit
<1>2. s.state = "CLOSED" /\ s.snd_una = s.snd_nxt /\ s.rcv_wnd > 0
  BY ScpAssumption DEF scp_stream_alloc
<1> HIDE DEF s
<1> QED
  BY <1>1, <1>2 DEF Heard, Sender, Receiver, Reading, Guarded

LEMMA AckNext ==
    ASSUME ScpIInv, ScpIInv', NEW first, StreamIInv(first), AckIInv(first), Numbering(first),
           [ScpNext]_scp_vars
    PROVE  AckIInv(first)'
<1>1. CASE ScpNext
  <2>1. PICK n \in Ends :
          \/ scp_connect(n) \/ scp_close(n) \/ scp_input(n)
          \/ \E len \in SendSizes : scp_send(n, len) \/ scp_send_fails(n, len)
          \/ \E len \in RecvSizes : scp_recv(n, len)
          \/ scp_handle_handshake_timeout(n) \/ scp_handle_fin_timeout(n)
          \/ scp_timer_retrans_cb(n) \/ scp_timer_persist_cb(n)
    BY <1>1 DEF ScpNext
  <2>2. CASE scp_connect(n)
    BY <2>2, AckConnect
  <2>3. CASE scp_close(n)
    BY <2>3, AckClose
  <2>4. CASE scp_input(n)
    BY <2>4, AckInput
  <2>5. CASE \E len \in SendSizes : scp_send(n, len) \/ scp_send_fails(n, len)
    BY <2>5, AckSend, AckSendFails
  <2>6. CASE \E len \in RecvSizes : scp_recv(n, len)
    BY <2>6, AckRecv
  <2>7. CASE scp_handle_handshake_timeout(n)
    BY <2>7, AckHandshakeTimeout
  <2>8. CASE scp_handle_fin_timeout(n)
    BY <2>8, AckFinTimeout
  <2>9. CASE scp_timer_retrans_cb(n)
    BY <2>9, AckRetrans
  <2>10. CASE scp_timer_persist_cb(n)
    BY <2>10, AckPersist
  <2> QED
    BY <2>1, <2>2, <2>3, <2>4, <2>5, <2>6, <2>7, <2>8, <2>9, <2>10
<1>2. CASE UNCHANGED scp_vars
  BY <1>2 DEF scp_vars, AckIInv, Heard
<1> QED
  BY <1>1, <1>2

\* What left the queue is acknowledged, and what is acknowledged was taken.
LEMMA AckedIs ==
    ASSUME ScpIInv, NEW first, StreamIInv(first), AckIInv(first)
    PROVE  AckedWasTaken
<1> SUFFICES ASSUME NEW n \in Ends, stream[n].state = "ESTABLISHED", Open(Peer(n))
             PROVE  accepted[n] - Kept(n) <= Taken(n)
  BY DEF AckedWasTaken
<1> DEFINE s == stream[n]
           t == stream[Peer(n)]
           una == At([first |-> first[n]], s.snd_una)
<1>1. PICK L : L.first = first[n] /\ Direction(L, n)
  BY DEF StreamIInv
<1>2. s \in Stream /\ t \in Stream /\ readout[n] \in Seq(Nat) /\ accepted[n] \in Nat
  BY StepFrom, PeerIs
<1>3. Sender(L, s, accepted[n], t.state, Len(Came(t, readout[n])))
  BY <1>1 DEF AckIInv, Heard
<1>4. /\ accepted[n] - Kept(n) <= At(L, s.snd_una)
      /\ At(L, s.snd_una) <= Len(Came(t, readout[n]))
  BY <1>3 DEF Sender, Queued, Kept, Open
<1>5. Len(Came(t, readout[n])) = Taken(n) /\ Taken(n) \in Nat
  <2> DEFINE d == t.rcv_data_q
  <2>1. d \in Seq(Nat)
    BY <1>2, ReceiverFields, Zenon
  <2> HIDE DEF d
  <2>2. Len(readout[n] \o d) = Len(readout[n]) + Len(d) /\ Len(readout[n]) + Len(d) \in Nat
    BY <1>2, <2>1
  <2> QED
    BY <2>2 DEF Came, Taken, d
<1>6. At(L, s.snd_una) \in Nat /\ Kept(n) \in Nat
  <2>1. Line(L) /\ s.snd_una \in Seqs
    BY <1>1, <1>2, StreamFields DEF Direction
  <2>2. s.snd_q \in Seq(Buf)
    BY <1>2, QueueOf
  <2> QED
    BY <2>1, <2>2, AtIs, LengthsAre DEF Kept
<1> QED
  BY <1>2, <1>4, <1>5, <1>6

LEMMA TimedIs ==
    ASSUME ScpIInv, NEW first, AckIInv(first)
    PROVE  FlightIsTimed
<1> SUFFICES ASSUME NEW n \in Ends, InFlight(n)
             PROVE  stream[n].timers \cap {"retrans", "fin"} # {}
  BY DEF FlightIsTimed
<1> DEFINE s == stream[n]
<1>1. s.state \in States /\ s.state # "FREED" /\ s.snd_una # s.snd_nxt
  BY StepFrom, StreamFields DEF InFlight, Open
<1>2. Guarded(s)
  <2> DEFINE L == [first |-> first[n]]
  <2>1. L.first = first[n]
    OBVIOUS
  <2> HIDE DEF L
  <2> QED
    BY <2>1 DEF AckIInv, Heard
<1> HIDE DEF s
<1>3. "retrans" \in s.timers \/ "fin" \in s.timers
  BY <1>1, <1>2 DEF Guarded, States, Fresh
<1> QED
  BY <1>3 DEF s

\* scp_process_ack frees what an acknowledgement covers, and scp_input
\* acknowledges what it queued for the reader and what lies behind a hole: while
\* a sender may still send, no byte is let go that the peer did not take.
THEOREM WhatIsAckedWasTaken ==
    ASSUME NEW first \in [Ends -> Seqs]
    PROVE  ScpSpec /\ []NumbersFrom(first) => []AckedWasTaken
<1> DEFINE I == ScpIInv /\ StreamIInv(first) /\ AckIInv(first)
           F == NumbersFrom(first)
<1>1. ScpInit => I
  BY InitKeeps, InitStreams, AckInit
<1>2. I /\ [ScpNext]_scp_vars /\ F' => I'
  BY NextKeeps, NextStreams, AckNext DEF Numbering
<1>3. I => AckedWasTaken
  BY AckedIs
<1> HIDE DEF I, F
<1>4. ScpSpec /\ []F => []AckedWasTaken
  BY <1>1, <1>2, <1>3, PTL DEF ScpSpec
<1> QED
  BY <1>4 DEF F

\* The same from constants alone.
THEOREM AckedBytesWereTaken ==
    ASSUME NEW first \in [Ends -> Seqs], OneNumber(first), FewBytes
    PROVE  ScpSpec => []AckedWasTaken
<1> DEFINE I == ScpIInv /\ StreamIInv(first) /\ AckIInv(first)
<1>1. ScpInit => I
  BY InitKeeps, InitStreams, AckInit
<1>2. I /\ [ScpNext]_scp_vars => I'
  BY NextKeeps, NextStreams, AckNext DEF Numbering
<1>3. I => AckedWasTaken
  BY AckedIs
<1> HIDE DEF I
<1> QED
  BY <1>1, <1>2, <1>3, PTL DEF ScpSpec

\* Where something is in flight scp_output, scp_process_ack and scp_close leave
\* the retransmission or the FIN timer running: nothing waits without one.
THEOREM WhatFliesIsTimed ==
    ASSUME NEW first \in [Ends -> Seqs]
    PROVE  ScpSpec /\ []NumbersFrom(first) => []FlightIsTimed
<1> DEFINE I == ScpIInv /\ StreamIInv(first) /\ AckIInv(first)
           F == NumbersFrom(first)
<1>1. ScpInit => I
  BY InitKeeps, InitStreams, AckInit
<1>2. I /\ [ScpNext]_scp_vars /\ F' => I'
  BY NextKeeps, NextStreams, AckNext DEF Numbering
<1>3. I => FlightIsTimed
  BY TimedIs
<1> HIDE DEF I, F
<1>4. ScpSpec /\ []F => []FlightIsTimed
  BY <1>1, <1>2, <1>3, PTL DEF ScpSpec
<1> QED
  BY <1>4 DEF F

\* The same from constants alone.
THEOREM FlightAlwaysTimed ==
    ASSUME NEW first \in [Ends -> Seqs], OneNumber(first), FewBytes
    PROVE  ScpSpec => []FlightIsTimed
<1> DEFINE I == ScpIInv /\ StreamIInv(first) /\ AckIInv(first)
<1>1. ScpInit => I
  BY InitKeeps, InitStreams, AckInit
<1>2. I /\ [ScpNext]_scp_vars => I'
  BY NextKeeps, NextStreams, AckNext DEF Numbering
<1>3. I => FlightIsTimed
  BY TimedIs
<1> HIDE DEF I
<1> QED
  BY <1>1, <1>2, <1>3, PTL DEF ScpSpec
=============================================================================
