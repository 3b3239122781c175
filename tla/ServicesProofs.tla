--------------------------- MODULE ServicesProofs ---------------------------
(***************************************************************************)
(* Safety of the services, for every value of the constants: the bounded   *)
(* buffer of PCqueue.c is a bounded first-in first-out queue; the pending  *)
(* calls of rpc.c are those in progress, and one that returns OK was       *)
(* executed once and took its own answer; the tables of ccnet.c lead       *)
(* packets by shortest ways; the blocks of fs.c hold a sound tree, and the *)
(* volume implements Files; the lock of RWlock.c excludes and strands      *)
(* nobody.                                                                 *)
(***************************************************************************)
EXTENDS RwLock, Services, RbTreeProofs

-----------------------------------------------------------------------------
(***************************************************************************)
(* How many tasks are at some of the labels.                               *)
(***************************************************************************)
HowMany(T, p, L) == Cardinality({u \in T : p[u] \in L})
Moves(T, p, q, t, to) ==
    IsFiniteSet(T) /\ t \in T /\ q = [p EXCEPT ![t] = to] /\ p = [u \in T |-> p[u]]

\* A task that goes from one label to another leaves and joins.
LEMMA MoveCounts ==
    ASSUME NEW T, NEW p, NEW q, NEW t, NEW to, Moves(T, p, q, t, to), NEW L
    PROVE  /\ HowMany(T, p, L) \in Nat /\ HowMany(T, q, L) \in Nat
           /\ (p[t] \in L <=> to \in L) => HowMany(T, q, L) = HowMany(T, p, L)
           /\ p[t] \in L /\ to \notin L => HowMany(T, q, L) = HowMany(T, p, L) - 1
           /\ p[t] \notin L /\ to \in L => HowMany(T, q, L) = HowMany(T, p, L) + 1
<1> DEFINE P == {u \in T : p[u] \in L}
           Q == {u \in T : q[u] \in L}
<1>0. IsFiniteSet(T) /\ t \in T
  BY DEF Moves
<1>1. \A u \in T : q[u] = IF u = t THEN to ELSE p[u]
  BY DEF Moves
<1>2. IsFiniteSet(P) /\ IsFiniteSet(Q)
  <2>1. P \subseteq T /\ Q \subseteq T
    OBVIOUS
  <2> QED
    BY <1>0, <2>1, FS_Subset
<1>3. Cardinality(P) \in Nat /\ Cardinality(Q) \in Nat
  BY <1>2, FS_CardinalityType
<1>7. HowMany(T, p, L) = Cardinality(P) /\ HowMany(T, q, L) = Cardinality(Q)
  BY DEF HowMany
<1>4. CASE p[t] \in L <=> to \in L
  <2>1. P = Q
    BY <1>1, <1>4
  <2> QED
    BY <1>3, <1>4, <1>7, <2>1
<1>5. CASE p[t] \in L /\ to \notin L
  <2>1. Q = P \ {t} /\ t \in P
    BY <1>0, <1>1, <1>5
  <2> HIDE DEF P, Q
  <2>2. Cardinality(Q) = Cardinality(P) - 1
    BY <1>2, <2>1, FS_RemoveElement
  <2> QED
    BY <1>3, <1>5, <1>7, <2>2
<1>6. CASE p[t] \notin L /\ to \in L
  <2>1. Q = P \cup {t} /\ t \notin P
    BY <1>0, <1>1, <1>6
  <2> HIDE DEF P, Q
  <2>2. Cardinality(Q) = Cardinality(P) + 1
    BY <1>2, <2>1, FS_AddElement
  <2> QED
    BY <1>3, <1>6, <1>7, <2>2
<1> QED
  BY <1>4, <1>5, <1>6

\* A task at one of the labels is counted.
LEMMA AtCounts ==
    ASSUME NEW T, IsFiniteSet(T), NEW L, NEW p, NEW t \in T, p[t] \in L
    PROVE  HowMany(T, p, L) > 0
<1> DEFINE P == {u \in T : p[u] \in L}
<1>1. P \subseteq T /\ t \in P
  OBVIOUS
<1>2. IsFiniteSet(P)
  BY <1>1, FS_Subset
<1>3. Cardinality(P) \in Nat /\ Cardinality(P) # 0
  BY <1>1, <1>2, FS_CardinalityType, FS_EmptySet
<1> QED
  BY <1>3 DEF HowMany
-----------------------------------------------------------------------------
(***************************************************************************)
(* The bounded buffer.                                                     *)
(***************************************************************************)
USE QueueAssumption

\* The instance has a copy of Cardinality.
LEMMA QueueCounts ==
    ASSUME NEW S
    PROVE  PcQueue!Cardinality(S) = Cardinality(S)
BY DEF Cardinality, PcQueue!Cardinality

Carried == HowMany(QueueTasks, at, PcQueue!Carrying)
Claimed == HowMany(QueueTasks, at, PcQueue!Claiming)

\* What a move from one label to another does to the two counts.
LEMMA AtMoves ==
    ASSUME PcQueue!TypeOK, NEW t \in QueueTasks,
           NEW from, NEW to \in PcQueue!Labels, PcQueue!At(t, from, to)
    PROVE  /\ at' \in [QueueTasks -> PcQueue!Labels]
           /\ \A u \in QueueTasks : at'[u] = IF u = t THEN to ELSE at[u]
           /\ Carried \in Nat /\ Carried' \in Nat /\ Claimed \in Nat /\ Claimed' \in Nat
           /\ Carried' = IF from \in PcQueue!Carrying
                           THEN IF to \in PcQueue!Carrying THEN Carried ELSE Carried - 1
                           ELSE IF to \in PcQueue!Carrying THEN Carried + 1 ELSE Carried
           /\ Claimed' = IF from \in PcQueue!Claiming
                           THEN IF to \in PcQueue!Claiming THEN Claimed ELSE Claimed - 1
                           ELSE IF to \in PcQueue!Claiming THEN Claimed + 1 ELSE Claimed
           /\ from \in PcQueue!Carrying => Carried > 0
           /\ from \in PcQueue!Claiming => Claimed > 0
<1> DEFINE p == at
           q == at'
           L == PcQueue!Carrying
           M == PcQueue!Claiming
<1>1. Moves(QueueTasks, p, q, t, to) /\ p[t] = from
  BY DEF PcQueue!At, PcQueue!TypeOK, Moves
<1>2. q \in [QueueTasks -> PcQueue!Labels] /\ \A u \in QueueTasks : q[u] = IF u = t THEN to ELSE p[u]
  BY <1>1 DEF PcQueue!TypeOK, Moves
<1>4. /\ Carried = HowMany(QueueTasks, p, L) /\ Carried' = HowMany(QueueTasks, q, L)
      /\ Claimed = HowMany(QueueTasks, p, M) /\ Claimed' = HowMany(QueueTasks, q, M)
  BY DEF Carried, Claimed, PcQueue!Carrying, PcQueue!Claiming
<1> HIDE DEF p, q, L, M
<1>5. /\ HowMany(QueueTasks, p, L) \in Nat /\ HowMany(QueueTasks, q, L) \in Nat
      /\ (p[t] \in L <=> to \in L) => HowMany(QueueTasks, q, L) = HowMany(QueueTasks, p, L)
      /\ p[t] \in L /\ to \notin L => HowMany(QueueTasks, q, L) = HowMany(QueueTasks, p, L) - 1
      /\ p[t] \notin L /\ to \in L => HowMany(QueueTasks, q, L) = HowMany(QueueTasks, p, L) + 1
  BY <1>1, MoveCounts
<1>6. /\ HowMany(QueueTasks, p, M) \in Nat /\ HowMany(QueueTasks, q, M) \in Nat
      /\ (p[t] \in M <=> to \in M) => HowMany(QueueTasks, q, M) = HowMany(QueueTasks, p, M)
      /\ p[t] \in M /\ to \notin M => HowMany(QueueTasks, q, M) = HowMany(QueueTasks, p, M) - 1
      /\ p[t] \notin M /\ to \in M => HowMany(QueueTasks, q, M) = HowMany(QueueTasks, p, M) + 1
  BY <1>1, MoveCounts
<1>7. (from \in L => Carried > 0) /\ (from \in M => Claimed > 0)
  BY <1>1, <1>4, AtCounts
<1>8. /\ Carried \in Nat /\ Carried' \in Nat /\ Claimed \in Nat /\ Claimed' \in Nat
      /\ Carried' = IF from \in L THEN IF to \in L THEN Carried ELSE Carried - 1
                                  ELSE IF to \in L THEN Carried + 1 ELSE Carried
      /\ Claimed' = IF from \in M THEN IF to \in M THEN Claimed ELSE Claimed - 1
                                  ELSE IF to \in M THEN Claimed + 1 ELSE Claimed
  BY <1>1, <1>4, <1>5, <1>6
<1> QED
  BY <1>2, <1>7, <1>8 DEF p, q, L, M

LEMMA QueueInit ==
    ASSUME PcQueue!Init
    PROVE  PcQueue!IInv /\ PcQueue!Inside = 0
<1>1. Carried = 0 /\ Claimed = 0
  <2>1. /\ {u \in QueueTasks : at[u] \in PcQueue!Carrying} = {}
        /\ {u \in QueueTasks : at[u] \in PcQueue!Claiming} = {}
    BY DEF PcQueue!Init, PcQueue!Carrying, PcQueue!Claiming
  <2> QED
    BY <2>1, FS_EmptySet DEF Carried, Claimed, HowMany
<1>2. PcQueue!Inside = 0
  BY <1>1, QueueCounts DEF Carried, HowMany, PcQueue!Inside, PcQueue!Init
<1>3. PcQueue!TypeOK
  BY DEF PcQueue!Init, PcQueue!TypeOK, PcQueue!Slots, PcQueue!Labels
<1>4. PcQueue!SlotsAccountedFor
  BY <1>1, <1>2, QueueCounts DEF Claimed, HowMany, PcQueue!SlotsAccountedFor, PcQueue!Init
<1>5. PcQueue!WriteFollowsContents
  <2>1. 0 % BufferSize = 0
    BY SmallMod
  <2> QED
    BY <1>2, <2>1 DEF PcQueue!WriteFollowsContents, PcQueue!Init
<1>6. PcQueue!WritersHoldMessage
  BY DEF PcQueue!WritersHoldMessage, PcQueue!Init
<1> QED
  BY <1>2, <1>3, <1>4, <1>5, <1>6 DEF PcQueue!IInv

\* The invariant in terms of the counts.
LEMMA QueueFacts ==
    ASSUME PcQueue!IInv
    PROVE  /\ PcQueue!Inside = item + Carried
           /\ Carried \in Nat /\ Claimed \in Nat /\ PcQueue!Inside \in Nat
           /\ item \in Nat /\ space \in Nat /\ in \in Int /\ out \in Int
           /\ space + PcQueue!Inside + Claimed = BufferSize
           /\ in = ((out - 1) + (PcQueue!Inside + 1)) % BufferSize
<1>1. PcQueue!Inside = item + Carried
  BY QueueCounts DEF PcQueue!Inside, Carried, HowMany
<1>2. space + PcQueue!Inside + Claimed = BufferSize
  BY QueueCounts DEF PcQueue!IInv, PcQueue!SlotsAccountedFor, Claimed, HowMany
<1>3. Carried \in Nat /\ Claimed \in Nat
  <2>1. /\ {u \in QueueTasks : at[u] \in PcQueue!Carrying} \subseteq QueueTasks
        /\ {u \in QueueTasks : at[u] \in PcQueue!Claiming} \subseteq QueueTasks
    OBVIOUS
  <2> QED
    BY <2>1, FS_Subset, FS_CardinalityType DEF Carried, Claimed, HowMany
<1>4. item \in Nat /\ space \in Nat /\ in \in Int /\ out \in Int
  BY DEF PcQueue!IInv, PcQueue!TypeOK, PcQueue!Slots
<1>5. in = ((out - 1) + (PcQueue!Inside + 1)) % BufferSize
  BY DEF PcQueue!IInv, PcQueue!WriteFollowsContents
<1> QED
  BY <1>1, <1>2, <1>3, <1>4, <1>5

\* A step of one task keeps the invariant, if it takes the tokens, moves the
\* ends and holds the message as it should.
LEMMA QueueMove ==
    ASSUME PcQueue!TypeOK', PcQueue!WritersHoldMessage',
           space' + (item' + Carried') + Claimed' = BufferSize,
           in' = ((out' - 1) + ((item' + Carried') + 1)) % BufferSize
    PROVE  PcQueue!IInv' /\ PcQueue!Inside' = item' + Carried'
<1>1. PcQueue!Inside' = item' + Carried'
  BY QueueCounts DEF PcQueue!Inside, Carried, HowMany, PcQueue!Carrying
<1>2. PcQueue!SlotsAccountedFor'
  BY <1>1, QueueCounts DEF PcQueue!SlotsAccountedFor, Claimed, HowMany, PcQueue!Claiming
<1>3. PcQueue!WriteFollowsContents'
  BY <1>1 DEF PcQueue!WriteFollowsContents
<1> QED
  BY <1>1, <1>2, <1>3 DEF PcQueue!IInv

\* The tokens are taken and given back: nothing moves in the buffer.
LEMMA QueueTokens ==
    ASSUME PcQueue!IInv, NEW t \in QueueTasks,
           \/ \E m \in Messages : PcQueue!pc_queue_send(t, m)
           \/ PcQueue!send_release(t)
           \/ PcQueue!pc_queue_recv(t)
           \/ PcQueue!recv_release(t)
    PROVE  /\ PcQueue!IInv'
           /\ UNCHANGED <<PcQueue!Contents, received>>
<1> DEFINE P == /\ PcQueue!TypeOK' /\ PcQueue!WritersHoldMessage'
                /\ space' + (item' + Carried') + Claimed' = BufferSize
                /\ item' + Carried' = item + Carried
<1>0. /\ item \in Nat /\ space \in Nat /\ Carried \in Nat /\ Claimed \in Nat
      /\ space + (item + Carried) + Claimed = BufferSize
  BY QueueFacts
<1>1. PcQueue!TypeOK /\ PcQueue!WritersHoldMessage
  BY DEF PcQueue!IInv
<1>2. UNCHANGED <<buf, in, out, received>>
  BY DEF PcQueue!pc_queue_send, PcQueue!send_release, PcQueue!pc_queue_recv, PcQueue!recv_release
<1>3. ASSUME NEW m \in Messages, PcQueue!pc_queue_send(t, m) PROVE P
  <2>1. /\ PcQueue!At(t, "idle", "writing") /\ space > 0 /\ space' = space - 1
        /\ value' = [value EXCEPT ![t] = m] /\ UNCHANGED item
    BY <1>3 DEF PcQueue!pc_queue_send
  <2>2. /\ at' \in [QueueTasks -> PcQueue!Labels]
        /\ \A u \in QueueTasks : at'[u] = IF u = t THEN "writing" ELSE at[u]
        /\ Carried' = Carried /\ Claimed' = Claimed + 1
    <3>1. "writing" \in PcQueue!Labels
      BY DEF PcQueue!Labels
    <3> QED
      BY <1>1, <2>1, <3>1, AtMoves DEF PcQueue!Carrying, PcQueue!Claiming
  <2>3. PcQueue!TypeOK'
    <3>1. item' \in Nat /\ space' \in Nat
      BY <1>0, <2>1
    <3>2. value' \in [QueueTasks -> Messages \cup {NoMessage}]
      BY <1>1, <2>1 DEF PcQueue!TypeOK
    <3> QED
      BY <1>1, <1>2, <2>2, <3>1, <3>2 DEF PcQueue!TypeOK
  <2>4. PcQueue!WritersHoldMessage'
    BY <1>1, <2>1, <2>2 DEF PcQueue!WritersHoldMessage, PcQueue!TypeOK
  <2> QED
    BY <1>0, <2>1, <2>2, <2>3, <2>4
<1>4. ASSUME PcQueue!send_release(t) PROVE P
  <2>1. /\ PcQueue!At(t, "written", "idle") /\ item' = item + 1
        /\ UNCHANGED <<space, value>>
    BY <1>4 DEF PcQueue!send_release
  <2>2. /\ at' \in [QueueTasks -> PcQueue!Labels]
        /\ \A u \in QueueTasks : at'[u] = IF u = t THEN "idle" ELSE at[u]
        /\ Carried' = Carried - 1 /\ Claimed' = Claimed
    <3>1. "idle" \in PcQueue!Labels
      BY DEF PcQueue!Labels
    <3> QED
      BY <1>1, <2>1, <3>1, AtMoves DEF PcQueue!Carrying, PcQueue!Claiming
  <2>3. PcQueue!TypeOK'
    <3>1. item' \in Nat /\ space' \in Nat
      BY <1>0, <2>1
    <3>2. value' \in [QueueTasks -> Messages \cup {NoMessage}]
      BY <1>1, <2>1 DEF PcQueue!TypeOK
    <3> QED
      BY <1>1, <1>2, <2>2, <3>1, <3>2 DEF PcQueue!TypeOK
  <2>4. PcQueue!WritersHoldMessage'
    BY <1>1, <2>1, <2>2 DEF PcQueue!WritersHoldMessage
  <2> QED
    BY <1>0, <2>1, <2>2, <2>3, <2>4
<1>5. ASSUME PcQueue!pc_queue_recv(t) PROVE P
  <2>1. /\ PcQueue!At(t, "idle", "reading") /\ item > 0 /\ item' = item - 1
        /\ UNCHANGED <<space, value>>
    BY <1>5 DEF PcQueue!pc_queue_recv
  <2>2. /\ at' \in [QueueTasks -> PcQueue!Labels]
        /\ \A u \in QueueTasks : at'[u] = IF u = t THEN "reading" ELSE at[u]
        /\ Carried' = Carried + 1 /\ Claimed' = Claimed
    <3>1. "reading" \in PcQueue!Labels
      BY DEF PcQueue!Labels
    <3> QED
      BY <1>1, <2>1, <3>1, AtMoves DEF PcQueue!Carrying, PcQueue!Claiming
  <2>3. PcQueue!TypeOK'
    <3>1. item' \in Nat /\ space' \in Nat
      BY <1>0, <2>1
    <3>2. value' \in [QueueTasks -> Messages \cup {NoMessage}]
      BY <1>1, <2>1 DEF PcQueue!TypeOK
    <3> QED
      BY <1>1, <1>2, <2>2, <3>1, <3>2 DEF PcQueue!TypeOK
  <2>4. PcQueue!WritersHoldMessage'
    BY <1>1, <2>1, <2>2 DEF PcQueue!WritersHoldMessage
  <2> QED
    BY <1>0, <2>1, <2>2, <2>3, <2>4
<1>6. ASSUME PcQueue!recv_release(t) PROVE P
  <2>1. /\ PcQueue!At(t, "read", "idle") /\ space' = space + 1
        /\ UNCHANGED <<item, value>>
    BY <1>6 DEF PcQueue!recv_release
  <2>2. /\ at' \in [QueueTasks -> PcQueue!Labels]
        /\ \A u \in QueueTasks : at'[u] = IF u = t THEN "idle" ELSE at[u]
        /\ Carried' = Carried /\ Claimed' = Claimed - 1
    <3>1. "idle" \in PcQueue!Labels
      BY DEF PcQueue!Labels
    <3> QED
      BY <1>1, <2>1, <3>1, AtMoves DEF PcQueue!Carrying, PcQueue!Claiming
  <2>3. PcQueue!TypeOK'
    <3>1. item' \in Nat /\ space' \in Nat
      BY <1>0, <2>1
    <3>2. value' \in [QueueTasks -> Messages \cup {NoMessage}]
      BY <1>1, <2>1 DEF PcQueue!TypeOK
    <3> QED
      BY <1>1, <1>2, <2>2, <3>1, <3>2 DEF PcQueue!TypeOK
  <2>4. PcQueue!WritersHoldMessage'
    BY <1>1, <2>1, <2>2 DEF PcQueue!WritersHoldMessage
  <2> QED
    BY <1>0, <2>1, <2>2, <2>3, <2>4
<1>7. P
  BY <1>3, <1>4, <1>5, <1>6
<1>8. in' = ((out' - 1) + ((item' + Carried') + 1)) % BufferSize
  BY <1>2, <1>7, QueueFacts
<1>9. PcQueue!IInv' /\ PcQueue!Inside' = PcQueue!Inside
  <2>1. PcQueue!IInv' /\ PcQueue!Inside' = item' + Carried'
    BY <1>7, <1>8, QueueMove
  <2> QED
    BY <1>7, <2>1, QueueFacts
<1> QED
  BY <1>2, <1>9 DEF PcQueue!Contents

\* What is inside, as a stretch of the ring.
LEMMA ContentsIs ==
    PcQueue!Contents = Ring(buf, out - 1, PcQueue!Inside, BufferSize)
BY DEF PcQueue!Contents, Ring

\* A sender writes: it is one of those that are not counted inside yet, so
\* there is room, and its message goes behind the others.
LEMMA QueueWrites ==
    ASSUME PcQueue!IInv, NEW t \in QueueTasks,
           PcQueue!send_write(t)
    PROVE  /\ PcQueue!IInv'
           /\ PcQueue!Fifo!Send(value[t])
           /\ value[t] \in Messages
<1> DEFINE n == PcQueue!Inside
           b == out - 1
           S == Messages \cup {NoMessage}
<1>1. /\ item \in Nat /\ Carried \in Nat /\ Claimed \in Nat /\ n = item + Carried
      /\ space \in Nat /\ n \in Nat /\ in \in Int /\ out \in Int
      /\ space + n + Claimed = BufferSize /\ in = (b + (n + 1)) % BufferSize
  BY QueueFacts
<1>2. PcQueue!TypeOK /\ PcQueue!WritersHoldMessage
  BY DEF PcQueue!IInv
<1>3. /\ PcQueue!At(t, "writing", "written") /\ buf' = [buf EXCEPT ![in] = value[t]]
      /\ in' = (in + 1) % BufferSize /\ value' = [value EXCEPT ![t] = NoMessage]
      /\ UNCHANGED <<out, item, space, received>> /\ at[t] = "writing"
  BY DEF PcQueue!send_write, PcQueue!At
<1>4. /\ at' \in [QueueTasks -> PcQueue!Labels]
      /\ \A u \in QueueTasks : at'[u] = IF u = t THEN "written" ELSE at[u]
      /\ Carried' = Carried + 1 /\ Claimed' = Claimed - 1 /\ Claimed > 0
  <2>1. "written" \in PcQueue!Labels
    BY DEF PcQueue!Labels
  <2> QED
    BY <1>2, <1>3, <2>1, AtMoves DEF PcQueue!Carrying, PcQueue!Claiming
<1>5. value[t] \in Messages
  BY <1>2, <1>3 DEF PcQueue!WritersHoldMessage
<1>6. in' = (b + ((n + 1) + 1)) % BufferSize /\ in' \in 0..(BufferSize - 1)
  <2> DEFINE x == b + (n + 1)
  <2>1. x \in Int /\ x + 1 = b + ((n + 1) + 1)
    BY <1>1
  <2>2. in = x % BufferSize
    BY <1>1
  <2> HIDE DEF x
  <2>3. in' = (x + 1) % BufferSize
    <3>1. BufferSize \in Nat /\ BufferSize > 0
      OBVIOUS
    <3> QED
      BY <1>3, <2>1, <2>2, <3>1, NextMod
  <2>4. (x + 1) % BufferSize \in 0..(BufferSize - 1)
    BY <2>1
  <2> QED
    BY <2>1, <2>3, <2>4
<1>7. PcQueue!TypeOK'
  <2>1. value' \in [QueueTasks -> S] /\ buf' \in [PcQueue!Slots -> S]
    BY <1>2, <1>3, <1>5 DEF PcQueue!TypeOK
  <2>2. in' \in PcQueue!Slots
    BY <1>6 DEF PcQueue!Slots
  <2> QED
    BY <1>2, <1>3, <1>4, <2>1, <2>2 DEF PcQueue!TypeOK
<1>8. PcQueue!WritersHoldMessage'
  BY <1>2, <1>3, <1>4 DEF PcQueue!WritersHoldMessage, PcQueue!TypeOK
<1>9. PcQueue!IInv' /\ PcQueue!Inside' = n + 1
  <2>1. /\ space' + (item' + Carried') + Claimed' = BufferSize
        /\ item' + Carried' = n + 1
    BY <1>1, <1>3, <1>4
  <2>2. in' = ((out' - 1) + ((item' + Carried') + 1)) % BufferSize
    BY <1>3, <1>6, <2>1
  <2>3. PcQueue!IInv' /\ PcQueue!Inside' = item' + Carried'
    BY <1>7, <1>8, <2>1, <2>2, QueueMove
  <2> QED
    BY <2>1, <2>3
<1>10. PcQueue!Contents' = Append(PcQueue!Contents, value[t]) /\ Len(PcQueue!Contents) = n
  <2>1. PcQueue!Contents' = Ring(buf', b, n + 1, BufferSize)
    BY <1>3, <1>9 DEF PcQueue!Contents, Ring
  <2>2. /\ n < BufferSize /\ BufferSize \in Nat /\ BufferSize > 0 /\ b \in Int /\ n \in Nat
        /\ value[t] \in S
        /\ InRing(buf, b, n, BufferSize, S)
    BY <1>1, <1>2, <1>4, <1>5 DEF PcQueue!TypeOK, PcQueue!Slots, InRing
  <2>0. RoomFor(buf, b, n, BufferSize, S, value[t])
    BY <2>2 DEF RoomFor
  <2>3. buf' = PutBehind(buf, b, n, BufferSize, value[t])
    BY <1>1, <1>3 DEF PutBehind
  <2> DEFINE c == PcQueue!Contents
  <2>4. c = Ring(buf, b, n, BufferSize)
    BY ContentsIs
  <2> HIDE DEF b, n, S, c
  <2>5. Ring(buf', b, n + 1, BufferSize) = Append(c, value[t])
    BY <2>0, <2>3, <2>4, RingAppend
  <2>6. Len(c) = n
    BY <2>2, <2>4, RingIs
  <2> QED
    BY <2>1, <2>5, <2>6 DEF c
<1>11. n < BufferSize
  BY <1>1, <1>4
<1> QED
  BY <1>3, <1>5, <1>9, <1>10, <1>11 DEF PcQueue!Fifo!Send

\* A receiver reads: it is one of those that are counted inside, so there is a
\* message, and it takes the first.
LEMMA QueueReads ==
    ASSUME PcQueue!IInv, NEW t \in QueueTasks,
           PcQueue!recv_read(t)
    PROVE  /\ PcQueue!IInv'
           /\ PcQueue!Fifo!Receive(t)
<1> DEFINE n == PcQueue!Inside
           b == out - 1
           S == Messages \cup {NoMessage}
<1>1. /\ item \in Nat /\ Carried \in Nat /\ Claimed \in Nat /\ n = item + Carried
      /\ space \in Nat /\ n \in Nat /\ in \in Int /\ out \in Int
      /\ space + n + Claimed = BufferSize /\ in = (b + (n + 1)) % BufferSize
  BY QueueFacts
<1>2. PcQueue!TypeOK /\ PcQueue!WritersHoldMessage
  BY DEF PcQueue!IInv
<1>3. /\ PcQueue!At(t, "reading", "read") /\ received' = [received EXCEPT ![t] = buf[out]]
      /\ out' = (out + 1) % BufferSize
      /\ UNCHANGED <<buf, in, item, space, value>> /\ at[t] = "reading"
  BY DEF PcQueue!recv_read, PcQueue!At
<1>4. /\ at' \in [QueueTasks -> PcQueue!Labels]
      /\ \A u \in QueueTasks : at'[u] = IF u = t THEN "read" ELSE at[u]
      /\ Carried' = Carried - 1 /\ Claimed' = Claimed + 1 /\ Carried > 0
  <2>1. "read" \in PcQueue!Labels
    BY DEF PcQueue!Labels
  <2> QED
    BY <1>2, <1>3, <2>1, AtMoves DEF PcQueue!Carrying, PcQueue!Claiming
<1>5. /\ BufferSize \in Nat /\ BufferSize > 0 /\ out \in 0..(BufferSize - 1)
      /\ buf \in [0..(BufferSize - 1) -> S] /\ out' \in 0..(BufferSize - 1)
      /\ n > 0 /\ n - 1 \in Nat
  <2>1. out \in 0..(BufferSize - 1) /\ buf \in [0..(BufferSize - 1) -> S]
    BY <1>2 DEF PcQueue!TypeOK, PcQueue!Slots
  <2>2. (out + 1) % BufferSize \in 0..(BufferSize - 1)
    BY <2>1
  <2> QED
    BY <1>1, <1>3, <1>4, <2>1, <2>2
<1>6. PcQueue!TypeOK'
  <2>1. received' \in [QueueTasks -> S]
    BY <1>2, <1>3, <1>5 DEF PcQueue!TypeOK
  <2>2. out' \in PcQueue!Slots
    BY <1>5 DEF PcQueue!Slots
  <2> QED
    BY <1>2, <1>3, <1>4, <2>1, <2>2 DEF PcQueue!TypeOK
<1>7. PcQueue!WritersHoldMessage'
  BY <1>2, <1>3, <1>4 DEF PcQueue!WritersHoldMessage
<1>8. in = ((out' - 1) + ((n - 1) + 1)) % BufferSize
  <2> DEFINE w == (out + 1) % BufferSize
  <2>1. w \in Int
    BY <1>3, <1>5
  <2>2. (w + (n - 1)) % BufferSize = (out + n) % BufferSize
    BY <1>1, <1>5, UpMod
  <2>3. out' = w
    BY <1>3
  <2> HIDE DEF w
  <2>4. w + (n - 1) = (w - 1) + ((n - 1) + 1) /\ out + n = b + (n + 1)
    BY <1>1, <2>1
  <2> QED
    BY <1>1, <2>2, <2>3, <2>4
<1>9. PcQueue!IInv' /\ PcQueue!Inside' = n - 1
  <2>1. /\ space' + (item' + Carried') + Claimed' = BufferSize
        /\ item' + Carried' = n - 1
    BY <1>1, <1>3, <1>4
  <2>2. in' = ((out' - 1) + ((item' + Carried') + 1)) % BufferSize
    BY <1>3, <1>8, <2>1
  <2>3. PcQueue!IInv' /\ PcQueue!Inside' = item' + Carried'
    BY <1>6, <1>7, <2>1, <2>2, QueueMove
  <2> QED
    BY <2>1, <2>3
<1>10. /\ PcQueue!Contents # <<>>
       /\ Head(PcQueue!Contents) = buf[out]
       /\ PcQueue!Contents' = Tail(PcQueue!Contents)
  <2>1. PcQueue!Contents' = Ring(buf, ((out + 1) % BufferSize) + (-1), n - 1, BufferSize)
    <3>1. out' - 1 = ((out + 1) % BufferSize) + (-1)
      BY <1>3, <1>5
    <3> QED
      BY <1>3, <1>9, <3>1 DEF PcQueue!Contents, Ring
  <2>2. b + 1 = out /\ out % BufferSize = out /\ b \in Int /\ (out + (-1)) + 1 = b + 1
    BY <1>1, <1>5, SmallMod
  <2> DEFINE m == n - 1
             c == PcQueue!Contents
  <2>3. m \in Nat /\ n \in Nat /\ n > 0
    BY <1>1, <1>5
  <2>4. c = Ring(buf, b, n, BufferSize)
    BY ContentsIs
  <2> HIDE DEF n, b, S, c
  <2>5. /\ c # <<>> /\ Head(c) = buf[out]
        /\ Tail(c) = Ring(buf, b + 1, n - 1, BufferSize)
    <3>1. SomeIn(buf, b, n, BufferSize, S)
      BY <1>5, <2>2, <2>3 DEF SomeIn, InRing
    <3>2. /\ c # <<>> /\ Head(c) = buf[(b + 1) % BufferSize]
          /\ Tail(c) = Ring(buf, b + 1, n - 1, BufferSize)
      BY <2>4, <3>1, RingTail
    <3> QED
      BY <2>2, <3>2
  <2>6. Ring(buf, ((out + 1) % BufferSize) + (-1), m, BufferSize)
            = Ring(buf, (out + (-1)) + 1, m, BufferSize)
    <3> HIDE DEF m
    <3>1. -1 \in Int
      OBVIOUS
    <3> QED
      BY <1>5, <2>3, <3>1, RingTurn
  <2> QED
    BY <2>1, <2>2, <2>5, <2>6 DEF c
<1> QED
  BY <1>3, <1>9, <1>10 DEF PcQueue!Fifo!Receive

LEMMA QueueStep ==
    ASSUME PcQueue!IInv,
           [PcQueue!Next]_PcQueue!vars
    PROVE  PcQueue!IInv' /\ [PcQueue!Fifo!Next]_<<PcQueue!Contents, received>>
<1>1. ASSUME NEW t \in QueueTasks, PcQueue!send_write(t)
      PROVE  PcQueue!IInv' /\ PcQueue!Fifo!Next
  BY <1>1, QueueWrites DEF PcQueue!Fifo!Next
<1>2. ASSUME NEW t \in QueueTasks, PcQueue!recv_read(t)
      PROVE  PcQueue!IInv' /\ PcQueue!Fifo!Next
  BY <1>2, QueueReads DEF PcQueue!Fifo!Next
<1>3. ASSUME NEW t \in QueueTasks,
             \/ \E m \in Messages : PcQueue!pc_queue_send(t, m)
             \/ PcQueue!send_release(t)
             \/ PcQueue!pc_queue_recv(t)
             \/ PcQueue!recv_release(t)
      PROVE  PcQueue!IInv' /\ UNCHANGED <<PcQueue!Contents, received>>
  BY <1>3, QueueTokens
<1>4. CASE UNCHANGED PcQueue!vars
  <2>1. UNCHANGED <<buf, in, out, item, space, at, value, received>>
    BY <1>4 DEF PcQueue!vars
  <2>2. PcQueue!Inside' = PcQueue!Inside
    BY <2>1 DEF PcQueue!Inside, PcQueue!Carrying
  <2>3. /\ UNCHANGED <<PcQueue!Contents, received>>
        /\ PcQueue!WriteFollowsContents'
    BY <2>1, <2>2 DEF PcQueue!Contents, PcQueue!WriteFollowsContents, PcQueue!IInv
  <2>4. PcQueue!TypeOK' /\ PcQueue!WritersHoldMessage' /\ PcQueue!SlotsAccountedFor'
    BY <2>1, <2>2 DEF PcQueue!IInv, PcQueue!TypeOK, PcQueue!Slots, PcQueue!Labels,
                      PcQueue!WritersHoldMessage, PcQueue!SlotsAccountedFor, PcQueue!Claiming
  <2> QED
    BY <2>3, <2>4 DEF PcQueue!IInv
<1> QED
  BY <1>1, <1>2, <1>3, <1>4 DEF PcQueue!Next

\* The tokens of the two semaphores account for every slot, whoever is under
\* way, and the next message goes behind those that are inside.
THEOREM QueueInvariant ==
    PcQueue!Spec => []PcQueue!IInv
<1>1. PcQueue!Init => PcQueue!IInv
  BY QueueInit
<1>2. PcQueue!IInv /\ [PcQueue!Next]_PcQueue!vars => PcQueue!IInv'
  BY QueueStep
<1> QED
  BY <1>1, <1>2, PTL DEF PcQueue!Spec

\* pc_queue_send and pc_queue_recv make a bounded first-in first-out queue of
\* the buffer, with any number of tasks on either side: a task between its
\* semaphore and scheduler_lock can be overtaken, and nothing is lost, doubled
\* or written over.
THEOREM QueueIsFifo ==
    PcQueue!Spec => PcQueue!ImplementsFifo /\ ImplementsFifo
<1>1. PcQueue!Init => PcQueue!Fifo!Init
  <2> SUFFICES ASSUME PcQueue!Init PROVE PcQueue!Contents = <<>>
    BY DEF PcQueue!Init, PcQueue!Fifo!Init
  <2> DEFINE c == PcQueue!Contents
             n == PcQueue!Inside
             b == out - 1
             S == Messages \cup {NoMessage}
  <2>1. PcQueue!IInv /\ n = 0
    BY QueueInit
  <2>2. InRing(buf, b, n, BufferSize, S)
    BY <2>1 DEF PcQueue!Init, InRing
  <2>3. c = Ring(buf, b, n, BufferSize)
    BY ContentsIs
  <2> HIDE DEF c, n, b, S
  <2>4. c \in Seq(S) /\ Len(c) = n
    BY <2>2, <2>3, RingIs
  <2>5. c = <<>>
    BY <2>1, <2>4
  <2> QED
    BY <2>5 DEF c
<1>2. PcQueue!IInv /\ [PcQueue!Next]_PcQueue!vars
          => [PcQueue!Fifo!Step]_<<PcQueue!Contents, received>>
  BY QueueStep DEF PcQueue!Fifo!Step
<1>3. PcQueue!Spec => PcQueue!ImplementsFifo
  BY <1>1, <1>2, QueueInvariant, PTL DEF PcQueue!Spec, PcQueue!ImplementsFifo, PcQueue!Fifo!Spec
<1>4. PcQueue!IInv /\ [PcQueue!Next]_PcQueue!vars
          => [part = "pcqueue" => PcQueue!Fifo!Step]_<<buf, out, item, at, received>>
  BY QueueStep DEF PcQueue!Fifo!Step
<1>5. PcQueue!Init => (part = "pcqueue" => PcQueue!Fifo!Init)
  BY <1>1
<1>6. PcQueue!Spec => ImplementsFifo
  BY <1>4, <1>5, QueueInvariant, PTL DEF PcQueue!Spec, ImplementsFifo
<1> QED
  BY <1>3, <1>6
-----------------------------------------------------------------------------
(***************************************************************************)
(* Calls between nodes.                                                    *)
(***************************************************************************)
\* How FlattenSeq gets at its result: f[i] is the first i sequences in a row.
Flattens(f, seqs, n) ==
    f = [i \in 1..n |-> IF i = 1 THEN seqs[i] ELSE f[i - 1] \o seqs[i]]

LEMMA FlattenType ==
    ASSUME NEW S, NEW n \in Nat, NEW seqs \in [1..n -> Seq(S)]
    PROVE  Rpc!FlattenSeq(seqs) \in Seq(S)
<1>1. seqs \in Seq(Seq(S)) /\ Len(seqs) = n
  <2>1. seqs \in Seq(Seq(S)) /\ DOMAIN seqs = 1..n
    OBVIOUS
  <2> QED
    BY <2>1
<1>2. CASE n = 0
  <2>1. seqs \in Seq(S)
    BY <1>1, <1>2
  <2> QED
    BY <1>1, <1>2, <2>1 DEF Rpc!FlattenSeq
<1>3. CASE n > 0
  <2>1. \E f : Flattens(f, seqs, n)
    <3> DEFINE T == {m \in Nat : m > 0 /\ m <= n =>
                        \E f \in [1..m -> Seq(S)] : Flattens(f, seqs, m)}
    <3>1. 0 \in T
      OBVIOUS
    <3>2. ASSUME NEW m \in Nat, m \in T PROVE m + 1 \in T
      <4> SUFFICES ASSUME m + 1 <= n
                   PROVE  \E f \in [1..(m + 1) -> Seq(S)] : Flattens(f, seqs, m + 1)
        OBVIOUS
      <4>1. CASE m = 0
        <5> DEFINE f == [i \in 1..(m + 1) |-> seqs[1]]
        <5>1. seqs[1] \in Seq(S)
          BY <1>3
        <5>2. f \in [1..(m + 1) -> Seq(S)]
          BY <5>1
        <5>3. f = [i \in 1..(m + 1) |-> IF i = 1 THEN seqs[i] ELSE f[i - 1] \o seqs[i]]
          BY <4>1
        <5>4. Flattens(f, seqs, m + 1)
          BY <5>3 DEF Flattens
        <5> HIDE DEF f
        <5> QED
          BY <5>2, <5>4
      <4>2. CASE m > 0
        <5>1. PICK f \in [1..m -> Seq(S)] : Flattens(f, seqs, m)
          BY <3>2, <4>2
        <5> DEFINE last == f[m] \o seqs[m + 1]
                   g == [i \in 1..(m + 1) |-> IF i = m + 1 THEN last ELSE f[i]]
        <5>2. last \in Seq(S)
          BY <4>2
        <5>3. last = f[m] \o seqs[m + 1]
          OBVIOUS
        <5> HIDE DEF last
        <5>4. /\ g \in [1..(m + 1) -> Seq(S)]
              /\ g[m + 1] = last /\ \A i \in 1..m : g[i] = f[i]
          BY <5>2
        <5> HIDE DEF g
        <5>5. ASSUME NEW i \in 1..(m + 1)
              PROVE  g[i] = IF i = 1 THEN seqs[i] ELSE g[i - 1] \o seqs[i]
          <6>1. CASE i = m + 1
            <7>1. i - 1 = m /\ m \in 1..m /\ i # 1
              BY <4>2, <6>1
            <7> QED
              BY <5>3, <5>4, <6>1, <7>1
          <6>2. CASE i # m + 1
            <7>1. i \in 1..m
              BY <6>2
            <7>2. f[i] = IF i = 1 THEN seqs[i] ELSE f[i - 1] \o seqs[i]
              BY <5>1, <7>1 DEF Flattens
            <7>3. i # 1 => i - 1 \in 1..m
              BY <7>1
            <7> QED
              BY <5>4, <7>1, <7>2, <7>3
          <6> QED
            BY <6>1, <6>2
        <5>6. g = [i \in 1..(m + 1) |-> g[i]]
          BY <5>4
        <5>7. g = [i \in 1..(m + 1) |-> IF i = 1 THEN seqs[i] ELSE g[i - 1] \o seqs[i]]
          BY <5>5, <5>6
        <5>8. Flattens(g, seqs, m + 1)
          BY <5>7 DEF Flattens
        <5> QED
          BY <5>4, <5>8
      <4> QED
        BY <4>1, <4>2
    <3> HIDE DEF T
    <3>3. n \in T
      BY <3>1, <3>2, Induction
    <3> QED
      BY <1>3, <3>3 DEF T
  <2> DEFINE c == CHOOSE f : Flattens(f, seqs, n)
  <2>2. Flattens(c, seqs, n)
    BY <2>1
  <2>3. Rpc!FlattenSeq(seqs) = c[n]
    BY <1>1, <1>3 DEF Rpc!FlattenSeq, Flattens
  <2> HIDE DEF c
  <2>4. ASSUME NEW i \in 1..n
        PROVE  c[i] = IF i = 1 THEN seqs[i] ELSE c[i - 1] \o seqs[i]
    BY <2>2 DEF Flattens
  <2>5. c[n] \in Seq(S)
    <3> DEFINE T == {m \in Nat : m > 0 /\ m <= n => c[m] \in Seq(S)}
    <3>1. 0 \in T
      OBVIOUS
    <3>2. ASSUME NEW m \in Nat, m \in T PROVE m + 1 \in T
      <4> SUFFICES ASSUME m + 1 <= n PROVE c[m + 1] \in Seq(S)
        OBVIOUS
      <4>1. m + 1 \in 1..n /\ (m + 1) - 1 = m
        OBVIOUS
      <4>2. c[m + 1] = IF m + 1 = 1 THEN seqs[m + 1] ELSE c[m] \o seqs[m + 1]
        BY <2>4, <4>1
      <4>3. seqs[m + 1] \in Seq(S)
        BY <4>1
      <4>4. m > 0 => c[m] \in Seq(S)
        BY <3>2
      <4> QED
        BY <4>2, <4>3, <4>4
    <3> HIDE DEF T
    <3>3. n \in T
      BY <3>1, <3>2, Induction
    <3> QED
      BY <1>3, <3>3 DEF T
  <2> QED
    BY <2>3, <2>5
<1> QED
  BY <1>2, <1>3

LEMMA CallsCount ==
    ASSUME NEW S
    PROVE  Rpc!Cardinality(S) = Cardinality(S) /\ Rpc!IsFiniteSet(S) = IsFiniteSet(S)
BY DEF Cardinality, Rpc!Cardinality, IsFiniteSet, Rpc!IsFiniteSet

\* The constants, as the code has them.
LEMMA CallConstants ==
    /\ IsFiniteSet(Callers) /\ CallHome \in [Callers -> CallNodes]
    /\ CallPieces \in Nat /\ CallPieces > 0
    /\ \A n \in CallNodes : /\ Rpc!Peer(n) \in CallNodes /\ Rpc!Peer(n) # n
                            /\ \A m \in CallNodes : m = n \/ m = Rpc!Peer(n)
<1>1. PICK a \in CallNodes, b \in CallNodes : a # b /\ CallNodes = {a, b}
  BY CallAssumption DEF Rpc!Assumption
<1>2. \A n \in CallNodes : /\ Rpc!Peer(n) \in CallNodes /\ Rpc!Peer(n) # n
                           /\ \A m \in CallNodes : m = n \/ m = Rpc!Peer(n)
  BY <1>1 DEF Rpc!Peer
<1> QED
  BY <1>2, CallAssumption, CallsCount DEF Rpc!Assumption

LEMMA CallSize ==
    ASSUME Rpc!TypeOK
    PROVE  /\ size.callers \subseteq Callers /\ size.calls \in Nat
           /\ size.space \in Nat /\ size.space >= 2 /\ size.fates \subseteq Rpc!Fates
BY CallAssumption, SMTT(30) DEF Rpc!Assumption, Rpc!TypeOK

\* Of the numbers there are, counted on from any, one is free.
LEMMA FreeNumber ==
    ASSUME NEW m \in Nat, m > 0, NEW x \in Int, NEW P, IsFiniteSet(P), Cardinality(P) < m
    PROVE  \E d \in 0..(m - 1) : ((x + d) % m) + 1 \notin P
<1> SUFFICES ASSUME \A d \in 0..(m - 1) : ((x + d) % m) + 1 \in P
             PROVE  FALSE
  OBVIOUS
<1> DEFINE D == 0..(m - 1)
           f == [d \in D |-> ((x + d) % m) + 1]
<1>1. f \in [D -> P]
  OBVIOUS
<1>2. IsFiniteSet(D) /\ Cardinality(D) = m
  <2>1. 0 \in Int /\ m - 1 \in Int /\ ~(0 > m - 1) /\ (m - 1) - 0 + 1 = m
    OBVIOUS
  <2>2. /\ IsFiniteSet(0..(m - 1))
        /\ Cardinality(0..(m - 1)) = IF 0 > m - 1 THEN 0 ELSE (m - 1) - 0 + 1
    BY <2>1, FS_Interval
  <2> QED
    BY <2>1, <2>2
<1>3. PICK c \in D, d \in D : c # d /\ f[c] = f[d]
  <2> HIDE DEF f, D
  <2> QED
    BY <1>1, <1>2, FS_PigeonHole
<1>4. (x + c) % m = (x + d) % m
  <2>1. (x + c) % m \in Int /\ (x + d) % m \in Int
    OBVIOUS
  <2>2. ((x + c) % m) + 1 = ((x + d) % m) + 1
    BY <1>3
  <2> QED
    BY <2>1, <2>2
<1>5. ASSUME NEW i \in D, NEW j \in D, i < j
      PROVE  (x + i) % m # (x + j) % m
  <2> DEFINE y == x + i
             z == x + j
  <2>1. y \in Int /\ z \in Int /\ y < z /\ z - y < m
    BY <1>5
  <2> HIDE DEF y, z
  <2>2. y % m # z % m
    BY <2>1, ApartMod
  <2> QED
    BY <2>2 DEF y, z
<1>6. c < d \/ d < c
  BY <1>3
<1> QED
  BY <1>4, <1>5, <1>6

\* rpc_next_seq finds a number that is not in use, by going on from the next.
LEMMA NextIsFree ==
    ASSUME Rpc!TypeOK, NEW n \in CallNodes,
           IsFiniteSet(Rpc!Pending(n)), Cardinality(Rpc!Pending(n)) < size.space - 1
    PROVE  /\ Rpc!rpc_next_seq(n) \in Rpc!Numbers
           /\ Rpc!rpc_next_seq(n) \notin Rpc!Pending(n)
           /\ next[n] \notin Rpc!Pending(n) => Rpc!rpc_next_seq(n) = next[n]
<1> DEFINE m == size.space - 1
           x == next[n] - 1
           A(d) == ((x + d) % m) + 1
           F == {d \in 0..(m - 1) : A(d) \notin Rpc!Pending(n)}
<1>1. m \in Nat /\ m > 0 /\ size.space - 2 = m - 1 /\ x \in 0..(m - 1)
  <2>1. size.space \in Nat /\ size.space >= 2
    BY CallSize
  <2>2. next[n] \in 1..(size.space - 1)
    BY DEF Rpc!TypeOK, Rpc!Numbers
  <2> QED
    BY <2>1, <2>2
<1>2. Rpc!rpc_next_seq(n) = A(Rpc!Min(F))
  BY <1>1 DEF Rpc!rpc_next_seq, Rpc!After
<1>3. F # {} /\ F \in SUBSET Nat
  <2>1. F \in SUBSET Nat
    OBVIOUS
  <2>2. \E d \in 0..(m - 1) : A(d) \notin Rpc!Pending(n)
    <3> DEFINE P == Rpc!Pending(n)
    <3>1. Cardinality(P) < m /\ IsFiniteSet(P) /\ x \in Int
      BY <1>1
    <3> HIDE DEF m, x, P
    <3>2. \E d \in 0..(m - 1) : ((x + d) % m) + 1 \notin P
      BY <1>1, <3>1, FreeNumber
    <3> QED
      BY <3>2 DEF P
  <2> QED
    BY <2>1, <2>2
<1>4. Rpc!Min(F) \in F /\ \A d \in F : Rpc!Min(F) <= d
  <2> HIDE DEF F
  <2>1. \E d \in F : \A e \in F : d <= e
    BY <1>3, LeastElement
  <2> QED
    BY <2>1 DEF Rpc!Min
<1>5. A(Rpc!Min(F)) \notin Rpc!Pending(n) /\ Rpc!Min(F) \in 0..(m - 1)
  BY <1>4
<1>6. A(Rpc!Min(F)) \in Rpc!Numbers
  <2> DEFINE d == Rpc!Min(F)
  <2>1. d \in Int
    BY <1>5
  <2> HIDE DEF d
  <2>2. (x + d) % m \in 0..(m - 1)
    BY <1>1, <2>1
  <2> QED
    BY <1>1, <2>2 DEF d, Rpc!Numbers
<1>7. ASSUME next[n] \notin Rpc!Pending(n)
      PROVE  A(Rpc!Min(F)) = next[n]
  <2>1. A(0) = next[n]
    <3>1. x + 0 = x /\ x % m = x /\ x + 1 = next[n]
      <4>1. next[n] \in Int
        BY <1>1 DEF Rpc!TypeOK, Rpc!Numbers
      <4> QED
        BY <1>1, <4>1, SmallMod
    <3> QED
      BY <3>1
  <2>2. 0 \in F
    BY <1>1, <1>7, <2>1
  <2>3. Rpc!Min(F) = 0
    BY <1>4, <1>5, <2>2
  <2> QED
    BY <2>1, <2>3
<1> QED
  BY <1>2, <1>5, <1>6, <1>7

\* The calls in progress of a node.
Calling(n) == {t \in Callers : CallHome[t] = n /\ call[t].pc # "idle"}

LEMMA PendingIs ==
    ASSUME Rpc!PendingAreWaiting, NEW n \in CallNodes
    PROVE  /\ Rpc!Pending(n) = {call[t].seq : t \in Calling(n)}
           /\ \A t \in Calling(n) : pending[n][call[t].seq] = t
BY DEF Rpc!PendingAreWaiting, Calling

LEMMA PendingFinite ==
    ASSUME Rpc!TypeOK, Rpc!PendingAreWaiting, NEW n \in CallNodes
    PROVE  IsFiniteSet(Rpc!Pending(n))
<1> DEFINE P == Rpc!Pending(n)
           f == pending[n]
<1>1. f \in [P -> Callers]
  BY DEF Rpc!TypeOK
<1>2. \A s \in P : \E t \in Callers : s = call[t].seq /\ f[s] = t
  BY PendingIs DEF Calling
<1> HIDE DEF P, f
<1>3. \A s, u \in P : f[s] = f[u] => s = u
  BY <1>2
<1>4. f \in Injection(P, Callers)
  BY <1>1, <1>3 DEF Injection, IsInjective
<1>5. IsFiniteSet(P)
  BY <1>4, CallConstants, FS_Injection
<1> QED
  BY <1>5 DEF P

\* What the types are made of grows with the calls.
LEMMA TypesGrow ==
    ASSUME Rpc!TypeOK, UNCHANGED size, Rpc!Made \in Nat, Rpc!Made' \in Nat, Rpc!Made' >= Rpc!Made
    PROVE  /\ Rpc!Numbers' = Rpc!Numbers /\ Rpc!Ids \subseteq Rpc!Ids'
           /\ Rpc!OnLink \subseteq Rpc!OnLink' /\ Rpc!Entry \subseteq Rpc!Entry'
           /\ Rpc!Outcome \subseteq Rpc!Outcome'
<1>1. Rpc!Numbers' = Rpc!Numbers
  BY DEF Rpc!Numbers
<1>2. Rpc!Ids \subseteq Rpc!Ids'
  BY DEF Rpc!Ids
<1>3. Rpc!OnLink \subseteq Rpc!OnLink'
  BY <1>1, <1>2 DEF Rpc!OnLink
<1>4. Rpc!Entry \subseteq Rpc!Entry' /\ Rpc!Outcome \subseteq Rpc!Outcome'
  BY <1>2 DEF Rpc!Entry, Rpc!Outcome
<1> QED
  BY <1>1, <1>2, <1>3, <1>4

LEMMA CallInit ==
    ASSUME Rpc!Init
    PROVE  Rpc!IInv
<1>1. size \in CallSizes /\ size.space \in Nat /\ size.space >= 2
  BY CallAssumption DEF Rpc!Assumption, Rpc!Init
<1>2. /\ next = [n \in CallNodes |-> 1] /\ pending = [n \in CallNodes |-> <<>>]
      /\ call = [t \in Callers |-> Rpc!Idle] /\ chan = [n \in CallNodes |-> <<>>]
      /\ reasm = [n \in CallNodes |-> 0] /\ executed = <<>> /\ ended = <<>>
  BY DEF Rpc!Init
<1>3. Rpc!Made = 0 /\ Rpc!Ids = {}
  BY <1>2 DEF Rpc!Made, Rpc!Ids
<1>4. Rpc!Idle \in Rpc!Entry /\ Rpc!Idle.pc = "idle"
  BY DEF Rpc!Idle, Rpc!Entry
<1>5. \A n \in CallNodes : Rpc!Pending(n) = {}
  BY <1>2 DEF Rpc!Pending
<1>6. Rpc!TypeOK
  <2>1. next \in [CallNodes -> Rpc!Numbers]
    BY <1>1, <1>2 DEF Rpc!Numbers
  <2>2. DOMAIN pending = CallNodes /\ \A n \in CallNodes : pending[n] \in [Rpc!Pending(n) -> Callers]
    BY <1>2, <1>5
  <2>3. call \in [Callers -> Rpc!Entry] /\ \A t \in Callers : call[t].pc = "idle"
    BY <1>2, <1>4
  <2>4. chan \in [CallNodes -> Seq(Rpc!OnLink)] /\ reasm \in [CallNodes -> 0..(CallPieces - 1)]
    BY <1>2, CallConstants
  <2>5. executed \in Seq(Nat) /\ ended \in Seq(Rpc!Outcome) /\ Len(ended) = Rpc!Made
    BY <1>2, <1>3
  <2> QED
    BY <1>1, <2>1, <2>2, <2>3, <2>4, <2>5 DEF Rpc!TypeOK
<1>7. Rpc!PendingAreWaiting
  BY <1>2, <1>4, <1>5 DEF Rpc!PendingAreWaiting
<1>8. Rpc!RequestedOnce
  BY <1>3 DEF Rpc!RequestedOnce
<1>9. ASSUME NEW a \in CallNodes
      PROVE  Rpc!NumberedAsMade(a) /\ Rpc!AnswersAreFirst(a) /\ Rpc!OkIsOwn
  <2>1. \A n \in CallNodes : DOMAIN chan[n] = {}
    BY <1>2
  <2>2. next[a] = Rpc!After(1, Rpc!Made)
    <3> DEFINE m == size.space - 1
    <3>1. m \in Nat /\ 0 \in 0..(m - 1) /\ 1 - 1 + 0 = 0
      BY <1>1
    <3>2. 0 % m = 0
      BY <3>1, SmallMod
    <3> QED
      BY <1>2, <1>3, <3>1, <3>2 DEF Rpc!After
  <2> QED
    BY <1>2, <1>3, <1>4, <2>1, <2>2, CallConstants
    DEF Rpc!NumberedAsMade, Rpc!AnswersAreFirst, Rpc!OkIsOwn
<1> QED
  BY <1>6, <1>7, <1>8, <1>9 DEF Rpc!IInv

LEMMA CallWidths ==
    ASSUME Rpc!TypeOK
    PROVE  /\ Rpc!Made \in Nat /\ Len(executed) = Rpc!Made /\ Len(ended) = Rpc!Made
           /\ \A i \in Rpc!Ids : executed[i] \in Nat /\ ended[i] \in Rpc!Outcome
           /\ Rpc!Ids = 1..Rpc!Made
BY DEF Rpc!TypeOK, Rpc!Made, Rpc!Ids

\* What a task that may call gets: a free number, the one of its call when
\* nobody else calls and there are enough.
LEMMA MayCallGets ==
    ASSUME Rpc!IInv, NEW t \in Callers, Rpc!MayCall(t), NEW n, n = CallHome[t],
           NEW s, s = Rpc!rpc_next_seq(n)
    PROVE  /\ n \in CallNodes /\ t \in size.callers /\ call[t].pc = "idle"
           /\ s \in Rpc!Numbers /\ s \notin Rpc!Pending(n)
           /\ Rpc!After(s, 1) \in Rpc!Numbers
           /\ \A a \in CallNodes : Rpc!NoReuse /\ Rpc!OnlyCalls(a) =>
                 n = a /\ s = Rpc!Made + 1 /\ Rpc!After(s, 1) = Rpc!After(1, Rpc!Made + 1)
<1>1. /\ Rpc!TypeOK /\ Rpc!PendingAreWaiting /\ n \in CallNodes
      /\ t \in size.callers /\ call[t].pc = "idle" /\ Rpc!Made < size.calls
  BY CallConstants DEF Rpc!IInv, Rpc!MayCall
<1>2. /\ IsFiniteSet(Rpc!Pending(n)) /\ Cardinality(Rpc!Pending(n)) < size.space - 1
  BY <1>1, PendingFinite, CallsCount DEF Rpc!MayCall
<1>3. /\ s \in Rpc!Numbers /\ s \notin Rpc!Pending(n)
      /\ next[n] \notin Rpc!Pending(n) => s = next[n]
  BY <1>1, <1>2, NextIsFree
<1>4. /\ size.space \in Nat /\ size.space >= 2 /\ Rpc!Made \in Nat /\ s \in Int
      /\ size.calls \in Nat
  BY <1>1, <1>3, CallSize, CallWidths DEF Rpc!Numbers
<1> DEFINE m == size.space - 1
<1>5. Rpc!After(s, 1) \in Rpc!Numbers
  <2>1. m \in Nat /\ m > 0
    BY <1>4
  <2>2. (s - 1 + 1) % m \in 0..(m - 1)
    BY <1>4, <2>1
  <2> QED
    BY <1>4, <2>2 DEF Rpc!After, Rpc!Numbers
<1>6. ASSUME NEW a \in CallNodes, Rpc!NoReuse, Rpc!OnlyCalls(a)
      PROVE  n = a /\ s = Rpc!Made + 1 /\ Rpc!After(s, 1) = Rpc!After(1, Rpc!Made + 1)
  <2>1. n = a
    BY <1>1, <1>6 DEF Rpc!OnlyCalls
  <2>2. Rpc!NumberedAsMade(a)
    BY <1>6 DEF Rpc!IInv
  <2>3. next[a] = Rpc!Made + 1
    <3>1. m \in Nat /\ Rpc!Made \in 0..(m - 1) /\ 1 - 1 + Rpc!Made = Rpc!Made
      BY <1>1, <1>4, <1>6 DEF Rpc!NoReuse
    <3>2. Rpc!Made % m = Rpc!Made
      BY <3>1, SmallMod
    <3> QED
      BY <2>2, <3>1, <3>2 DEF Rpc!NumberedAsMade, Rpc!After
  <2>4. next[a] \notin Rpc!Pending(a)
    <3>1. \A p \in Rpc!Pending(a) : p \in Rpc!Ids
      <4>1. \A u \in Calling(a) : call[u].seq \in Rpc!Ids
        BY <1>1, <2>2 DEF Rpc!TypeOK, Rpc!NumberedAsMade, Calling
      <4> QED
        BY <1>1, <4>1, PendingIs
    <3>2. Rpc!Made + 1 \notin Rpc!Ids
      BY <1>4 DEF Rpc!Ids
    <3> QED
      BY <2>3, <3>1, <3>2
  <2>5. s = Rpc!Made + 1
    BY <1>3, <2>1, <2>3, <2>4
  <2>6. s - 1 + 1 = 1 - 1 + (Rpc!Made + 1)
    BY <1>4, <2>5
  <2> QED
    BY <2>1, <2>5, <2>6 DEF Rpc!After
<1> QED
  BY <1>1, <1>3, <1>5, <1>6

\* A call begins: it has not run and not ended well.
LEMMA CallBegins ==
    ASSUME Rpc!TypeOK, executed' = Append(executed, 0), NEW e, ended' = Append(ended, e),
           e \in Rpc!Outcome', UNCHANGED size
    PROVE  /\ Rpc!Made \in Nat /\ Rpc!Made' = Rpc!Made + 1
           /\ Rpc!Ids' = Rpc!Ids \cup {Rpc!Made + 1} /\ Rpc!Made + 1 \notin Rpc!Ids
           /\ executed' \in Seq(Nat) /\ ended' \in Seq(Rpc!Outcome') /\ Len(ended') = Rpc!Made'
           /\ \A i \in Rpc!Ids : executed'[i] = executed[i] /\ ended'[i] = ended[i]
           /\ executed'[Rpc!Made + 1] = 0 /\ ended'[Rpc!Made + 1] = e
           /\ Rpc!Numbers' = Rpc!Numbers /\ Rpc!OnLink \subseteq Rpc!OnLink'
           /\ Rpc!Entry \subseteq Rpc!Entry'
<1>1. /\ Rpc!Made \in Nat /\ Rpc!Made = Len(executed) /\ Len(ended) = Rpc!Made
      /\ executed \in Seq(Nat) /\ ended \in Seq(Rpc!Outcome)
  BY DEF Rpc!TypeOK, Rpc!Made
<1>2. /\ Rpc!Made' = Rpc!Made + 1 /\ executed' \in Seq(Nat)
      /\ \A i \in 1..Rpc!Made : executed'[i] = executed[i]
      /\ executed'[Rpc!Made + 1] = 0
  BY <1>1 DEF Rpc!Made
<1>3. /\ Rpc!Numbers' = Rpc!Numbers /\ Rpc!OnLink \subseteq Rpc!OnLink'
      /\ Rpc!Entry \subseteq Rpc!Entry' /\ Rpc!Outcome \subseteq Rpc!Outcome'
  BY <1>1, <1>2, TypesGrow
<1>4. /\ ended' \in Seq(Rpc!Outcome') /\ Len(ended') = Rpc!Made'
      /\ \A i \in 1..Rpc!Made : ended'[i] = ended[i]
      /\ ended'[Rpc!Made + 1] = e
  <2> DEFINE O == Rpc!Outcome'
  <2>1. ended \in Seq(O)
    BY <1>1, <1>3, SeqGrows
  <2>2. e \in O
    OBVIOUS
  <2> HIDE DEF O
  <2>3. /\ ended' \in Seq(O) /\ Len(ended') = Rpc!Made + 1
        /\ \A i \in 1..Rpc!Made : ended'[i] = ended[i]
        /\ ended'[Rpc!Made + 1] = e
    BY <1>1, <2>1, <2>2
  <2> QED
    BY <1>2, <2>3 DEF O
<1>5. Rpc!Ids' = Rpc!Ids \cup {Rpc!Made + 1} /\ Rpc!Made + 1 \notin Rpc!Ids
  BY <1>1, <1>2 DEF Rpc!Ids
<1> QED
  BY <1>1, <1>2, <1>3, <1>4, <1>5 DEF Rpc!Ids

\* What rpc_call writes.
LEMMA CallWrites ==
    ASSUME Rpc!IInv, NEW t \in Callers, Rpc!rpc_call(t), NEW n, n = CallHome[t],
           NEW p, p = Rpc!Peer(n), NEW s, s = Rpc!rpc_next_seq(n)
    PROVE  /\ Rpc!MayCall(t)
           /\ next' = [next EXCEPT ![n] = Rpc!After(s, 1)]
           /\ pending' = [pending EXCEPT ![n] =
                    [x \in Rpc!Pending(n) \cup {s} |-> IF x = s THEN t ELSE pending[n][x]]]
           /\ \E c \in Rpc!Entry' :
                 /\ c.pc = "waiting" /\ c.id = Rpc!Made + 1 /\ c.seq = s /\ c.woken = FALSE
                 /\ call' = [call EXCEPT ![t] = c]
           /\ \E m \in Rpc!OnLink' :
                 /\ m.seq = s /\ m.of = Rpc!Made + 1 /\ m.body = "request"
                 /\ chan' = [chan EXCEPT ![p] = Append(@, m)]
           /\ \E e \in Rpc!Outcome' : e.status = "NONE" /\ ended' = Append(ended, e)
           /\ executed' = Append(executed, 0) /\ UNCHANGED <<reasm, size>>
<1> DEFINE c == [Rpc!Idle EXCEPT !.pc = "waiting", !.id = Rpc!Made + 1, !.seq = s]
           m == [seq |-> s, status |-> "OK", of |-> Rpc!Made + 1, body |-> "request"]
           e == [status |-> "NONE", of |-> NoCall]
<1>1. /\ Rpc!MayCall(t)
      /\ next' = [next EXCEPT ![n] = Rpc!After(s, 1)]
      /\ pending' = [pending EXCEPT ![n] =
               [x \in Rpc!Pending(n) \cup {s} |-> IF x = s THEN t ELSE pending[n][x]]]
      /\ call' = [call EXCEPT ![t] = c] /\ chan' = [chan EXCEPT ![p] = Append(@, m)]
      /\ ended' = Append(ended, e)
      /\ executed' = Append(executed, 0) /\ UNCHANGED <<reasm, size>>
  BY DEF Rpc!rpc_call, Rpc!IInv, Rpc!TypeOK
<1>2. e \in Rpc!Outcome'
  BY DEF Rpc!Outcome
<1>3. Rpc!TypeOK /\ Rpc!Made \in Nat /\ Rpc!Made + 1 \in Rpc!Ids' /\ Rpc!Numbers' = Rpc!Numbers
  <2>1. Rpc!TypeOK
    BY DEF Rpc!IInv
  <2> HIDE DEF e
  <2> QED
    BY <1>1, <1>2, <2>1, CallBegins
<1>4. s \in Rpc!Numbers' /\ s \in Nat
  BY <1>1, <1>3, MayCallGets, CallSize DEF Rpc!Numbers
<1>5. c \in Rpc!Entry' /\ c.pc = "waiting" /\ c.id = Rpc!Made + 1 /\ c.seq = s /\ c.woken = FALSE
  <2>1. Rpc!Idle \in Rpc!Entry' /\ Rpc!Idle.woken = FALSE
    BY DEF Rpc!Entry, Rpc!Idle
  <2>2. Rpc!Made + 1 \in Nat
    BY <1>3
  <2> QED
    BY <1>4, <2>1, <2>2 DEF Rpc!Entry
<1>6. m \in Rpc!OnLink' /\ m.seq = s /\ m.of = Rpc!Made + 1 /\ m.body = "request"
  BY <1>3, <1>4 DEF Rpc!OnLink
<1> HIDE DEF c, m, e
<1>7. e.status = "NONE"
  BY DEF e
<1> QED
  BY <1>1, <1>2, <1>5, <1>6, <1>7

LEMMA CallKeeps ==
    ASSUME Rpc!IInv, NEW t \in Callers, Rpc!rpc_call(t)
    PROVE  Rpc!IInv'
<1> DEFINE n == CallHome[t]
           p == Rpc!Peer(n)
           s == Rpc!rpc_next_seq(n)
<1>1. /\ Rpc!TypeOK /\ Rpc!PendingAreWaiting /\ Rpc!RequestedOnce
  BY DEF Rpc!IInv
<1>2. /\ Rpc!MayCall(t)
      /\ next' = [next EXCEPT ![n] = Rpc!After(s, 1)]
      /\ pending' = [pending EXCEPT ![n] =
               [x \in Rpc!Pending(n) \cup {s} |-> IF x = s THEN t ELSE pending[n][x]]]
      /\ \E c \in Rpc!Entry' :
            /\ c.pc = "waiting" /\ c.id = Rpc!Made + 1 /\ c.seq = s /\ c.woken = FALSE
            /\ call' = [call EXCEPT ![t] = c]
      /\ \E m \in Rpc!OnLink' :
            /\ m.seq = s /\ m.of = Rpc!Made + 1 /\ m.body = "request"
            /\ chan' = [chan EXCEPT ![p] = Append(@, m)]
      /\ \E e \in Rpc!Outcome' : e.status = "NONE" /\ ended' = Append(ended, e)
      /\ executed' = Append(executed, 0) /\ UNCHANGED <<reasm, size>>
  BY CallWrites
<1>3. PICK c \in Rpc!Entry' :
            /\ c.pc = "waiting" /\ c.id = Rpc!Made + 1 /\ c.seq = s /\ c.woken = FALSE
            /\ call' = [call EXCEPT ![t] = c]
  BY <1>2
<1>4. PICK m \in Rpc!OnLink' :
            /\ m.seq = s /\ m.of = Rpc!Made + 1 /\ m.body = "request"
            /\ chan' = [chan EXCEPT ![p] = Append(@, m)]
  BY <1>2
<1>5. PICK e \in Rpc!Outcome' : e.status = "NONE" /\ ended' = Append(ended, e)
  BY <1>2
<1>6. /\ n \in CallNodes /\ t \in size.callers /\ call[t].pc = "idle"
      /\ s \in Rpc!Numbers /\ s \notin Rpc!Pending(n)
      /\ Rpc!After(s, 1) \in Rpc!Numbers
      /\ \A a \in CallNodes : Rpc!NoReuse /\ Rpc!OnlyCalls(a) =>
            n = a /\ s = Rpc!Made + 1 /\ Rpc!After(s, 1) = Rpc!After(1, Rpc!Made + 1)
  BY <1>2, MayCallGets
<1>7. p \in CallNodes /\ p # n /\ \A k \in CallNodes : k = n \/ k = p
  BY <1>6, CallConstants
<1>8. /\ Rpc!Made \in Nat /\ Rpc!Made' = Rpc!Made + 1
      /\ Rpc!Ids' = Rpc!Ids \cup {Rpc!Made + 1} /\ Rpc!Made + 1 \notin Rpc!Ids
      /\ executed' \in Seq(Nat) /\ ended' \in Seq(Rpc!Outcome') /\ Len(ended') = Rpc!Made'
      /\ \A i \in Rpc!Ids : executed'[i] = executed[i] /\ ended'[i] = ended[i]
      /\ executed'[Rpc!Made + 1] = 0 /\ ended'[Rpc!Made + 1] = e
      /\ Rpc!Numbers' = Rpc!Numbers /\ Rpc!OnLink \subseteq Rpc!OnLink'
      /\ Rpc!Entry \subseteq Rpc!Entry'
  BY <1>1, <1>2, <1>5, CallBegins
<1> HIDE DEF n, p, s
<1>9. /\ call' \in [Callers -> Rpc!Entry'] /\ call'[t] = c
      /\ \A u \in Callers : u # t => call'[u] = call[u]
  BY <1>1, <1>3, <1>8 DEF Rpc!TypeOK
<1>10. /\ DOMAIN pending = CallNodes /\ DOMAIN pending' = CallNodes
       /\ \A k \in CallNodes : k # n => pending'[k] = pending[k]
       /\ pending'[n] = [x \in Rpc!Pending(n) \cup {s} |-> IF x = s THEN t ELSE pending[n][x]]
  BY <1>1, <1>2, <1>6 DEF Rpc!TypeOK
<1>11. /\ Rpc!Pending(n)' = Rpc!Pending(n) \cup {s}
       /\ \A k \in CallNodes : k # n => Rpc!Pending(k)' = Rpc!Pending(k)
  BY <1>10 DEF Rpc!Pending
<1>12. /\ chan' \in [CallNodes -> Seq(Rpc!OnLink')]
       /\ \A k \in CallNodes : k # p => chan'[k] = chan[k]
       /\ chan'[p] = Append(chan[p], m)
  <2>1. chan \in [CallNodes -> Seq(Rpc!OnLink')]
    BY <1>1, <1>8, SeqGrows DEF Rpc!TypeOK
  <2> DEFINE L == Rpc!OnLink'
  <2>2. m \in L /\ chan \in [CallNodes -> Seq(L)]
    BY <2>1
  <2> HIDE DEF L
  <2>3. chan' \in [CallNodes -> Seq(L)]
    BY <1>4, <1>7, <2>2
  <2> QED
    BY <1>4, <1>7, <2>1, <2>3 DEF L
\* Where the messages are: where they were, and the new one at the end.
<1>13. \A k \in CallNodes : \A i \in DOMAIN chan'[k] :
          \/ i \in DOMAIN chan[k] /\ chan'[k][i] = chan[k][i]
          \/ k = p /\ i = Len(chan[p]) + 1 /\ chan'[k][i] = m
  <2>1. chan[p] \in Seq(Rpc!OnLink)
    BY <1>1, <1>7 DEF Rpc!TypeOK
  <2> DEFINE q == chan[p]
             r == chan'[p]
             L == Rpc!OnLink
  <2>2. q \in Seq(L) /\ r = Append(q, m)
    BY <1>12, <2>1
  <2> HIDE DEF q, r, L
  <2>3. \A i \in DOMAIN r : \/ i \in DOMAIN q /\ r[i] = q[i]
                            \/ i = Len(q) + 1 /\ r[i] = m
    BY <2>2
  <2> QED
    BY <1>12, <2>3 DEF q, r
<1>14. \A k \in CallNodes : \A i \in DOMAIN chan[k] : chan[k][i] \in Rpc!OnLink /\ i \in Nat
  BY <1>1 DEF Rpc!TypeOK
<1>15. \A k \in CallNodes : \A i \in DOMAIN chan[k] : chan[k][i].of \in Rpc!Ids
  BY <1>14 DEF Rpc!OnLink
<1>20. Rpc!TypeOK'
  <2>1. size' \in CallSizes /\ next' \in [CallNodes -> Rpc!Numbers']
    BY <1>1, <1>2, <1>6, <1>8 DEF Rpc!TypeOK
  <2>2. \A k \in CallNodes : pending'[k] \in [Rpc!Pending(k)' -> Callers]
    <3>1. \A k \in CallNodes : pending[k] \in [Rpc!Pending(k) -> Callers]
      BY <1>1 DEF Rpc!TypeOK
    <3>2. pending'[n] \in [Rpc!Pending(n) \cup {s} -> Callers]
      <4>1. \A x \in Rpc!Pending(n) : pending[n][x] \in Callers
        BY <1>6, <3>1
      <4> QED
        BY <1>10, <4>1
    <3> QED
      BY <1>10, <1>11, <3>1, <3>2
  <2>3. \A u \in Callers : call'[u].pc # "idle" =>
           u \in size'.callers /\ call'[u].id \in Rpc!Ids' /\ call'[u].seq \in Rpc!Numbers'
    BY <1>1, <1>2, <1>3, <1>6, <1>8, <1>9 DEF Rpc!TypeOK
  <2>4. reasm' \in [CallNodes -> 0..(CallPieces - 1)]
    BY <1>1, <1>2 DEF Rpc!TypeOK
  <2> QED
    BY <1>8, <1>9, <1>10, <1>12, <2>1, <2>2, <2>3, <2>4 DEF Rpc!TypeOK
<1>21. Rpc!PendingAreWaiting'
  <2>1. /\ Calling(n)' = Calling(n) \cup {t} /\ t \notin Calling(n)
        /\ \A k \in CallNodes : k # n => Calling(k)' = Calling(k)
    BY <1>3, <1>6, <1>9 DEF Calling, n
  <2>2. \A k \in CallNodes : \A u \in Calling(k) : call'[u] = call[u]
    BY <1>6, <1>9 DEF Calling
  <2>3. ASSUME NEW k \in CallNodes
        PROVE  /\ Rpc!Pending(k) = {call[u].seq : u \in Calling(k)}
               /\ \A u \in Calling(k) : pending[k][call[u].seq] = u
    BY <1>1, PendingIs
  <2>4. ASSUME NEW k \in CallNodes
        PROVE  /\ Rpc!Pending(k)' = {call'[u].seq : u \in Calling(k)'}
               /\ \A u \in Calling(k)' : pending'[k][call'[u].seq] = u
    <3>1. CASE k = n
      <4>1. Rpc!Pending(k)' = {call'[u].seq : u \in Calling(k)'}
        BY <1>3, <1>9, <1>11, <2>1, <2>2, <2>3, <3>1
      <4>2. ASSUME NEW u \in Calling(k)
            PROVE  pending'[k][call'[u].seq] = u
        BY <1>6, <1>10, <2>2, <2>3, <3>1
      <4>3. pending'[n][call'[t].seq] = t
        BY <1>3, <1>9, <1>10
      <4> QED
        BY <2>1, <3>1, <4>1, <4>2, <4>3
    <3>2. CASE k # n
      BY <1>10, <1>11, <2>1, <2>2, <2>3, <3>2
    <3> QED
      BY <3>1, <3>2
  <2> QED
    BY <2>4 DEF Rpc!PendingAreWaiting, Calling
<1>22. Rpc!RequestedOnce'
  <2>1. ASSUME NEW k \in CallNodes, NEW i, NEW id \in Rpc!Ids, Rpc!RequestAt(k, i, id)'
        PROVE  Rpc!RequestAt(k, i, id) /\ i \in DOMAIN chan[k]
    BY <1>4, <1>8, <1>13, <2>1 DEF Rpc!RequestAt
  <2>2. ASSUME NEW k \in CallNodes, NEW i, NEW id, id = Rpc!Made + 1, Rpc!RequestAt(k, i, id)'
        PROVE  k = p /\ i = Len(chan[p]) + 1
    BY <1>8, <1>13, <1>15, <2>2 DEF Rpc!RequestAt
  <2>3. ASSUME NEW id \in Rpc!Ids, NEW k \in CallNodes, NEW i, Rpc!RequestAt(k, i, id)',
               NEW l \in CallNodes, NEW j, Rpc!RequestAt(l, j, id)'
        PROVE  executed'[id] = 0 /\ l = k /\ j = i
    BY <1>1, <1>8, <2>1, <2>3 DEF Rpc!RequestedOnce
  <2>4. \A id \in Rpc!Ids : executed'[id] <= 1
    BY <1>1, <1>8 DEF Rpc!RequestedOnce
  <2>5. executed'[Rpc!Made + 1] <= 1 /\ executed'[Rpc!Made + 1] = 0
    BY <1>8
  <2>6. ASSUME NEW id \in Rpc!Ids'
        PROVE  /\ executed'[id] <= 1
               /\ \A k \in CallNodes : \A i \in DOMAIN chan'[k] : Rpc!RequestAt(k, i, id)' =>
                     /\ executed'[id] = 0
                     /\ \A l \in CallNodes : \A j \in DOMAIN chan'[l] :
                           Rpc!RequestAt(l, j, id)' => l = k /\ j = i
    <3>1. CASE id \in Rpc!Ids
      BY <2>3, <2>4, <3>1
    <3>2. CASE id = Rpc!Made + 1
      BY <2>2, <2>5, <3>2
    <3> QED
      BY <1>8, <3>1, <3>2
  <2> QED
    BY <2>6 DEF Rpc!RequestedOnce
<1>23. ASSUME NEW a \in CallNodes, Rpc!NoReuse', Rpc!OnlyCalls(a)'
       PROVE  Rpc!NumberedAsMade(a)' /\ Rpc!AnswersAreFirst(a)' /\ Rpc!OkIsOwn'
  <2>1. /\ Rpc!NumberedAsMade(a) /\ Rpc!AnswersAreFirst(a) /\ Rpc!OkIsOwn
        /\ Rpc!NoReuse /\ Rpc!OnlyCalls(a)
    BY <1>2, <1>23 DEF Rpc!IInv, Rpc!NoReuse, Rpc!OnlyCalls
  <2>2. n = a /\ s = Rpc!Made + 1 /\ Rpc!After(s, 1) = Rpc!After(1, Rpc!Made + 1) /\ p # a
    BY <1>6, <1>7, <2>1
  <2>3. Rpc!NumberedAsMade(a)'
    <3>1. next'[a] = Rpc!After(1, Rpc!Made + 1)
      BY <1>1, <1>2, <2>2 DEF Rpc!TypeOK
    <3>2. Rpc!After(1, Rpc!Made)' = Rpc!After(1, Rpc!Made + 1)
      BY <1>2, <1>8 DEF Rpc!After
    <3>3. \A u \in Callers : call'[u].pc # "idle" => call'[u].seq = call'[u].id
      BY <1>3, <1>9, <2>1, <2>2 DEF Rpc!NumberedAsMade
    <3>4. \A k \in CallNodes : \A i \in DOMAIN chan'[k] : chan'[k][i].seq = chan'[k][i].of
      BY <1>4, <1>13, <2>1, <2>2 DEF Rpc!NumberedAsMade
    <3> QED
      BY <3>1, <3>2, <3>3, <3>4 DEF Rpc!NumberedAsMade
  <2>4. Rpc!AnswersAreFirst(a)'
    <3>1. \A k \in CallNodes : \A i \in DOMAIN chan[k] :
             /\ chan[k][i].of \in Rpc!Pending(a)' => chan[k][i].of \in Rpc!Pending(a)
             /\ executed'[chan[k][i].of] = executed[chan[k][i].of]
      BY <1>8, <1>11, <1>15, <2>2
    <3>2. chan'[a] = chan[a]
      BY <1>12, <2>2
    <3>3. \A i \in DOMAIN chan'[a] :
             /\ chan'[a][i].body = "answer"
             /\ chan'[a][i].of \in Rpc!Pending(a)' /\ chan'[a][i].status = "OK" =>
                   executed'[chan'[a][i].of] = 1
      BY <2>1, <3>1, <3>2 DEF Rpc!AnswersAreFirst
    <3>4. \A i \in DOMAIN chan'[p] :
             chan'[p][i].body = "answer" => chan'[p][i].of \notin Rpc!Pending(a)'
      BY <1>4, <1>7, <1>13, <2>1, <2>2, <3>1 DEF Rpc!AnswersAreFirst, p
    <3> QED
      BY <2>2, <3>3, <3>4 DEF Rpc!AnswersAreFirst, p
  <2>5. Rpc!OkIsOwn'
    <3>1. ASSUME NEW u \in Callers, call'[u].pc # "idle"
          PROVE  /\ call'[u].woken => /\ call'[u].of = call'[u].id
                                      /\ call'[u].status = "OK" => executed'[call'[u].id] = 1
                 /\ call'[u].pc = "back" /\ ~call'[u].timed => call'[u].woken
      <4>1. CASE u = t
        BY <1>3, <1>9, <4>1
      <4>2. CASE u # t
        <5>1. call'[u] = call[u] /\ call[u].id \in Rpc!Ids
          BY <1>1, <1>9, <3>1, <4>2 DEF Rpc!TypeOK
        <5> QED
          BY <1>8, <2>1, <3>1, <5>1 DEF Rpc!OkIsOwn
      <4> QED
        BY <4>1, <4>2
    <3>2. \A i \in Rpc!Ids : ended'[i].status = "OK" => executed'[i] = 1 /\ ended'[i].of = i
      BY <1>8, <2>1 DEF Rpc!OkIsOwn
    <3>3. \A i \in Rpc!Ids' : ended'[i].status = "OK" => executed'[i] = 1 /\ ended'[i].of = i
      BY <1>5, <1>8, <3>2
    <3> QED
      BY <3>1, <3>3 DEF Rpc!OkIsOwn
  <2> QED
    BY <2>3, <2>4, <2>5
<1> QED
  BY <1>20, <1>21, <1>22, <1>23 DEF Rpc!IInv

LEMMA CallFailsKeeps ==
    ASSUME Rpc!IInv, NEW t \in Callers, Rpc!rpc_call_fails(t)
    PROVE  Rpc!IInv'
<1> DEFINE n == CallHome[t]
           s == Rpc!rpc_next_seq(n)
           e == [status |-> "TRANSPORT_ERROR", of |-> NoCall]
<1>1. /\ Rpc!TypeOK /\ Rpc!PendingAreWaiting /\ Rpc!RequestedOnce
  BY DEF Rpc!IInv
<1>2. /\ Rpc!MayCall(t) /\ next' = [next EXCEPT ![n] = Rpc!After(s, 1)]
      /\ executed' = Append(executed, 0) /\ ended' = Append(ended, e)
      /\ UNCHANGED <<pending, call, chan, reasm, size>>
  BY DEF Rpc!rpc_call_fails
<1>3. /\ n \in CallNodes /\ Rpc!After(s, 1) \in Rpc!Numbers
      /\ \A a \in CallNodes : Rpc!NoReuse /\ Rpc!OnlyCalls(a) =>
            n = a /\ Rpc!After(s, 1) = Rpc!After(1, Rpc!Made + 1)
  BY <1>2, MayCallGets
<1>4. e \in Rpc!Outcome' /\ e.status = "TRANSPORT_ERROR"
  BY DEF Rpc!Outcome
<1> HIDE DEF n, s, e
<1>5. /\ Rpc!Made \in Nat /\ Rpc!Made' = Rpc!Made + 1
      /\ Rpc!Ids' = Rpc!Ids \cup {Rpc!Made + 1} /\ Rpc!Made + 1 \notin Rpc!Ids
      /\ executed' \in Seq(Nat) /\ ended' \in Seq(Rpc!Outcome') /\ Len(ended') = Rpc!Made'
      /\ \A i \in Rpc!Ids : executed'[i] = executed[i] /\ ended'[i] = ended[i]
      /\ executed'[Rpc!Made + 1] = 0 /\ ended'[Rpc!Made + 1] = e
      /\ Rpc!Numbers' = Rpc!Numbers /\ Rpc!OnLink \subseteq Rpc!OnLink'
      /\ Rpc!Entry \subseteq Rpc!Entry'
  BY <1>1, <1>2, <1>4, CallBegins
<1>6. \A k \in CallNodes : \A i \in DOMAIN chan[k] : chan[k][i].of \in Rpc!Ids
  <2>1. \A k \in CallNodes : \A i \in DOMAIN chan[k] : chan[k][i] \in Rpc!OnLink
    BY <1>1 DEF Rpc!TypeOK
  <2> QED
    BY <2>1 DEF Rpc!OnLink
<1>7. Rpc!TypeOK'
  <2>1. size' \in CallSizes /\ next' \in [CallNodes -> Rpc!Numbers']
    BY <1>1, <1>2, <1>3, <1>5 DEF Rpc!TypeOK
  <2>2. DOMAIN pending' = CallNodes /\ \A k \in CallNodes : pending'[k] \in [Rpc!Pending(k)' -> Callers]
    BY <1>1, <1>2 DEF Rpc!TypeOK, Rpc!Pending
  <2>3. call' \in [Callers -> Rpc!Entry'] /\ reasm' \in [CallNodes -> 0..(CallPieces - 1)]
    BY <1>1, <1>2, <1>5 DEF Rpc!TypeOK
  <2>4. \A u \in Callers : call'[u].pc # "idle" =>
           u \in size'.callers /\ call'[u].id \in Rpc!Ids' /\ call'[u].seq \in Rpc!Numbers'
    BY <1>1, <1>2, <1>5 DEF Rpc!TypeOK
  <2>5. chan' \in [CallNodes -> Seq(Rpc!OnLink')]
    BY <1>1, <1>2, <1>5, SeqGrows DEF Rpc!TypeOK
  <2> QED
    BY <1>5, <2>1, <2>2, <2>3, <2>4, <2>5 DEF Rpc!TypeOK
<1>8. Rpc!PendingAreWaiting'
  BY <1>1, <1>2 DEF Rpc!PendingAreWaiting, Rpc!Pending
<1>9. Rpc!RequestedOnce'
  <2>1. \A k, i, id : Rpc!RequestAt(k, i, id)' = Rpc!RequestAt(k, i, id)
    BY <1>2 DEF Rpc!RequestAt
  <2>2. \A k \in CallNodes : \A i : ~Rpc!RequestAt(k, i, Rpc!Made + 1)
    BY <1>5, <1>6 DEF Rpc!RequestAt
  <2>3. ASSUME NEW id \in Rpc!Ids'
        PROVE  /\ executed'[id] <= 1
               /\ \A k \in CallNodes : \A i \in DOMAIN chan[k] : Rpc!RequestAt(k, i, id) =>
                     /\ executed'[id] = 0
                     /\ \A l \in CallNodes : \A j \in DOMAIN chan[l] :
                           Rpc!RequestAt(l, j, id) => l = k /\ j = i
    <3>1. CASE id \in Rpc!Ids
      BY <1>1, <1>5, <3>1 DEF Rpc!RequestedOnce
    <3>2. CASE id = Rpc!Made + 1
      BY <1>5, <2>2, <3>2
    <3> QED
      BY <1>5, <3>1, <3>2
  <2> QED
    BY <1>2, <2>1, <2>3 DEF Rpc!RequestedOnce
<1>10. ASSUME NEW a \in CallNodes, Rpc!NoReuse', Rpc!OnlyCalls(a)'
       PROVE  Rpc!NumberedAsMade(a)' /\ Rpc!AnswersAreFirst(a)' /\ Rpc!OkIsOwn'
  <2>1. /\ Rpc!NumberedAsMade(a) /\ Rpc!AnswersAreFirst(a) /\ Rpc!OkIsOwn
        /\ Rpc!NoReuse /\ Rpc!OnlyCalls(a)
    BY <1>2, <1>10 DEF Rpc!IInv, Rpc!NoReuse, Rpc!OnlyCalls
  <2>2. Rpc!NumberedAsMade(a)'
    <3>1. next'[a] = Rpc!After(1, Rpc!Made + 1)
      BY <1>1, <1>2, <1>3, <2>1 DEF Rpc!TypeOK
    <3>2. Rpc!After(1, Rpc!Made)' = Rpc!After(1, Rpc!Made + 1)
      BY <1>2, <1>5 DEF Rpc!After
    <3> QED
      BY <1>2, <2>1, <3>1, <3>2 DEF Rpc!NumberedAsMade
  <2>3. Rpc!AnswersAreFirst(a)'
    <3>1. Rpc!Pending(a)' = Rpc!Pending(a) /\ Rpc!Peer(a) \in CallNodes
      BY <1>2, CallConstants DEF Rpc!Pending
    <3> QED
      BY <1>2, <1>5, <1>6, <2>1, <3>1, ZenonT(30) DEF Rpc!AnswersAreFirst
  <2>4. Rpc!OkIsOwn'
    <3>1. \A u \in Callers : call[u].pc # "idle" => executed'[call[u].id] = executed[call[u].id]
      BY <1>1, <1>5 DEF Rpc!TypeOK
    <3>2. \A i \in Rpc!Ids : ended'[i].status = "OK" => executed'[i] = 1 /\ ended'[i].of = i
      BY <1>5, <2>1 DEF Rpc!OkIsOwn
    <3>3. \A i \in Rpc!Ids' : ended'[i].status = "OK" => executed'[i] = 1 /\ ended'[i].of = i
      BY <1>4, <1>5, <3>2
    <3>4. \A u \in Callers : call'[u].pc # "idle" =>
             /\ call'[u].woken => /\ call'[u].of = call'[u].id
                                  /\ call'[u].status = "OK" => executed'[call'[u].id] = 1
             /\ call'[u].pc = "back" /\ ~call'[u].timed => call'[u].woken
      BY <1>2, <2>1, <3>1 DEF Rpc!OkIsOwn
    <3> QED
      BY <3>3, <3>4 DEF Rpc!OkIsOwn
  <2> QED
    BY <2>2, <2>3, <2>4
<1> QED
  BY <1>7, <1>8, <1>9, <1>10 DEF Rpc!IInv

LEMMA WaitKeeps ==
    ASSUME Rpc!IInv, NEW t \in Callers, Rpc!rpc_waiter_wait(t)
    PROVE  Rpc!IInv'
<1>1. /\ Rpc!TypeOK /\ Rpc!PendingAreWaiting /\ Rpc!RequestedOnce
  BY DEF Rpc!IInv
<1>2. /\ call[t].pc = "waiting"
      /\ call' = [call EXCEPT ![t] = [[call[t] EXCEPT !.pc = "back"]
                                          EXCEPT !.timed = ~call[t].woken]]
      /\ UNCHANGED <<next, pending, chan, reasm, executed, ended, size>>
  BY <1>1 DEF Rpc!rpc_waiter_wait, Rpc!TypeOK, Rpc!Entry
<1>3. /\ call[t] \in Rpc!Entry
      /\ call' \in [Callers -> Rpc!Entry] /\ call'[t].pc = "back" /\ call'[t].timed = ~call[t].woken
      /\ call'[t].woken = call[t].woken
      /\ call'[t].id = call[t].id /\ call'[t].seq = call[t].seq
      /\ call'[t].status = call[t].status /\ call'[t].of = call[t].of
      /\ \A u \in Callers : u # t => call'[u] = call[u]
  <2>1. call[t] \in Rpc!Entry
    BY <1>1 DEF Rpc!TypeOK
  <2> DEFINE c == [[call[t] EXCEPT !.pc = "back"] EXCEPT !.timed = ~call[t].woken]
  <2>2. /\ c \in Rpc!Entry /\ c.pc = "back" /\ c.timed = ~call[t].woken /\ c.woken = call[t].woken
        /\ c.id = call[t].id /\ c.seq = call[t].seq /\ c.status = call[t].status
        /\ c.of = call[t].of
    BY <2>1 DEF Rpc!Entry
  <2>3. call' = [call EXCEPT ![t] = c]
    BY <1>2
  <2> HIDE DEF c
  <2> QED
    BY <1>1, <2>1, <2>2, <2>3 DEF Rpc!TypeOK
<1>4. /\ Rpc!Made' = Rpc!Made /\ Rpc!Ids' = Rpc!Ids /\ Rpc!Numbers' = Rpc!Numbers
      /\ Rpc!Entry' = Rpc!Entry /\ Rpc!OnLink' = Rpc!OnLink /\ Rpc!Outcome' = Rpc!Outcome
      /\ \A k : Rpc!Pending(k)' = Rpc!Pending(k)
  BY <1>2 DEF Rpc!Made, Rpc!Ids, Rpc!Numbers, Rpc!Entry, Rpc!OnLink, Rpc!Outcome, Rpc!Pending
<1>5. Rpc!TypeOK'
  <2>1. \A u \in Callers : call'[u].pc # "idle" =>
           u \in size'.callers /\ call'[u].id \in Rpc!Ids' /\ call'[u].seq \in Rpc!Numbers'
    BY <1>1, <1>2, <1>3, <1>4 DEF Rpc!TypeOK
  <2>2. /\ size' \in CallSizes /\ next' \in [CallNodes -> Rpc!Numbers'] /\ DOMAIN pending' = CallNodes
        /\ \A k \in CallNodes : pending'[k] \in [Rpc!Pending(k)' -> Callers]
        /\ chan' \in [CallNodes -> Seq(Rpc!OnLink')] /\ reasm' \in [CallNodes -> 0..(CallPieces - 1)]
        /\ executed' \in Seq(Nat) /\ ended' \in Seq(Rpc!Outcome') /\ Len(ended') = Rpc!Made'
    BY <1>1, <1>2, <1>4 DEF Rpc!TypeOK
  <2> QED
    BY <1>3, <1>4, <2>1, <2>2 DEF Rpc!TypeOK
<1>6. Rpc!PendingAreWaiting'
  <2>1. \A k : Calling(k)' = Calling(k)
    BY <1>2, <1>3 DEF Calling
  <2>2. \A u \in Callers : call'[u].seq = call[u].seq
    BY <1>3
  <2>3. \A k : Calling(k) \subseteq Callers
    BY DEF Calling
  <2>4. ASSUME NEW k \in CallNodes
        PROVE  /\ Rpc!Pending(k)' = {call'[u].seq : u \in Calling(k)'}
               /\ \A u \in Calling(k)' : pending'[k][call'[u].seq] = u
    BY <1>1, <1>2, <1>4, <2>1, <2>2, <2>3, PendingIs
  <2> QED
    BY <2>4 DEF Rpc!PendingAreWaiting, Calling
<1>7. Rpc!RequestedOnce'
  BY <1>1, <1>2, <1>4 DEF Rpc!RequestedOnce, Rpc!RequestAt
<1>8. ASSUME NEW a \in CallNodes, Rpc!NoReuse', Rpc!OnlyCalls(a)'
      PROVE  Rpc!NumberedAsMade(a)' /\ Rpc!AnswersAreFirst(a)' /\ Rpc!OkIsOwn'
  <2>1. /\ Rpc!NumberedAsMade(a) /\ Rpc!AnswersAreFirst(a) /\ Rpc!OkIsOwn
    BY <1>2, <1>8 DEF Rpc!IInv, Rpc!NoReuse, Rpc!OnlyCalls
  <2>2. Rpc!NumberedAsMade(a)'
    BY <1>2, <1>3, <1>4, <2>1 DEF Rpc!NumberedAsMade, Rpc!After
  <2>3. Rpc!AnswersAreFirst(a)'
    BY <1>2, <1>4, <2>1 DEF Rpc!AnswersAreFirst
  <2>4. Rpc!OkIsOwn'
    <3>1. \A u \in Callers : call'[u].pc # "idle" =>
             /\ call'[u].woken => /\ call'[u].of = call'[u].id
                                  /\ call'[u].status = "OK" => executed[call'[u].id] = 1
             /\ call'[u].pc = "back" /\ ~call'[u].timed => call'[u].woken
      <4>1. /\ call[t].woken => /\ call[t].of = call[t].id
                                /\ call[t].status = "OK" => executed[call[t].id] = 1
            /\ call[t].woken \in BOOLEAN
        BY <1>2, <1>3, <2>1 DEF Rpc!OkIsOwn, Rpc!Entry
      <4>2. \A u \in Callers : u # t => call'[u] = call[u]
        BY <1>3
      <4>3. ASSUME NEW u \in Callers, u # t, call[u].pc # "idle"
            PROVE  /\ call[u].woken => /\ call[u].of = call[u].id
                                       /\ call[u].status = "OK" => executed[call[u].id] = 1
                   /\ call[u].pc = "back" /\ ~call[u].timed => call[u].woken
        BY <2>1, <4>3 DEF Rpc!OkIsOwn
      <4>4. ASSUME NEW u \in Callers, u # t, call'[u].pc # "idle"
            PROVE  /\ call'[u].woken => /\ call'[u].of = call'[u].id
                                        /\ call'[u].status = "OK" => executed[call'[u].id] = 1
                   /\ call'[u].pc = "back" /\ ~call'[u].timed => call'[u].woken
        BY <4>2, <4>3, <4>4
      <4>5. call'[t].pc # "idle" =>
               /\ call'[t].woken => /\ call'[t].of = call'[t].id
                                    /\ call'[t].status = "OK" => executed[call'[t].id] = 1
               /\ call'[t].pc = "back" /\ ~call'[t].timed => call'[t].woken
        BY <1>3, <4>1
      <4> QED
        BY <4>4, <4>5
    <3>2. \A i \in Rpc!Ids : ended[i].status = "OK" => executed[i] = 1 /\ ended[i].of = i
      BY <2>1 DEF Rpc!OkIsOwn
    <3> QED
      BY <1>2, <1>4, <3>1, <3>2 DEF Rpc!OkIsOwn
  <2> QED
    BY <2>2, <2>3, <2>4
<1> QED
  BY <1>5, <1>6, <1>7, <1>8 DEF Rpc!IInv

LEMMA ReturnKeeps ==
    ASSUME Rpc!IInv, NEW t \in Callers, Rpc!rpc_return(t)
    PROVE  Rpc!IInv'
<1> DEFINE n == CallHome[t]
           c == call[t]
           e == IF c.timed THEN [status |-> "TIMEOUT", of |-> NoCall]
                ELSE [status |-> c.status, of |-> c.of]
<1>1. /\ Rpc!TypeOK /\ Rpc!PendingAreWaiting /\ Rpc!RequestedOnce
  BY DEF Rpc!IInv
<1>2. n \in CallNodes
  BY CallConstants
<1>3. /\ c.pc = "back" /\ c \in Rpc!Entry /\ t \in Calling(n)
      /\ c.id \in Rpc!Ids
  BY <1>1 DEF Rpc!rpc_return, Rpc!TypeOK, Calling
<1>4. /\ pending' = [pending EXCEPT ![n] = [x \in Rpc!Pending(n) \ {c.seq} |-> pending[n][x]]]
      /\ call' = [call EXCEPT ![t] = Rpc!Idle]
      /\ ended' = [ended EXCEPT ![c.id] = e]
      /\ UNCHANGED <<next, chan, reasm, executed, size>>
  BY <1>1, <1>2 DEF Rpc!rpc_return, Rpc!TypeOK
<1>5. /\ Rpc!Made' = Rpc!Made /\ Rpc!Ids' = Rpc!Ids /\ Rpc!Numbers' = Rpc!Numbers
      /\ Rpc!Entry' = Rpc!Entry /\ Rpc!OnLink' = Rpc!OnLink /\ Rpc!Outcome' = Rpc!Outcome
  BY <1>4 DEF Rpc!Made, Rpc!Ids, Rpc!Numbers, Rpc!Entry, Rpc!OnLink, Rpc!Outcome
<1>6. /\ e \in Rpc!Outcome
      /\ e.status = "OK" => ~c.timed /\ c.status = "OK" /\ e.of = c.of
  BY <1>3 DEF Rpc!Entry, Rpc!Outcome
<1> HIDE DEF n, c, e
<1>7. /\ call' \in [Callers -> Rpc!Entry] /\ call'[t].pc = "idle"
      /\ \A u \in Callers : u # t => call'[u] = call[u]
  <2>1. Rpc!Idle \in Rpc!Entry /\ Rpc!Idle.pc = "idle"
    BY DEF Rpc!Idle, Rpc!Entry
  <2> QED
    BY <1>1, <1>4, <2>1 DEF Rpc!TypeOK
<1>8. /\ ended' \in Seq(Rpc!Outcome) /\ Len(ended') = Rpc!Made
      /\ \A i \in Rpc!Ids : ended'[i] = IF i = c.id THEN e ELSE ended[i]
  <2> DEFINE O == Rpc!Outcome
  <2>1. ended \in Seq(O) /\ Len(ended) = Rpc!Made /\ Rpc!Made \in Nat /\ Rpc!Ids = 1..Rpc!Made
    BY <1>1, CallWidths DEF Rpc!TypeOK
  <2>2. e \in O /\ c.id \in 1..Len(ended)
    BY <1>3, <1>6, <2>1
  <2> HIDE DEF O
  <2>3. /\ ended' \in Seq(O) /\ Len(ended') = Len(ended)
        /\ \A i \in 1..Len(ended) : ended'[i] = IF i = c.id THEN e ELSE ended[i]
    BY <1>4, <2>1, <2>2
  <2> QED
    BY <2>1, <2>3 DEF O
<1>9. /\ DOMAIN pending' = CallNodes
      /\ \A k \in CallNodes : k # n => pending'[k] = pending[k]
      /\ pending'[n] = [x \in Rpc!Pending(n) \ {c.seq} |-> pending[n][x]]
  BY <1>1, <1>2, <1>4 DEF Rpc!TypeOK
<1>10. /\ Rpc!Pending(n)' = Rpc!Pending(n) \ {c.seq}
       /\ \A k \in CallNodes : k # n => Rpc!Pending(k)' = Rpc!Pending(k)
  BY <1>9 DEF Rpc!Pending
<1>11. Rpc!TypeOK'
  <2>1. /\ size' \in CallSizes /\ next' \in [CallNodes -> Rpc!Numbers']
        /\ chan' \in [CallNodes -> Seq(Rpc!OnLink')] /\ reasm' \in [CallNodes -> 0..(CallPieces - 1)]
        /\ executed' \in Seq(Nat)
    BY <1>1, <1>4, <1>5 DEF Rpc!TypeOK
  <2>2. \A k \in CallNodes : pending'[k] \in [Rpc!Pending(k)' -> Callers]
    <3>1. \A k \in CallNodes : pending[k] \in [Rpc!Pending(k) -> Callers]
      BY <1>1 DEF Rpc!TypeOK
    <3>2. pending'[n] \in [Rpc!Pending(n) \ {c.seq} -> Callers]
      <4>1. \A x \in Rpc!Pending(n) : pending[n][x] \in Callers
        BY <1>2, <3>1
      <4> QED
        BY <1>9, <4>1
    <3> QED
      BY <1>9, <1>10, <3>1, <3>2
  <2>3. \A u \in Callers : call'[u].pc # "idle" =>
           u \in size'.callers /\ call'[u].id \in Rpc!Ids' /\ call'[u].seq \in Rpc!Numbers'
    BY <1>1, <1>4, <1>5, <1>7 DEF Rpc!TypeOK
  <2> QED
    BY <1>5, <1>7, <1>8, <1>9, <2>1, <2>2, <2>3 DEF Rpc!TypeOK
<1>12. Rpc!PendingAreWaiting'
  <2>1. /\ Calling(n)' = Calling(n) \ {t}
        /\ \A k \in CallNodes : k # n => Calling(k)' = Calling(k)
    BY <1>7 DEF Calling, n
  <2>2. \A k \in CallNodes : \A u \in Calling(k) : u # t => call'[u] = call[u]
    BY <1>7 DEF Calling
  <2>3. ASSUME NEW k \in CallNodes
        PROVE  /\ Rpc!Pending(k) = {call[u].seq : u \in Calling(k)}
               /\ \A u \in Calling(k) : pending[k][call[u].seq] = u
    BY <1>1, PendingIs
  <2>4. ASSUME NEW k \in CallNodes
        PROVE  /\ Rpc!Pending(k)' = {call'[u].seq : u \in Calling(k)'}
               /\ \A u \in Calling(k)' : pending'[k][call'[u].seq] = u
    <3>1. CASE k = n
      <4>1. pending[k][c.seq] = t
        BY <1>3, <2>3, <3>1 DEF c
      <4>2. \A u \in Calling(k) : u # t => call[u].seq # c.seq
        BY <2>3, <4>1
      <4>3. Rpc!Pending(k)' = {call'[u].seq : u \in Calling(k)'}
        BY <1>10, <2>1, <2>2, <2>3, <3>1, <4>2 DEF c
      <4>4. \A u \in Calling(k)' : pending'[k][call'[u].seq] = u
        BY <1>9, <2>1, <2>2, <2>3, <3>1, <4>2
      <4> QED
        BY <4>3, <4>4
    <3>2. CASE k # n
      <4>1. t \notin Calling(k)
        BY <3>2 DEF Calling, n
      <4> QED
        BY <1>9, <1>10, <2>1, <2>2, <2>3, <3>2, <4>1
    <3> QED
      BY <3>1, <3>2
  <2> QED
    BY <2>4 DEF Rpc!PendingAreWaiting, Calling
<1>13. Rpc!RequestedOnce'
  BY <1>1, <1>4, <1>5 DEF Rpc!RequestedOnce, Rpc!RequestAt
<1>14. ASSUME NEW a \in CallNodes, Rpc!NoReuse', Rpc!OnlyCalls(a)'
       PROVE  Rpc!NumberedAsMade(a)' /\ Rpc!AnswersAreFirst(a)' /\ Rpc!OkIsOwn'
  <2>1. /\ Rpc!NumberedAsMade(a) /\ Rpc!AnswersAreFirst(a) /\ Rpc!OkIsOwn
    BY <1>4, <1>14 DEF Rpc!IInv, Rpc!NoReuse, Rpc!OnlyCalls
  <2>2. Rpc!NumberedAsMade(a)'
    BY <1>4, <1>5, <1>7, <2>1 DEF Rpc!NumberedAsMade, Rpc!After
  <2>3. Rpc!AnswersAreFirst(a)'
    <3>1. Rpc!Pending(a)' \subseteq Rpc!Pending(a)
      BY <1>10
    <3> QED
      BY <1>4, <2>1, <3>1 DEF Rpc!AnswersAreFirst
  <2>4. Rpc!OkIsOwn'
    <3>1. \A u \in Callers : call'[u].pc # "idle" =>
             /\ call'[u].woken => /\ call'[u].of = call'[u].id
                                  /\ call'[u].status = "OK" => executed[call'[u].id] = 1
             /\ call'[u].pc = "back" /\ ~call'[u].timed => call'[u].woken
      BY <1>7, <2>1 DEF Rpc!OkIsOwn
    <3>2. e.status = "OK" => executed[c.id] = 1 /\ e.of = c.id
      <4>1. ~c.timed => c.woken /\ c.of = c.id /\ (c.status = "OK" => executed[c.id] = 1)
        BY <1>3, <2>1 DEF Rpc!OkIsOwn, c
      <4> QED
        BY <1>6, <4>1
    <3>3. \A i \in Rpc!Ids : ended'[i].status = "OK" => executed[i] = 1 /\ ended'[i].of = i
      BY <1>8, <2>1, <3>2 DEF Rpc!OkIsOwn
    <3> QED
      BY <1>4, <1>5, <3>1, <3>3 DEF Rpc!OkIsOwn
  <2> QED
    BY <2>2, <2>3, <2>4
<1> QED
  BY <1>11, <1>12, <1>13, <1>14 DEF Rpc!IInv

\* What stands in the front of a sequence.
LEMMA FrontItems ==
    ASSUME NEW S, NEW q \in Seq(S), NEW d \in 0..Len(q), NEW i \in 1..d
    PROVE  i \in DOMAIN q /\ SubSeq(q, 1, d)[i] = q[i] /\ q[i] \in S
OBVIOUS

\* The messages that some of the pieces on their way complete.
LEMMA Completed ==
    ASSUME NEW x \in Nat, NEW P \in Nat, P > 0, NEW L \in Nat, x <= P * L
    PROVE  x \div P \in 0..L /\ (x % P) \in 0..(P - 1)
<1> DEFINE q == x \div P
           r == x % P
<1>1. q \in Int /\ r \in 0..(P - 1) /\ x = P * q + r
  OBVIOUS
<1>2. x \in Nat
  OBVIOUS
<1> HIDE DEF q, r
<1>5. q >= 0
  <2> SUFFICES ASSUME q <= -1 PROVE FALSE
    BY <1>1
  <2>1. P * (-q) >= P
    BY <1>1
  <2>2. P * q = -(P * (-q))
    BY <1>1
  <2> QED
    BY <1>1, <1>2, <2>1, <2>2
<1>3. q <= L
  <2> SUFFICES ASSUME q >= L + 1 PROVE FALSE
    BY <1>1
  <2>1. P * (q - L) >= P
    BY <1>1
  <2>2. P * (q - L) = P * q - P * L
    BY <1>1
  <2> QED
    BY <1>1, <2>1, <2>2
<1> QED
  BY <1>1, <1>3, <1>5 DEF q, r

\* What became of the first d messages of node n: one of them was the answer
\* that task t took; one was the request that call id is executed for; and m is
\* an answer to one of them.
Taken(n, d, t) ==
    \E i \in 1..d : /\ chan[n][i].seq \in Rpc!Pending(n)
                    /\ pending[n][chan[n][i].seq] = t
                    /\ call'[t] = Rpc!rpc_handle_response(call[t], chan[n][i])

Executed(n, d, id) ==
    /\ \E i \in 1..d : Rpc!RequestAt(n, i, id)
    /\ executed[id] = 0 /\ executed'[id] = 1

Answered(n, d, m) ==
    /\ m.body = "answer"
    /\ \E i \in 1..d :
          /\ m.seq = chan[n][i].seq /\ m.of = chan[n][i].of
          /\ m.seq \notin Rpc!Pending(n)
          /\ m.status = "OK" /\ chan[n][i].body = "request" => executed'[m.of] = 1

LEMMA DataWrites ==
    ASSUME Rpc!IInv, NEW n \in CallNodes, NEW k \in 1..(CallPieces + 1), Rpc!rpc_on_data(n, k),
           NEW p, p = Rpc!Peer(n)
    PROVE  /\ \E d \in 0..Len(chan[n]) : \E new \in Seq({m \in Rpc!OnLink : Answered(n, d, m)}) :
                 /\ chan' = [chan EXCEPT ![n] = SubSeq(@, d + 1, Len(@)), ![p] = @ \o new]
                 /\ \A t \in Callers : call'[t] = call[t] \/ Taken(n, d, t)
                 /\ \A id \in Rpc!Ids : executed'[id] = executed[id] \/ Executed(n, d, id)
           /\ DOMAIN call' = Callers /\ call' = [t \in Callers |-> call'[t]]
           /\ executed' \in Seq(Nat) /\ Len(executed') = Rpc!Made
           /\ reasm' \in [CallNodes -> 0..(CallPieces - 1)]
           /\ UNCHANGED <<next, pending, ended, size>>
<1> DEFINE d == (reasm[n] + k) \div CallPieces
           ms == SubSeq(chan[n], 1, d)
<1>1. /\ Rpc!TypeOK /\ Rpc!RequestedOnce
  BY DEF Rpc!IInv
<1>2. /\ reasm[n] \in Nat /\ Len(chan[n]) \in Nat /\ chan[n] \in Seq(Rpc!OnLink)
      /\ DOMAIN chan[n] = 1..Len(chan[n])
      /\ CallPieces \in Nat /\ CallPieces > 0 /\ k \in Nat
  BY <1>1, CallConstants DEF Rpc!TypeOK
<1>3. d \in 0..Len(chan[n]) /\ ((reasm[n] + k) % CallPieces) \in 0..(CallPieces - 1)
  <2> DEFINE x == reasm[n] + k
             L == Len(chan[n])
  <2>0. x <= CallPieces * L
    BY Zenon DEF Rpc!rpc_on_data
  <2>1. x \in Nat /\ L \in Nat
    BY <1>2
  <2> HIDE DEF x, L
  <2>2. x \div CallPieces \in 0..L /\ (x % CallPieces) \in 0..(CallPieces - 1)
    <3>1. \A y, P, M \in Nat : P > 0 /\ y <= P * M =>
             y \div P \in 0..M /\ (y % P) \in 0..(P - 1)
      BY Completed
    <3> QED
      BY <1>2, <2>0, <2>1, <3>1
  <2> QED
    BY <2>2, Zenon DEF x, L
<1>4. \A i \in 1..d : i \in DOMAIN chan[n] /\ ms[i] = chan[n][i] /\ chan[n][i] \in Rpc!OnLink
  <2> DEFINE q == chan[n]
             S == Rpc!OnLink
  <2>1. q \in Seq(S) /\ d \in 0..Len(q)
    BY <1>2, <1>3
  <2> HIDE DEF d, q, S
  <2>2. \A i \in 1..d : i \in DOMAIN q /\ SubSeq(q, 1, d)[i] = q[i] /\ q[i] \in S
    BY <2>1, FrontItems
  <2> QED
    BY <2>2 DEF d, q, S
<1>5. PICK fate \in [1..d -> size.fates] :
        LET Came(way) == {i \in 1..d : Rpc!rpc_dispatch_message(n, ms[i], fate[i]) = way}
            Answers(t) == {i \in Came("response") : pending[n][ms[i].seq] = t}
            Runs(id) == {i \in Came("request") :
                            ms[i].of = id /\ Rpc!RunsHandler(ms[i], fate[i])}
            replies == [i \in 1..d |-> IF i \in Came("request")
                                       THEN Rpc!rpc_handle_request(ms[i], fate[i]) ELSE <<>>]
        IN  /\ call' = [t \in Callers |->
                           IF Answers(t) = {} THEN call[t]
                           ELSE Rpc!rpc_handle_response(call[t], ms[Rpc!Max(Answers(t))])]
            /\ executed' = [id \in 1..Rpc!Made |-> executed[id] + Rpc!Cardinality(Runs(id))]
            /\ chan' = [chan EXCEPT ![n] = SubSeq(@, d + 1, Len(@)),
                                    ![Rpc!Peer(n)] = @ \o Rpc!FlattenSeq(replies)]
  BY ZenonT(30) DEF Rpc!rpc_on_data
<1> DEFINE Came(way) == {i \in 1..d : Rpc!rpc_dispatch_message(n, ms[i], fate[i]) = way}
           Answers(t) == {i \in Came("response") : pending[n][ms[i].seq] = t}
           Runs(id) == {i \in Came("request") :
                           ms[i].of = id /\ Rpc!RunsHandler(ms[i], fate[i])}
           replies == [i \in 1..d |-> IF i \in Came("request")
                                      THEN Rpc!rpc_handle_request(ms[i], fate[i]) ELSE <<>>]
<1>6. /\ call' = [t \in Callers |->
                     IF Answers(t) = {} THEN call[t]
                     ELSE Rpc!rpc_handle_response(call[t], ms[Rpc!Max(Answers(t))])]
      /\ executed' = [id \in 1..Rpc!Made |-> executed[id] + Rpc!Cardinality(Runs(id))]
      /\ chan' = [chan EXCEPT ![n] = SubSeq(@, d + 1, Len(@)),
                              ![Rpc!Peer(n)] = @ \o Rpc!FlattenSeq(replies)]
  BY <1>5, ZenonT(30)
<1>7. reasm' = [reasm EXCEPT ![n] = (reasm[n] + k) % CallPieces]
      /\ UNCHANGED <<next, pending, ended, size>>
  BY <1>1, Zenon DEF Rpc!rpc_on_data, Rpc!TypeOK
<1>8. \A i \in 1..d :
         /\ i \in Came("response") => ms[i].seq \in Rpc!Pending(n)
         /\ i \in Came("request") => ms[i].seq \notin Rpc!Pending(n)
  BY DEF Rpc!rpc_dispatch_message
<1>9. \A way : Came(way) \subseteq 1..d
  OBVIOUS
<1>10. d \in Nat
  BY <1>3
<1> HIDE DEF Came, ms, d
<1>11. ASSUME NEW t \in Callers PROVE call'[t] = call[t] \/ Taken(n, d, t)
  <2>1. CASE Answers(t) = {}
    BY <1>6, <2>1
  <2>2. CASE Answers(t) # {}
    <3> DEFINE A == Answers(t)
               i == Rpc!Max(A)
    <3>1. A \subseteq 1..d /\ A # {}
      BY <1>9, <2>2
    <3>2. i \in A
      <4>1. \E j \in A : \A l \in A : j >= l
        <5> DEFINE B == {d - j : j \in A}
        <5>1. B \in SUBSET Nat /\ B # {}
          BY <1>10, <3>1
        <5> HIDE DEF B
        <5>2. PICK b \in B : \A e \in B : b <= e
          BY <5>1, LeastElement
        <5>3. PICK j \in A : b = d - j
          BY <5>2 DEF B
        <5>4. \A l \in A : b <= d - l
          BY <5>2 DEF B
        <5>5. \A l \in A : j >= l
          BY <1>10, <3>1, <5>3, <5>4, SMTT(30)
        <5> QED
          BY <5>5
      <4> HIDE DEF A
      <4> QED
        BY <4>1 DEF Rpc!Max
    <3>3. /\ i \in 1..d /\ ms[i].seq \in Rpc!Pending(n) /\ pending[n][ms[i].seq] = t
          /\ ms[i] = chan[n][i]
      BY <1>4, <1>8, <1>9, <3>2
    <3>4. call'[t] = Rpc!rpc_handle_response(call[t], ms[i])
      BY <1>6, <2>2
    <3> HIDE DEF A, i
    <3> QED
      BY <3>3, <3>4 DEF Taken
  <2> QED
    BY <2>1, <2>2
<1>12. Rpc!Ids = 1..Rpc!Made /\ Rpc!Made \in Nat /\ \A id \in Rpc!Ids : executed[id] \in Nat
  BY <1>1, CallWidths
\* Of the requests there is one at most, and it had not run.
<1>13. ASSUME NEW id \in Rpc!Ids
       PROVE  /\ Runs(id) = {} => Rpc!Cardinality(Runs(id)) = 0
              /\ Runs(id) # {} => /\ Rpc!Cardinality(Runs(id)) = 1
                                  /\ executed[id] = 0
                                  /\ \E i \in 1..d : Rpc!RequestAt(n, i, id)
  <2> DEFINE R == Runs(id)
  <2>1. \A i \in R : i \in 1..d /\ i \in DOMAIN chan[n] /\ Rpc!RequestAt(n, i, id)
    BY <1>4, <1>9 DEF Rpc!RequestAt, Rpc!RunsHandler
  <2>2. \A i \in R : executed[id] = 0 /\ \A j \in R : j = i
    BY <1>1, <2>1 DEF Rpc!RequestedOnce
  <2> HIDE DEF R
  <2>3. ASSUME R # {} PROVE Cardinality(R) = 1
    <3>1. PICK i : i \in R
      BY <2>3
    <3>2. R = {i}
      BY <2>2, <3>1
    <3> QED
      BY <3>2, FS_Singleton
  <2>4. Cardinality({}) = 0
    BY FS_EmptySet
  <2>5. Rpc!Cardinality(R) = Cardinality(R)
    BY CallsCount
  <2>6. R = {} => Rpc!Cardinality(R) = 0
    BY <2>4, <2>5
  <2> QED
    BY <2>1, <2>2, <2>3, <2>5, <2>6 DEF R
<1>14. ASSUME NEW id \in Rpc!Ids
       PROVE  executed'[id] \in Nat /\ (executed'[id] = executed[id] \/ Executed(n, d, id))
  <2>1. executed'[id] = executed[id] + Rpc!Cardinality(Runs(id))
    BY <1>6, <1>12
  <2> HIDE DEF Runs
  <2> QED
    BY <1>12, <1>13, <2>1 DEF Executed
<1>15. executed' \in Seq(Nat) /\ Len(executed') = Rpc!Made
  <2>1. DOMAIN executed' = 1..Rpc!Made /\ executed' = [id \in 1..Rpc!Made |-> executed'[id]]
    BY <1>6
  <2>2. \A id \in 1..Rpc!Made : executed'[id] \in Nat
    BY <1>12, <1>14
  <2> QED
    BY <1>12, <2>1, <2>2
<1> DEFINE S == {m \in Rpc!OnLink : Answered(n, d, m)}
<1>16. Rpc!FlattenSeq(replies) \in Seq(S)
  <2>1. ASSUME NEW i \in 1..d PROVE replies[i] \in Seq(S)
    <3>1. CASE i \notin Came("request") \/ fate[i] = "lost"
      BY <3>1 DEF Rpc!rpc_handle_request
    <3>2. CASE i \in Came("request") /\ fate[i] # "lost"
      <4> DEFINE m == [seq |-> ms[i].seq,
                       status |-> IF fate[i] = "done" THEN "OK" ELSE "INTERNAL_ERROR",
                       of |-> ms[i].of, body |-> "answer"]
      <4>1. replies[i] = <<m>>
        BY <3>2 DEF Rpc!rpc_handle_request
      <4>2. ms[i] = chan[n][i] /\ chan[n][i] \in Rpc!OnLink /\ chan[n][i].of \in Rpc!Ids
        BY <1>4 DEF Rpc!OnLink
      <4>3. m \in Rpc!OnLink
        BY <4>2 DEF Rpc!OnLink
      <4>4. m.status = "OK" /\ chan[n][i].body = "request" => i \in Runs(m.of)
        BY <3>2, <4>2 DEF Rpc!RunsHandler
      <4>5. executed'[m.of] = executed[m.of] + Rpc!Cardinality(Runs(m.of))
        BY <1>6, <1>12, <4>2
      <4>6. m.status = "OK" /\ chan[n][i].body = "request" => executed'[m.of] = 1
        <5>1. m.of \in Rpc!Ids
          BY <4>2
        <5> HIDE DEF m, Runs
        <5> QED
          BY <1>13, <4>4, <4>5, <5>1
      <4>7. m.seq = chan[n][i].seq /\ m.of = chan[n][i].of /\ m.seq \notin Rpc!Pending(n)
            /\ m.body = "answer"
        BY <1>8, <3>2, <4>2
      <4> HIDE DEF m
      <4>8. Answered(n, d, m)
        BY <4>6, <4>7 DEF Answered
      <4>9. m \in S
        BY <4>3, <4>8
      <4> HIDE DEF S, replies
      <4>10. <<m>> \in Seq(S)
        BY <4>9
      <4> QED
        BY <4>1, <4>10
    <3> QED
      BY <3>1, <3>2
  <2>2. replies = [i \in 1..d |-> replies[i]]
    OBVIOUS
  <2> HIDE DEF S, replies
  <2>3. replies \in [1..d -> Seq(S)]
    BY <2>1, <2>2
  <2> QED
    BY <1>10, <2>3, FlattenType
<1>17. reasm' \in [CallNodes -> 0..(CallPieces - 1)]
  BY <1>1, <1>3, <1>7 DEF Rpc!TypeOK, d
<1>18. \E new \in Seq(S) :
          chan' = [chan EXCEPT ![n] = SubSeq(@, d + 1, Len(@)), ![p] = @ \o new]
  <2> HIDE DEF replies, S
  <2> QED
    BY <1>6, <1>16
<1>19. DOMAIN call' = Callers /\ call' = [t \in Callers |-> call'[t]]
  BY <1>6
<1> HIDE DEF S, replies, Runs, Answers
<1>20. \E new \in Seq(S) :
                 /\ chan' = [chan EXCEPT ![n] = SubSeq(@, d + 1, Len(@)), ![p] = @ \o new]
                 /\ \A t \in Callers : call'[t] = call[t] \/ Taken(n, d, t)
                 /\ \A id \in Rpc!Ids : executed'[id] = executed[id] \/ Executed(n, d, id)
  BY <1>11, <1>14, <1>18
<1> QED
  BY <1>3, <1>7, <1>15, <1>17, <1>19, <1>20 DEF S

LEMMA DataKeeps ==
    ASSUME Rpc!IInv, NEW n \in CallNodes, NEW k \in 1..(CallPieces + 1), Rpc!rpc_on_data(n, k)
    PROVE  Rpc!IInv'
<1> DEFINE p == Rpc!Peer(n)
<1>1. /\ Rpc!TypeOK /\ Rpc!PendingAreWaiting /\ Rpc!RequestedOnce
  BY DEF Rpc!IInv
<1>2. p \in CallNodes /\ p # n /\ \A l \in CallNodes : l = n \/ l = p
  BY CallConstants
<1>3. /\ \E d \in 0..Len(chan[n]) : \E new \in Seq({m \in Rpc!OnLink : Answered(n, d, m)}) :
            /\ chan' = [chan EXCEPT ![n] = SubSeq(@, d + 1, Len(@)), ![p] = @ \o new]
            /\ \A t \in Callers : call'[t] = call[t] \/ Taken(n, d, t)
            /\ \A id \in Rpc!Ids : executed'[id] = executed[id] \/ Executed(n, d, id)
      /\ DOMAIN call' = Callers /\ call' = [t \in Callers |-> call'[t]]
      /\ executed' \in Seq(Nat) /\ Len(executed') = Rpc!Made
      /\ reasm' \in [CallNodes -> 0..(CallPieces - 1)]
      /\ UNCHANGED <<next, pending, ended, size>>
  BY DataWrites
<1>4. PICK d \in 0..Len(chan[n]) : \E new \in Seq({m \in Rpc!OnLink : Answered(n, d, m)}) :
            /\ chan' = [chan EXCEPT ![n] = SubSeq(@, d + 1, Len(@)), ![p] = @ \o new]
            /\ \A t \in Callers : call'[t] = call[t] \/ Taken(n, d, t)
            /\ \A id \in Rpc!Ids : executed'[id] = executed[id] \/ Executed(n, d, id)
  BY <1>3
<1> DEFINE S == {m \in Rpc!OnLink : Answered(n, d, m)}
<1>5. PICK new \in Seq(S) :
            /\ chan' = [chan EXCEPT ![n] = SubSeq(@, d + 1, Len(@)), ![p] = @ \o new]
            /\ \A t \in Callers : call'[t] = call[t] \/ Taken(n, d, t)
            /\ \A id \in Rpc!Ids : executed'[id] = executed[id] \/ Executed(n, d, id)
  BY <1>4
<1> HIDE DEF p
<1>6. /\ Rpc!Made' = Rpc!Made /\ Rpc!Ids' = Rpc!Ids /\ Rpc!Numbers' = Rpc!Numbers
      /\ Rpc!Entry' = Rpc!Entry /\ Rpc!OnLink' = Rpc!OnLink /\ Rpc!Outcome' = Rpc!Outcome
      /\ \A l : Rpc!Pending(l)' = Rpc!Pending(l)
  BY <1>3 DEF Rpc!Made, Rpc!Ids, Rpc!Numbers, Rpc!Entry, Rpc!OnLink, Rpc!Outcome, Rpc!Pending
<1>7. /\ chan \in [CallNodes -> Seq(Rpc!OnLink)]
      /\ Rpc!Ids = 1..Rpc!Made /\ Rpc!Made \in Nat /\ \A id \in Rpc!Ids : executed[id] \in Nat
  BY <1>1, CallWidths DEF Rpc!TypeOK
<1>8. new \in Seq(Rpc!OnLink) /\ \A j \in DOMAIN new : new[j] \in Rpc!OnLink /\ Answered(n, d, new[j])
  <2>1. S \subseteq Rpc!OnLink
    OBVIOUS
  <2>2. \A j \in DOMAIN new : new[j] \in S
    BY <1>5
  <2>3. new \in Seq(Rpc!OnLink)
    BY <1>5, <2>1, SeqGrows
  <2> QED
    BY <2>2, <2>3
<1>9. /\ chan' \in [CallNodes -> Seq(Rpc!OnLink)]
      /\ chan'[n] = SubSeq(chan[n], d + 1, Len(chan[n])) /\ chan'[p] = chan[p] \o new
  <2> DEFINE L == Rpc!OnLink
             q == SubSeq(chan[n], d + 1, Len(chan[n]))
             r == chan[p] \o new
  <2>1. q \in Seq(L) /\ r \in Seq(L)
    BY <1>2, <1>4, <1>7, <1>8
  <2>2. chan' = [chan EXCEPT ![n] = q, ![p] = r]
    BY <1>2, <1>5, <1>7
  <2> HIDE DEF L, q, r
  <2>3. chan' \in [CallNodes -> Seq(L)] /\ chan'[n] = q /\ chan'[p] = r
    BY <1>2, <1>7, <2>1, <2>2 DEF L
  <2> QED
    BY <2>3 DEF L, q, r
\* Where the messages were that are on their way now.
<1>10. \A i \in DOMAIN chan'[n] : /\ i + d \in DOMAIN chan[n] /\ chan'[n][i] = chan[n][i + d]
                                  /\ i \in Nat /\ i + d > d
  <2> DEFINE q == chan[n]
             L == Rpc!OnLink
  <2>1. q \in Seq(L) /\ d \in 0..Len(q)
    BY <1>4, <1>7
  <2> HIDE DEF q, L
  <2>2. \A i \in DOMAIN SubSeq(q, d + 1, Len(q)) :
           /\ i + d \in DOMAIN q /\ SubSeq(q, d + 1, Len(q))[i] = q[i + d]
           /\ i \in Nat /\ i + d > d
    <3> DEFINE N == Len(q)
    <3>1. N \in Nat /\ DOMAIN q = 1..N /\ d \in 0..N
      BY <2>1
    <3>2. /\ DOMAIN SubSeq(q, d + 1, N) = 1..(N - d)
          /\ \A i \in 1..(N - d) : SubSeq(q, d + 1, N)[i] = q[i + d]
      BY <2>1
    <3>3. \A i \in 1..(N - d) : i + d \in 1..N /\ i \in Nat /\ i + d > d
      BY <3>1
    <3> HIDE DEF N
    <3>4. \A i \in DOMAIN SubSeq(q, d + 1, N) :
             /\ i + d \in DOMAIN q /\ SubSeq(q, d + 1, N)[i] = q[i + d]
             /\ i \in Nat /\ i + d > d
      BY <3>1, <3>2, <3>3
    <3> QED
      BY <3>4 DEF N
  <2> QED
    BY <1>9, <2>2 DEF q
<1>11. \A i \in DOMAIN chan'[p] :
          \/ i \in DOMAIN chan[p] /\ chan'[p][i] = chan[p][i]
          \/ \E j \in DOMAIN new : chan'[p][i] = new[j]
  <2> DEFINE q == chan[p]
             L == Rpc!OnLink
  <2>1. q \in Seq(L) /\ new \in Seq(L)
    BY <1>2, <1>7, <1>8
  <2> HIDE DEF q, L
  <2>2. ASSUME NEW i \in DOMAIN (q \o new)
        PROVE  \/ i \in DOMAIN q /\ (q \o new)[i] = q[i]
               \/ \E j \in DOMAIN new : (q \o new)[i] = new[j]
    <3>1. CASE i \in DOMAIN q
      BY <2>1, <3>1
    <3>2. CASE i \notin DOMAIN q
      <4>1. i - Len(q) \in DOMAIN new /\ (q \o new)[i] = new[i - Len(q)]
        BY <2>1, <3>2
      <4> QED
        BY <4>1
    <3> QED
      BY <3>1, <3>2
  <2> QED
    BY <1>9, <2>2 DEF q
<1>12. \A i \in 1..d : i \in DOMAIN chan[n]
  BY <1>4, <1>7
<1>13. \A l \in CallNodes : \A i \in DOMAIN chan[l] : chan[l][i] \in Rpc!OnLink /\ chan[l][i].of \in Rpc!Ids
  <2>1. \A l \in CallNodes : \A i \in DOMAIN chan[l] : chan[l][i] \in Rpc!OnLink
    BY <1>7
  <2> QED
    BY <2>1 DEF Rpc!OnLink
\* The call that an answer is written into keeps what it is.
<1>14. \A t \in Callers :
          /\ call'[t] \in Rpc!Entry /\ call'[t].pc = call[t].pc /\ call'[t].id = call[t].id
          /\ call'[t].seq = call[t].seq /\ call'[t].timed = call[t].timed
  <2> SUFFICES ASSUME NEW t \in Callers
               PROVE  /\ call'[t] \in Rpc!Entry /\ call'[t].pc = call[t].pc /\ call'[t].id = call[t].id
                      /\ call'[t].seq = call[t].seq /\ call'[t].timed = call[t].timed
    OBVIOUS
  <2>1. call[t] \in Rpc!Entry
    BY <1>1 DEF Rpc!TypeOK
  <2>2. CASE Taken(n, d, t)
    <3>1. PICK i \in 1..d : call'[t] = Rpc!rpc_handle_response(call[t], chan[n][i])
      BY <2>2 DEF Taken
    <3>2. chan[n][i].of \in Rpc!Ids /\ chan[n][i].status \in {"OK", "INTERNAL_ERROR"}
      BY <1>12, <1>13 DEF Rpc!OnLink
    <3> QED
      BY <2>1, <3>1, <3>2 DEF Rpc!rpc_handle_response, Rpc!Entry
  <2> QED
    BY <1>5, <2>1, <2>2
<1>15. Rpc!TypeOK'
  <2>1. call' \in [Callers -> Rpc!Entry]
    BY <1>3, <1>14
  <2>2. \A u \in Callers : call'[u].pc # "idle" =>
           u \in size'.callers /\ call'[u].id \in Rpc!Ids' /\ call'[u].seq \in Rpc!Numbers'
    <3> SUFFICES ASSUME NEW u \in Callers, call'[u].pc # "idle"
                 PROVE  u \in size'.callers /\ call'[u].id \in Rpc!Ids' /\ call'[u].seq \in Rpc!Numbers'
      OBVIOUS
    <3>1. call'[u].pc = call[u].pc /\ call'[u].id = call[u].id /\ call'[u].seq = call[u].seq
      BY <1>14
    <3>2. u \in size.callers /\ call[u].id \in Rpc!Ids /\ call[u].seq \in Rpc!Numbers
      BY <1>1, <3>1 DEF Rpc!TypeOK
    <3> QED
      BY <1>3, <1>6, <3>1, <3>2
  <2>3. /\ size' \in CallSizes /\ next' \in [CallNodes -> Rpc!Numbers'] /\ DOMAIN pending' = CallNodes
        /\ \A l \in CallNodes : pending'[l] \in [Rpc!Pending(l)' -> Callers]
        /\ ended' \in Seq(Rpc!Outcome') /\ Len(ended') = Rpc!Made'
    BY <1>1, <1>3, <1>6 DEF Rpc!TypeOK
  <2> QED
    BY <1>3, <1>6, <1>9, <2>1, <2>2, <2>3 DEF Rpc!TypeOK
<1>16. Rpc!PendingAreWaiting'
  <2>1. \A l : Calling(l)' = Calling(l) /\ Calling(l) \subseteq Callers
    BY <1>14 DEF Calling
  <2>2. ASSUME NEW l \in CallNodes
        PROVE  /\ Rpc!Pending(l)' = {call'[u].seq : u \in Calling(l)'}
               /\ \A u \in Calling(l)' : pending'[l][call'[u].seq] = u
    <3>1. \A u \in Calling(l) : call'[u].seq = call[u].seq
      BY <1>14, <2>1
    <3>2. /\ Rpc!Pending(l) = {call[u].seq : u \in Calling(l)}
          /\ \A u \in Calling(l) : pending[l][call[u].seq] = u
      BY <1>1, PendingIs
    <3>3. {call'[u].seq : u \in Calling(l)} = {call[u].seq : u \in Calling(l)}
      BY <3>1
    <3>4. \A u \in Calling(l) : pending'[l][call'[u].seq] = u
      BY <1>3, <3>1, <3>2
    <3>5. Calling(l)' = Calling(l) /\ Rpc!Pending(l)' = Rpc!Pending(l)
      BY <1>6, <2>1
    <3> QED
      BY <3>2, <3>3, <3>4, <3>5
  <2> QED
    BY <2>2 DEF Rpc!PendingAreWaiting, Calling
\* A request that is on its way was so before, in one place.
<1>17. ASSUME NEW id \in Rpc!Ids, NEW l \in CallNodes, NEW i, Rpc!RequestAt(l, i, id)'
       PROVE  IF l = n THEN i \in Nat /\ i + d > d /\ Rpc!RequestAt(n, i + d, id)
                       ELSE l = p /\ Rpc!RequestAt(p, i, id)
  <2>1. CASE l = n
    BY <1>10, <1>17, <2>1 DEF Rpc!RequestAt
  <2>2. CASE l # n
    <3>1. l = p /\ \A j \in DOMAIN new : new[j].body = "answer"
      BY <1>2, <1>8, <2>2 DEF Answered
    <3> QED
      BY <1>11, <1>17, <2>2, <3>1 DEF Rpc!RequestAt
  <2> QED
    BY <2>1, <2>2
<1>18. ASSUME NEW id \in Rpc!Ids, NEW l \in CallNodes, NEW i, Rpc!RequestAt(l, i, id),
              NEW m \in CallNodes, NEW j, Rpc!RequestAt(m, j, id)
       PROVE  executed[id] = 0 /\ l = m /\ i = j
  <2>1. i \in DOMAIN chan[l] /\ j \in DOMAIN chan[m]
    BY <1>18 DEF Rpc!RequestAt
  <2> QED
    BY <1>1, <1>18, <2>1 DEF Rpc!RequestedOnce
<1>19. \A id \in Rpc!Ids : executed'[id] <= 1 /\ executed'[id] \in Nat
                           /\ (executed[id] = 1 => executed'[id] = 1)
  BY <1>1, <1>5, <1>7 DEF Rpc!RequestedOnce, Executed
<1>20. Rpc!RequestedOnce'
  <2>1. ASSUME NEW id \in Rpc!Ids, NEW l \in CallNodes, NEW i, Rpc!RequestAt(l, i, id)'
        PROVE  executed'[id] = 0
    <3>1. executed[id] = 0
      BY <1>2, <1>17, <1>18, <2>1
    <3>2. ~Executed(n, d, id)
      <4> SUFFICES ASSUME NEW j \in 1..d, Rpc!RequestAt(n, j, id) PROVE FALSE
        BY DEF Executed
      <4>1. CASE l = n
        BY <1>4, <1>17, <1>18, <2>1, <4>1
      <4>2. CASE l # n
        BY <1>2, <1>17, <1>18, <2>1, <4>2
      <4> QED
        BY <4>1, <4>2
    <3> QED
      BY <1>5, <3>1, <3>2
  <2>2. ASSUME NEW id \in Rpc!Ids, NEW l \in CallNodes, NEW i, Rpc!RequestAt(l, i, id)',
               NEW m \in CallNodes, NEW j, Rpc!RequestAt(m, j, id)'
        PROVE  m = l /\ j = i
    <3>1. CASE l = n /\ m = n
      <4>1. i + d = j + d /\ i \in Nat /\ j \in Nat
        BY <1>17, <1>18, <2>2, <3>1
      <4> QED
        BY <1>4, <3>1, <4>1
    <3>2. CASE l = n /\ m # n
      BY <1>2, <1>17, <1>18, <2>2, <3>2
    <3>3. CASE l # n /\ m = n
      BY <1>2, <1>17, <1>18, <2>2, <3>3
    <3>4. CASE l # n /\ m # n
      BY <1>2, <1>17, <1>18, <2>2, <3>4
    <3> QED
      BY <3>1, <3>2, <3>3, <3>4
  <2> QED
    BY <1>6, <1>19, <2>1, <2>2 DEF Rpc!RequestedOnce
<1>21. ASSUME NEW a \in CallNodes, Rpc!NoReuse', Rpc!OnlyCalls(a)'
       PROVE  Rpc!NumberedAsMade(a)' /\ Rpc!AnswersAreFirst(a)' /\ Rpc!OkIsOwn'
  <2>1. /\ Rpc!NumberedAsMade(a) /\ Rpc!AnswersAreFirst(a) /\ Rpc!OkIsOwn /\ Rpc!OnlyCalls(a)
    BY <1>3, <1>21 DEF Rpc!IInv, Rpc!NoReuse, Rpc!OnlyCalls
  <2>2. Rpc!NumberedAsMade(a)'
    <3>1. next'[a] = Rpc!After(1, Rpc!Made)'
      BY <1>3, <1>6, <2>1 DEF Rpc!NumberedAsMade, Rpc!After
    <3>2. \A t \in Callers : call'[t].pc # "idle" => call'[t].seq = call'[t].id
      BY <1>14, <2>1 DEF Rpc!NumberedAsMade
    <3>3. \A i \in DOMAIN chan[n] : chan[n][i].seq = chan[n][i].of
      BY <2>1 DEF Rpc!NumberedAsMade
    <3>4. \A j \in DOMAIN new : new[j].seq = new[j].of
      BY <1>8, <1>12, <3>3 DEF Answered
    <3>5. \A i \in DOMAIN chan'[n] : chan'[n][i].seq = chan'[n][i].of
      BY <1>10, <3>3
    <3>6. \A i \in DOMAIN chan'[p] : chan'[p][i].seq = chan'[p][i].of
      BY <1>2, <1>11, <2>1, <3>4 DEF Rpc!NumberedAsMade
    <3> QED
      BY <1>2, <3>1, <3>2, <3>5, <3>6 DEF Rpc!NumberedAsMade
\* The peer of a has no calls of its own.
  <2>3. n # a => Rpc!Pending(n) = {}
    <3>1. n # a => Calling(n) = {}
      BY <1>1, <2>1 DEF Calling, Rpc!TypeOK, Rpc!OnlyCalls
    <3> QED
      BY <1>1, <3>1, PendingIs
  <2>4. \A j \in DOMAIN new :
           /\ new[j].body = "answer" /\ new[j].of \in Rpc!Ids
           /\ \E i \in 1..d : /\ new[j].of = chan[n][i].of /\ chan[n][i].seq = chan[n][i].of
                              /\ chan[n][i].of \notin Rpc!Pending(n)
                              /\ new[j].status = "OK" /\ chan[n][i].body = "request"
                                    => executed'[new[j].of] = 1
    <3>1. \A j \in DOMAIN new : new[j].of \in Rpc!Ids
      BY <1>8 DEF Rpc!OnLink
    <3>2. \A i \in 1..d : chan[n][i].seq = chan[n][i].of
      BY <1>12, <2>1 DEF Rpc!NumberedAsMade
    <3> SUFFICES ASSUME NEW j \in DOMAIN new
                 PROVE  /\ new[j].body = "answer" /\ new[j].of \in Rpc!Ids
                        /\ \E i \in 1..d :
                               /\ new[j].of = chan[n][i].of /\ chan[n][i].seq = chan[n][i].of
                               /\ chan[n][i].of \notin Rpc!Pending(n)
                               /\ new[j].status = "OK" /\ chan[n][i].body = "request"
                                     => executed'[new[j].of] = 1
      OBVIOUS
    <3>3. Answered(n, d, new[j])
      BY <1>8
    <3>4. PICK i \in 1..d :
              /\ new[j].seq = chan[n][i].seq /\ new[j].of = chan[n][i].of
              /\ new[j].seq \notin Rpc!Pending(n)
              /\ new[j].status = "OK" /\ chan[n][i].body = "request"
                    => executed'[new[j].of] = 1
      BY <3>3 DEF Answered
    <3>5. new[j].body = "answer"
      BY <3>3 DEF Answered
    <3>6. chan[n][i].seq = chan[n][i].of /\ chan[n][i].of \notin Rpc!Pending(n)
      BY <3>2, <3>4
    <3> QED
      BY <3>1, <3>4, <3>5, <3>6
  <2>5. Rpc!AnswersAreFirst(a)'
    <3>1. CASE n = a
      <4>1. p = Rpc!Peer(a)
        BY <3>1 DEF p
      <4>2. \A i \in DOMAIN chan'[a] :
               /\ chan'[a][i].body = "answer"
               /\ chan'[a][i].of \in Rpc!Pending(a) /\ chan'[a][i].status = "OK" =>
                     executed'[chan'[a][i].of] = 1
        BY <1>10, <1>13, <1>19, <2>1, <3>1, SMTT(30) DEF Rpc!AnswersAreFirst
      <4>3. \A i \in DOMAIN chan'[p] :
               chan'[p][i].body = "answer" => chan'[p][i].of \notin Rpc!Pending(a)
        BY <1>11, <2>1, <2>4, <3>1, <4>1, SMTT(30) DEF Rpc!AnswersAreFirst
      <4> QED
        BY <1>6, <4>1, <4>2, <4>3 DEF Rpc!AnswersAreFirst
    <3>2. CASE n # a
      <4>1. p = a /\ n = Rpc!Peer(a)
        BY <1>2, <3>2, CallConstants
      <4>2. ASSUME NEW i \in DOMAIN chan'[a]
            PROVE  /\ chan'[a][i].body = "answer"
                   /\ chan'[a][i].of \in Rpc!Pending(a) /\ chan'[a][i].status = "OK" =>
                         executed'[chan'[a][i].of] = 1
        <5>1. CASE i \in DOMAIN chan[a] /\ chan'[a][i] = chan[a][i]
          BY <1>13, <1>19, <2>1, <5>1 DEF Rpc!AnswersAreFirst
        <5>2. ASSUME NEW j \in DOMAIN new, chan'[a][i] = new[j]
              PROVE  /\ chan'[a][i].body = "answer"
                     /\ chan'[a][i].of \in Rpc!Pending(a) /\ chan'[a][i].status = "OK" =>
                           executed'[chan'[a][i].of] = 1
          <6>1. PICK h \in 1..d : /\ new[j].of = chan[n][h].of
                                  /\ new[j].status = "OK" /\ chan[n][h].body = "request"
                                        => executed'[new[j].of] = 1
            BY <2>4
          <6>2. chan[n][h].body = "answer" => chan[n][h].of \notin Rpc!Pending(a)
            BY <1>12, <2>1, <4>1 DEF Rpc!AnswersAreFirst
          <6>3. chan[n][h].body \in {"request", "answer"}
            BY <1>12, <1>13 DEF Rpc!OnLink
          <6> QED
            BY <2>4, <5>2, <6>1, <6>2, <6>3
        <5> QED
          BY <1>11, <4>1, <5>1, <5>2
      <4>3. \A i \in DOMAIN chan'[n] :
               chan'[n][i].body = "answer" => chan'[n][i].of \notin Rpc!Pending(a)
        BY <1>10, <2>1, <4>1 DEF Rpc!AnswersAreFirst
      <4> QED
        BY <1>6, <4>1, <4>2, <4>3 DEF Rpc!AnswersAreFirst
    <3> QED
      BY <3>1, <3>2
  <2>6. Rpc!OkIsOwn'
    <3>1. ASSUME NEW t \in Callers, call[t].pc # "idle"
          PROVE  /\ call'[t].woken => /\ call'[t].of = call'[t].id
                                      /\ call'[t].status = "OK" => executed'[call'[t].id] = 1
                 /\ call'[t].pc = "back" /\ ~call'[t].timed => call'[t].woken
      <4>1. CASE Taken(n, d, t)
        <5>1. PICK i \in 1..d : /\ chan[n][i].seq \in Rpc!Pending(n)
                                /\ pending[n][chan[n][i].seq] = t
                                /\ call'[t] = Rpc!rpc_handle_response(call[t], chan[n][i])
          BY <4>1 DEF Taken
        <5>2. n = a /\ i \in DOMAIN chan[n] /\ chan[n][i].seq = chan[n][i].of
          BY <1>12, <2>1, <2>3, <5>1 DEF Rpc!NumberedAsMade
        <5>3. chan[n][i].seq = call[t].seq
          BY <1>1, <5>1, PendingIs
        <5>4. call[t].seq = call[t].id
          BY <2>1, <3>1 DEF Rpc!NumberedAsMade
        <5>5. /\ chan[n][i].status = "OK" => executed[chan[n][i].of] = 1
              /\ chan[n][i].of \in Rpc!Ids
          BY <1>13, <2>1, <5>1, <5>2 DEF Rpc!AnswersAreFirst
        <5>6. /\ call'[t].woken = TRUE /\ call'[t].status = chan[n][i].status
              /\ call'[t].of = chan[n][i].of /\ call'[t].id = call[t].id
          <6>1. call[t] \in Rpc!Entry
            BY <1>1 DEF Rpc!TypeOK
          <6> QED
            BY <5>1, <6>1 DEF Rpc!rpc_handle_response, Rpc!Entry
        <5> QED
          BY <1>19, <5>2, <5>3, <5>4, <5>5, <5>6
      <4>2. CASE call'[t] = call[t]
        <5>1. call[t].id \in Rpc!Ids
          BY <1>1, <3>1 DEF Rpc!TypeOK
        <5> QED
          BY <1>19, <2>1, <3>1, <4>2, <5>1 DEF Rpc!OkIsOwn
      <4> QED
        BY <1>5, <4>1, <4>2
    <3>2. \A i \in Rpc!Ids : ended[i].status = "OK" => executed'[i] = 1 /\ ended[i].of = i
      BY <1>19, <2>1 DEF Rpc!OkIsOwn
    <3> QED
      <4>1. \A t \in Callers : call'[t].pc # "idle" =>
               /\ call'[t].woken => /\ call'[t].of = call'[t].id
                                    /\ call'[t].status = "OK" => executed'[call'[t].id] = 1
               /\ call'[t].pc = "back" /\ ~call'[t].timed => call'[t].woken
        BY <1>14, <3>1
      <4> QED
        BY <1>3, <1>6, <3>2, <4>1 DEF Rpc!OkIsOwn
  <2> QED
    BY <2>2, <2>5, <2>6
<1> QED
  BY <1>15, <1>16, <1>20, <1>21 DEF Rpc!IInv

\* The invariant of the calls, for every number of tasks, calls, sequence
\* numbers and pieces, whatever is lost, late or refused.
THEOREM CallsInvariant == Rpc!Spec => []Rpc!IInv
<1>1. Rpc!Init => Rpc!IInv
  BY CallInit
<1>2. Rpc!IInv /\ [Rpc!Next]_Rpc!vars => Rpc!IInv'
  <2> SUFFICES ASSUME Rpc!IInv, [Rpc!Next]_Rpc!vars PROVE Rpc!IInv'
    OBVIOUS
  <2>1. CASE UNCHANGED Rpc!vars
    <3>1. UNCHANGED <<next, pending, call, chan, reasm, executed, ended, size>>
      BY <2>1 DEF Rpc!vars
    <3>2. /\ Rpc!Made' = Rpc!Made /\ Rpc!Ids' = Rpc!Ids /\ Rpc!Numbers' = Rpc!Numbers
          /\ Rpc!Entry' = Rpc!Entry /\ Rpc!OnLink' = Rpc!OnLink /\ Rpc!Outcome' = Rpc!Outcome
          /\ \A n : Rpc!Pending(n)' = Rpc!Pending(n)
      BY <3>1 DEF Rpc!Made, Rpc!Ids, Rpc!Numbers, Rpc!Entry, Rpc!OnLink, Rpc!Outcome, Rpc!Pending
    <3>3. Rpc!TypeOK' = Rpc!TypeOK
      BY <3>1, <3>2 DEF Rpc!TypeOK
    <3>4. Rpc!PendingAreWaiting' = Rpc!PendingAreWaiting
      BY <3>1, <3>2 DEF Rpc!PendingAreWaiting
    <3>5. Rpc!RequestedOnce' = Rpc!RequestedOnce
      BY <3>1, <3>2 DEF Rpc!RequestedOnce, Rpc!RequestAt
    <3>6. \A a : Rpc!NumberedAsMade(a)' = Rpc!NumberedAsMade(a)
      BY <3>1, <3>2 DEF Rpc!NumberedAsMade, Rpc!After
    <3>7. \A a : Rpc!AnswersAreFirst(a)' = Rpc!AnswersAreFirst(a)
      BY <3>1, <3>2 DEF Rpc!AnswersAreFirst
    <3>8. Rpc!OkIsOwn' = Rpc!OkIsOwn
      BY <3>1, <3>2 DEF Rpc!OkIsOwn
    <3>9. Rpc!NoReuse' = Rpc!NoReuse /\ \A a : Rpc!OnlyCalls(a)' = Rpc!OnlyCalls(a)
      BY <3>1 DEF Rpc!NoReuse, Rpc!OnlyCalls
    <3> QED
      BY <3>3, <3>4, <3>5, <3>6, <3>7, <3>8, <3>9 DEF Rpc!IInv
  <2>2. ASSUME NEW t \in Callers, Rpc!rpc_call(t) PROVE Rpc!IInv'
    BY <2>2, CallKeeps
  <2>3. ASSUME NEW t \in Callers, Rpc!rpc_call_fails(t) PROVE Rpc!IInv'
    BY <2>3, CallFailsKeeps
  <2>4. ASSUME NEW t \in Callers, Rpc!rpc_waiter_wait(t) PROVE Rpc!IInv'
    BY <2>4, WaitKeeps
  <2>5. ASSUME NEW t \in Callers, Rpc!rpc_return(t) PROVE Rpc!IInv'
    BY <2>5, ReturnKeeps
  <2>6. ASSUME NEW n \in CallNodes, NEW k \in 1..(CallPieces + 1), Rpc!rpc_on_data(n, k)
        PROVE  Rpc!IInv'
    BY <2>6, DataKeeps
  <2> QED
    BY <2>1, <2>2, <2>3, <2>4, <2>5, <2>6 DEF Rpc!Next
<1> QED
  BY <1>1, <1>2, PTL DEF Rpc!Spec

\* The table of pending calls holds exactly the calls in progress, each under
\* a number of its own.
THEOREM TableIsExact == Rpc!Spec => []Rpc!PendingAreWaiting /\ []PendingAreWaiting
<1>1. Rpc!IInv => Rpc!PendingAreWaiting /\ PendingAreWaiting
  BY DEF Rpc!IInv, PendingAreWaiting
<1> QED
  BY <1>1, CallsInvariant, PTL

\* A call is executed at most once; and one that returns OK was executed and
\* took its own answer, while one node calls and numbers are not used again.
THEOREM OkIsEarned == Rpc!Spec => []Rpc!OkMeansExecuted /\ []OkMeansExecuted
<1>1. Rpc!IInv => Rpc!OkMeansExecuted
  <2> SUFFICES ASSUME Rpc!IInv, NEW i \in 1..Rpc!Made
               PROVE  /\ executed[i] <= 1
                      /\ Rpc!OneSided /\ Rpc!NoReuse /\ ended[i].status = "OK" =>
                            executed[i] = 1 /\ ended[i].of = i
    BY DEF Rpc!OkMeansExecuted
  <2>1. i \in Rpc!Ids /\ executed[i] <= 1
    BY DEF Rpc!Ids, Rpc!IInv, Rpc!RequestedOnce
  <2>2. Rpc!OneSided /\ Rpc!NoReuse => Rpc!OkIsOwn
    BY DEF Rpc!OneSided, Rpc!OnlyCalls, Rpc!IInv
  <2> QED
    BY <2>1, <2>2 DEF Rpc!OkIsOwn
<1>2. Rpc!OkMeansExecuted => OkMeansExecuted
  BY DEF OkMeansExecuted
<1> QED
  BY <1>1, <1>2, CallsInvariant, PTL
-----------------------------------------------------------------------------
(***************************************************************************)
(* The file system.  x is a memory and a disk; place gives the path of     *)
(* every inode in use.                                                     *)
(***************************************************************************)
\* What inodes and memories are.
Dinodes == [mode : {"none", "dir", "file"}, size : 0..NDIRECT,
            direct : [1..NDIRECT -> Blocks \cup {Blank}]]
Memories(s) == [inodes : SUBSET Fs(s)!Inodes, blocks : SUBSET Blocks,
                table : [Fs(s)!Inodes -> Dinodes]]
\* The blocks of an inode, and that no two of its pointers lead to one block.
Uses(din) == {din.direct[k] : k \in 1..NDIRECT} \ {Blank}
Distinct(din) == \A k, l \in 1..NDIRECT :
                    k # l /\ din.direct[k] = din.direct[l] => din.direct[k] = Blank
\* The paths, with that of the root.
Places(s) == Fs(s)!Paths \cup {<<>>}

\* A memory and a disk of this shape.
Device(s, x) ==
    /\ x = [mem |-> x.mem, disk |-> x.disk]
    /\ x.mem \in Memories(s)
    /\ x.disk = [b \in (0..3) \cup Blocks |-> x.disk[b]]

\* The inodes in use that are directories.
Folders(x) == {i \in x.mem.inodes : x.mem.table[i].mode = "dir"}

\* Blocks that an inode has are in use, and no other inode has them.
Apart(x) ==
    /\ \A i \in x.mem.inodes : /\ Uses(x.mem.table[i]) \subseteq x.mem.blocks
                               /\ Distinct(x.mem.table[i])
    /\ \A i, j \in x.mem.inodes : i # j => Uses(x.mem.table[i]) \cap Uses(x.mem.table[j]) = {}
    /\ \A i \in Folders(x) : x.mem.table[i].direct[1] \in Blocks

\* Every inode in use has a path of its own, as its type is.
Placed(s, x, place) ==
    /\ 0 \in x.mem.inodes /\ place[0] = <<>>
    /\ \A i \in x.mem.inodes :
          \/ /\ x.mem.table[i].mode = "dir"
             /\ place[i] \in FsShape[s].dirs \cup {<<>>}
          \/ /\ x.mem.table[i].mode = "file"
             /\ place[i] \in FsShape[s].files
    /\ \A i, j \in x.mem.inodes : place[i] = place[j] => i = j

\* An entry leads to an inode in use, whose path is that of the directory and
\* the name.
Entries(s, x, place) ==
    \A i \in Folders(x) : \A n \in DOMAIN Fs(s)!Dir(x, i) :
        LET e == Fs(s)!Dir(x, i)[n]
        IN  /\ e.ino \in x.mem.inodes /\ e.type = x.mem.table[e.ino].mode
            /\ place[e.ino] = Append(place[i], n)

\* Every inode in use but the root has an entry.
Listed(s, x) ==
    \A j \in x.mem.inodes : j # 0 =>
        \E i \in Folders(x) : \E n \in DOMAIN Fs(s)!Dir(x, i) : Fs(s)!Dir(x, i)[n].ino = j

\* A file system is a tree of directories and files.
Tree(s, x, place) ==
    /\ Device(s, x) /\ Apart(x) /\ Placed(s, x, place)
    /\ Entries(s, x, place) /\ Listed(s, x)

\* What the proofs need of the constants.
LEMMA FsConstants ==
    ASSUME NEW s \in DOMAIN FsShape
    PROVE  /\ FsShape[s].inodes \in Nat \ {0}
           /\ Fs(s)!Inodes = 0..(FsShape[s].inodes - 1)
           /\ Fs(s)!Inodes \subseteq Fs(s)!Numbers /\ Fs(s)!Numbers \subseteq Nat
           /\ \A i \in Fs(s)!Inodes, j \in Fs(s)!Numbers \ Fs(s)!Inodes : i < j
           /\ 0 \in Fs(s)!Inodes /\ -1 \notin Fs(s)!Inodes
           /\ Fs(s)!Root = 0 /\ Fs(s)!None = -1
           /\ Blocks \subseteq Nat \ (0..3) /\ Blocks # {} /\ Blank \notin Blocks
           /\ Blank # {} /\ NDIRECT \in Nat \ {0} /\ Offsets \subseteq 0..(NDIRECT - 1)
           /\ Fs(s)!Paths = FsShape[s].dirs \cup FsShape[s].files
           /\ FsShape[s].dirs \cap FsShape[s].files = {}
           /\ \A p \in FsShape[s].dirs \cup FsShape[s].files :
                 p \in Seq(Fs(s)!Names) /\ p # <<>>
           /\ \A p \in FsShape[s].dirs \cup FsShape[s].files :
                 \A i \in 1..(Len(p) - 1) : SubSeq(p, 1, i) \in FsShape[s].dirs
<1>1. Fs(s)!Assumption
  BY FsAssumption
<1>2. FsShape[s].inodes \in Nat /\ FsShape[s].bits \in Nat /\ FsShape[s].inodes <= FsShape[s].bits
  BY <1>1 DEF Fs!Assumption
<1>3. /\ Fs(s)!Inodes \subseteq Fs(s)!Numbers /\ Fs(s)!Numbers \subseteq Nat
      /\ \A i \in Fs(s)!Inodes, j \in Fs(s)!Numbers \ Fs(s)!Inodes : i < j
  BY <1>2 DEF Fs!Inodes, Fs!Numbers
<1> QED
  BY <1>1, <1>3 DEF Fs!Assumption, Fs!Inodes, Fs!Root, Fs!None, Fs!Paths

\* A path is what leads to it and a name.
LEMMA OneMore ==
    ASSUME NEW N, NEW q \in Seq(N), NEW r \in Seq(N), NEW n, NEW m
    PROVE  /\ Append(q, n) = Append(r, m) => q = r /\ n = m
           /\ Append(q, n) # <<>>
<1>1. Len(Append(q, n)) = Len(q) + 1 /\ Len(Append(r, m)) = Len(r) + 1
  OBVIOUS
<1>2. ASSUME Append(q, n) = Append(r, m) PROVE q = r /\ n = m
  <2>1. Len(q) = Len(r) /\ Len(q) \in Nat
    BY <1>1, <1>2
  <2>2. n = Append(q, n)[Len(q) + 1] /\ m = Append(r, m)[Len(r) + 1]
    OBVIOUS
  <2>3. \A i \in 1..Len(q) : q[i] = Append(q, n)[i]
    OBVIOUS
  <2>4. \A i \in 1..Len(r) : r[i] = Append(r, m)[i]
    OBVIOUS
  <2>5. \A i \in 1..Len(q) : q[i] = r[i]
    BY <1>2, <2>1, <2>3, <2>4
  <2>6. q = [i \in 1..Len(q) |-> q[i]] /\ r = [i \in 1..Len(r) |-> r[i]]
    OBVIOUS
  <2> QED
    BY <1>2, <2>1, <2>2, <2>5, <2>6
<1> QED
  BY <1>1, <1>2

\* Directories are where directories may be.
LEMMA PlaceIs ==
    ASSUME NEW s \in DOMAIN FsShape
    PROVE  /\ Places(s) \subseteq Seq(Fs(s)!Names)
           /\ <<>> \notin Fs(s)!Paths
           /\ \A x, place, i : Placed(s, x, place) /\ i \in x.mem.inodes =>
                 /\ place[i] \in Places(s)
                 /\ i \in Folders(x) <=> place[i] \in FsShape[s].dirs \cup {<<>>}
<1>1. /\ Fs(s)!Paths = FsShape[s].dirs \cup FsShape[s].files
      /\ \A p \in FsShape[s].dirs \cup FsShape[s].files : p \in Seq(Fs(s)!Names) /\ p # <<>>
      /\ FsShape[s].dirs \cap FsShape[s].files = {}
  BY FsConstants
<1> DEFINE N == Fs(s)!Names
<1>2. <<>> \in Seq(N)
  OBVIOUS
<1>3. Places(s) \subseteq Seq(N) /\ <<>> \notin Fs(s)!Paths
  BY <1>1, <1>2 DEF Places
<1>4. ASSUME NEW x, NEW place, NEW i, Placed(s, x, place), i \in x.mem.inodes
      PROVE  /\ place[i] \in Places(s)
             /\ i \in Folders(x) <=> place[i] \in FsShape[s].dirs \cup {<<>>}
  BY <1>1, <1>4 DEF Places, Placed, Folders
<1> QED
  BY <1>3, <1>4

\* From a directory to what it lists, and back.
LEMMA DownIs ==
    ASSUME NEW s \in DOMAIN FsShape, NEW x, NEW place, Tree(s, x, place),
           NEW i \in Folders(x), NEW n
    PROVE  /\ n \in DOMAIN Fs(s)!Dir(x, i) =>
                 /\ Fs(s)!Dir(x, i)[n].ino \in x.mem.inodes
                 /\ Fs(s)!Dir(x, i)[n].type = x.mem.table[Fs(s)!Dir(x, i)[n].ino].mode
                 /\ place[Fs(s)!Dir(x, i)[n].ino] = Append(place[i], n)
           /\ \A j \in x.mem.inodes : place[j] = Append(place[i], n) =>
                 n \in DOMAIN Fs(s)!Dir(x, i) /\ Fs(s)!Dir(x, i)[n].ino = j
<1>1. ASSUME NEW j \in x.mem.inodes, place[j] = Append(place[i], n)
      PROVE  n \in DOMAIN Fs(s)!Dir(x, i) /\ Fs(s)!Dir(x, i)[n].ino = j
  <2>1. /\ place[i] \in Seq(Fs(s)!Names) /\ i \in x.mem.inodes
        /\ \A k \in x.mem.inodes : place[k] \in Seq(Fs(s)!Names)
    BY PlaceIs DEF Tree, Folders
  <2>2. j # 0
    <3>1. place[0] = <<>>
      BY DEF Tree, Placed
    <3> QED
      BY <1>1, <2>1, <3>1, OneMore
  <2>3. PICK k \in Folders(x) : \E m \in DOMAIN Fs(s)!Dir(x, k) : Fs(s)!Dir(x, k)[m].ino = j
    BY <2>2 DEF Tree, Listed
  <2>4. PICK m \in DOMAIN Fs(s)!Dir(x, k) : Fs(s)!Dir(x, k)[m].ino = j
    BY <2>3
  <2>5. place[j] = Append(place[k], m)
    BY <2>4 DEF Tree, Entries
  <2>6. place[k] = place[i] /\ m = n
    <3>1. place[k] \in Seq(Fs(s)!Names)
      BY <2>1 DEF Folders
    <3>2. Append(place[k], m) = Append(place[i], n)
      BY <1>1, <2>5
    <3> QED
      BY <2>1, <3>1, <3>2, OneMore
  <2>7. k = i
    BY <2>1, <2>6 DEF Tree, Placed, Folders
  <2> QED
    BY <2>4, <2>6, <2>7
<1>2. n \in DOMAIN Fs(s)!Dir(x, i) =>
                 /\ Fs(s)!Dir(x, i)[n].ino \in x.mem.inodes
                 /\ Fs(s)!Dir(x, i)[n].type = x.mem.table[Fs(s)!Dir(x, i)[n].ino].mode
                 /\ place[Fs(s)!Dir(x, i)[n].ino] = Append(place[i], n)
  BY DEF Tree, Entries
<1> QED
  BY <1>1, <1>2

\* p is one name further than q.
Leads(p, q) == \E n : p = Append(q, n)

\* What is in a directory is so because that directory is there.
LEMMA UpIs ==
    ASSUME NEW s \in DOMAIN FsShape, NEW x, NEW place, Tree(s, x, place),
           NEW j \in x.mem.inodes, NEW q \in Seq(Fs(s)!Names), Leads(place[j], q)
    PROVE  \E i \in Folders(x) : place[i] = q
<1>0. PICK n : place[j] = Append(q, n)
  BY DEF Leads
<1>1. \A k \in x.mem.inodes : place[k] \in Seq(Fs(s)!Names)
  BY PlaceIs DEF Tree
<1>2. j # 0
  <2>1. place[0] = <<>>
    BY DEF Tree, Placed
  <2> QED
    BY <1>0, <2>1, OneMore
<1>3. PICK k \in Folders(x) : \E m \in DOMAIN Fs(s)!Dir(x, k) : Fs(s)!Dir(x, k)[m].ino = j
  BY <1>2 DEF Tree, Listed
<1>4. PICK m \in DOMAIN Fs(s)!Dir(x, k) : Fs(s)!Dir(x, k)[m].ino = j
  BY <1>3
<1>5. place[j] = Append(place[k], m)
  BY <1>4 DEF Tree, Entries
<1>6. place[k] \in Seq(Fs(s)!Names)
  BY <1>1 DEF Folders
<1>7. place[k] = q
  <2>1. Append(place[k], m) = Append(q, n)
    BY <1>0, <1>5
  <2> QED
    BY <1>6, <2>1, OneMore
<1> QED
  BY <1>7

\* What a walk along q has come to: the inode that is there, or None.
ComesTo(x, place, q, i) ==
    \/ i \in x.mem.inodes /\ place[i] = q
    \/ i = -1 /\ \A j \in x.mem.inodes : place[j] # q

\* One name further along a path.
LEMMA StepDown ==
    ASSUME NEW s \in DOMAIN FsShape, NEW x, NEW place, Tree(s, x, place),
           NEW q \in FsShape[s].dirs \cup {<<>>}, NEW n, NEW i, ComesTo(x, place, q, i)
    PROVE  ComesTo(x, place, Append(q, n),
                   IF i # -1 /\ n \in DOMAIN Fs(s)!Dir(x, i) THEN Fs(s)!Dir(x, i)[n].ino ELSE -1)
<1> DEFINE D == Fs(s)!Dir(x, i)
           r == IF i # -1 /\ n \in DOMAIN D THEN D[n].ino ELSE -1
<1> SUFFICES ComesTo(x, place, Append(q, n), r)
  OBVIOUS
<1>0. q \in Seq(Fs(s)!Names)
  BY FsConstants, PlaceIs DEF Places
<1>1. CASE i = -1
  <2>1. \A j \in x.mem.inodes : place[j] # q
    <3>1. -1 \notin x.mem.inodes
      BY FsConstants DEF Tree, Device, Memories
    <3> QED
      BY <1>1, <3>1 DEF ComesTo
  <2>2. \A j \in x.mem.inodes : place[j] # Append(q, n)
    <3>1. \A j \in x.mem.inodes : ~ Leads(place[j], q)
      <4> HIDE DEF D, r
      <4> SUFFICES ASSUME NEW j \in x.mem.inodes, Leads(place[j], q) PROVE FALSE
        OBVIOUS
      <4>1. \E k \in Folders(x) : place[k] = q
        BY <1>0, UpIs
      <4> QED
        BY <2>1, <4>1 DEF Folders
    <3> QED
      BY <3>1 DEF Leads
  <2> QED
    BY <1>1, <2>2 DEF ComesTo
<1>2. CASE i # -1
  <2>1. i \in x.mem.inodes /\ place[i] = q
    BY <1>2 DEF ComesTo
  <2>2. i \in Folders(x)
    BY <2>1, PlaceIs DEF Tree
  <2>3. CASE n \in DOMAIN D
    <3>1. r = D[n].ino
      BY <1>2, <2>3
    <3>2. D[n].ino \in x.mem.inodes /\ place[D[n].ino] = Append(q, n)
      BY <2>1, <2>2, <2>3, DownIs
    <3> HIDE DEF D, r
    <3> QED
      BY <3>1, <3>2 DEF ComesTo
  <2>4. CASE n \notin DOMAIN D
    <3>1. \A j \in x.mem.inodes : place[j] # Append(q, n)
      BY <2>1, <2>2, <2>4, DownIs
    <3>2. r = -1
      BY <2>4
    <3> HIDE DEF D, r
    <3> QED
      BY <3>1, <3>2 DEF ComesTo
  <2> QED
    BY <2>3, <2>4
<1> QED
  BY <1>1, <1>2

\* The first names of a path.
LEMMA PathSteps ==
    ASSUME NEW s \in DOMAIN FsShape, NEW p \in Places(s)
    PROVE  /\ Len(p) \in Nat
           /\ SubSeq(p, 1, 0) = <<>> /\ SubSeq(p, 1, Len(p)) = p
           /\ \A i \in 1..Len(p) : SubSeq(p, 1, i) = Append(SubSeq(p, 1, i - 1), p[i])
           /\ \A i \in 0..(Len(p) - 1) : SubSeq(p, 1, i) \in FsShape[s].dirs \cup {<<>>}
<1> DEFINE N == Fs(s)!Names
<1>1. p \in Seq(N)
  BY PlaceIs
<1>2. Len(p) \in Nat /\ SubSeq(p, 1, 0) = <<>> /\ SubSeq(p, 1, Len(p)) = p
  BY <1>1
<1>3. ASSUME NEW i \in 1..Len(p) PROVE SubSeq(p, 1, i) = Append(SubSeq(p, 1, i - 1), p[i])
  BY <1>1
<1>4. ASSUME NEW i \in 0..(Len(p) - 1) PROVE SubSeq(p, 1, i) \in FsShape[s].dirs \cup {<<>>}
  <2>1. CASE i = 0
    BY <1>2, <2>1
  <2>2. CASE i # 0
    <3>1. p # <<>> /\ i \in 1..(Len(p) - 1)
      BY <1>2, <2>2
    <3>2. p \in FsShape[s].dirs \cup FsShape[s].files
      BY <3>1, FsConstants DEF Places
    <3> QED
      BY <3>1, <3>2, FsConstants
  <2> QED
    BY <2>1, <2>2
<1> QED
  BY <1>2, <1>3, <1>4

\* fs_lookup_path finds the inode whose path it is given, if there is one.
LEMMA LookupIs ==
    ASSUME NEW s \in DOMAIN FsShape, NEW x, NEW place, Tree(s, x, place), NEW p \in Places(s)
    PROVE  ComesTo(x, place, p, Fs(s)!fs_lookup_path(x, p))
<1> DEFINE L == Len(p)
           Down(i, n) == IF i # Fs(s)!None /\ n \in DOMAIN Fs(s)!Dir(x, i)
                         THEN Fs(s)!Dir(x, i)[n].ino ELSE Fs(s)!None
           Upto(f, k) == f = [i \in 0..k |-> IF i = 0 THEN Fs(s)!Root ELSE Down(f[i - 1], p[i])]
           way == CHOOSE f : Upto(f, L)
<1>1. Fs(s)!fs_lookup_path(x, p) = way[L]
  BY DEF Fs!fs_lookup_path
<1>2. L \in Nat
  BY PathSteps
<1>3. \E f : Upto(f, L)
  <2> DEFINE T == {k \in Nat : \E f : Upto(f, k)}
  <2> HIDE DEF Down
  <2>1. 0 \in T
    <3> DEFINE f == [i \in 0..0 |-> Fs(s)!Root]
    <3>1. Upto(f, 0)
      OBVIOUS
    <3> QED
      BY <3>1
  <2>2. ASSUME NEW k \in Nat, k \in T PROVE k + 1 \in T
    <3>1. PICK f : Upto(f, k)
      BY <2>2
    <3> DEFINE h == [i \in 0..(k + 1) |-> IF i = k + 1 THEN Down(f[k], p[k + 1]) ELSE f[i]]
    <3>2. \A i \in 0..(k + 1) : h[i] = IF i = 0 THEN Fs(s)!Root ELSE Down(h[i - 1], p[i])
      BY <3>1
    <3>3. h = [i \in 0..(k + 1) |-> h[i]]
      OBVIOUS
    <3> HIDE DEF h
    <3>4. Upto(h, k + 1)
      BY <3>2, <3>3
    <3> QED
      BY <3>4
  <2> HIDE DEF T
  <2>3. Nat \subseteq T
    BY <2>1, <2>2, Induction
  <2> QED
    BY <1>2, <2>3 DEF T
<1>4. Upto(way, L)
  <2> HIDE DEF Upto
  <2> QED
    BY <1>3
<1> HIDE DEF way
<1>5. way[0] = 0 /\ \A i \in 1..L : way[i] = Down(way[i - 1], p[i])
  <2>1. Fs(s)!Root = 0
    BY FsConstants
  <2> HIDE DEF Down
  <2>2. \A i \in 0..L : way[i] = IF i = 0 THEN Fs(s)!Root ELSE Down(way[i - 1], p[i])
    BY <1>4
  <2> HIDE DEF L
  <2> QED
    BY <1>2, <2>1, <2>2
<1> DEFINE T == {k \in Nat : k <= L => ComesTo(x, place, SubSeq(p, 1, k), way[k])}
<1>6. 0 \in T
  <2>1. ComesTo(x, place, SubSeq(p, 1, 0), way[0])
    BY <1>5, PathSteps DEF ComesTo, Tree, Placed
  <2> QED
    BY <2>1
<1>7. ASSUME NEW k \in Nat, k \in T PROVE k + 1 \in T
  <2> SUFFICES ASSUME k + 1 <= L PROVE ComesTo(x, place, SubSeq(p, 1, k + 1), way[k + 1])
    OBVIOUS
  <2>1. ComesTo(x, place, SubSeq(p, 1, k), way[k]) /\ k + 1 \in 1..L /\ k \in 0..(L - 1)
        /\ (k + 1) - 1 = k
    BY <1>2, <1>7
  <2>2. SubSeq(p, 1, k) \in FsShape[s].dirs \cup {<<>>}
    BY <2>1, PathSteps
  <2>3. SubSeq(p, 1, k + 1) = Append(SubSeq(p, 1, k), p[k + 1])
    BY <2>1, PathSteps
  <2> DEFINE q == SubSeq(p, 1, k)
             i == way[k]
             n == p[k + 1]
  <2>4. way[k + 1] = Down(i, n)
    <3> HIDE DEF Down
    <3> QED
      BY <1>5, <2>1
  <2>5. Down(i, n) = IF i # -1 /\ n \in DOMAIN Fs(s)!Dir(x, i) THEN Fs(s)!Dir(x, i)[n].ino ELSE -1
    BY FsConstants
  <2>6. ComesTo(x, place, q, i) /\ q \in FsShape[s].dirs \cup {<<>>}
    BY <2>1, <2>2
  <2>7. SubSeq(p, 1, k + 1) = Append(q, n)
    BY <2>3
  <2> HIDE DEF q, i, n, Down
  <2>8. ComesTo(x, place, Append(q, n), Down(i, n))
    BY <2>5, <2>6, StepDown
  <2> QED
    BY <2>4, <2>7, <2>8
<1> HIDE DEF T
<1>8. Nat \subseteq T
  BY <1>6, <1>7, Induction
<1>9. ComesTo(x, place, SubSeq(p, 1, L), way[L])
  BY <1>2, <1>8 DEF T
<1> QED
  BY <1>1, <1>9, PathSteps

\* Operations that leave every directory as it is.
LEMMA NothingMoved ==
    ASSUME NEW s \in DOMAIN FsShape, NEW x, NEW place, Tree(s, x, place),
           NEW y, Device(s, y), Apart(y), y.mem.inodes = x.mem.inodes,
           \A k \in x.mem.inodes : y.mem.table[k].mode = x.mem.table[k].mode,
           \A k \in Folders(x) : Fs(s)!Dir(y, k) = Fs(s)!Dir(x, k)
    PROVE  Tree(s, y, place)
<1>1. Folders(y) = Folders(x)
  BY DEF Folders
<1>2. Placed(s, y, place)
  BY DEF Tree, Placed
<1>3. Entries(s, y, place)
  <2> SUFFICES ASSUME NEW i \in Folders(x), NEW n \in DOMAIN Fs(s)!Dir(x, i)
               PROVE  /\ Fs(s)!Dir(x, i)[n].ino \in x.mem.inodes
                      /\ Fs(s)!Dir(x, i)[n].type = y.mem.table[Fs(s)!Dir(x, i)[n].ino].mode
                      /\ place[Fs(s)!Dir(x, i)[n].ino] = Append(place[i], n)
    BY <1>1 DEF Entries
  <2> QED
    BY DownIs
<1>4. Listed(s, y)
  <2> SUFFICES ASSUME NEW j \in x.mem.inodes, j # 0
               PROVE  \E i \in Folders(y) : \E n \in DOMAIN Fs(s)!Dir(y, i) :
                         Fs(s)!Dir(y, i)[n].ino = j
    BY DEF Listed
  <2>1. PICK i \in Folders(x) : \E n \in DOMAIN Fs(s)!Dir(x, i) : Fs(s)!Dir(x, i)[n].ino = j
    BY DEF Tree, Listed
  <2> QED
    BY <1>1, <2>1
<1> QED
  BY <1>2, <1>3, <1>4 DEF Tree

\* y is x with inode j, which has blocks of B that were free, as entry n of
\* directory i.
Grafted(s, x, place, y, i, n, q, j, din, B) ==
    /\ n \notin DOMAIN Fs(s)!Dir(x, i)
    /\ q \in Fs(s)!Paths /\ q = Append(place[i], n)
    /\ j \in Fs(s)!Inodes \ x.mem.inodes /\ din \in Dinodes /\ Distinct(din)
    /\ \/ din.mode = "dir" /\ q \in FsShape[s].dirs
       \/ din.mode = "file" /\ q \in FsShape[s].files
    /\ B \subseteq Blocks \ x.mem.blocks /\ Uses(din) \subseteq B
    /\ y.mem.inodes = x.mem.inodes \cup {j} /\ y.mem.blocks = x.mem.blocks \cup B
    /\ y.mem.table = [x.mem.table EXCEPT ![j] = din]
    /\ \A k \in Folders(x) : k # i => Fs(s)!Dir(y, k) = Fs(s)!Dir(x, k)
    /\ DOMAIN Fs(s)!Dir(y, i) = DOMAIN Fs(s)!Dir(x, i) \cup {n}
    /\ Fs(s)!Dir(y, i)[n] = [ino |-> j, type |-> din.mode]
    /\ \A m \in DOMAIN Fs(s)!Dir(x, i) : Fs(s)!Dir(y, i)[m] = Fs(s)!Dir(x, i)[m]
    /\ din.mode = "dir" => din.direct[1] \in Blocks /\ DOMAIN Fs(s)!Dir(y, j) = {}

\* What dir_add_entry leaves is a tree, with the paths there were and one more.
LEMMA EntryAdded ==
    ASSUME NEW s \in DOMAIN FsShape, NEW x, NEW place, Tree(s, x, place),
           NEW i \in Folders(x), NEW n, NEW q, NEW j, NEW din, NEW B,
           NEW y, Device(s, y), Grafted(s, x, place, y, i, n, q, j, din, B)
    PROVE  \E p : Tree(s, y, p) /\ p[j] = q /\ \A k \in x.mem.inodes : p[k] = place[k]
<1>a. /\ n \notin DOMAIN Fs(s)!Dir(x, i)
      /\ q \in Fs(s)!Paths /\ q = Append(place[i], n)
      /\ j \in Fs(s)!Inodes \ x.mem.inodes /\ din \in Dinodes /\ Distinct(din)
      /\ \/ din.mode = "dir" /\ q \in FsShape[s].dirs
         \/ din.mode = "file" /\ q \in FsShape[s].files
      /\ B \subseteq Blocks \ x.mem.blocks /\ Uses(din) \subseteq B
      /\ y.mem.inodes = x.mem.inodes \cup {j} /\ y.mem.blocks = x.mem.blocks \cup B
      /\ y.mem.table = [x.mem.table EXCEPT ![j] = din]
      /\ \A k \in Folders(x) : k # i => Fs(s)!Dir(y, k) = Fs(s)!Dir(x, k)
      /\ DOMAIN Fs(s)!Dir(y, i) = DOMAIN Fs(s)!Dir(x, i) \cup {n}
      /\ Fs(s)!Dir(y, i)[n] = [ino |-> j, type |-> din.mode]
      /\ \A m \in DOMAIN Fs(s)!Dir(x, i) : Fs(s)!Dir(y, i)[m] = Fs(s)!Dir(x, i)[m]
      /\ din.mode = "dir" => din.direct[1] \in Blocks /\ DOMAIN Fs(s)!Dir(y, j) = {}
  BY DEF Grafted
<1> USE <1>a
<1> DEFINE p == [k \in Fs(s)!Inodes |-> IF k = j THEN q ELSE place[k]]
<1>0. /\ x.mem.inodes \subseteq Fs(s)!Inodes /\ x.mem.table \in [Fs(s)!Inodes -> Dinodes]
      /\ 0 \in x.mem.inodes /\ i \in x.mem.inodes /\ x.mem.blocks \subseteq Blocks
  BY DEF Tree, Device, Memories, Placed, Folders
<1>1. p[j] = q /\ \A k \in x.mem.inodes : p[k] = place[k]
  BY <1>0
<1>2. y.mem.table[j] = din /\ \A k \in x.mem.inodes : y.mem.table[k] = x.mem.table[k]
  BY <1>0
<1>3. Folders(y) = Folders(x) \cup (IF din.mode = "dir" THEN {j} ELSE {})
  BY <1>2 DEF Folders
<1>4. \A k \in x.mem.inodes : place[k] # q
  BY DownIs
<1> HIDE DEF p
<1>5. Apart(y)
  <2>1. \A k \in x.mem.inodes : Uses(x.mem.table[k]) \subseteq x.mem.blocks
    BY DEF Tree, Apart
  <2>2. \A k \in y.mem.inodes : Uses(y.mem.table[k]) \subseteq y.mem.blocks
                                /\ Distinct(y.mem.table[k])
    BY <1>2, <2>1 DEF Tree, Apart
  <2>3. ASSUME NEW k \in y.mem.inodes, NEW l \in y.mem.inodes, k # l
        PROVE  Uses(y.mem.table[k]) \cap Uses(y.mem.table[l]) = {}
    <3>1. CASE k \in x.mem.inodes /\ l \in x.mem.inodes
      BY <1>2, <2>3, <3>1 DEF Tree, Apart
    <3>2. CASE k \in x.mem.inodes /\ l = j
      BY <1>2, <2>1, <3>2
    <3>3. CASE k = j /\ l \in x.mem.inodes
      BY <1>2, <2>1, <3>3
    <3> QED
      BY <2>3, <3>1, <3>2, <3>3
  <2>4. \A k \in Folders(y) : y.mem.table[k].direct[1] \in Blocks
    BY <1>2, <1>3 DEF Tree, Apart, Folders
  <2> QED
    BY <2>2, <2>3, <2>4 DEF Apart
<1>6. Placed(s, y, p)
  <2>1. 0 \in y.mem.inodes /\ p[0] = <<>>
    BY <1>0, <1>1 DEF Tree, Placed
  <2>2. ASSUME NEW k \in y.mem.inodes
        PROVE  \/ /\ y.mem.table[k].mode = "dir"
                  /\ p[k] \in FsShape[s].dirs \cup {<<>>}
               \/ /\ y.mem.table[k].mode = "file"
                  /\ p[k] \in FsShape[s].files
    <3>1. CASE k = j
      BY <1>1, <1>2, <3>1
    <3>2. CASE k # j
      <4>1. k \in x.mem.inodes /\ p[k] = place[k] /\ y.mem.table[k] = x.mem.table[k]
        BY <1>1, <1>2, <3>2
      <4>2. \/ /\ x.mem.table[k].mode = "dir"
               /\ place[k] \in FsShape[s].dirs \cup {<<>>}
            \/ /\ x.mem.table[k].mode = "file"
               /\ place[k] \in FsShape[s].files
        BY <4>1 DEF Tree, Placed
      <4> QED
        BY <4>1, <4>2
    <3> QED
      BY <3>1, <3>2
  <2>3. ASSUME NEW k \in y.mem.inodes, NEW l \in y.mem.inodes, p[k] = p[l] PROVE k = l
    <3>1. \A a, b \in x.mem.inodes : place[a] = place[b] => a = b
      BY DEF Tree, Placed
    <3> QED
      BY <1>1, <1>4, <2>3, <3>1
  <2> QED
    BY <2>1, <2>2, <2>3 DEF Placed
<1>7. Entries(s, y, p)
  <2> SUFFICES ASSUME NEW k \in Folders(y), NEW m \in DOMAIN Fs(s)!Dir(y, k)
               PROVE  /\ Fs(s)!Dir(y, k)[m].ino \in y.mem.inodes
                      /\ Fs(s)!Dir(y, k)[m].type = y.mem.table[Fs(s)!Dir(y, k)[m].ino].mode
                      /\ p[Fs(s)!Dir(y, k)[m].ino] = Append(p[k], m)
    BY DEF Entries
  <2>1. k \in Folders(x)
    BY <1>3
  <2>2. CASE k = i /\ m = n
    BY <1>0, <1>1, <1>2, <2>2
  <2>3. CASE ~ (k = i /\ m = n)
    <3>1. m \in DOMAIN Fs(s)!Dir(x, k) /\ Fs(s)!Dir(y, k)[m] = Fs(s)!Dir(x, k)[m]
      BY <2>1, <2>3
    <3> DEFINE e == Fs(s)!Dir(x, k)[m]
    <3>2. e.ino \in x.mem.inodes /\ e.type = x.mem.table[e.ino].mode
          /\ place[e.ino] = Append(place[k], m)
      BY <2>1, <3>1, DownIs
    <3>3. k \in x.mem.inodes
      BY <2>1 DEF Folders
    <3>4. Fs(s)!Dir(y, k)[m] = e
      BY <3>1
    <3> HIDE DEF e
    <3> QED
      BY <1>1, <1>2, <3>2, <3>3, <3>4
  <2> QED
    BY <2>2, <2>3
<1>8. Listed(s, y)
  <2> SUFFICES ASSUME NEW k \in y.mem.inodes, k # 0
               PROVE  \E l \in Folders(y) : \E m \in DOMAIN Fs(s)!Dir(y, l) :
                         Fs(s)!Dir(y, l)[m].ino = k
    BY DEF Listed
  <2>1. CASE k = j
    BY <1>3, <2>1
  <2>2. CASE k # j
    <3>1. PICK l \in Folders(x) : \E m \in DOMAIN Fs(s)!Dir(x, l) : Fs(s)!Dir(x, l)[m].ino = k
      BY <2>2 DEF Tree, Listed
    <3>2. PICK m \in DOMAIN Fs(s)!Dir(x, l) : Fs(s)!Dir(x, l)[m].ino = k
      BY <3>1
    <3>3. m \in DOMAIN Fs(s)!Dir(y, l) /\ Fs(s)!Dir(y, l)[m].ino = k
      BY <3>2
    <3> QED
      BY <1>3, <3>3
  <2> QED
    BY <2>1, <2>2
<1> QED
  BY <1>1, <1>5, <1>6, <1>7, <1>8 DEF Tree

\* y is x without entry n of directory i and inode j, in which nothing was.
Pruned(s, x, y, i, n, j) ==
    /\ n \in DOMAIN Fs(s)!Dir(x, i) /\ j = Fs(s)!Dir(x, i)[n].ino
    /\ j \in Folders(x) => DOMAIN Fs(s)!Dir(x, j) = {}
    /\ y.mem.inodes = x.mem.inodes \ {j}
    /\ \A k \in y.mem.inodes : /\ y.mem.table[k] = x.mem.table[k]
                               /\ Uses(x.mem.table[k]) \subseteq y.mem.blocks
    /\ \A k \in Folders(x) : k # i /\ k # j => Fs(s)!Dir(y, k) = Fs(s)!Dir(x, k)
    /\ j # i => /\ DOMAIN Fs(s)!Dir(y, i) = DOMAIN Fs(s)!Dir(x, i) \ {n}
                /\ \A m \in DOMAIN Fs(s)!Dir(x, i) : m # n =>
                      Fs(s)!Dir(y, i)[m] = Fs(s)!Dir(x, i)[m]

\* What rmdir and unlink leave is a tree, with the paths there were but one.
LEMMA EntryRemoved ==
    ASSUME NEW s \in DOMAIN FsShape, NEW x, NEW place, Tree(s, x, place),
           NEW i \in Folders(x), NEW n, NEW j,
           NEW y, Device(s, y), Pruned(s, x, y, i, n, j)
    PROVE  Tree(s, y, place)
<1>a. /\ n \in DOMAIN Fs(s)!Dir(x, i) /\ j = Fs(s)!Dir(x, i)[n].ino
      /\ j \in Folders(x) => DOMAIN Fs(s)!Dir(x, j) = {}
      /\ y.mem.inodes = x.mem.inodes \ {j}
      /\ \A k \in y.mem.inodes : /\ y.mem.table[k] = x.mem.table[k]
                                 /\ Uses(x.mem.table[k]) \subseteq y.mem.blocks
      /\ \A k \in Folders(x) : k # i /\ k # j => Fs(s)!Dir(y, k) = Fs(s)!Dir(x, k)
      /\ j # i => /\ DOMAIN Fs(s)!Dir(y, i) = DOMAIN Fs(s)!Dir(x, i) \ {n}
                  /\ \A m \in DOMAIN Fs(s)!Dir(x, i) : m # n =>
                        Fs(s)!Dir(y, i)[m] = Fs(s)!Dir(x, i)[m]
  BY DEF Pruned
<1> USE <1>a
<1>0. /\ \A k \in x.mem.inodes : place[k] \in Seq(Fs(s)!Names)
      /\ i \in x.mem.inodes /\ 0 \in x.mem.inodes /\ place[0] = <<>>
  BY PlaceIs DEF Tree, Placed, Folders
<1>1. j \in x.mem.inodes /\ place[j] = Append(place[i], n)
  BY DownIs
<1>2. j # 0
  BY <1>0, <1>1, OneMore
<1>3. j # i
  <2> SUFFICES ASSUME place[i] = Append(place[i], n) PROVE FALSE
    BY <1>1
  <2> DEFINE q == place[i]
  <2>1. q \in Seq(Fs(s)!Names) /\ q = Append(q, n)
    BY <1>0
  <2> HIDE DEF q
  <2>2. Len(q) \in Nat /\ Len(Append(q, n)) = Len(q) + 1
    BY <2>1
  <2> QED
    BY <2>1, <2>2
<1>4. Folders(y) = Folders(x) \ {j}
  BY DEF Folders
<1>5. ASSUME NEW k \in Folders(x), NEW m \in DOMAIN Fs(s)!Dir(x, k)
      PROVE  /\ Fs(s)!Dir(x, k)[m].ino \in x.mem.inodes
             /\ Fs(s)!Dir(x, k)[m].type = x.mem.table[Fs(s)!Dir(x, k)[m].ino].mode
             /\ place[Fs(s)!Dir(x, k)[m].ino] = Append(place[k], m)
             /\ Fs(s)!Dir(x, k)[m].ino = j => k = i /\ m = n
  <2>1. /\ Fs(s)!Dir(x, k)[m].ino \in x.mem.inodes
        /\ Fs(s)!Dir(x, k)[m].type = x.mem.table[Fs(s)!Dir(x, k)[m].ino].mode
        /\ place[Fs(s)!Dir(x, k)[m].ino] = Append(place[k], m)
    BY DownIs
  <2>2. ASSUME Fs(s)!Dir(x, k)[m].ino = j PROVE k = i /\ m = n
    <3>1. Append(place[k], m) = Append(place[i], n)
      BY <1>1, <2>1, <2>2
    <3>2. place[k] \in Seq(Fs(s)!Names) /\ place[i] \in Seq(Fs(s)!Names) /\ k \in x.mem.inodes
      BY <1>0 DEF Folders
    <3>3. place[k] = place[i] /\ m = n
      BY <3>1, <3>2, OneMore, SMTT(30)
    <3> QED
      BY <1>0, <3>2, <3>3 DEF Tree, Placed
  <2> QED
    BY <2>1, <2>2
<1>6. Apart(y)
  <2>1. \A k \in y.mem.inodes : Uses(y.mem.table[k]) \subseteq y.mem.blocks
                                /\ Distinct(y.mem.table[k])
    BY DEF Tree, Apart
  <2>2. ASSUME NEW k \in y.mem.inodes, NEW l \in y.mem.inodes, k # l
        PROVE  Uses(y.mem.table[k]) \cap Uses(y.mem.table[l]) = {}
    <3>1. k \in x.mem.inodes /\ l \in x.mem.inodes
      OBVIOUS
    <3>2. Uses(x.mem.table[k]) \cap Uses(x.mem.table[l]) = {}
      BY <2>2, <3>1 DEF Tree, Apart
    <3> QED
      BY <3>2
  <2>3. \A k \in Folders(y) : y.mem.table[k].direct[1] \in Blocks
    BY <1>4 DEF Tree, Apart, Folders
  <2> QED
    BY <2>1, <2>2, <2>3 DEF Apart
<1>7. Placed(s, y, place)
  BY <1>0, <1>2 DEF Tree, Placed
<1>8. Entries(s, y, place)
  <2> SUFFICES ASSUME NEW k \in Folders(y), NEW m \in DOMAIN Fs(s)!Dir(y, k)
               PROVE  /\ Fs(s)!Dir(y, k)[m].ino \in y.mem.inodes
                      /\ Fs(s)!Dir(y, k)[m].type = y.mem.table[Fs(s)!Dir(y, k)[m].ino].mode
                      /\ place[Fs(s)!Dir(y, k)[m].ino] = Append(place[k], m)
    BY DEF Entries
  <2>1. k \in Folders(x) /\ k # j
    BY <1>4
  <2>2. m \in DOMAIN Fs(s)!Dir(x, k) /\ Fs(s)!Dir(y, k)[m] = Fs(s)!Dir(x, k)[m]
        /\ ~ (k = i /\ m = n)
    BY <1>3, <2>1
  <2> QED
    BY <1>5, <2>1, <2>2
<1>9. Listed(s, y)
  <2> SUFFICES ASSUME NEW k \in y.mem.inodes, k # 0
               PROVE  \E l \in Folders(y) : \E m \in DOMAIN Fs(s)!Dir(y, l) :
                         Fs(s)!Dir(y, l)[m].ino = k
    BY DEF Listed
  <2>1. PICK l \in Folders(x) : \E m \in DOMAIN Fs(s)!Dir(x, l) : Fs(s)!Dir(x, l)[m].ino = k
    BY DEF Tree, Listed
  <2>2. PICK m \in DOMAIN Fs(s)!Dir(x, l) : Fs(s)!Dir(x, l)[m].ino = k
    BY <2>1
  <2>3. l # j /\ ~ (l = i /\ m = n)
    BY <2>2
  <2>4. m \in DOMAIN Fs(s)!Dir(y, l) /\ Fs(s)!Dir(y, l)[m].ino = k
    BY <1>3, <2>2, <2>3
  <2> QED
    BY <1>4, <2>3, <2>4
<1> QED
  BY <1>6, <1>7, <1>8, <1>9 DEF Tree

-----------------------------------------------------------------------------
\* What a path shows of a memory and a disk.
Data(dev, din) ==
    [k \in 1..din.size |-> IF din.direct[k] = Blank THEN Blank ELSE dev[din.direct[k]]]
None == [kind |-> "none", data |-> <<>>]
Folder == [kind |-> "dir", data |-> <<>>]
Regular(data) == [kind |-> "file", data |-> data]
Inside(x, i) == IF x.mem.table[i].mode # "file" THEN Folder
                ELSE Regular(Data(x.disk, x.mem.table[i]))
Shown(s, x, p) ==
    LET i == Fs(s)!fs_lookup_path(x, p)
    IN  IF i = -1 THEN None ELSE Inside(x, i)

\* A path shows what the inode that has it holds.
LEMMA ShownIs ==
    ASSUME NEW s \in DOMAIN FsShape, NEW x, NEW place, Tree(s, x, place), NEW p \in Places(s)
    PROVE  /\ \A i \in x.mem.inodes : place[i] = p => Shown(s, x, p) = Inside(x, i)
           /\ (\A i \in x.mem.inodes : place[i] # p) => Shown(s, x, p) = None
<1> DEFINE k == Fs(s)!fs_lookup_path(x, p)
<1>1. ComesTo(x, place, p, k)
  BY LookupIs
<1>2. Shown(s, x, p) = IF k = -1 THEN None ELSE Inside(x, k)
  BY DEF Shown
<1> HIDE DEF k
<1>3. -1 \notin x.mem.inodes
  BY FsConstants DEF Tree, Device, Memories
<1>4. ASSUME NEW i \in x.mem.inodes, place[i] = p PROVE Shown(s, x, p) = Inside(x, i)
  <2>1. k \in x.mem.inodes /\ place[k] = p
    BY <1>1, <1>4 DEF ComesTo
  <2>2. k = i
    BY <1>4, <2>1 DEF Tree, Placed
  <2> QED
    BY <1>2, <1>3, <2>2
<1>5. ASSUME \A i \in x.mem.inodes : place[i] # p PROVE Shown(s, x, p) = None
  BY <1>1, <1>2, <1>5 DEF ComesTo
<1> QED
  BY <1>4, <1>5

\* A path shows the same of two that agree on it.
LEMMA ShowsTheSame ==
    ASSUME NEW s \in DOMAIN FsShape, NEW p \in Places(s),
           NEW x, NEW place, Tree(s, x, place), NEW y, NEW there, Tree(s, y, there),
           \A i \in x.mem.inodes : place[i] = p =>
              i \in y.mem.inodes /\ there[i] = p /\ Inside(y, i) = Inside(x, i),
           \A i \in y.mem.inodes : there[i] = p => i \in x.mem.inodes /\ place[i] = p
    PROVE  Shown(s, y, p) = Shown(s, x, p)
<1>1. CASE \E i \in x.mem.inodes : place[i] = p
  <2>1. PICK i \in x.mem.inodes : place[i] = p
    BY <1>1
  <2>2. Shown(s, x, p) = Inside(x, i)
    BY <2>1, ShownIs
  <2>3. i \in y.mem.inodes /\ there[i] = p /\ Inside(y, i) = Inside(x, i)
    BY <2>1
  <2>4. Shown(s, y, p) = Inside(y, i)
    BY <2>3, ShownIs
  <2> QED
    BY <2>2, <2>3, <2>4
<1>2. CASE \A i \in x.mem.inodes : place[i] # p
  <2>1. \A i \in y.mem.inodes : there[i] # p
    BY <1>2
  <2>2. Shown(s, x, p) = None
    BY <1>2, ShownIs
  <2>3. Shown(s, y, p) = None
    BY <2>1, ShownIs
  <2> QED
    BY <2>2, <2>3
<1> QED
  BY <1>1, <1>2

\* An inode shows the same when its entry in the table and its blocks are the same.
LEMMA InsideTheSame ==
    ASSUME NEW s \in DOMAIN FsShape, NEW x, NEW y, NEW i, x.mem.table[i] \in Dinodes,
           y.mem.table[i] = x.mem.table[i],
           x.mem.table[i].mode = "file" =>
              \A b \in Uses(x.mem.table[i]) : y.disk[b] = x.disk[b]
    PROVE  Inside(y, i) = Inside(x, i)
<1> DEFINE din == x.mem.table[i]
<1>1. CASE din.mode # "file"
  BY <1>1 DEF Inside
<1>2. CASE din.mode = "file"
  <2>1. din.size \in 0..NDIRECT
    BY DEF Dinodes
  <2>2. ASSUME NEW k \in 1..din.size, din.direct[k] # Blank
        PROVE  y.disk[din.direct[k]] = x.disk[din.direct[k]]
    <3>1. k \in 1..NDIRECT
      BY <2>1, FsConstants
    <3>2. din.direct[k] \in Uses(din)
      BY <2>2, <3>1 DEF Uses
    <3> QED
      BY <1>2, <3>2
  <2>3. Data(y.disk, din) = Data(x.disk, din)
    BY <2>2 DEF Data
  <2> QED
    BY <1>2, <2>3 DEF Inside
<1> QED
  BY <1>1, <1>2
-----------------------------------------------------------------------------
\* The open file: a copy of an inode in use that no longer agrees with it where
\* a write failed.
Handle(x, f) ==
    /\ f = [path |-> f.path, ino |-> f.ino, din |-> f.din]
    /\ f.ino \in x.mem.inodes /\ x.mem.table[f.ino].mode = "file"
    /\ f.din \in Dinodes /\ f.din.mode = "file" /\ Distinct(f.din)
    /\ f.din.size = x.mem.table[f.ino].size
    /\ \A k \in 1..NDIRECT : x.mem.table[f.ino].direct[k] # Blank =>
                                f.din.direct[k] = x.mem.table[f.ino].direct[k]
    /\ Uses(f.din) \subseteq x.mem.blocks
    /\ \A j \in x.mem.inodes : j # f.ino => Uses(f.din) \cap Uses(x.mem.table[j]) = {}

\* The invariant: what a mount would find, or has found, is a tree; the open file
\* is one of it; and the disk has what the memory has unless it is dirty.
FsIInv(s) ==
    /\ mounted \in BOOLEAN
    /\ disk = [b \in (0..3) \cup Blocks |-> disk[b]]
    /\ disk[0] # Blank => \E place : Tree(s, Fs(s)!Current, place)
    /\ mounted => /\ disk[0] # Blank
                  /\ \A f \in file : Handle(Fs(s)!Begin, f)
                  /\ ~dirty => mem = Fs(s)!Saved(disk)
    /\ ~mounted => ~dirty /\ file = {}
    /\ file = {} \/ \E f : file = {f}

\* What an operation makes of x: a tree, nothing of the metadata on the disk
\* and files that are still open.
Result(s, y, F) ==
    /\ \E place : Tree(s, y, place)
    /\ \A b \in 0..3 : y.disk[b] = disk[b]
    /\ \A f \in F : Handle(y, f)
    /\ F = {} \/ \E f : F = {f}

\* While it is mounted, what a path shows is what is in memory.
LEMMA CurrentIs ==
    ASSUME NEW s \in DOMAIN FsShape, mounted
    PROVE  Fs(s)!Current = Fs(s)!Begin
BY DEF Fs!Current, Fs!Begin

\* An operation keeps the invariant when what it makes is a tree.
LEMMA DoKeeps ==
    ASSUME NEW s \in DOMAIN FsShape, FsIInv(s), NEW y, NEW F, Result(s, y, F), Fs(s)!Leave(y, F)
    PROVE  FsIInv(s)' /\ mounted /\ mounted' /\ Fs(s)!Begin' = y /\ Fs(s)!Current' = y
<1>0. PICK place : Tree(s, y, place)
  BY DEF Result
<1>1. mem' = y.mem /\ disk' = y.disk /\ file' = F /\ mounted' = mounted /\ mounted
      /\ dirty' = (dirty \/ y.mem # mem)
  BY DEF Fs!Leave
<1>2. y = [mem |-> y.mem, disk |-> y.disk] /\ y.disk = [b \in (0..3) \cup Blocks |-> y.disk[b]]
  BY <1>0 DEF Tree, Device
<1>3. Fs(s)!Begin' = y /\ Fs(s)!Current' = y
  BY <1>1, <1>2 DEF Fs!Begin, Fs!Current
<1>4. disk'[0] # Blank
  BY <1>1 DEF FsIInv, Result
<1>5. ASSUME ~dirty' PROVE mem' = Fs(s)!Saved(disk)'
  <2>1. mem = Fs(s)!Saved(disk) /\ y.mem = mem
    BY <1>1, <1>5 DEF FsIInv
  <2>2. \A b \in 0..3 : disk'[b] = disk[b]
    BY <1>1 DEF Result
  <2> QED
    BY <1>1, <2>1, <2>2 DEF Fs!Saved, Fs!InodeMap, Fs!BlockMap, Fs!InodeTable
<1>6. \A f \in F : Handle(y, f)
  BY DEF Result
<1>7. F = {} \/ \E f : F = {f}
  BY DEF Result
<1>8. FsIInv(s)'
  BY <1>0, <1>1, <1>2, <1>3, <1>4, <1>5, <1>6, <1>7 DEF FsIInv
<1> QED
  BY <1>1, <1>3, <1>8

-----------------------------------------------------------------------------
\* y is x with c in block b.
Writes(s, x, y, b, c) ==
    /\ Device(s, y) /\ y.mem = x.mem /\ y.disk[b] = c
    /\ \A d \in (0..3) \cup Blocks : d # b => y.disk[d] = x.disk[d]

\* One block of the disk is written.
LEMMA WritesIs ==
    ASSUME NEW s \in DOMAIN FsShape, NEW x, Device(s, x), NEW b \in (0..3) \cup Blocks, NEW c
    PROVE  Writes(s, x, Fs(s)!Write(x, b, c), b, c)
<1> DEFINE y == Fs(s)!Write(x, b, c)
<1>1. y = [mem |-> x.mem, disk |-> [x.disk EXCEPT ![b] = c]]
  BY DEF Fs!Write, Device
<1>2. y.mem = x.mem /\ y.disk = [x.disk EXCEPT ![b] = c] /\ y = [mem |-> y.mem, disk |-> y.disk]
  BY <1>1
<1> HIDE DEF y
<1>3. x.disk = [d \in (0..3) \cup Blocks |-> x.disk[d]] /\ x.mem \in Memories(s)
  BY DEF Device
<1>4. /\ y.disk = [d \in (0..3) \cup Blocks |-> y.disk[d]]
      /\ y.disk[b] = c /\ \A d \in (0..3) \cup Blocks : d # b => y.disk[d] = x.disk[d]
  BY <1>2, <1>3
<1>5. Device(s, y)
  BY <1>2, <1>3, <1>4 DEF Device
<1>6. Writes(s, x, y, b, c)
  BY <1>2, <1>4, <1>5 DEF Writes
<1> QED
  BY <1>6 DEF y

\* And the directories there were, where it was no block of theirs.
LEMMA WriteIs ==
    ASSUME NEW s \in DOMAIN FsShape, NEW x, Device(s, x), NEW b \in (0..3) \cup Blocks, NEW c
    PROVE  LET y == Fs(s)!Write(x, b, c)
           IN  /\ Device(s, y) /\ y.mem = x.mem /\ y.disk[b] = c
               /\ \A d \in (0..3) \cup Blocks : d # b => y.disk[d] = x.disk[d]
               /\ \A i : x.mem.table[i].direct[1] \in Blocks =>
                     Fs(s)!Dir(y, i) = IF x.mem.table[i].direct[1] = b THEN c ELSE Fs(s)!Dir(x, i)
<1> DEFINE y == Fs(s)!Write(x, b, c)
<1>1. Writes(s, x, y, b, c)
  BY WritesIs
<1> HIDE DEF y
<1>2. /\ Device(s, y) /\ y.mem = x.mem /\ y.disk[b] = c
      /\ \A d \in (0..3) \cup Blocks : d # b => y.disk[d] = x.disk[d]
  BY <1>1 DEF Writes
<1>3. ASSUME NEW i, x.mem.table[i].direct[1] \in Blocks
      PROVE  Fs(s)!Dir(y, i) = IF x.mem.table[i].direct[1] = b THEN c ELSE Fs(s)!Dir(x, i)
  BY <1>2, <1>3 DEF Fs!Dir
<1> QED
  BY <1>2, <1>3 DEF y

\* What a path names is the entry of its last name where the others lead.
LEMMA EntryIs ==
    ASSUME NEW s \in DOMAIN FsShape, NEW place, Tree(s, Fs(s)!Begin, place), NEW p \in Fs(s)!Paths
    PROVE  LET i == Fs(s)!Parent(p)
               D == Fs(s)!Dir(Fs(s)!Begin, i)
               n == Fs(s)!Last(p)
               e == Fs(s)!Entry(p)
           IN  /\ i # Fs(s)!None => i \in Folders(Fs(s)!Begin) /\ p = Append(place[i], n)
               /\ Fs(s)!Exists(p) =>
                     /\ i \in Folders(Fs(s)!Begin) /\ n \in DOMAIN D /\ e = D[n]
                     /\ e.ino \in mem.inodes /\ place[e.ino] = p
                     /\ e.type = mem.table[e.ino].mode
               /\ ~ Fs(s)!Exists(p) => \A j \in mem.inodes : place[j] # p
<1> DEFINE i == Fs(s)!Parent(p)
           x == Fs(s)!Begin
           D == Fs(s)!Dir(x, i)
           n == Fs(s)!Last(p)
           e == Fs(s)!Entry(p)
           q == Fs(s)!Above(p)
<1>1. p \in Places(s) /\ Len(p) \in Nat \ {0}
  <2>1. p \in Seq(Fs(s)!Names) /\ p # <<>>
    BY FsConstants
  <2> QED
    BY <2>1 DEF Places
<1>2. q \in FsShape[s].dirs \cup {<<>>} /\ p = Append(q, n)
  <2>1. Len(p) \in 1..Len(p) /\ Len(p) - 1 \in 0..(Len(p) - 1)
    BY <1>1
  <2> QED
    BY <1>1, <2>1, PathSteps DEF Fs!Above, Fs!Last
<1>3. q \in Places(s)
  BY <1>2, FsConstants DEF Places
<1>4. ComesTo(x, place, q, i)
  BY <1>3, LookupIs DEF Fs!Parent
<1>5. -1 \notin x.mem.inodes /\ Fs(s)!None = -1
  BY FsConstants DEF Tree, Device, Memories
<1>6. x.mem = mem
  BY DEF Fs!Begin
<1>7. i # Fs(s)!None => i \in Folders(x) /\ place[i] = q
  <2> SUFFICES ASSUME i # Fs(s)!None PROVE i \in Folders(x) /\ place[i] = q
    OBVIOUS
  <2>1. i \in x.mem.inodes /\ place[i] = q
    BY <1>4, <1>5 DEF ComesTo
  <2>2. Placed(s, x, place)
    BY DEF Tree
  <2> HIDE DEF x, i, q
  <2> QED
    BY <1>2, <2>1, <2>2, PlaceIs
<1>8. Fs(s)!Exists(p) <=> i # Fs(s)!None /\ n \in DOMAIN D
  BY DEF Fs!Exists
<1>9. e = D[n]
  BY DEF Fs!Entry
<1>10. i # -1 <=> i \in x.mem.inodes
  BY <1>4, <1>5 DEF ComesTo
<1> HIDE DEF D, q, n, i, x, e
<1>11. ASSUME Fs(s)!Exists(p)
       PROVE  /\ i \in Folders(x) /\ n \in DOMAIN D /\ e.ino \in mem.inodes /\ place[e.ino] = p
              /\ e.type = mem.table[e.ino].mode
  <2>1. i \in Folders(x) /\ place[i] = q /\ n \in DOMAIN D
    BY <1>7, <1>8, <1>11
  <2>2. /\ D[n].ino \in x.mem.inodes /\ D[n].type = x.mem.table[D[n].ino].mode
        /\ place[D[n].ino] = Append(place[i], n)
    BY <2>1, DownIs DEF D, x
  <2> QED
    BY <1>2, <1>6, <1>9, <2>1, <2>2
<1>12. ASSUME ~ Fs(s)!Exists(p), NEW j \in x.mem.inodes PROVE place[j] # p
  <2>1. ComesTo(x, place, p, IF i # -1 /\ n \in DOMAIN D THEN D[n].ino ELSE -1)
    BY <1>2, <1>4, StepDown DEF D, x
  <2>2. ~ (i # -1 /\ n \in DOMAIN D)
    BY <1>5, <1>8, <1>12
  <2> QED
    BY <1>5, <2>1, <2>2 DEF ComesTo
<1>13. /\ i # Fs(s)!None => i \in Folders(x) /\ p = Append(place[i], n)
       /\ Fs(s)!Exists(p) =>
             /\ i \in Folders(x) /\ n \in DOMAIN D /\ e = D[n]
             /\ e.ino \in mem.inodes /\ place[e.ino] = p
             /\ e.type = mem.table[e.ino].mode
       /\ ~ Fs(s)!Exists(p) => \A j \in mem.inodes : place[j] # p
  BY <1>2, <1>6, <1>7, <1>9, <1>11, <1>12
<1> QED
  BY <1>13 DEF D, n, i, x, e

\* An operation is a record of records.
Shaped(x) == /\ x = [mem |-> x.mem, disk |-> x.disk]
             /\ x.mem = [inodes |-> x.mem.inodes, blocks |-> x.mem.blocks, table |-> x.mem.table]

\* An operation with one field changed, and what the fields of y are.
WithInodes(x, v) == [x EXCEPT !.mem.inodes = v]
WithBlocks(x, v) == [x EXCEPT !.mem.blocks = v]
WithDinode(x, j, v) == [x EXCEPT !.mem.table[j] = v]
Fields(y, I, B, T, D) ==
    Shaped(y) /\ y.mem.inodes = I /\ y.mem.blocks = B /\ y.mem.table = T /\ y.disk = D

\* One field changes, and the others do not.
LEMMA OneField ==
    ASSUME NEW x, Shaped(x), NEW v, NEW j
    PROVE  /\ Fields(WithInodes(x, v), v, x.mem.blocks, x.mem.table, x.disk)
           /\ Fields(WithBlocks(x, v), x.mem.inodes, v, x.mem.table, x.disk)
           /\ Fields(WithDinode(x, j, v), x.mem.inodes, x.mem.blocks,
                     [x.mem.table EXCEPT ![j] = v], x.disk)
BY DEF Shaped, Fields, WithInodes, WithBlocks, WithDinode

\* Several fields change at once.
LEMMA FieldsAre ==
    ASSUME NEW x, Shaped(x), NEW j, NEW B, NEW din
    PROVE  /\ Fields([x EXCEPT !.mem.inodes = @ \cup {j}, !.mem.blocks = @ \cup B,
                               !.mem.table[j] = din],
                     x.mem.inodes \cup {j}, x.mem.blocks \cup B,
                     [x.mem.table EXCEPT ![j] = din], x.disk)
           /\ Fields([x EXCEPT !.mem.inodes = @ \cup {j}, !.mem.table[j] = din],
                     x.mem.inodes \cup {j}, x.mem.blocks,
                     [x.mem.table EXCEPT ![j] = din], x.disk)
           /\ Fields([x EXCEPT !.mem.inodes = @ \ {j}, !.mem.table[j] = din],
                     x.mem.inodes \ {j}, x.mem.blocks,
                     [x.mem.table EXCEPT ![j] = din], x.disk)
           /\ Fields([x EXCEPT !.mem.blocks = @ \cup B],
                     x.mem.inodes, x.mem.blocks \cup B, x.mem.table, x.disk)
           /\ Fields([x EXCEPT !.mem.blocks = @ \ B],
                     x.mem.inodes, x.mem.blocks \ B, x.mem.table, x.disk)
           /\ Fields([x EXCEPT !.mem.table[j] = din],
                     x.mem.inodes, x.mem.blocks, [x.mem.table EXCEPT ![j] = din], x.disk)
<1> DEFINE more == WithInodes(x, x.mem.inodes \cup {j})
           less == WithInodes(x, x.mem.inodes \ {j})
           both == WithBlocks(more, more.mem.blocks \cup B)
           T == [x.mem.table EXCEPT ![j] = din]
<1>1. /\ [x EXCEPT !.mem.inodes = @ \cup {j}, !.mem.blocks = @ \cup B, !.mem.table[j] = din]
         = WithDinode(both, j, din)
      /\ [x EXCEPT !.mem.inodes = @ \cup {j}, !.mem.table[j] = din] = WithDinode(more, j, din)
      /\ [x EXCEPT !.mem.inodes = @ \ {j}, !.mem.table[j] = din] = WithDinode(less, j, din)
      /\ [x EXCEPT !.mem.blocks = @ \cup B] = WithBlocks(x, x.mem.blocks \cup B)
      /\ [x EXCEPT !.mem.blocks = @ \ B] = WithBlocks(x, x.mem.blocks \ B)
      /\ [x EXCEPT !.mem.table[j] = din] = WithDinode(x, j, din)
  BY DEF WithInodes, WithBlocks, WithDinode
<1>2. Fields(more, x.mem.inodes \cup {j}, x.mem.blocks, x.mem.table, x.disk)
  BY OneField
<1>3. Fields(less, x.mem.inodes \ {j}, x.mem.blocks, x.mem.table, x.disk)
  BY OneField
<1> HIDE DEF more, less
<1>4. Shaped(more) /\ Shaped(less)
  BY <1>2, <1>3 DEF Fields
<1>5. Fields(both, more.mem.inodes, more.mem.blocks \cup B, more.mem.table, more.disk)
  BY <1>4, OneField
<1> HIDE DEF both
<1>6. Shaped(both) /\ Shaped(more) /\ Shaped(less)
  BY <1>4, <1>5 DEF Fields
<1>7. Fields(WithDinode(both, j, din), both.mem.inodes, both.mem.blocks,
             [both.mem.table EXCEPT ![j] = din], both.disk)
  BY <1>6, OneField
<1>8. Fields(WithDinode(more, j, din), more.mem.inodes, more.mem.blocks,
             [more.mem.table EXCEPT ![j] = din], more.disk)
  BY <1>6, OneField
<1>9. Fields(WithDinode(less, j, din), less.mem.inodes, less.mem.blocks,
             [less.mem.table EXCEPT ![j] = din], less.disk)
  BY <1>6, OneField
<1>10. /\ Fields(WithDinode(both, j, din), x.mem.inodes \cup {j}, x.mem.blocks \cup B, T, x.disk)
      /\ Fields(WithDinode(more, j, din), x.mem.inodes \cup {j}, x.mem.blocks, T, x.disk)
      /\ Fields(WithDinode(less, j, din), x.mem.inodes \ {j}, x.mem.blocks, T, x.disk)
  BY <1>2, <1>3, <1>5, <1>7, <1>8, <1>9 DEF Fields
<1>11. /\ Fields(WithBlocks(x, x.mem.blocks \cup B),
                x.mem.inodes, x.mem.blocks \cup B, x.mem.table, x.disk)
      /\ Fields(WithBlocks(x, x.mem.blocks \ B),
                x.mem.inodes, x.mem.blocks \ B, x.mem.table, x.disk)
      /\ Fields(WithDinode(x, j, din), x.mem.inodes, x.mem.blocks, T, x.disk)
  BY OneField
<1> QED
  BY <1>1, <1>10, <1>11, Zenon

\* The inodes that operations make.
LEMMA InodesAre ==
    ASSUME NEW s \in DOMAIN FsShape
    PROVE  /\ Fs(s)!FreeInode \in Dinodes /\ Fs(s)!FileInode \in Dinodes
           /\ Uses(Fs(s)!FileInode) = {} /\ Distinct(Fs(s)!FileInode)
           /\ Fs(s)!FileInode.mode = "file" /\ Fs(s)!FileInode.size = 0
           /\ \A b \in Blocks : LET din == Fs(s)!DirInode(b)
                                IN  /\ din \in Dinodes /\ Uses(din) = {b} /\ Distinct(din)
                                    /\ din.mode = "dir" /\ din.direct[1] = b
<1>1. NDIRECT \in Nat \ {0} /\ Blank \notin Blocks
  BY FsConstants
<1>2. /\ Fs(s)!Unset \in [1..NDIRECT -> Blocks \cup {Blank}]
      /\ \A k \in 1..NDIRECT : Fs(s)!Unset[k] = Blank
  BY DEF Fs!Unset
<1>3. /\ Fs(s)!FreeInode \in Dinodes /\ Fs(s)!FileInode \in Dinodes
      /\ Uses(Fs(s)!FileInode) = {} /\ Distinct(Fs(s)!FileInode)
      /\ Fs(s)!FileInode.mode = "file" /\ Fs(s)!FileInode.size = 0
  BY <1>1, <1>2 DEF Dinodes, Uses, Distinct, Fs!FreeInode, Fs!FileInode
<1>4. ASSUME NEW b \in Blocks
      PROVE  LET din == Fs(s)!DirInode(b)
             IN  /\ din \in Dinodes /\ Uses(din) = {b} /\ Distinct(din)
                 /\ din.mode = "dir" /\ din.direct[1] = b
  <2> DEFINE din == Fs(s)!DirInode(b)
  <2>1. din.mode = "dir" /\ din.size = 1 /\ din.direct = [Fs(s)!Unset EXCEPT ![1] = b]
        /\ din = [mode |-> din.mode, size |-> din.size, direct |-> din.direct]
    BY DEF Fs!DirInode
  <2> HIDE DEF din
  <2>2. /\ din.direct \in [1..NDIRECT -> Blocks \cup {Blank}] /\ din.direct[1] = b
        /\ 1 \in 1..NDIRECT /\ \A k \in 1..NDIRECT : k # 1 => din.direct[k] = Blank
    BY <1>1, <1>2, <2>1
  <2>3. din \in Dinodes
    BY <1>1, <2>1, <2>2 DEF Dinodes
  <2>4. Uses(din) = {b} /\ Distinct(din)
    BY <1>1, <2>2 DEF Uses, Distinct
  <2> QED
    BY <2>1, <2>2, <2>3, <2>4 DEF din
<1> QED
  BY <1>3, <1>4

\* Members of the blocks of an inode.
LEMMA OwnedIs ==
    ASSUME NEW s \in DOMAIN FsShape, NEW din, din.direct \in [1..NDIRECT -> Blocks \cup {Blank}]
    PROVE  /\ Fs(s)!Members(din.direct) \ {Blank} = Uses(din)
           /\ \A B \in SUBSET Blocks : B \ Fs(s)!Members(din.direct) = B \ Uses(din)
BY FsConstants DEF Fs!Members, Uses

\* The block of a directory is its own.
LEMMA FolderBlock ==
    ASSUME NEW s \in DOMAIN FsShape, NEW x, Device(s, x), Apart(x), NEW i \in Folders(x)
    PROVE  /\ x.mem.table[i].direct[1] \in Blocks
           /\ x.mem.table[i].direct[1] \in x.mem.blocks
           /\ x.mem.table[i].direct[1] \in Uses(x.mem.table[i])
           /\ \A k \in x.mem.inodes : k # i =>
                 x.mem.table[i].direct[1] \notin Uses(x.mem.table[k])
<1> DEFINE b == x.mem.table[i].direct[1]
<1>1. b \in Blocks /\ Blank \notin Blocks /\ 1 \in 1..NDIRECT /\ i \in x.mem.inodes
  BY FsConstants DEF Apart, Folders
<1>2. b \in Uses(x.mem.table[i])
  BY <1>1 DEF Uses
<1>3. \A k \in x.mem.inodes : k # i => Uses(x.mem.table[i]) \cap Uses(x.mem.table[k]) = {}
  BY <1>1 DEF Apart
<1>4. Uses(x.mem.table[i]) \subseteq x.mem.blocks
  BY <1>1 DEF Apart
<1> QED
  BY <1>1, <1>2, <1>3, <1>4

\* When the block of one directory is written the others are as they were.
LEMMA DirsAre ==
    ASSUME NEW s \in DOMAIN FsShape, NEW x, Device(s, x), Apart(x), NEW i \in Folders(x), NEW c,
           NEW y, y.disk[x.mem.table[i].direct[1]] = c,
           \A a \in Blocks : a # x.mem.table[i].direct[1] => y.disk[a] = x.disk[a],
           NEW k \in Folders(x), y.mem.table[k] = x.mem.table[k]
    PROVE  Fs(s)!Dir(y, k) = IF k = i THEN c ELSE Fs(s)!Dir(x, k)
<1> DEFINE b == x.mem.table[i].direct[1]
           d == x.mem.table[k].direct[1]
<1>1. b \in Blocks /\ d \in Blocks /\ d \in Uses(x.mem.table[k]) /\ k \in x.mem.inodes
  BY FolderBlock DEF Folders
<1>2. k # i => b # d
  BY <1>1, FolderBlock
<1>3. y.disk[b] = c /\ \A a \in Blocks : a # b => y.disk[a] = x.disk[a]
  OBVIOUS
<1>5. Fs(s)!Dir(y, k) = y.disk[d] /\ Fs(s)!Dir(x, k) = x.disk[d]
  BY DEF Fs!Dir
<1>6. k = i => b = d
  OBVIOUS
<1> HIDE DEF b, d
<1> QED
  BY <1>1, <1>2, <1>3, <1>5, <1>6

\* An open file is still open when its inode is as it was, and the others have
\* what they had or blocks that were free.
LEMMA HandleKept ==
    ASSUME NEW x, NEW y, NEW f, Handle(x, f), f.ino \in y.mem.inodes,
           y.mem.table[f.ino] = x.mem.table[f.ino], Uses(f.din) \subseteq y.mem.blocks,
           \A j \in y.mem.inodes : j # f.ino =>
              \/ j \in x.mem.inodes /\ y.mem.table[j] = x.mem.table[j]
              \/ Uses(y.mem.table[j]) \cap x.mem.blocks = {}
    PROVE  Handle(y, f)
<1>1. Uses(f.din) \subseteq x.mem.blocks
  BY DEF Handle
<1>2. ASSUME NEW j \in y.mem.inodes, j # f.ino PROVE Uses(f.din) \cap Uses(y.mem.table[j]) = {}
  BY <1>1, <1>2 DEF Handle
<1> QED
  BY <1>2 DEF Handle

\* Without entry n of directory i, inode j that it leads to, and blocks B.
Without(s, x, i, n, j, B) ==
    [mem |-> [inodes |-> x.mem.inodes \ {j}, blocks |-> x.mem.blocks \ B,
              table |-> [x.mem.table EXCEPT ![j] = Fs(s)!FreeInode]],
     disk |-> [x.disk EXCEPT ![x.mem.table[i].direct[1]] =
                  [m \in DOMAIN Fs(s)!Dir(x, i) \ {n} |-> Fs(s)!Dir(x, i)[m]]]]

\* Path p is entry n of directory i, and leads to inode j.
LeadsTo(s, x, place, i, n, j, p) ==
    /\ i \in Folders(x) /\ n \in DOMAIN Fs(s)!Dir(x, i) /\ j = Fs(s)!Dir(x, i)[n].ino
    /\ p = Append(place[i], n)

\* Taking a name away takes it away, and nothing else.
LEMMA RemovedIs ==
    ASSUME NEW s \in DOMAIN FsShape, NEW x, NEW place, Tree(s, x, place),
           NEW p \in Fs(s)!Paths, NEW i \in Folders(x), NEW n, NEW j,
           LeadsTo(s, x, place, i, n, j, p),
           j \in Folders(x) => DOMAIN Fs(s)!Dir(x, j) = {},
           NEW B \in SUBSET Uses(x.mem.table[j]), NEW F, \A f \in F : Handle(x, f) /\ f.ino # j,
           NEW y, y = Without(s, x, i, n, j, B)
    PROVE  /\ Tree(s, y, place)
           /\ \A b \in 0..3 : y.disk[b] = x.disk[b]
           /\ \A f \in F : Handle(y, f)
           /\ \A q \in Fs(s)!Paths : Shown(s, y, q) = IF q = p THEN None ELSE Shown(s, x, q)
<1> DEFINE d == x.mem.table[i].direct[1]
           D == [m \in DOMAIN Fs(s)!Dir(x, i) \ {n} |-> Fs(s)!Dir(x, i)[m]]
<1>0. /\ Device(s, x) /\ Apart(x) /\ Placed(s, x, place)
      /\ x.mem \in Memories(s) /\ x.disk = [b \in (0..3) \cup Blocks |-> x.disk[b]]
  BY DEF Tree, Device
<1>1. j \in x.mem.inodes /\ place[j] = p
  BY DownIs DEF LeadsTo
<1>2. d \in Blocks /\ d \notin 0..3 /\ \A k \in x.mem.inodes : k # i => d \notin Uses(x.mem.table[k])
  BY <1>0, FolderBlock, FsConstants
<1>3. /\ x.mem.inodes \subseteq Fs(s)!Inodes /\ x.mem.blocks \subseteq Blocks
      /\ x.mem.table \in [Fs(s)!Inodes -> Dinodes]
  BY <1>0 DEF Memories
<1>4. /\ y.mem.inodes = x.mem.inodes \ {j} /\ y.mem.blocks = x.mem.blocks \ B
      /\ \A k \in y.mem.inodes : y.mem.table[k] = x.mem.table[k]
  BY <1>3 DEF Without
<1>4a. y = [mem |-> y.mem, disk |-> y.disk] /\ y.disk = [x.disk EXCEPT ![d] = D]
       /\ y.mem = [inodes |-> y.mem.inodes, blocks |-> y.mem.blocks,
                   table |-> [x.mem.table EXCEPT ![j] = Fs(s)!FreeInode]]
  BY DEF Without
<1>5. \A b \in (0..3) \cup Blocks : b # d => y.disk[b] = x.disk[b]
  BY <1>0, <1>4a
<1>6. Device(s, y)
  <2>1. y.mem \in Memories(s)
    BY <1>1, <1>3, <1>4, <1>4a, InodesAre, SMTT(30) DEF Memories
  <2>2. y.disk = [b \in (0..3) \cup Blocks |-> y.disk[b]]
    BY <1>0, <1>4a
  <2> QED
    BY <1>4a, <2>1, <2>2 DEF Device
<1>7. \A k \in y.mem.inodes : Uses(x.mem.table[k]) \subseteq y.mem.blocks
  BY <1>0, <1>1, <1>4 DEF Apart
<1>8. \A k \in Folders(x) : k # j => Fs(s)!Dir(y, k) = IF k = i THEN D ELSE Fs(s)!Dir(x, k)
  <2> SUFFICES ASSUME NEW k \in Folders(x), k # j
               PROVE  Fs(s)!Dir(y, k) = IF k = i THEN D ELSE Fs(s)!Dir(x, k)
    OBVIOUS
  <2>1. y.mem.table[k] = x.mem.table[k]
    BY <1>4, SMTT(30) DEF Folders
  <2>2. /\ y.disk[x.mem.table[i].direct[1]] = D
        /\ \A a \in Blocks : a # x.mem.table[i].direct[1] => y.disk[a] = x.disk[a]
    BY <1>0, <1>2, <1>4a, <1>5
  <2> HIDE DEF D
  <2> QED
    BY <1>0, <2>1, <2>2, DirsAre
<1>9. DOMAIN D = DOMAIN Fs(s)!Dir(x, i) \ {n} /\ \A m \in DOMAIN D : D[m] = Fs(s)!Dir(x, i)[m]
  OBVIOUS
<1> HIDE DEF D, d
<1>10. Tree(s, y, place)
  <2>1. \A k \in Folders(x) : k # i /\ k # j => Fs(s)!Dir(y, k) = Fs(s)!Dir(x, k)
    BY <1>8
  <2>2. j # i => /\ DOMAIN Fs(s)!Dir(y, i) = DOMAIN Fs(s)!Dir(x, i) \ {n}
                 /\ \A m \in DOMAIN Fs(s)!Dir(x, i) : m # n =>
                       Fs(s)!Dir(y, i)[m] = Fs(s)!Dir(x, i)[m]
    BY <1>8, <1>9
  <2> QED
    <3>1. n \in DOMAIN Fs(s)!Dir(x, i) /\ j = Fs(s)!Dir(x, i)[n].ino
      BY DEF LeadsTo
    <3>2. Pruned(s, x, y, i, n, j)
      BY <1>4, <1>7, <2>1, <2>2, <3>1 DEF Pruned
    <3> QED
      BY <1>6, <3>2, EntryRemoved
<1>11. ASSUME NEW f \in F PROVE Handle(y, f)
  <2>1. Handle(x, f) /\ f.ino # j /\ f.ino \in x.mem.inodes
    BY DEF Handle
  <2>2. f.ino \in y.mem.inodes
    BY <1>4, <2>1
  <2>3. Uses(f.din) \subseteq y.mem.blocks
    BY <1>1, <1>4, <2>1 DEF Handle
  <2> QED
    BY <1>4, <2>1, <2>2, <2>3, HandleKept
<1>12. ASSUME NEW q \in Fs(s)!Paths PROVE Shown(s, y, q) = IF q = p THEN None ELSE Shown(s, x, q)
  <2>0. q \in Places(s)
    BY DEF Places
  <2>1. CASE q = p
    <3>1. \A k \in y.mem.inodes : place[k] # q
      <4>1. \A k, l \in x.mem.inodes : place[k] = place[l] => k = l
        BY <1>0 DEF Placed
      <4> QED
        BY <1>1, <1>4, <2>1, <4>1
    <3>2. Shown(s, y, q) = None
      BY <1>10, <2>0, <3>1, ShownIs
    <3> QED
      BY <2>1, <3>2
  <2>2. CASE q # p
    <3>1. ASSUME NEW k \in x.mem.inodes, place[k] = q
          PROVE  k \in y.mem.inodes /\ Inside(y, k) = Inside(x, k)
      <4>1. k \in y.mem.inodes
        BY <1>1, <1>4, <2>2, <3>1
      <4>2. ASSUME x.mem.table[k].mode = "file", NEW b \in Uses(x.mem.table[k])
            PROVE  y.disk[b] = x.disk[b]
        <5>1. k # i /\ b \in Blocks
          BY <1>0, <1>7, <4>1, <1>3, <1>4, <4>2 DEF Folders
        <5> QED
          BY <1>2, <1>5, <5>1
      <4>3. x.mem.table[k] \in Dinodes /\ y.mem.table[k] = x.mem.table[k]
        BY <1>3, <1>4, <4>1
      <4> QED
        BY <4>1, <4>2, <4>3, InsideTheSame
    <3>2. \A k \in y.mem.inodes : k \in x.mem.inodes
      BY <1>4
    <3>3. Shown(s, y, q) = Shown(s, x, q)
      BY <1>10, <2>0, <3>1, <3>2, ShowsTheSame
    <3> QED
      BY <2>2, <3>3
  <2> QED
    BY <2>1, <2>2
<1>13. \A b \in 0..3 : y.disk[b] = x.disk[b]
  BY <1>2, <1>5
<1> QED
  BY <1>10, <1>11, <1>12, <1>13

\* What dir_add_entry does to x, with inode j and its blocks.
Adds(s, x, place, y, i, n, q, j, din, B) ==
    /\ n \notin DOMAIN Fs(s)!Dir(x, i)
    /\ q \in Fs(s)!Paths /\ q = Append(place[i], n)
    /\ j \in Fs(s)!Inodes \ x.mem.inodes /\ din \in Dinodes /\ Distinct(din)
    /\ \/ din.mode = "dir" /\ q \in FsShape[s].dirs
       \/ din.mode = "file" /\ q \in FsShape[s].files
    /\ B \subseteq Blocks \ x.mem.blocks /\ Uses(din) \subseteq B
    /\ y = [mem |-> y.mem, disk |-> y.disk]
    /\ y.mem = [inodes |-> x.mem.inodes \cup {j}, blocks |-> x.mem.blocks \cup B,
                table |-> [x.mem.table EXCEPT ![j] = din]]
    /\ y.disk = [b \in (0..3) \cup Blocks |-> y.disk[b]]
    /\ \A b \in (0..3) \cup Blocks :
          b \notin B /\ b # x.mem.table[i].direct[1] => y.disk[b] = x.disk[b]
    /\ y.disk[x.mem.table[i].direct[1]] =
          [m \in DOMAIN Fs(s)!Dir(x, i) \cup {n} |->
              IF m = n THEN [ino |-> j, type |-> din.mode] ELSE Fs(s)!Dir(x, i)[m]]
    /\ din.mode = "dir" => din.direct[1] \in B /\ DOMAIN y.disk[din.direct[1]] = {}

\* Adding a name adds it, and nothing else.
LEMMA AddedIs ==
    ASSUME NEW s \in DOMAIN FsShape, NEW x, NEW place, Tree(s, x, place),
           NEW i \in Folders(x), NEW n, NEW q, NEW j, NEW din, NEW B, NEW y,
           Adds(s, x, place, y, i, n, q, j, din, B), NEW F, \A f \in F : Handle(x, f)
    PROVE  /\ \E there : Tree(s, y, there) /\ there[j] = q
           /\ \A b \in 0..3 : y.disk[b] = x.disk[b]
           /\ \A f \in F : Handle(y, f)
           /\ \A p \in Fs(s)!Paths : p # q => Shown(s, y, p) = Shown(s, x, p)
           /\ Shown(s, x, q) = None /\ Shown(s, y, q) = Inside(y, j)
<1> DEFINE d == x.mem.table[i].direct[1]
           D == [m \in DOMAIN Fs(s)!Dir(x, i) \cup {n} |->
                    IF m = n THEN [ino |-> j, type |-> din.mode] ELSE Fs(s)!Dir(x, i)[m]]
<1>0. /\ Device(s, x) /\ Apart(x) /\ Placed(s, x, place)
      /\ x.mem.inodes \subseteq Fs(s)!Inodes /\ x.mem.blocks \subseteq Blocks
      /\ x.mem.table \in [Fs(s)!Inodes -> Dinodes]
  BY SMTT(30) DEF Tree, Device, Memories
<1>1. /\ n \notin DOMAIN Fs(s)!Dir(x, i) /\ q \in Fs(s)!Paths
      /\ j \in Fs(s)!Inodes \ x.mem.inodes /\ din \in Dinodes /\ Distinct(din)
      /\ \/ din.mode = "dir" /\ q \in FsShape[s].dirs
         \/ din.mode = "file" /\ q \in FsShape[s].files
      /\ B \subseteq Blocks \ x.mem.blocks /\ Uses(din) \subseteq B
      /\ din.mode = "dir" => din.direct[1] \in B /\ DOMAIN y.disk[din.direct[1]] = {}
  BY DEF Adds
<1>2. /\ y.mem.inodes = x.mem.inodes \cup {j} /\ y.mem.blocks = x.mem.blocks \cup B
      /\ y.mem.table = [x.mem.table EXCEPT ![j] = din]
      /\ y = [mem |-> y.mem, disk |-> y.disk]
      /\ y.mem = [inodes |-> y.mem.inodes, blocks |-> y.mem.blocks, table |-> y.mem.table]
      /\ y.disk = [b \in (0..3) \cup Blocks |-> y.disk[b]]
  BY DEF Adds
<1>3. /\ \A b \in (0..3) \cup Blocks : b \notin B /\ b # d => y.disk[b] = x.disk[b]
      /\ y.disk[d] = D
  BY DEF Adds
<1>4. y.mem.table[j] = din /\ \A k \in x.mem.inodes : y.mem.table[k] = x.mem.table[k]
  BY <1>0, <1>1, <1>2
<1>5. /\ d \in x.mem.blocks /\ d \in Blocks /\ d \notin 0..3
      /\ \A k \in x.mem.inodes : k # i => d \notin Uses(x.mem.table[k])
  BY <1>0, FolderBlock, FsConstants
<1>6. DOMAIN D = DOMAIN Fs(s)!Dir(x, i) \cup {n} /\ D[n] = [ino |-> j, type |-> din.mode]
      /\ \A m \in DOMAIN Fs(s)!Dir(x, i) : D[m] = Fs(s)!Dir(x, i)[m]
  BY <1>1
<1> HIDE DEF D, d
<1>7. ASSUME NEW k \in Folders(x) PROVE Fs(s)!Dir(y, k) = IF k = i THEN D ELSE Fs(s)!Dir(x, k)
  <2> DEFINE a == x.mem.table[k].direct[1]
  <2>1. k \in x.mem.inodes /\ a \in x.mem.blocks /\ a \in Blocks /\ a \in Uses(x.mem.table[k])
    BY <1>0, FolderBlock DEF Folders
  <2>2. Fs(s)!Dir(y, k) = y.disk[a] /\ Fs(s)!Dir(x, k) = x.disk[a]
    BY <1>4, <2>1 DEF Fs!Dir
  <2>3. k = i => a = d
    BY DEF d
  <2> HIDE DEF a
  <2> QED
    BY <1>1, <1>3, <1>5, <2>1, <2>2, <2>3
<1>8. Device(s, y)
  <2>1. y.mem \in Memories(s)
    BY <1>0, <1>1, <1>2 DEF Memories
  <2> QED
    BY <1>2, <2>1 DEF Device
<1>9. Grafted(s, x, place, y, i, n, q, j, din, B)
  <2>1. q = Append(place[i], n)
    BY DEF Adds
  <2>2. din.mode = "dir" => din.direct[1] \in Blocks /\ DOMAIN Fs(s)!Dir(y, j) = {}
    <3>1. Fs(s)!Dir(y, j) = y.disk[din.direct[1]]
      BY <1>4 DEF Fs!Dir
    <3> QED
      BY <1>1, <3>1
  <2>3. /\ \A k \in Folders(x) : k # i => Fs(s)!Dir(y, k) = Fs(s)!Dir(x, k)
        /\ Fs(s)!Dir(y, i) = D
    BY <1>7
  <2> QED
    BY <1>1, <1>2, <1>6, <2>1, <2>2, <2>3, SMTT(30) DEF Grafted
<1>10. PICK there : Tree(s, y, there) /\ there[j] = q /\ \A k \in x.mem.inodes : there[k] = place[k]
  BY <1>8, <1>9, EntryAdded
<1>11. \A b \in 0..3 : y.disk[b] = x.disk[b]
  BY <1>1, <1>3, <1>5, FsConstants
<1>12. ASSUME NEW f \in F PROVE Handle(y, f)
  <2>1. Handle(x, f) /\ f.ino \in x.mem.inodes /\ Uses(f.din) \subseteq x.mem.blocks
    BY Zenon DEF Handle
  <2>2. \A k \in y.mem.inodes : k # f.ino =>
              \/ k \in x.mem.inodes /\ y.mem.table[k] = x.mem.table[k]
              \/ Uses(y.mem.table[k]) \cap x.mem.blocks = {}
    BY <1>1, <1>2, <1>4
  <2>3. f.ino \in y.mem.inodes /\ Uses(f.din) \subseteq y.mem.blocks
    BY <1>2, <2>1
  <2> QED
    BY <1>4, <2>1, <2>2, <2>3, HandleKept
<1>13. \A k \in x.mem.inodes : place[k] # q
  <2>1. q = Append(place[i], n)
    BY DEF Adds
  <2> QED
    BY <1>1, <2>1, DownIs
<1>14. Shown(s, x, q) = None /\ Shown(s, y, q) = Inside(y, j)
  <2>1. q \in Places(s) /\ j \in y.mem.inodes
    BY <1>1, <1>2 DEF Places
  <2> QED
    BY <1>10, <1>13, <2>1, ShownIs
<1>15. ASSUME NEW p \in Fs(s)!Paths, p # q PROVE Shown(s, y, p) = Shown(s, x, p)
  <2>1. p \in Places(s)
    BY DEF Places
  <2>2. ASSUME NEW k \in x.mem.inodes, place[k] = p
        PROVE  k \in y.mem.inodes /\ there[k] = p /\ Inside(y, k) = Inside(x, k)
    <3>1. k \in y.mem.inodes /\ there[k] = p
      BY <1>2, <1>10, <2>2
    <3>2. ASSUME x.mem.table[k].mode = "file", NEW b \in Uses(x.mem.table[k])
          PROVE  y.disk[b] = x.disk[b]
      <4>1. k # i
        BY <3>2 DEF Folders
      <4>2. b \in x.mem.blocks
        BY <1>0 DEF Apart
      <4> QED
        BY <1>0, <1>1, <1>3, <1>5, <4>1, <4>2
    <3>3. x.mem.table[k] \in Dinodes /\ y.mem.table[k] = x.mem.table[k]
      BY <1>0, <1>4
    <3>4. Inside(y, k) = Inside(x, k)
      BY <3>2, <3>3, InsideTheSame
    <3> QED
      BY <3>1, <3>4
  <2>3. ASSUME NEW k \in y.mem.inodes, there[k] = p PROVE k \in x.mem.inodes /\ place[k] = p
    BY <1>2, <1>10, <1>15, <2>3
  <2> QED
    BY <1>10, <2>1, <2>2, <2>3, ShowsTheSame
<1> QED
  BY <1>10, <1>11, <1>12, <1>14, <1>15

\* inode_alloc and block_alloc return what was free; inode_alloc goes behind the
\* table when no entry of it is.
LEMMA AllocIs ==
    ASSUME NEW s \in DOMAIN FsShape, NEW x
    PROVE  /\ Fs(s)!InodeLeft(x) /\ ~ Fs(s)!Overruns(x) =>
                 Fs(s)!inode_alloc(x) \in Fs(s)!Inodes \ x.mem.inodes
           /\ Fs(s)!Overruns(x) => Fs(s)!Inodes \subseteq x.mem.inodes
           /\ Fs(s)!BlockLeft(x) => Fs(s)!block_alloc(x) \in Blocks \ x.mem.blocks
           /\ Fs(s)!First(Blocks) \in Blocks
<1>1. \A S \in SUBSET Nat : S # {} => Fs(s)!First(S) \in S /\ \A i \in S : Fs(s)!First(S) <= i
  <2> SUFFICES ASSUME NEW S \in SUBSET Nat, S # {}
               PROVE  Fs(s)!First(S) \in S /\ \A i \in S : Fs(s)!First(S) <= i
    OBVIOUS
  <2>1. \E i \in S : \A j \in S : i <= j
    BY LeastElement
  <2> QED
    BY <2>1 DEF Fs!First
<1>2. Fs(s)!Numbers \subseteq Nat /\ Blocks \subseteq Nat /\ Blocks # {}
  BY FsConstants
<1>3. Fs(s)!Numbers \ x.mem.inodes \in SUBSET Nat /\ Blocks \ x.mem.blocks \in SUBSET Nat
  BY <1>2
<1>4. Fs(s)!InodeLeft(x) => /\ Fs(s)!inode_alloc(x) \in Fs(s)!Numbers \ x.mem.inodes
                            /\ \A i \in Fs(s)!Numbers \ x.mem.inodes : Fs(s)!inode_alloc(x) <= i
  BY <1>1, <1>3 DEF Fs!InodeLeft, Fs!inode_alloc
<1>5. Fs(s)!BlockLeft(x) => Fs(s)!block_alloc(x) \in Blocks \ x.mem.blocks
  BY <1>1, <1>3 DEF Fs!BlockLeft, Fs!block_alloc
<1>6. ASSUME Fs(s)!Overruns(x), NEW i \in Fs(s)!Inodes, i \notin x.mem.inodes PROVE FALSE
  <2> DEFINE j == Fs(s)!inode_alloc(x)
  <2>1. j \in Fs(s)!Numbers \ Fs(s)!Inodes /\ i \in Fs(s)!Numbers \ x.mem.inodes
    BY <1>4, <1>6, FsConstants DEF Fs!Overruns
  <2>2. j <= i /\ i < j
    BY <1>4, <1>6, <2>1, FsConstants DEF Fs!Overruns
  <2>3. i \in Nat /\ j \in Nat
    BY <1>2, <2>1
  <2> QED
    BY <2>2, <2>3
<1>7. Fs(s)!InodeLeft(x) /\ ~ Fs(s)!Overruns(x) =>
         Fs(s)!inode_alloc(x) \in Fs(s)!Inodes \ x.mem.inodes
  BY <1>4 DEF Fs!Overruns
<1> QED
  BY <1>1, <1>2, <1>5, <1>6, <1>7

\* What is in use is as it was; what was free may be in use and written.
Spared(s, x, y) ==
    /\ Device(s, y) /\ y.mem.inodes = x.mem.inodes /\ x.mem.blocks \subseteq y.mem.blocks
    /\ \A k \in x.mem.inodes : y.mem.table[k] = x.mem.table[k]
    /\ \A b \in (0..3) \cup x.mem.blocks : y.disk[b] = x.disk[b]

\* An operation that fails half way, with a block taken, changes no path.
LEMMA SparedIs ==
    ASSUME NEW s \in DOMAIN FsShape, NEW x, NEW place, Tree(s, x, place),
           NEW y, Spared(s, x, y), NEW F, \A f \in F : Handle(x, f)
    PROVE  /\ Tree(s, y, place)
           /\ \A b \in 0..3 : y.disk[b] = x.disk[b]
           /\ \A f \in F : Handle(y, f)
           /\ \A p \in Fs(s)!Paths : Shown(s, y, p) = Shown(s, x, p)
<1>0. /\ Device(s, x) /\ Apart(x) /\ x.mem.inodes \subseteq Fs(s)!Inodes
      /\ x.mem.table \in [Fs(s)!Inodes -> Dinodes]
  BY DEF Tree, Device, Memories
<1>1. /\ Device(s, y) /\ y.mem.inodes = x.mem.inodes /\ x.mem.blocks \subseteq y.mem.blocks
      /\ \A k \in x.mem.inodes : y.mem.table[k] = x.mem.table[k]
      /\ \A b \in (0..3) \cup x.mem.blocks : y.disk[b] = x.disk[b]
  BY DEF Spared
<1>2. Folders(y) = Folders(x)
  BY <1>1 DEF Folders
<1>3. Apart(y)
  <2>1. \A k \in y.mem.inodes : Uses(y.mem.table[k]) \subseteq y.mem.blocks
                                /\ Distinct(y.mem.table[k])
    BY <1>0, <1>1 DEF Apart
  <2>2. \A k, l \in y.mem.inodes : k # l =>
           Uses(y.mem.table[k]) \cap Uses(y.mem.table[l]) = {}
    BY <1>0, <1>1 DEF Apart
  <2>3. \A k \in Folders(y) : y.mem.table[k].direct[1] \in Blocks
    BY <1>0, <1>1, <1>2 DEF Apart, Folders
  <2> QED
    BY <2>1, <2>2, <2>3 DEF Apart
<1>4. \A k \in Folders(x) : Fs(s)!Dir(y, k) = Fs(s)!Dir(x, k)
  <2> SUFFICES ASSUME NEW k \in Folders(x) PROVE Fs(s)!Dir(y, k) = Fs(s)!Dir(x, k)
    OBVIOUS
  <2>1. x.mem.table[k].direct[1] \in x.mem.blocks
    BY <1>0, FolderBlock
  <2> QED
    BY <1>1, <2>1 DEF Fs!Dir, Folders
<1>5. Tree(s, y, place)
  BY <1>1, <1>3, <1>4, NothingMoved
<1>6. ASSUME NEW f \in F PROVE Handle(y, f)
  <2>1. Handle(x, f) /\ f.ino \in x.mem.inodes /\ Uses(f.din) \subseteq x.mem.blocks
    BY DEF Handle
  <2> QED
    BY <1>1, <2>1, HandleKept
<1>7. ASSUME NEW p \in Fs(s)!Paths PROVE Shown(s, y, p) = Shown(s, x, p)
  <2>1. p \in Places(s)
    BY DEF Places
  <2>2. ASSUME NEW k \in x.mem.inodes PROVE Inside(y, k) = Inside(x, k)
    <3>1. \A b \in Uses(x.mem.table[k]) : y.disk[b] = x.disk[b]
      BY <1>0, <1>1 DEF Apart
    <3>2. x.mem.table[k] \in Dinodes /\ y.mem.table[k] = x.mem.table[k]
      BY <1>0, <1>1
    <3> QED
      BY <3>1, <3>2, InsideTheSame
  <2> QED
    BY <1>1, <1>5, <2>1, <2>2, ShowsTheSame
<1> QED
  BY <1>1, <1>5, <1>6, <1>7

\* z is x with inode j and its blocks of B, not yet named.
Grabbed(s, x, z, j, din, B) ==
    /\ j \in Fs(s)!Inodes \ x.mem.inodes /\ din \in Dinodes /\ Distinct(din)
    /\ B \subseteq Blocks \ x.mem.blocks /\ Uses(din) \subseteq B
    /\ z = [mem |-> z.mem, disk |-> z.disk]
    /\ z.mem = [inodes |-> x.mem.inodes \cup {j}, blocks |-> x.mem.blocks \cup B,
                table |-> [x.mem.table EXCEPT ![j] = din]]
    /\ z.disk = [b \in (0..3) \cup Blocks |-> z.disk[b]]
    /\ \A b \in (0..3) \cup Blocks : b \notin B => z.disk[b] = x.disk[b]
    /\ din.mode = "dir" => din.direct[1] \in B /\ DOMAIN z.disk[din.direct[1]] = {}

\* Path q would be entry n of directory i, and is not there.
Missing(s, x, place, i, n, q, mode) ==
    /\ n \notin DOMAIN Fs(s)!Dir(x, i) /\ q \in Fs(s)!Paths /\ q = Append(place[i], n)
    /\ \/ mode = "dir" /\ q \in FsShape[s].dirs
       \/ mode = "file" /\ q \in FsShape[s].files

\* dir_add_entry, on an inode that has been taken.
LEMMA AddEntryIs ==
    ASSUME NEW s \in DOMAIN FsShape, NEW x, NEW place, Tree(s, x, place), NEW i \in Folders(x),
           NEW n, NEW q, NEW j, NEW din, NEW B, NEW z, Grabbed(s, x, z, j, din, B),
           Missing(s, x, place, i, n, q, din.mode)
    PROVE  Adds(s, x, place, Fs(s)!dir_add_entry(z, i, n, j, din.mode), i, n, q, j, din, B)
<1> DEFINE d == x.mem.table[i].direct[1]
           D == [m \in DOMAIN Fs(s)!Dir(x, i) \cup {n} |->
                    IF m = n THEN [ino |-> j, type |-> din.mode] ELSE Fs(s)!Dir(x, i)[m]]
           y == Fs(s)!dir_add_entry(z, i, n, j, din.mode)
<1>0. Device(s, x) /\ Apart(x) /\ x.mem.table \in [Fs(s)!Inodes -> Dinodes] /\ i \in x.mem.inodes
      /\ x.mem.inodes \subseteq Fs(s)!Inodes
  BY DEF Tree, Device, Memories, Folders
<1>1. d \in Blocks /\ d \in x.mem.blocks
  BY <1>0, FolderBlock
<1>2. z.mem.table[i] = x.mem.table[i] /\ z.disk[d] = x.disk[d] /\ d \notin B /\ i # j
  <2>1. d \notin B /\ i # j
    BY <1>0, <1>1 DEF Grabbed
  <2>2. z.mem.table = [x.mem.table EXCEPT ![j] = din]
    BY DEF Grabbed
  <2>3. z.disk[d] = x.disk[d]
    BY <1>1, <2>1 DEF Grabbed
  <2> HIDE DEF d
  <2> QED
    BY <1>0, <2>1, <2>2, <2>3
<1>3. Fs(s)!Dir(z, i) = Fs(s)!Dir(x, i)
  BY <1>2 DEF Fs!Dir
<1>4. y = [z EXCEPT !.disk = [@ EXCEPT ![d] = D]]
  BY <1>2, <1>3 DEF Fs!dir_add_entry, Fs!Write
<1>5. z = [mem |-> z.mem, disk |-> z.disk] /\ z.disk = [b \in (0..3) \cup Blocks |-> z.disk[b]]
  BY DEF Grabbed
<1> HIDE DEF y, D
<1>6. y = [mem |-> y.mem, disk |-> y.disk] /\ y.mem = z.mem /\ y.disk = [z.disk EXCEPT ![d] = D]
  BY <1>4, <1>5
<1>7. /\ y.disk = [b \in (0..3) \cup Blocks |-> y.disk[b]] /\ y.disk[d] = D
      /\ \A b \in (0..3) \cup Blocks : b # d => y.disk[b] = z.disk[b]
  BY <1>1, <1>5, <1>6, Zenon
<1>8. Adds(s, x, place, y, i, n, q, j, din, B)
  <2>1. y.mem = [inodes |-> x.mem.inodes \cup {j}, blocks |-> x.mem.blocks \cup B,
                 table |-> [x.mem.table EXCEPT ![j] = din]]
    BY <1>6 DEF Grabbed
  <2>2. \A b \in (0..3) \cup Blocks : b \notin B /\ b # d => y.disk[b] = x.disk[b]
    BY <1>7, Zenon DEF Grabbed
  <2>3. din.mode = "dir" => din.direct[1] \in B /\ DOMAIN y.disk[din.direct[1]] = {}
    BY <1>2, <1>7, Zenon DEF Grabbed
  <2>4. j \in Fs(s)!Inodes \ x.mem.inodes /\ din \in Dinodes /\ Distinct(din)
        /\ B \subseteq Blocks \ x.mem.blocks /\ Uses(din) \subseteq B
    BY DEF Grabbed
  <2>5. /\ n \notin DOMAIN Fs(s)!Dir(x, i) /\ q \in Fs(s)!Paths /\ q = Append(place[i], n)
        /\ \/ din.mode = "dir" /\ q \in FsShape[s].dirs
           \/ din.mode = "file" /\ q \in FsShape[s].files
    BY DEF Missing
  <2> QED
    BY <1>6, <1>7, <2>1, <2>2, <2>3, <2>4, <2>5, Zenon DEF Adds, D
<1> QED
  BY <1>8 DEF y

\* A directory is made at q, or there is no slot and what was taken is given back.
MadeDir(s, x, i, n, q, F) ==
    LET y == Fs(s)!make_dir(x, i, n)
        j == Fs(s)!inode_alloc(x)
    IN  /\ \E there : Tree(s, y, there) /\ (Fs(s)!HasSlot(x, i) => there[j] = q)
        /\ \A b \in 0..3 : y.disk[b] = x.disk[b]
        /\ \A f \in F : Handle(y, f)
        /\ Fs(s)!HasSlot(x, i) => /\ j \in y.mem.inodes
                                  /\ Shown(s, x, q) = None /\ Shown(s, y, q) = Folder
        /\ \A p \in Fs(s)!Paths : p # q \/ ~ Fs(s)!HasSlot(x, i) =>
              Shown(s, y, p) = Shown(s, x, p)

LEMMA MakeDirIs ==
    ASSUME NEW s \in DOMAIN FsShape, NEW x, NEW place, Tree(s, x, place), NEW i \in Folders(x),
           NEW n, NEW q, Missing(s, x, place, i, n, q, "dir"),
           Fs(s)!InodeLeft(x), ~ Fs(s)!Overruns(x), Fs(s)!BlockLeft(x),
           NEW F, \A f \in F : Handle(x, f)
    PROVE  MadeDir(s, x, i, n, q, F)
<1> DEFINE y == Fs(s)!make_dir(x, i, n)
           j == Fs(s)!inode_alloc(x)
           b == Fs(s)!block_alloc(x)
           din == Fs(s)!DirInode(b)
           z == Fs(s)!Write([x EXCEPT !.mem.inodes = @ \cup {j}, !.mem.blocks = @ \cup {b},
                                      !.mem.table[j] = din], b, Fs(s)!EmptyDir)
<1>1. y = IF Fs(s)!HasSlot(x, i) THEN Fs(s)!dir_add_entry(z, i, n, j, "dir")
          ELSE Fs(s)!inode_free(z, j)
  BY DEF Fs!make_dir
<1>2. j \in Fs(s)!Inodes \ x.mem.inodes /\ b \in Blocks \ x.mem.blocks
  BY AllocIs
<1>3. din \in Dinodes /\ Uses(din) = {b} /\ Distinct(din) /\ din.mode = "dir" /\ din.direct[1] = b
  BY <1>2, InodesAre
<1>4. DOMAIN Fs(s)!EmptyDir = {}
  BY DEF Fs!EmptyDir
<1>5. /\ Device(s, x) /\ x.mem.inodes \subseteq Fs(s)!Inodes
      /\ x.mem.table \in [Fs(s)!Inodes -> Dinodes] /\ x.mem.blocks \subseteq Blocks
      /\ x.mem = [inodes |-> x.mem.inodes, blocks |-> x.mem.blocks, table |-> x.mem.table]
      /\ x = [mem |-> x.mem, disk |-> x.disk]
      /\ x.disk = [a \in (0..3) \cup Blocks |-> x.disk[a]]
  BY DEF Tree, Device, Memories
<1>6. /\ z.mem = [inodes |-> x.mem.inodes \cup {j}, blocks |-> x.mem.blocks \cup {b},
                  table |-> [x.mem.table EXCEPT ![j] = din]]
      /\ z.disk = [x.disk EXCEPT ![b] = Fs(s)!EmptyDir]
      /\ z = [mem |-> z.mem, disk |-> z.disk]
  <2> DEFINE u == [x EXCEPT !.mem.inodes = @ \cup {j}, !.mem.blocks = @ \cup {b},
                            !.mem.table[j] = din]
  <2>1. z = [u EXCEPT !.disk = [@ EXCEPT ![b] = Fs(s)!EmptyDir]]
    BY Zenon DEF Fs!Write
  <2> HIDE DEF j, b, din, z
  <2>2. Fields(u, x.mem.inodes \cup {j}, x.mem.blocks \cup {b},
               [x.mem.table EXCEPT ![j] = din], x.disk)
    BY <1>5, FieldsAre, Zenon DEF Shaped
  <2> HIDE DEF u
  <2> QED
    BY <2>1, <2>2 DEF Fields, Shaped
<1> HIDE DEF y, j, b, din, z
<1>7. z.disk = [a \in (0..3) \cup Blocks |-> z.disk[a]]
      /\ z.disk[b] = Fs(s)!EmptyDir /\ \A a \in (0..3) \cup Blocks : a # b => z.disk[a] = x.disk[a]
  BY <1>2, <1>5, <1>6
<1>8. CASE Fs(s)!HasSlot(x, i)
  <2>1. y = Fs(s)!dir_add_entry(z, i, n, j, din.mode)
    BY <1>1, <1>3, <1>8
  <2>2. Grabbed(s, x, z, j, din, {b})
    BY <1>2, <1>3, <1>4, <1>6, <1>7 DEF Grabbed
  <2>3. Adds(s, x, place, y, i, n, q, j, din, {b})
    BY <1>3, <2>1, <2>2, AddEntryIs, SMTT(30)
  <2>4. y.mem.inodes = x.mem.inodes \cup {j} /\ y.mem.table[j] = din
    BY <1>2, <1>5, <2>3 DEF Adds
  <2>5. Inside(y, j) = Folder
    BY <1>3, <2>4 DEF Inside
  <2>6. /\ \E there : Tree(s, y, there) /\ there[j] = q
        /\ \A a \in 0..3 : y.disk[a] = x.disk[a]
        /\ \A f \in F : Handle(y, f)
        /\ \A p \in Fs(s)!Paths : p # q => Shown(s, y, p) = Shown(s, x, p)
        /\ Shown(s, x, q) = None /\ Shown(s, y, q) = Inside(y, j)
    BY <2>3, AddedIs
  <2> QED
    BY <1>8, <2>4, <2>5, <2>6 DEF y, j, MadeDir
<1>9. CASE ~ Fs(s)!HasSlot(x, i)
  <2>1. y = Fs(s)!inode_free(z, j)
    BY <1>1, <1>9
  <2>2. /\ y.disk = z.disk /\ y.mem.inodes = x.mem.inodes
        /\ y.mem.blocks = x.mem.blocks \cup {b}
        /\ y.mem.table = [z.mem.table EXCEPT ![j] = Fs(s)!FreeInode]
        /\ y = [mem |-> y.mem, disk |-> y.disk]
        /\ y.mem = [inodes |-> y.mem.inodes, blocks |-> y.mem.blocks, table |-> y.mem.table]
    <3>1. y = [z EXCEPT !.mem.inodes = @ \ {j}, !.mem.table[j] = Fs(s)!FreeInode]
      BY <2>1 DEF Fs!inode_free
    <3>2. z.mem.inodes \ {j} = x.mem.inodes /\ z.mem.blocks = x.mem.blocks \cup {b}
      BY <1>2, <1>6
    <3>3. Shaped(z)
      BY <1>6, Zenon DEF Shaped
    <3>4. Fields(y, z.mem.inodes \ {j}, z.mem.blocks,
                 [z.mem.table EXCEPT ![j] = Fs(s)!FreeInode], z.disk)
      BY <3>1, <3>3, FieldsAre, Zenon
    <3> QED
      BY <3>2, <3>4 DEF Fields, Shaped
  <2>3. y.mem.table \in [Fs(s)!Inodes -> Dinodes]
        /\ \A k \in x.mem.inodes : y.mem.table[k] = x.mem.table[k]
    BY <1>2, <1>3, <1>5, <1>6, <2>2, InodesAre
  <2>4. y.mem \in Memories(s)
    BY <1>2, <1>5, <2>2, <2>3 DEF Memories
  <2>5. Device(s, y)
    BY <1>7, <2>2, <2>4 DEF Device
  <2>6. \A a \in (0..3) \cup x.mem.blocks : y.disk[a] = x.disk[a]
    BY <1>2, <1>5, <1>7, <2>2, FsConstants
  <2>7. Spared(s, x, y)
    BY <2>2, <2>3, <2>5, <2>6 DEF Spared
  <2>8. /\ Tree(s, y, place)
        /\ \A a \in 0..3 : y.disk[a] = x.disk[a]
        /\ \A f \in F : Handle(y, f)
        /\ \A p \in Fs(s)!Paths : Shown(s, y, p) = Shown(s, x, p)
    BY <2>7, SparedIs
  <2> QED
    BY <1>9, <2>8 DEF y, MadeDir
<1> QED
  BY <1>8, <1>9

\* i is where path q leads to, or None.
At(x, place, i, q) == i = -1 \/ (i \in x.mem.inodes /\ place[i] = q)

\* m is x with path r, which was entered, or made and entered, or is missing.
Entered(s, x, m, r, F) ==
    /\ m = [x |-> m.x, dir |-> m.dir]
    /\ \E there : Tree(s, m.x, there) /\ At(m.x, there, m.dir, r)
    /\ \A b \in 0..3 : m.x.disk[b] = x.disk[b]
    /\ \A f \in F : Handle(m.x, f)
    /\ \A p \in Fs(s)!Paths :
          Shown(s, m.x, p) = IF m.dir # -1 /\ p = r /\ Shown(s, x, p) = None
                             THEN Folder ELSE Shown(s, x, p)

\* One step of fs_mkdir: a directory is entered, made or missing.
LEMMA EnterIs ==
    ASSUME NEW s \in DOMAIN FsShape, NEW x, NEW place, Tree(s, x, place), NEW i,
           NEW q \in Seq(Fs(s)!Names), At(x, place, i, q), NEW n,
           Append(q, n) \in FsShape[s].dirs, q \in FsShape[s].dirs \cup {<<>>},
           NEW F, \A f \in F : Handle(x, f)
    PROVE  LET m == Fs(s)!enter([x |-> x, dir |-> i], n)
           IN  Entered(s, x, m, Append(q, n), F) /\ (i = -1 => m.dir = -1)
<1> DEFINE r == Append(q, n)
           m == Fs(s)!enter([x |-> x, dir |-> i], n)
<1>0. Fs(s)!None = -1 /\ -1 \notin x.mem.inodes /\ r \in Fs(s)!Paths /\ r \in Places(s)
  BY FsConstants DEF Tree, Device, Memories, Places
<1>1. m = IF i = -1 THEN [x |-> x, dir |-> -1]
          ELSE IF n \in DOMAIN Fs(s)!Dir(x, i) THEN [x |-> x, dir |-> Fs(s)!Dir(x, i)[n].ino]
          ELSE IF ~ Fs(s)!InodeLeft(x) \/ Fs(s)!Overruns(x) \/ ~ Fs(s)!BlockLeft(x)
               THEN [x |-> x, dir |-> -1]
          ELSE [x |-> Fs(s)!make_dir(x, i, n),
                dir |-> IF Fs(s)!HasSlot(x, i) THEN Fs(s)!inode_alloc(x) ELSE -1]
  BY <1>0 DEF Fs!enter
<1>2. CASE m = [x |-> x, dir |-> -1]
  <2> HIDE DEF m, r
  <2>1. m.x = x /\ m.dir = -1 /\ m = [x |-> m.x, dir |-> m.dir]
    BY <1>2
  <2>2. Entered(s, x, m, r, F)
    BY <2>1 DEF Entered, At
  <2> QED
    BY <2>1, <2>2 DEF m, r
<1>3. CASE i # -1
  <2>1. i \in Folders(x) /\ place[i] = q
    <3>1. i \in x.mem.inodes /\ place[i] = q /\ Placed(s, x, place)
      BY <1>3 DEF Tree, At
    <3> HIDE DEF r, m
    <3> QED
      BY <3>1, PlaceIs
  <2>2. CASE n \in DOMAIN Fs(s)!Dir(x, i)
    <3> DEFINE j == Fs(s)!Dir(x, i)[n].ino
    <3>1. m = [x |-> x, dir |-> j]
      BY <1>1, <1>3, <2>2
    <3>2. j \in x.mem.inodes /\ place[j] = r
      BY <2>1, <2>2, DownIs
    <3> HIDE DEF j, m, r
    <3>3. Shown(s, x, r) = Inside(x, j)
      BY <1>0, <3>2, ShownIs
    <3>4. Shown(s, x, r) # None
      BY <3>3 DEF Inside, None, Folder, Regular
    <3>5. m.x = x /\ m.dir = j /\ m = [x |-> m.x, dir |-> m.dir]
      BY <3>1
    <3>6. At(x, place, j, r)
      BY <3>2 DEF At
    <3>7. Entered(s, x, m, r, F)
      BY <3>4, <3>5, <3>6 DEF Entered
    <3> QED
      BY <1>3, <3>7 DEF m, r
  <2>3. CASE /\ n \notin DOMAIN Fs(s)!Dir(x, i)
             /\ Fs(s)!InodeLeft(x) /\ ~ Fs(s)!Overruns(x) /\ Fs(s)!BlockLeft(x)
    <3> DEFINE y == Fs(s)!make_dir(x, i, n)
               j == Fs(s)!inode_alloc(x)
               slot == Fs(s)!HasSlot(x, i)
    <3>1. m = [x |-> y, dir |-> IF slot THEN j ELSE -1]
      BY <1>1, <1>3, <2>3
    <3>2. Missing(s, x, place, i, n, r, "dir")
      BY <1>0, <2>1, <2>3 DEF Missing
    <3> HIDE DEF m, r
    <3>3. /\ \E there : Tree(s, y, there) /\ (slot => there[j] = r)
          /\ \A b \in 0..3 : y.disk[b] = x.disk[b]
          /\ \A f \in F : Handle(y, f)
          /\ slot => /\ j \in y.mem.inodes
                     /\ Shown(s, x, r) = None /\ Shown(s, y, r) = Folder
          /\ \A p \in Fs(s)!Paths : p # r \/ ~ slot => Shown(s, y, p) = Shown(s, x, p)
      <4>1. MadeDir(s, x, i, n, r, F)
        BY <2>1, <2>3, <3>2, MakeDirIs
      <4> QED
        BY <4>1 DEF MadeDir
    <3>4. j # -1
      BY <2>3, AllocIs, FsConstants
    <3> HIDE DEF y, j, slot
    <3>5. m.x = y /\ m.dir = (IF slot THEN j ELSE -1) /\ m = [x |-> m.x, dir |-> m.dir]
      BY <3>1
    <3>6. \E there : Tree(s, m.x, there) /\ At(m.x, there, m.dir, r)
      BY <3>3, <3>5 DEF At
    <3>7. Entered(s, x, m, r, F)
      BY <3>3, <3>4, <3>5, <3>6 DEF Entered
    <3> QED
      BY <1>3, <3>7 DEF m, r
  <2> QED
    BY <1>1, <1>2, <1>3, <2>2, <2>3
<1> QED
  BY <1>1, <1>2, <1>3

\* Some first names of path p.
Heads(p, l) == {SubSeq(p, 1, h) : h \in 1..l}
Raised(s, x, y, S) ==
    \A q \in Fs(s)!Paths : Shown(s, y, q) = IF q \in S /\ Shown(s, x, q) = None
                                            THEN Folder ELSE Shown(s, x, q)

\* m has come to the first k names of path p, or has stopped before.
MadeTo(s, x, m, p, k, F) ==
    /\ m = [x |-> m.x, dir |-> m.dir]
    /\ \E there : Tree(s, m.x, there) /\ At(m.x, there, m.dir, SubSeq(p, 1, k))
    /\ \A b \in 0..3 : m.x.disk[b] = x.disk[b]
    /\ \A f \in F : Handle(m.x, f)
    /\ \E l \in 0..k : (m.dir # -1 => l = k) /\ Raised(s, x, m.x, Heads(p, l))

\* And one more step after those that have been.
LEMMA MadeFurther ==
    ASSUME NEW s \in DOMAIN FsShape, NEW p \in FsShape[s].dirs, NEW k \in 0..(Len(p) - 1),
           NEW x, NEW F, NEW m, MadeTo(s, x, m, p, k, F)
    PROVE  MadeTo(s, x, Fs(s)!enter(m, p[k + 1]), p, k + 1, F)
<1> DEFINE q == SubSeq(p, 1, k)
           n == p[k + 1]
           r == SubSeq(p, 1, k + 1)
           y == Fs(s)!enter(m, n)
<1>0. p \in Places(s) /\ p \in FsShape[s].dirs \cup FsShape[s].files /\ Len(p) \in Nat \ {0}
      /\ p \in Seq(Fs(s)!Names)
  <2>1. p \in Places(s) /\ p \in FsShape[s].dirs \cup FsShape[s].files
    BY FsConstants DEF Places
  <2>2. p \in Seq(Fs(s)!Names) /\ p # <<>>
    BY <2>1, FsConstants
  <2> QED
    BY <2>1, <2>2
<1>1. k \in Nat /\ k + 1 \in 1..Len(p) /\ (k + 1) - 1 = k
  BY <1>0
<1>2. q \in FsShape[s].dirs \cup {<<>>} /\ r = Append(q, n)
  <2>1. SubSeq(p, 1, k + 1) = Append(SubSeq(p, 1, k), p[k + 1])
    BY <1>0, <1>1, PathSteps
  <2> QED
    BY <1>0, <2>1, PathSteps
<1>3. q \in Seq(Fs(s)!Names)
  BY <1>2, FsConstants, PlaceIs DEF Places
<1>4. r \in FsShape[s].dirs
  <2>1. CASE k + 1 = Len(p)
    BY <1>0, <2>1, PathSteps
  <2>2. CASE k + 1 # Len(p)
    <3>1. k + 1 \in 1..(Len(p) - 1)
      BY <1>0, <1>1, <2>2
    <3> QED
      BY <1>0, <3>1, FsConstants
  <2> QED
    BY <2>1, <2>2
<1> HIDE DEF q, n, r
<1>5. PICK there : Tree(s, m.x, there) /\ At(m.x, there, m.dir, q)
  BY DEF MadeTo, q
<1>6. m = [x |-> m.x, dir |-> m.dir] /\ \A f \in F : Handle(m.x, f)
  BY DEF MadeTo
<1>7. Entered(s, m.x, y, r, F) /\ (m.dir = -1 => y.dir = -1)
  <2> DEFINE i == m.dir
             u == m.x
             w == Fs(s)!enter([x |-> u, dir |-> i], n)
  <2>1. w = y
    BY <1>6
  <2> HIDE DEF i, u, w, y
  <2>2. Tree(s, u, there) /\ At(u, there, i, q) /\ Append(q, n) \in FsShape[s].dirs
        /\ \A f \in F : Handle(u, f)
    BY <1>2, <1>4, <1>5, <1>6 DEF i, u
  <2>3. Entered(s, u, w, Append(q, n), F) /\ (i = -1 => w.dir = -1)
    BY <1>2, <1>3, <2>2, EnterIs DEF w
  <2> QED
    BY <1>2, <2>1, <2>3 DEF i, u
<1> HIDE DEF y
<1>8. PICK l \in 0..k : (m.dir # -1 => l = k) /\ Raised(s, x, m.x, Heads(p, l))
  BY DEF MadeTo
<1>9. /\ y = [x |-> y.x, dir |-> y.dir]
      /\ \E a : Tree(s, y.x, a) /\ At(y.x, a, y.dir, r)
      /\ \A b \in 0..3 : y.x.disk[b] = m.x.disk[b]
      /\ \A f \in F : Handle(y.x, f)
  BY <1>7 DEF Entered
<1>10. \E a \in 0..(k + 1) : (y.dir # -1 => a = k + 1) /\ Raised(s, x, y.x, Heads(p, a))
  <2>1. CASE y.dir = -1
    <3>1. \A c \in Fs(s)!Paths : Shown(s, y.x, c) = Shown(s, m.x, c)
      BY <1>7, <2>1 DEF Entered
    <3>2. Raised(s, x, y.x, Heads(p, l))
      BY <1>8, <3>1 DEF Raised
    <3>3. l \in 0..(k + 1)
      BY <1>1, <1>8
    <3> QED
      BY <2>1, <3>2, <3>3
  <2>2. CASE y.dir # -1
    <3>1. l = k
      BY <1>7, <1>8, <2>2
    <3>2. Heads(p, k + 1) = Heads(p, k) \cup {r}
      <4>1. 1..(k + 1) = (1..k) \cup {k + 1}
        BY <1>1
      <4> QED
        BY <4>1 DEF Heads, r
    <3>3. Folder # None
      BY DEF Folder, None
    <3>4. ASSUME NEW c \in Fs(s)!Paths
          PROVE  Shown(s, y.x, c) = IF c \in Heads(p, k + 1) /\ Shown(s, x, c) = None
                                    THEN Folder ELSE Shown(s, x, c)
      <4>1. Shown(s, y.x, c) = IF c = r /\ Shown(s, m.x, c) = None THEN Folder ELSE Shown(s, m.x, c)
        BY <1>7, <2>2 DEF Entered
      <4>2. Shown(s, m.x, c) = IF c \in Heads(p, k) /\ Shown(s, x, c) = None
                               THEN Folder ELSE Shown(s, x, c)
        BY <1>8, <3>1 DEF Raised
      <4> QED
        BY <3>2, <3>3, <4>1, <4>2
    <3>5. Raised(s, x, y.x, Heads(p, k + 1))
      BY <3>4 DEF Raised
    <3>6. k + 1 \in 0..(k + 1)
      BY <1>1
    <3> QED
      BY <3>5, <3>6
  <2> QED
    BY <2>1, <2>2
<1>11. \A b \in 0..3 : y.x.disk[b] = x.disk[b]
  BY <1>9 DEF MadeTo
<1>12. MadeTo(s, x, y, p, k + 1, F)
  BY <1>9, <1>10, <1>11 DEF MadeTo, r
<1> QED
  BY <1>12 DEF y, n

\* fs_mkdir makes directories along its path, and stops where one fails; when it
\* goes behind the table every entry is in use.
LEMMA MkdirIs ==
    ASSUME NEW s \in DOMAIN FsShape, NEW p \in FsShape[s].dirs, NEW place,
           Tree(s, Fs(s)!Begin, place), \A f \in file : Handle(Fs(s)!Begin, f),
           Fs(s)!fs_mkdir(p)
    PROVE  \E y : /\ Fs(s)!Leave(y, file)
                  /\ \E there : Tree(s, y, there)
                  /\ \A b \in 0..3 : y.disk[b] = disk[b]
                  /\ \A f \in file : Handle(y, f)
                  /\ \E l \in 0..Len(p) : Raised(s, Fs(s)!Begin, y, Heads(p, l))
                  /\ overrun' => Fs(s)!Inodes \subseteq y.mem.inodes
<1> DEFINE L == Len(p)
           x == Fs(s)!Begin
           Upto(f, k) == f = [i \in 0..k |-> IF i = 0 THEN [x |-> x, dir |-> Fs(s)!Root]
                                             ELSE Fs(s)!enter(f[i - 1], p[i])]
           made == CHOOSE f : Upto(f, L)
<1>1. Fs(s)!Leave(made[L].x, file)
  BY DEF Fs!fs_mkdir
<1>a. overrun' => \E i \in 1..L : /\ Fs(s)!Missing(made[i - 1], p[i])
                                  /\ Fs(s)!Overruns(made[i - 1].x)
  BY DEF Fs!fs_mkdir
<1>2. L \in Nat /\ p \in Places(s)
  <2>1. p \in Places(s)
    BY FsConstants DEF Places
  <2> QED
    BY <2>1, PathSteps
<1>3. \E f : Upto(f, L)
  <2> DEFINE T == {k \in Nat : \E f : Upto(f, k)}
  <2> HIDE DEF x
  <2>1. 0 \in T
    <3> DEFINE f == [i \in 0..0 |-> [x |-> x, dir |-> Fs(s)!Root]]
    <3>1. Upto(f, 0)
      OBVIOUS
    <3> QED
      BY <3>1
  <2>2. ASSUME NEW k \in Nat, k \in T PROVE k + 1 \in T
    <3>1. PICK f : Upto(f, k)
      BY <2>2
    <3> DEFINE h == [i \in 0..(k + 1) |-> IF i = k + 1 THEN Fs(s)!enter(f[k], p[k + 1]) ELSE f[i]]
    <3>2. \A i \in 0..(k + 1) : h[i] = IF i = 0 THEN [x |-> x, dir |-> Fs(s)!Root]
                                       ELSE Fs(s)!enter(h[i - 1], p[i])
      BY <3>1
    <3>3. h = [i \in 0..(k + 1) |-> h[i]]
      OBVIOUS
    <3> HIDE DEF h
    <3>4. Upto(h, k + 1)
      BY <3>2, <3>3
    <3> QED
      BY <3>4
  <2> HIDE DEF T
  <2>3. Nat \subseteq T
    BY <2>1, <2>2, Induction
  <2> QED
    BY <1>2, <2>3 DEF T
<1>4. Upto(made, L)
  <2> HIDE DEF Upto
  <2> QED
    BY <1>3
<1> HIDE DEF made, x
<1>5. made[0] = [x |-> x, dir |-> 0] /\ \A i \in 1..L : made[i] = Fs(s)!enter(made[i - 1], p[i])
  <2>1. Fs(s)!Root = 0
    BY FsConstants
  <2>2. \A i \in 0..L : made[i] = IF i = 0 THEN [x |-> x, dir |-> Fs(s)!Root]
                                  ELSE Fs(s)!enter(made[i - 1], p[i])
    BY <1>4
  <2> HIDE DEF L
  <2> QED
    BY <1>2, <2>1, <2>2
<1> DEFINE T == {k \in Nat : k <= L => MadeTo(s, x, made[k], p, k, file)}
<1>6. 0 \in T
  <2> DEFINE m == made[0]
  <2>1. m = [x |-> m.x, dir |-> m.dir] /\ m.x = x /\ m.dir = 0
    BY <1>5
  <2>2. Tree(s, x, place) /\ \A f \in file : Handle(x, f)
    BY DEF x
  <2> HIDE DEF m
  <2>3. At(x, place, 0, SubSeq(p, 1, 0))
    BY <1>2, <2>2, PathSteps DEF At, Tree, Placed
  <2>4. Heads(p, 0) = {}
    BY DEF Heads
  <2>5. Raised(s, x, x, Heads(p, 0))
    BY <2>4 DEF Raised
  <2>6. 0 \in 0..0
    OBVIOUS
  <2>7. MadeTo(s, x, m, p, 0, file)
    BY <2>1, <2>2, <2>3, <2>5, <2>6 DEF MadeTo
  <2> QED
    BY <2>7 DEF m
<1>7. ASSUME NEW k \in Nat, k \in T PROVE k + 1 \in T
  <2> SUFFICES ASSUME k + 1 <= L PROVE MadeTo(s, x, made[k + 1], p, k + 1, file)
    OBVIOUS
  <2>1. MadeTo(s, x, made[k], p, k, file) /\ k + 1 \in 1..L /\ k \in 0..(L - 1) /\ (k + 1) - 1 = k
    BY <1>2, <1>7
  <2>2. made[k + 1] = Fs(s)!enter(made[k], p[k + 1])
    BY <1>5, <2>1
  <2> QED
    BY <2>1, <2>2, MadeFurther
<1> HIDE DEF T
<1>8. Nat \subseteq T
  BY <1>6, <1>7, Induction
<1>9. MadeTo(s, x, made[L], p, L, file)
  BY <1>2, <1>8 DEF T
<1>10. x.disk = disk
  BY DEF x, Fs!Begin
<1> DEFINE y == made[L].x
<1>11. /\ \E there : Tree(s, y, there)
       /\ \A b \in 0..3 : y.disk[b] = disk[b]
       /\ \A f \in file : Handle(y, f)
       /\ \E l \in 0..L : Raised(s, x, y, Heads(p, l))
  BY <1>9, <1>10 DEF MadeTo
<1>12. ASSUME overrun' PROVE Fs(s)!Inodes \subseteq y.mem.inodes
  <2>1. PICK i \in 1..L : /\ Fs(s)!Missing(made[i - 1], p[i])
                          /\ Fs(s)!Overruns(made[i - 1].x)
    BY <1>a, <1>12
  <2> DEFINE m == made[i - 1]
             h == made[i]
  <2>2. i - 1 \in Nat /\ i - 1 <= L /\ i \in Nat
    BY <1>2
  <2>3. m = [x |-> m.x, dir |-> m.dir] /\ h = Fs(s)!enter(m, p[i])
    BY <1>5, <1>8, <2>2 DEF T, MadeTo
  <2> HIDE DEF m
  <2>4. m.dir # -1 /\ p[i] \notin DOMAIN Fs(s)!Dir(m.x, m.dir) /\ Fs(s)!Overruns(m.x)
    BY <2>1, FsConstants DEF m, Fs!Missing
  <2>5. h = [m EXCEPT !.dir = -1]
    BY <2>3, <2>4, FsConstants DEF Fs!enter
  <2> HIDE DEF h
  <2>6. h.x = m.x /\ h.dir = -1
    BY <2>3, <2>5
  <2> DEFINE R == {k \in Nat : i + k <= L => made[i + k] = h}
  <2>7. 0 \in R
    BY <2>2 DEF h
  <2>8. ASSUME NEW k \in Nat, k \in R PROVE k + 1 \in R
    <3> SUFFICES ASSUME i + (k + 1) <= L PROVE made[i + (k + 1)] = h
      OBVIOUS
    <3>1. i + k <= L /\ i + (k + 1) \in 1..L /\ (i + (k + 1)) - 1 = i + k
      BY <1>2, <2>2
    <3>2. made[i + k] = h /\ made[i + (k + 1)] = Fs(s)!enter(made[i + k], p[i + (k + 1)])
      BY <1>5, <2>8, <3>1
    <3> QED
      BY <2>6, <3>2, FsConstants DEF Fs!enter
  <2> HIDE DEF R
  <2>9. Nat \subseteq R
    BY <2>7, <2>8, Induction
  <2>10. L - i \in Nat /\ i + (L - i) = L
    BY <1>2, <2>2
  <2>11. made[L] = h
    BY <2>9, <2>10 DEF R
  <2>12. y = m.x
    BY <2>6, <2>11
  <2> QED
    BY <2>4, <2>12, AllocIs
<1> HIDE DEF y
<1> QED
  BY <1>1, <1>11, <1>12 DEF x, y

\* What an operation on path p makes of the file system.
Changed(s, y, p, new, F) ==
    /\ Fs(s)!Leave(y, F)
    /\ \E there : Tree(s, y, there)
    /\ \A b \in 0..3 : y.disk[b] = disk[b]
    /\ \A f \in F : Handle(y, f)
    /\ \A q \in Fs(s)!Paths : Shown(s, y, q) = IF q = p THEN new ELSE Shown(s, Fs(s)!Begin, q)

\* What an operation begins with.
LEMMA BeginIs ==
    ASSUME NEW s \in DOMAIN FsShape, NEW place, Tree(s, Fs(s)!Begin, place)
    PROVE  LET x == Fs(s)!Begin
           IN  /\ x.mem = mem /\ x.disk = disk /\ Shaped(x) /\ Device(s, x)
               /\ mem.inodes \subseteq Fs(s)!Inodes /\ mem.blocks \subseteq Blocks
               /\ mem.table \in [Fs(s)!Inodes -> Dinodes]
               /\ disk = [b \in (0..3) \cup Blocks |-> disk[b]]
<1> DEFINE x == Fs(s)!Begin
<1>1. x = [mem |-> mem, disk |-> disk]
  BY DEF Fs!Begin
<1>2. x.mem = mem /\ x.disk = disk
  BY <1>1
<1>3. Device(s, x)
  BY DEF Tree
<1> HIDE DEF x
<1>4. mem \in Memories(s) /\ disk = [b \in (0..3) \cup Blocks |-> disk[b]]
      /\ x = [mem |-> x.mem, disk |-> x.disk]
  BY <1>2, <1>3 DEF Device
<1>5. mem = [inodes |-> mem.inodes, blocks |-> mem.blocks, table |-> mem.table]
  BY <1>4 DEF Memories
<1>6. Shaped(x)
  BY <1>2, <1>4, <1>5 DEF Shaped
<1>7. /\ mem.inodes \subseteq Fs(s)!Inodes /\ mem.blocks \subseteq Blocks
      /\ mem.table \in [Fs(s)!Inodes -> Dinodes]
  BY <1>4 DEF Memories
<1> QED
  BY <1>2, <1>3, <1>4, <1>6, <1>7 DEF x

\* rmdir and unlink.
LEMMA RmdirIs ==
    ASSUME NEW s \in DOMAIN FsShape, NEW p \in Fs(s)!Paths, NEW place,
           Tree(s, Fs(s)!Begin, place), \A f \in file : Handle(Fs(s)!Begin, f),
           Fs(s)!fs_rmdir(p)
    PROVE  (\E y : Changed(s, y, p, None, file)) /\ Shown(s, Fs(s)!Begin, p) # None
<1> DEFINE x == Fs(s)!Begin
           i == Fs(s)!Parent(p)
           n == Fs(s)!Last(p)
           j == Fs(s)!Entry(p).ino
           u == Fs(s)!drop_entry(x, i, n)
           b == mem.table[j].direct[1]
           v == [u EXCEPT !.mem.blocks = @ \ {b}]
           y == Fs(s)!inode_free(v, j)
<1>1. /\ Fs(s)!Exists(p) /\ Fs(s)!Entry(p).type = "dir"
      /\ Fs(s)!Dir(x, j) = Fs(s)!EmptyDir /\ Fs(s)!Leave(y, file)
  BY DEF Fs!fs_rmdir, Fs!Do
<1>2. /\ i \in Folders(x) /\ n \in DOMAIN Fs(s)!Dir(x, i) /\ p = Append(place[i], n)
      /\ j = Fs(s)!Dir(x, i)[n].ino
      /\ j \in mem.inodes /\ place[j] = p /\ mem.table[j].mode = "dir"
  <2>1. i # Fs(s)!None
    BY <1>1 DEF Fs!Exists
  <2> QED
    BY <1>1, <2>1, EntryIs
<1>3. /\ x.mem = mem /\ x.disk = disk /\ Shaped(x) /\ Device(s, x)
      /\ mem.inodes \subseteq Fs(s)!Inodes /\ mem.blocks \subseteq Blocks
      /\ mem.table \in [Fs(s)!Inodes -> Dinodes]
      /\ disk = [a \in (0..3) \cup Blocks |-> disk[a]]
  BY BeginIs
<1>4. LeadsTo(s, x, place, i, n, j, p)
  BY <1>2 DEF LeadsTo
<1>5. j \in Folders(x)
  BY <1>2, <1>3 DEF Folders
<1>6. u.mem = x.mem /\ u = [mem |-> u.mem, disk |-> u.disk]
      /\ u.disk = [x.disk EXCEPT ![x.mem.table[i].direct[1]] =
                      [m \in DOMAIN Fs(s)!Dir(x, i) \ {n} |-> Fs(s)!Dir(x, i)[m]]]
  <2> DEFINE d == x.mem.table[i].direct[1]
             D == [m \in DOMAIN Fs(s)!Dir(x, i) \ {n} |-> Fs(s)!Dir(x, i)[m]]
  <2>1. u = [x EXCEPT !.disk = [@ EXCEPT ![d] = D]]
    BY DEF Fs!drop_entry, Fs!Write
  <2>2. x = [mem |-> x.mem, disk |-> x.disk]
    BY <1>3 DEF Shaped
  <2> HIDE DEF x, i, n, D, d, u
  <2>3. u.mem = x.mem /\ u = [mem |-> u.mem, disk |-> u.disk] /\ u.disk = [x.disk EXCEPT ![d] = D]
    BY <2>1, <2>2
  <2> QED
    BY <2>3 DEF D, d
<1>7. y = [v EXCEPT !.mem.inodes = @ \ {j}, !.mem.table[j] = Fs(s)!FreeInode]
  BY DEF Fs!inode_free
<1>10. b \in Uses(x.mem.table[j])
  BY <1>3, <1>5, FolderBlock DEF Tree
<1>11. \A f \in file : Handle(x, f) /\ f.ino # j
  BY <1>2, <1>3 DEF Handle
<1>12. DOMAIN Fs(s)!Dir(x, j) = {}
  BY <1>1 DEF Fs!EmptyDir
<1> HIDE DEF x, i, n, j, u, b, v, y
<1>8. Fields(v, u.mem.inodes, u.mem.blocks \ {b}, u.mem.table, u.disk)
  <2>1. Shaped(u)
    BY <1>3, <1>6, SMTT(30) DEF Shaped
  <2> QED
    BY <2>1, FieldsAre, Zenon DEF v
<1>9. y = Without(s, x, i, n, j, {b})
  <2>1. Shaped(v)
    BY <1>8, Zenon DEF Fields
  <2>2. Fields(y, v.mem.inodes \ {j}, v.mem.blocks,
               [v.mem.table EXCEPT ![j] = Fs(s)!FreeInode], v.disk)
    BY <1>7, <2>1, FieldsAre, Zenon
  <2> QED
    BY <1>6, <1>8, <2>2 DEF Fields, Shaped, Without
<1>13. /\ Tree(s, y, place)
       /\ \A a \in 0..3 : y.disk[a] = x.disk[a]
       /\ \A f \in file : Handle(y, f)
       /\ \A q \in Fs(s)!Paths : Shown(s, y, q) = IF q = p THEN None ELSE Shown(s, x, q)
  <2>1. {b} \in SUBSET Uses(x.mem.table[j]) /\ Tree(s, x, place) /\ i \in Folders(x)
    BY <1>2, <1>10 DEF x
  <2> QED
    BY <1>4, <1>9, <1>11, <1>12, <2>1, RemovedIs
<1>14. Changed(s, y, p, None, file)
  BY <1>1, <1>3, <1>13 DEF Changed, x
<1>15. Shown(s, x, p) # None
  <2>1. p \in Places(s) /\ j \in x.mem.inodes /\ place[j] = p
    BY <1>2, <1>3 DEF Places
  <2>2. Shown(s, x, p) = Inside(x, j)
    BY <2>1, ShownIs DEF x
  <2> QED
    BY <2>2 DEF Inside, None, Folder, Regular
<1> QED
  BY <1>14, <1>15 DEF x

\* The blocks of the file are given back; fs_unlink refuses the open one.
LEMMA UnlinkIs ==
    ASSUME NEW s \in DOMAIN FsShape, NEW p \in Fs(s)!Paths, NEW place,
           Tree(s, Fs(s)!Begin, place), \A f \in file : Handle(Fs(s)!Begin, f),
           Fs(s)!fs_unlink(p)
    PROVE  (\E y : Changed(s, y, p, None, file)) /\ Shown(s, Fs(s)!Begin, p) # None
<1> DEFINE x == Fs(s)!Begin
           i == Fs(s)!Parent(p)
           n == Fs(s)!Last(p)
           j == Fs(s)!Entry(p).ino
           u == Fs(s)!block_free(x, mem.table[j])
           v == Fs(s)!inode_free(u, j)
           y == Fs(s)!drop_entry(v, i, n)
           d == x.mem.table[i].direct[1]
           D == [m \in DOMAIN Fs(s)!Dir(x, i) \ {n} |-> Fs(s)!Dir(x, i)[m]]
           B == Uses(x.mem.table[j])
<1>1. /\ Fs(s)!Exists(p) /\ Fs(s)!Entry(p).type = "file"
      /\ \A f \in file : f.ino # j
      /\ Fs(s)!Leave(y, file)
  BY DEF Fs!fs_unlink, Fs!Do
<1>2. /\ i \in Folders(x) /\ n \in DOMAIN Fs(s)!Dir(x, i) /\ p = Append(place[i], n)
      /\ j = Fs(s)!Dir(x, i)[n].ino
      /\ j \in mem.inodes /\ place[j] = p /\ mem.table[j].mode = "file"
  <2>1. i # Fs(s)!None
    BY <1>1 DEF Fs!Exists
  <2> QED
    BY <1>1, <2>1, EntryIs
<1>3. /\ x.mem = mem /\ x.disk = disk /\ Shaped(x) /\ Device(s, x)
      /\ mem.inodes \subseteq Fs(s)!Inodes /\ mem.blocks \subseteq Blocks
      /\ mem.table \in [Fs(s)!Inodes -> Dinodes]
      /\ disk = [a \in (0..3) \cup Blocks |-> disk[a]]
  BY BeginIs
<1>4. LeadsTo(s, x, place, i, n, j, p)
  BY <1>2 DEF LeadsTo
<1>5. j \notin Folders(x) /\ i # j /\ i \in mem.inodes
  BY <1>2, <1>3 DEF Folders
<1>6. Fields(u, x.mem.inodes, x.mem.blocks \ B, x.mem.table, x.disk)
  <2> DEFINE M == Fs(s)!Members(mem.table[j].direct)
  <2>1. u = [x EXCEPT !.mem.blocks = @ \ M]
    BY DEF Fs!block_free
  <2>2. Fields(u, x.mem.inodes, x.mem.blocks \ M, x.mem.table, x.disk)
    <3> HIDE DEF x, u, M
    <3> QED
      BY <1>3, <2>1, FieldsAre, Zenon
  <2>3. x.mem.blocks \ M = x.mem.blocks \ B
    <3>1. mem.table[j].direct \in [1..NDIRECT -> Blocks \cup {Blank}]
      BY <1>2, <1>3 DEF Dinodes
    <3> HIDE DEF x
    <3> QED
      BY <1>3, <3>1, OwnedIs
  <2> QED
    BY <2>2, <2>3, Zenon
<1>7. v = [u EXCEPT !.mem.inodes = @ \ {j}, !.mem.table[j] = Fs(s)!FreeInode]
  BY DEF Fs!inode_free
<1>8. \A f \in file : Handle(x, f) /\ f.ino # j
  BY <1>1
<1> HIDE DEF x, i, n, j, u, v, B
<1>9. Fields(v, x.mem.inodes \ {j}, x.mem.blocks \ B,
             [x.mem.table EXCEPT ![j] = Fs(s)!FreeInode], x.disk)
  <2>1. Shaped(u)
    BY <1>6 DEF Fields
  <2>2. Fields(v, u.mem.inodes \ {j}, u.mem.blocks,
               [u.mem.table EXCEPT ![j] = Fs(s)!FreeInode], u.disk)
    BY <1>7, <2>1, FieldsAre
  <2> QED
    BY <1>6, <2>2 DEF Fields
<1>10. v.mem.table[i] = x.mem.table[i] /\ Fs(s)!Dir(v, i) = Fs(s)!Dir(x, i)
  <2>1. v.mem.table = [x.mem.table EXCEPT ![j] = Fs(s)!FreeInode] /\ v.disk = x.disk
    BY <1>9 DEF Fields
  <2>2. v.mem.table[i] = x.mem.table[i]
    BY <1>3, <1>5, <2>1
  <2> QED
    BY <2>1, <2>2 DEF Fs!Dir
<1>11. y = [v EXCEPT !.disk = [@ EXCEPT ![d] = D]]
  BY <1>10 DEF Fs!drop_entry, Fs!Write
<1>12. y = Without(s, x, i, n, j, B)
  <2> HIDE DEF y, d, D
  <2>1. v = [mem |-> v.mem, disk |-> v.disk]
    BY <1>9 DEF Fields, Shaped
  <2>2. y = [mem |-> v.mem, disk |-> [v.disk EXCEPT ![d] = D]]
    BY <1>11, <2>1
  <2>3. v.mem = [inodes |-> x.mem.inodes \ {j}, blocks |-> x.mem.blocks \ B,
                 table |-> [x.mem.table EXCEPT ![j] = Fs(s)!FreeInode]]
        /\ v.disk = x.disk
    BY <1>9 DEF Fields, Shaped
  <2> QED
    BY <2>2, <2>3 DEF Without, d, D
<1> HIDE DEF y, d, D
<1>13. /\ Tree(s, y, place)
       /\ \A a \in 0..3 : y.disk[a] = x.disk[a]
       /\ \A f \in file : Handle(y, f)
       /\ \A q \in Fs(s)!Paths : Shown(s, y, q) = IF q = p THEN None ELSE Shown(s, x, q)
  <2>1. B \in SUBSET Uses(x.mem.table[j]) /\ Tree(s, x, place) /\ i \in Folders(x)
    BY <1>2 DEF x, B
  <2> QED
    BY <1>4, <1>5, <1>8, <1>12, <2>1, RemovedIs
<1>14. Changed(s, y, p, None, file)
  BY <1>1, <1>3, <1>13 DEF Changed, x
<1>15. Shown(s, x, p) # None
  <2>1. p \in Places(s) /\ j \in x.mem.inodes /\ place[j] = p
    BY <1>2, <1>3 DEF Places
  <2>2. Shown(s, x, p) = Inside(x, j)
    BY <2>1, ShownIs DEF x
  <2> QED
    BY <2>2 DEF Inside, None, Folder, Regular
<1> QED
  BY <1>14, <1>15 DEF x

\* An inode that has just been looked up or made may be opened.
LEMMA HandleOf ==
    ASSUME NEW x, Apart(x), NEW j \in x.mem.inodes, x.mem.table[j] \in Dinodes,
           x.mem.table[j].mode = "file",
           NEW f, f = [path |-> f.path, ino |-> j, din |-> x.mem.table[j]]
    PROVE  Handle(x, f)
BY DEF Handle, Apart

\* fs_open finds the file or makes an empty one.
LEMMA OpenIs ==
    ASSUME NEW s \in DOMAIN FsShape, NEW p \in FsShape[s].files, NEW place,
           Tree(s, Fs(s)!Begin, place), Fs(s)!fs_open(p)
    PROVE  \E y, F : /\ Changed(s, y, p, Shown(s, y, p), F)
                     /\ F = {} \/ \E f : F = {f}
                     /\ \/ Shown(s, y, p) = Shown(s, Fs(s)!Begin, p)
                        \/ Shown(s, Fs(s)!Begin, p) = None /\ Shown(s, y, p) = Regular(<<>>)
<1> DEFINE x == Fs(s)!Begin
           i == Fs(s)!Parent(p)
           n == Fs(s)!Last(p)
           e == Fs(s)!Entry(p).ino
           j == Fs(s)!inode_alloc(x)
           din == Fs(s)!FileInode
           z == [x EXCEPT !.mem.inodes = @ \cup {j}, !.mem.table[j] = din]
<1>0. p \in Fs(s)!Paths
  BY FsConstants
<1>1. /\ file = {} /\ i # Fs(s)!None
      /\ IF Fs(s)!Exists(p)
         THEN /\ Fs(s)!Entry(p).type = "file"
              /\ Fs(s)!Leave(x, Fs(s)!Opened(p, e, mem.table[e]))
         ELSE /\ Fs(s)!InodeLeft(x)
              /\ IF Fs(s)!Overruns(x) THEN Fs(s)!Leave(x, file)
                 ELSE IF Fs(s)!HasSlot(x, i)
                 THEN Fs(s)!Leave(Fs(s)!dir_add_entry(z, i, n, j, "file"),
                                  Fs(s)!Opened(p, j, din))
                 ELSE Fs(s)!Leave(Fs(s)!inode_free(z, j), file)
  BY DEF Fs!fs_open, Fs!Do
<1>2. /\ x.mem = mem /\ x.disk = disk /\ Shaped(x) /\ Device(s, x)
      /\ mem.inodes \subseteq Fs(s)!Inodes /\ mem.blocks \subseteq Blocks
      /\ mem.table \in [Fs(s)!Inodes -> Dinodes]
      /\ disk = [a \in (0..3) \cup Blocks |-> disk[a]]
  BY BeginIs
<1>3. i \in Folders(x) /\ p = Append(place[i], n)
  BY <1>0, <1>1, EntryIs
<1>4. Tree(s, x, place)
  OBVIOUS
<1>5. CASE Fs(s)!Exists(p)
  <2> DEFINE f == [path |-> p, ino |-> e, din |-> mem.table[e]]
  <2>1. Fs(s)!Leave(x, {f}) /\ Fs(s)!Entry(p).type = "file"
    BY <1>1, <1>5 DEF Fs!Opened
  <2>2. e \in mem.inodes /\ mem.table[e].mode = "file"
    BY <1>0, <1>5, <2>1, EntryIs
  <2> HIDE DEF e
  <2>3. f = [path |-> f.path, ino |-> e, din |-> mem.table[e]]
    OBVIOUS
  <2> HIDE DEF f, x
  <2>4. Apart(x) /\ mem.table[e] \in Dinodes
    BY <1>2, <1>4, <2>2 DEF Tree
  <2>5. Handle(x, f)
    BY <1>2, <2>2, <2>3, <2>4, HandleOf
  <2>6. Changed(s, x, p, Shown(s, x, p), {f})
    BY <1>2, <1>4, <2>1, <2>5 DEF Changed, x
  <2> QED
    BY <2>6 DEF x
<1>6. CASE ~ Fs(s)!Exists(p) /\ Fs(s)!Overruns(x)
  <2>1. Fs(s)!Leave(x, {})
    BY <1>1, <1>6
  <2> HIDE DEF x
  <2>2. Changed(s, x, p, Shown(s, x, p), {})
    BY <1>2, <1>4, <2>1 DEF Changed, x
  <2> QED
    BY <2>2 DEF x
<1>7. CASE ~ Fs(s)!Exists(p) /\ ~ Fs(s)!Overruns(x)
  <2>1. Fs(s)!InodeLeft(x) /\ j \in Fs(s)!Inodes \ x.mem.inodes
    BY <1>1, <1>7, AllocIs
  <2>2. din \in Dinodes /\ Uses(din) = {} /\ Distinct(din) /\ din.mode = "file" /\ din.size = 0
    BY InodesAre
  <2>3. Missing(s, x, place, i, n, p, "file")
    <3>1. n \notin DOMAIN Fs(s)!Dir(x, i)
      BY <1>1, <1>7, Zenon DEF Fs!Exists
    <3> QED
      BY <1>0, <1>3, <3>1 DEF Missing
  <2>4. Fields(z, x.mem.inodes \cup {j}, x.mem.blocks, [x.mem.table EXCEPT ![j] = din], x.disk)
    <3> HIDE DEF x, j, din
    <3> QED
      BY <1>2, FieldsAre, Zenon
  <2> HIDE DEF z, din, j, x
  <2>5. CASE Fs(s)!HasSlot(x, i)
    <3> DEFINE y == Fs(s)!dir_add_entry(z, i, n, j, din.mode)
               f == [path |-> p, ino |-> j, din |-> din]
    <3>1. Fs(s)!Leave(y, {f})
      BY <1>1, <1>7, <2>2, <2>5 DEF Fs!Opened, z, din, j, x
    <3>2. Grabbed(s, x, z, j, din, {})
      <4>1. x.mem.blocks = x.mem.blocks \cup {}
        OBVIOUS
      <4> QED
        BY <1>2, <2>1, <2>2, <2>4, <4>1 DEF Grabbed, Fields, Shaped
    <3> HIDE DEF y
    <3>3. Adds(s, x, place, y, i, n, p, j, din, {})
      BY <1>3, <1>4, <2>2, <2>3, <3>2, AddEntryIs DEF y
    <3>4. j \in y.mem.inodes /\ y.mem.table[j] = din
      BY <1>2, <2>1, <3>3 DEF Adds
    <3>5. /\ \E there : Tree(s, y, there) /\ there[j] = p
          /\ \A b \in 0..3 : y.disk[b] = x.disk[b]
          /\ \A g \in file : Handle(y, g)
          /\ \A q \in Fs(s)!Paths : q # p => Shown(s, y, q) = Shown(s, x, q)
          /\ Shown(s, x, p) = None /\ Shown(s, y, p) = Inside(y, j)
      <4>1. \A g \in file : Handle(x, g)
        BY <1>1
      <4> QED
        BY <1>3, <1>4, <3>3, <4>1, AddedIs
    <3>7. Handle(y, f)
      <4>1. f = [path |-> f.path, ino |-> j, din |-> din]
        OBVIOUS
      <4> HIDE DEF f
      <4> QED
        BY <2>2, <3>4, <3>5, <4>1, HandleOf DEF Tree
    <3>8. Inside(y, j) = Regular(<<>>)
      <4>1. Data(y.disk, din) = <<>>
        BY <2>2 DEF Data
      <4> QED
        BY <2>2, <3>4, <4>1 DEF Inside
    <3>9. Changed(s, y, p, Shown(s, y, p), {f})
      BY <1>2, <3>1, <3>5, <3>7 DEF Changed, x
    <3> QED
      BY <3>5, <3>8, <3>9 DEF x
  <2>6. CASE ~ Fs(s)!HasSlot(x, i)
    <3> DEFINE y == Fs(s)!inode_free(z, j)
    <3>1. Fs(s)!Leave(y, {})
      BY <1>1, <1>7, <2>6, Zenon DEF z, din, j, x
    <3>2. Fields(y, z.mem.inodes \ {j}, z.mem.blocks,
                 [z.mem.table EXCEPT ![j] = Fs(s)!FreeInode], z.disk)
      <4>1. y = [z EXCEPT !.mem.inodes = @ \ {j}, !.mem.table[j] = Fs(s)!FreeInode]
        BY DEF Fs!inode_free
      <4>2. Shaped(z)
        BY <2>4 DEF Fields
      <4> HIDE DEF y
      <4> QED
        BY <4>1, <4>2, FieldsAre, Zenon
    <3> HIDE DEF y
    <3>3. /\ y.mem.inodes = x.mem.inodes /\ y.mem.blocks = x.mem.blocks /\ y.disk = x.disk
          /\ y.mem.table = [z.mem.table EXCEPT ![j] = Fs(s)!FreeInode]
          /\ z.mem.table = [x.mem.table EXCEPT ![j] = din] /\ Shaped(y)
      BY <2>1, <2>4, <3>2 DEF Fields
    <3>4. y.mem.table \in [Fs(s)!Inodes -> Dinodes]
          /\ \A k \in x.mem.inodes : y.mem.table[k] = x.mem.table[k]
      BY <1>2, <2>1, <2>2, <3>3, InodesAre
    <3>5. y.mem \in Memories(s)
      BY <1>2, <3>3, <3>4 DEF Memories, Shaped
    <3>6. Device(s, y)
      BY <1>2, <3>3, <3>5 DEF Device, Shaped
    <3>7. Spared(s, x, y)
      BY <1>2, <3>3, <3>4, <3>6 DEF Spared
    <3>8. /\ Tree(s, y, place)
          /\ \A a \in 0..3 : y.disk[a] = x.disk[a]
          /\ \A g \in file : Handle(y, g)
          /\ \A q \in Fs(s)!Paths : Shown(s, y, q) = Shown(s, x, q)
      <4>1. \A g \in file : Handle(x, g)
        BY <1>1
      <4> QED
        BY <1>4, <3>7, <4>1, SparedIs
    <3>9. Changed(s, y, p, Shown(s, y, p), {})
      BY <1>2, <3>1, <3>8 DEF Changed, x
    <3> QED
      BY <1>0, <3>8, <3>9 DEF x
  <2> QED
    BY <2>5, <2>6
<1> QED
  BY <1>5, <1>6, <1>7
-----------------------------------------------------------------------------
\* st has stored the first e blocks of buf behind the first off of file f.
Stored(s, f, st, off, bytes, e) ==
    /\ st = [x |-> st.x, din |-> st.din, full |-> st.full]
    /\ Device(s, st.x) /\ st.x.mem.inodes = mem.inodes /\ st.x.mem.table = mem.table
    /\ mem.blocks \subseteq st.x.mem.blocks
    /\ st.din \in Dinodes /\ st.din.mode = "file" /\ st.din.size = f.din.size
    /\ Distinct(st.din) /\ Uses(st.din) \subseteq st.x.mem.blocks
    /\ \A i \in 1..NDIRECT : st.din.direct[i] # f.din.direct[i] =>
          f.din.direct[i] = Blank /\ st.din.direct[i] \notin mem.blocks
    /\ \A i \in 1..NDIRECT :
          IF i \in (off + 1)..(off + e)
          THEN st.din.direct[i] # Blank /\ st.x.disk[st.din.direct[i]] = bytes[i - off]
          ELSE st.din.direct[i] = f.din.direct[i]
    /\ \A b \in (0..3) \cup Blocks :
          (\A i \in (off + 1)..(off + e) : b # st.din.direct[i]) => st.x.disk[b] = disk[b]

\* t is st with nothing more stored.
Halted(t, st) == t.x = st.x /\ t.din = st.din /\ t.full = TRUE
                 /\ t = [x |-> t.x, din |-> t.din, full |-> t.full]

\* One block more is stored, in the block the file has or in one that was free.
LEMMA StoreIs ==
    ASSUME NEW s \in DOMAIN FsShape, NEW f, NEW st, NEW off \in Nat, NEW bytes, NEW e \in Nat,
           Stored(s, f, st, off, bytes, e), off + e + 1 <= NDIRECT
    PROVE  LET t == Fs(s)!store(st, off + (e + 1), bytes[e + 1])
           IN  \/ Halted(t, st)
               \/ t.full = FALSE /\ Stored(s, f, t, off, bytes, e + 1)
<1> DEFINE i == off + (e + 1)
           c == bytes[e + 1]
           t == Fs(s)!store(st, i, c)
           old == st.din.direct[i]
           b == IF old = Blank THEN Fs(s)!block_alloc(st.x) ELSE old
           u == [st.x EXCEPT !.mem.blocks = @ \cup {b}]
           y == Fs(s)!Write(u, b, c)
           din == [st.din EXCEPT !.direct[i] = b]
<1>1. st = [x |-> st.x, din |-> st.din, full |-> st.full]
  BY DEF Stored
<1>2. i \in 1..NDIRECT /\ i \in Nat /\ NDIRECT \in Nat \ {0} /\ i - off = e + 1
  BY FsConstants
<1>3. CASE st.full \/ (old = Blank /\ ~ Fs(s)!BlockLeft(st.x))
  <2>1. t = [st EXCEPT !.full = TRUE]
    BY <1>3 DEF Fs!store
  <2> HIDE DEF t
  <2>2. Halted(t, st)
    BY <1>1, <2>1 DEF Halted
  <2> QED
    BY <2>2 DEF t, i, c
<1>4. CASE ~ (st.full \/ (old = Blank /\ ~ Fs(s)!BlockLeft(st.x)))
  <2>1. t = [x |-> y, din |-> din, full |-> FALSE]
    BY <1>4 DEF Fs!store
  <2>2. /\ Device(s, st.x) /\ st.din \in Dinodes /\ st.din.mode = "file"
        /\ Distinct(st.din) /\ Uses(st.din) \subseteq st.x.mem.blocks
        /\ st.x.mem.blocks \subseteq Blocks /\ Blank \notin Blocks
        /\ \A l \in 1..NDIRECT : st.din.direct[l] \in Blocks \cup {Blank}
        /\ DOMAIN st.din.direct = 1..NDIRECT
    BY FsConstants DEF Stored, Device, Memories, Dinodes
  <2>3. /\ b \in Blocks /\ b # Blank
        /\ old # Blank => b = old
        /\ old = Blank => b \notin st.x.mem.blocks
    BY <1>2, <1>4, <2>2, AllocIs
  <2>4. \A l \in 1..NDIRECT : l # i => st.din.direct[l] # b
    <3>1. \A l \in 1..NDIRECT : st.din.direct[l] # Blank => st.din.direct[l] \in st.x.mem.blocks
      BY <2>2 DEF Uses
    <3>2. \A l \in 1..NDIRECT : l # i /\ st.din.direct[l] = old => old = Blank
      BY <1>2, <2>2 DEF Distinct
    <3> HIDE DEF b, old, i
    <3> QED
      BY <2>3, <3>1, <3>2
  <2>5. /\ din.mode = "file" /\ din.size = st.din.size
        /\ din.direct = [st.din.direct EXCEPT ![i] = b] /\ din \in Dinodes
    <3> HIDE DEF b, i
    <3> QED
      BY <1>2, <2>2, <2>3, Zenon DEF Dinodes
  <2>6. Shaped(st.x)
    BY <2>2 DEF Device, Memories, Shaped
  <2> HIDE DEF b
  <2>7. Fields(u, st.x.mem.inodes, st.x.mem.blocks \cup {b}, st.x.mem.table, st.x.disk)
    BY <2>6, FieldsAre, Zenon
  <2>8. y = [u EXCEPT !.disk = [@ EXCEPT ![b] = c]]
    BY DEF Fs!Write
  <2> HIDE DEF u, y, din, c, i, old, t
  <2>9. Fields(y, st.x.mem.inodes, st.x.mem.blocks \cup {b}, st.x.mem.table,
               [st.x.disk EXCEPT ![b] = c])
    BY <2>7, <2>8 DEF Fields, Shaped
  <2>10. st.x.disk = [a \in (0..3) \cup Blocks |-> st.x.disk[a]] /\ st.x.mem \in Memories(s)
    BY <2>2 DEF Device
  <2>11. /\ y.disk = [a \in (0..3) \cup Blocks |-> y.disk[a]] /\ y.disk[b] = c
         /\ \A a \in (0..3) \cup Blocks : a # b => y.disk[a] = st.x.disk[a]
    BY <2>3, <2>9, <2>10 DEF Fields
  <2>12. Device(s, y)
    <3>1. y.mem \in Memories(s)
      BY <2>3, <2>9, <2>10 DEF Memories, Fields, Shaped
    <3> QED
      BY <2>9, <2>11, <3>1 DEF Device, Fields, Shaped
  <2>13. t.full = FALSE /\ t.x = y /\ t.din = din /\ t = [x |-> t.x, din |-> t.din, full |-> t.full]
    BY <2>1
  <2>14. /\ din.direct[i] = b /\ \A l \in 1..NDIRECT : l # i => din.direct[l] = st.din.direct[l]
    BY <1>2, <2>2, <2>5
  <2>15. Distinct(din)
    BY <2>2, <2>4, <2>14 DEF Distinct
  <2>16. Uses(din) \subseteq y.mem.blocks
    <3>1. y.mem.blocks = st.x.mem.blocks \cup {b}
      BY <2>9 DEF Fields
    <3> QED
      BY <2>2, <2>14, <3>1 DEF Uses
  <2>17. /\ y.mem.inodes = mem.inodes /\ y.mem.table = mem.table
         /\ mem.blocks \subseteq y.mem.blocks /\ din.size = f.din.size
    BY <2>5, <2>9 DEF Stored, Fields
  <2>18. ASSUME NEW l \in 1..NDIRECT, din.direct[l] # f.din.direct[l]
         PROVE  f.din.direct[l] = Blank /\ din.direct[l] \notin mem.blocks
    <3>1. CASE l # i
      BY <2>14, <2>18, <3>1 DEF Stored
    <3>2. CASE l = i
      <4>1. st.din.direct[i] = f.din.direct[i]
        <5>1. i \notin (off + 1)..(off + e)
          BY DEF i
        <5> QED
          BY <1>2, <5>1 DEF Stored
      <4>2. old = f.din.direct[i]
        BY <4>1 DEF old
      <4>3. mem.blocks \subseteq st.x.mem.blocks
        BY DEF Stored
      <4> QED
        BY <2>3, <2>14, <2>18, <3>2, <4>2, <4>3
    <3> QED
      BY <3>1, <3>2
  <2>19. ASSUME NEW l \in 1..NDIRECT
         PROVE  IF l \in (off + 1)..(off + (e + 1))
                THEN din.direct[l] # Blank /\ y.disk[din.direct[l]] = bytes[l - off]
                ELSE din.direct[l] = f.din.direct[l]
    <3>1. CASE l = i
      <4>1. l \in (off + 1)..(off + (e + 1))
        BY <3>1 DEF i
      <4>2. din.direct[l] = b /\ bytes[l - off] = c
        BY <1>2, <2>14, <3>1 DEF c
      <4> QED
        BY <2>3, <2>11, <4>1, <4>2
    <3>2. CASE l # i
      <4>1. l \in (off + 1)..(off + (e + 1)) <=> l \in (off + 1)..(off + e)
        BY <3>2 DEF i
      <4>2. IF l \in (off + 1)..(off + e)
            THEN st.din.direct[l] # Blank /\ st.x.disk[st.din.direct[l]] = bytes[l - off]
            ELSE st.din.direct[l] = f.din.direct[l]
        BY DEF Stored
      <4>3. st.din.direct[l] # Blank => st.din.direct[l] \in Blocks /\ st.din.direct[l] # b
        BY <2>2, <2>4, <3>2
      <4> QED
        BY <2>11, <2>14, <3>2, <4>1, <4>2, <4>3
    <3> QED
      BY <3>1, <3>2
  <2>20. ASSUME NEW a \in (0..3) \cup Blocks,
                \A l \in (off + 1)..(off + (e + 1)) : a # din.direct[l]
         PROVE  y.disk[a] = disk[a]
    <3>1. i \in (off + 1)..(off + (e + 1))
      BY DEF i
    <3>2. a # b
      BY <2>14, <2>20, <3>1
    <3>3. \A l \in (off + 1)..(off + e) :
             l \in (off + 1)..(off + (e + 1)) /\ l # i /\ l \in 1..NDIRECT
      BY <1>2 DEF i
    <3>4. \A l \in (off + 1)..(off + e) : a # st.din.direct[l]
      BY <2>14, <2>20, <3>3
    <3>5. st.x.disk[a] = disk[a]
      BY <3>4 DEF Stored
    <3> QED
      BY <2>11, <3>2, <3>5
  <2>21. Stored(s, f, t, off, bytes, e + 1)
    BY <2>5, <2>12, <2>13, <2>15, <2>16, <2>17, <2>18, <2>19, <2>20 DEF Stored
  <2> QED
    BY <2>13, <2>21 DEF t, i, c
<1> QED
  BY <1>3, <1>4

\* All of k blocks, or as many as there were blocks for.
Reached(st, e, k) == (st.full = FALSE /\ e = k) \/ (st.full = TRUE /\ e < k)

\* All of the buffer is stored, or as much of it as there are blocks for.
LEMMA StoredIs ==
    ASSUME NEW s \in DOMAIN FsShape, NEW place, Tree(s, Fs(s)!Begin, place),
           NEW f, Handle(Fs(s)!Begin, f), NEW off \in Nat, NEW bytes,
           NEW k \in Nat, off + k <= NDIRECT
    PROVE  LET st == Fs(s)!stored(f, off, bytes, k)
           IN  \E e \in 0..k : Stored(s, f, st, off, bytes, e) /\ Reached(st, e, k)
<1> DEFINE first == [x |-> Fs(s)!Begin, din |-> f.din, full |-> FALSE]
           Upto(h, l) == h = [i \in 0..l |-> IF i = 0 THEN first
                                             ELSE Fs(s)!store(h[i - 1], off + i, bytes[i])]
           done == CHOOSE h : Upto(h, k)
           P(st, l) == \E e \in 0..l : Stored(s, f, st, off, bytes, e) /\ Reached(st, e, l)
<1>1. Fs(s)!stored(f, off, bytes, k) = done[k]
  BY DEF Fs!stored
<1> HIDE DEF first
<1>2. \E h : Upto(h, k)
  <2> DEFINE T == {l \in Nat : \E h : Upto(h, l)}
  <2>1. 0 \in T
    <3> DEFINE h == [i \in 0..0 |-> first]
    <3>1. Upto(h, 0)
      OBVIOUS
    <3> QED
      BY <3>1
  <2>2. ASSUME NEW l \in Nat, l \in T PROVE l + 1 \in T
    <3>1. PICK g : Upto(g, l)
      BY <2>2
    <3> DEFINE h == [i \in 0..(l + 1) |-> IF i = l + 1
                                          THEN Fs(s)!store(g[l], off + (l + 1), bytes[l + 1]) ELSE g[i]]
    <3>2. \A i \in 0..(l + 1) : h[i] = IF i = 0 THEN first
                                       ELSE Fs(s)!store(h[i - 1], off + i, bytes[i])
      <4> SUFFICES ASSUME NEW i \in 0..(l + 1)
                   PROVE  h[i] = IF i = 0 THEN first
                                 ELSE Fs(s)!store(h[i - 1], off + i, bytes[i])
        OBVIOUS
      <4>1. CASE i = l + 1
        <5>1. h[i] = Fs(s)!store(g[l], off + (l + 1), bytes[l + 1]) /\ h[i - 1] = g[l] /\ i # 0
          BY <4>1
        <5> HIDE DEF h
        <5> QED
          BY <4>1, <5>1
      <4>2. CASE i # l + 1
        <5>1. h[i] = g[i] /\ i \in 0..l /\ (i # 0 => h[i - 1] = g[i - 1])
          BY <4>2
        <5> HIDE DEF h
        <5> QED
          BY <3>1, <5>1
      <4> QED
        BY <4>1, <4>2
    <3>3. h = [i \in 0..(l + 1) |-> h[i]]
      OBVIOUS
    <3> HIDE DEF h
    <3>4. Upto(h, l + 1)
      BY <3>2, <3>3
    <3> QED
      BY <3>4
  <2> HIDE DEF T
  <2>3. Nat \subseteq T
    BY <2>1, <2>2, Induction
  <2> QED
    BY <2>3 DEF T
<1>3. Upto(done, k)
  <2> HIDE DEF Upto
  <2> QED
    BY <1>2
<1> HIDE DEF done
<1>4. /\ done[0] = first
      /\ \A l \in 1..k : done[l] = Fs(s)!store(done[l - 1], off + l, bytes[l])
  <2>1. \A i \in 0..k : done[i] = IF i = 0 THEN first
                                  ELSE Fs(s)!store(done[i - 1], off + i, bytes[i])
    BY <1>3
  <2> QED
    BY <2>1
<1> DEFINE T == {l \in Nat : l <= k => P(done[l], l)}
<1>5. 0 \in T
  <2> DEFINE st == done[0]
  <2>1. /\ st = [x |-> st.x, din |-> st.din, full |-> st.full]
        /\ st.x = Fs(s)!Begin /\ st.din = f.din /\ st.full = FALSE
    BY <1>4 DEF first
  <2> HIDE DEF st
  <2>2. /\ Device(s, st.x) /\ st.x.mem = mem /\ st.x.disk = disk
    BY <2>1, BeginIs
  <2>3. (off + 1)..(off + 0) = {}
    OBVIOUS
  <2>4. Stored(s, f, st, off, bytes, 0)
    BY <2>1, <2>2, <2>3 DEF Handle, Stored
  <2>5. P(st, 0)
    <3>1. 0 \in 0..0 /\ Reached(st, 0, 0)
      BY <2>1 DEF Reached
    <3> QED
      BY <2>4, <3>1
  <2> HIDE DEF P
  <2> QED
    BY <2>5 DEF st
<1>6. ASSUME NEW l \in Nat, l \in T PROVE l + 1 \in T
  <2> HIDE DEF P
  <2> SUFFICES ASSUME l + 1 <= k PROVE P(done[l + 1], l + 1)
    OBVIOUS
  <2> USE DEF P
  <2> DEFINE st == done[l]
             t == done[l + 1]
  <2>1. t = Fs(s)!store(st, off + (l + 1), bytes[l + 1])
    BY <1>4
  <2>2. P(st, l)
    BY <1>6
  <2> HIDE DEF st, t
  <2>3. PICK e \in 0..l : Stored(s, f, st, off, bytes, e) /\ Reached(st, e, l)
    BY <2>2
  <2>4. CASE st.full = TRUE
    <3>1. t = [st EXCEPT !.full = TRUE]
      BY <2>1, <2>4 DEF Fs!store
    <3>2. st = [x |-> st.x, din |-> st.din, full |-> st.full]
      BY <2>3 DEF Stored
    <3>3. /\ t.x = st.x /\ t.din = st.din /\ t.full = TRUE
          /\ t = [x |-> t.x, din |-> t.din, full |-> t.full]
      BY <3>1, <3>2
    <3>4. Stored(s, f, t, off, bytes, e)
      BY <2>3, <3>3 DEF Stored
    <3>5. Reached(t, e, l + 1) /\ e \in 0..(l + 1)
      BY <2>3, <2>4, <3>3 DEF Reached
    <3> QED
      BY <3>4, <3>5 DEF t
  <2>5. CASE st.full = FALSE
    <3>1. e = l /\ off + e + 1 <= NDIRECT /\ e \in Nat /\ l + 1 \in 0..(l + 1)
      BY <2>3, <2>5, FsConstants DEF Reached
    <3>2. t = Fs(s)!store(st, off + (e + 1), bytes[e + 1])
      BY <2>1, <3>1
    <3> DEFINE w == Fs(s)!store(st, off + (e + 1), bytes[e + 1])
    <3>3. \/ Halted(w, st)
          \/ w.full = FALSE /\ Stored(s, f, w, off, bytes, e + 1)
      <4>1. Stored(s, f, st, off, bytes, e)
        BY <2>3
      <4>2. e \in Nat /\ off + e + 1 <= NDIRECT
        BY <3>1
      <4> HIDE DEF P, T, Upto
      <4> QED
        BY <4>1, <4>2, StoreIs
    <3> HIDE DEF w
    <3>4. t = w
      BY <3>2 DEF w
    <3>5. CASE w.full = FALSE /\ Stored(s, f, w, off, bytes, e + 1)
      <4>1. Reached(w, e + 1, l + 1)
        BY <3>1, <3>5 DEF Reached
      <4> QED
        BY <3>1, <3>4, <3>5, <4>1 DEF t
    <3>6. CASE Halted(w, st)
      <4>1. Stored(s, f, w, off, bytes, e)
        BY <2>3, <3>6 DEF Stored, Halted
      <4>2. Reached(w, e, l + 1) /\ e \in 0..(l + 1)
        BY <3>1, <3>6 DEF Reached, Halted
      <4> QED
        BY <3>4, <4>1, <4>2 DEF t
    <3> QED
      BY <3>3, <3>5, <3>6
  <2> QED
    BY <2>3, <2>4, <2>5 DEF Reached
<1> HIDE DEF T
<1>7. Nat \subseteq T
  BY <1>5, <1>6, Induction
<1>8. P(done[k], k)
  BY <1>7 DEF T
<1> QED
  BY <1>1, <1>8

\* y is what there was with another inode f.ino, and other contents of its
\* blocks, all of which are among those of din.
Rewritten(s, f, din, y) ==
    /\ Device(s, y) /\ y.mem.inodes = mem.inodes
    /\ \A k \in mem.inodes : k # f.ino =>
          /\ y.mem.table[k] = mem.table[k] /\ Uses(mem.table[k]) \subseteq y.mem.blocks
          /\ Uses(din) \cap Uses(mem.table[k]) = {}
    /\ y.mem.table[f.ino].mode = "file" /\ Distinct(y.mem.table[f.ino])
    /\ Uses(y.mem.table[f.ino]) \subseteq Uses(din)
    /\ Uses(y.mem.table[f.ino]) \subseteq y.mem.blocks
    /\ \A b \in (0..3) \cup Blocks : b \notin Uses(din) => y.disk[b] = disk[b]

\* A file rewritten within its blocks leaves the tree and all other paths.
LEMMA RewrittenIs ==
    ASSUME NEW s \in DOMAIN FsShape, NEW place, Tree(s, Fs(s)!Begin, place),
           NEW f, Handle(Fs(s)!Begin, f), NEW din, din \in Dinodes, NEW y, Rewritten(s, f, din, y)
    PROVE  /\ Tree(s, y, place)
           /\ \A b \in 0..3 : y.disk[b] = disk[b]
           /\ place[f.ino] \in FsShape[s].files
           /\ Shown(s, y, place[f.ino]) = Inside(y, f.ino)
           /\ Shown(s, Fs(s)!Begin, place[f.ino]) = Inside(Fs(s)!Begin, f.ino)
           /\ \A q \in Fs(s)!Paths : q # place[f.ino] => Shown(s, y, q) = Shown(s, Fs(s)!Begin, q)
<1> DEFINE x == Fs(s)!Begin
           p == place[f.ino]
<1>1. /\ x.mem = mem /\ x.disk = disk /\ Shaped(x) /\ Device(s, x)
      /\ mem.inodes \subseteq Fs(s)!Inodes /\ mem.blocks \subseteq Blocks
      /\ mem.table \in [Fs(s)!Inodes -> Dinodes]
  BY BeginIs
<1>2. f.ino \in x.mem.inodes /\ x.mem.table[f.ino].mode = "file"
  BY DEF Handle
<1>3. Tree(s, x, place) /\ Apart(x) /\ Placed(s, x, place)
  BY DEF Tree
<1> HIDE DEF x
<1>4. /\ Device(s, y) /\ y.mem.inodes = x.mem.inodes
      /\ \A k \in x.mem.inodes : k # f.ino =>
            /\ y.mem.table[k] = x.mem.table[k] /\ Uses(x.mem.table[k]) \subseteq y.mem.blocks
            /\ Uses(din) \cap Uses(x.mem.table[k]) = {}
      /\ y.mem.table[f.ino].mode = "file" /\ Distinct(y.mem.table[f.ino])
      /\ Uses(y.mem.table[f.ino]) \subseteq Uses(din)
      /\ Uses(y.mem.table[f.ino]) \subseteq y.mem.blocks
      /\ \A b \in (0..3) \cup Blocks : b \notin Uses(din) => y.disk[b] = x.disk[b]
  BY <1>1 DEF Rewritten
<1>5. \A k \in x.mem.inodes : y.mem.table[k].mode = x.mem.table[k].mode
  BY <1>2, <1>4
<1>6. Folders(y) = Folders(x) /\ f.ino \notin Folders(x)
  BY <1>2, <1>4, <1>5 DEF Folders
<1>7. Apart(y)
  <2>1. ASSUME NEW k \in y.mem.inodes
        PROVE  Uses(y.mem.table[k]) \subseteq y.mem.blocks /\ Distinct(y.mem.table[k])
    BY <1>3, <1>4 DEF Apart
  <2>2. ASSUME NEW k \in y.mem.inodes, NEW l \in y.mem.inodes, k # l
        PROVE  Uses(y.mem.table[k]) \cap Uses(y.mem.table[l]) = {}
    <3>1. CASE k # f.ino /\ l # f.ino
      BY <1>3, <1>4, <2>2, <3>1 DEF Apart
    <3>2. CASE k = f.ino
      BY <1>4, <2>2, <3>2
    <3>3. CASE l = f.ino
      BY <1>4, <2>2, <3>3
    <3> QED
      BY <3>1, <3>2, <3>3
  <2>3. ASSUME NEW k \in Folders(y) PROVE y.mem.table[k].direct[1] \in Blocks
    <3>1. k \in Folders(x) /\ y.mem.table[k] = x.mem.table[k]
      BY <1>4, <1>6 DEF Folders
    <3> QED
      BY <1>1, <1>3, <3>1, FolderBlock
  <2> QED
    BY <2>1, <2>2, <2>3 DEF Apart
<1>8. ASSUME NEW k \in Folders(x) PROVE Fs(s)!Dir(y, k) = Fs(s)!Dir(x, k)
  <2> DEFINE d == x.mem.table[k].direct[1]
  <2>1. d \in Blocks /\ d \in Uses(x.mem.table[k]) /\ k \in x.mem.inodes /\ k # f.ino
    BY <1>1, <1>3, <1>6, FolderBlock DEF Folders
  <2>2. y.disk[d] = x.disk[d] /\ y.mem.table[k] = x.mem.table[k]
    BY <1>4, <2>1
  <2> QED
    BY <2>2 DEF Fs!Dir
<1>9. Tree(s, y, place)
  BY <1>3, <1>4, <1>5, <1>7, <1>8, NothingMoved
<1>10. \A b \in 0..3 : y.disk[b] = disk[b]
  <2>1. Uses(din) \subseteq Blocks
    BY DEF Uses, Dinodes
  <2> QED
    BY <1>1, <1>4, <2>1, FsConstants
<1>11. p \in FsShape[s].files /\ p \in Places(s)
  BY <1>2, <1>3, FsConstants DEF Placed, Places
<1>12. Shown(s, y, p) = Inside(y, f.ino) /\ Shown(s, x, p) = Inside(x, f.ino)
  <2>1. f.ino \in y.mem.inodes
    BY <1>2, <1>4
  <2> QED
    BY <1>2, <1>3, <1>9, <1>11, <2>1, ShownIs
<1>13. ASSUME NEW q \in Fs(s)!Paths, q # p PROVE Shown(s, y, q) = Shown(s, x, q)
  <2>1. q \in Places(s)
    BY DEF Places
  <2>2. ASSUME NEW k \in x.mem.inodes, place[k] = q PROVE Inside(y, k) = Inside(x, k)
    <3>1. k # f.ino
      BY <1>13, <2>2
    <3>2. Uses(x.mem.table[k]) \subseteq Blocks
      BY <1>1, <1>3 DEF Apart
    <3>3. \A b \in Uses(x.mem.table[k]) : y.disk[b] = x.disk[b]
      BY <1>4, <3>1, <3>2
    <3>4. x.mem.table[k] \in Dinodes /\ y.mem.table[k] = x.mem.table[k]
      BY <1>1, <1>4, <3>1
    <3> QED
      BY <3>3, <3>4, InsideTheSame
  <2> QED
    BY <1>3, <1>4, <1>9, <2>1, <2>2, ShowsTheSame
<1> QED
  BY <1>9, <1>10, <1>11, <1>12, <1>13 DEF x

\* Blocks that a file has got meanwhile were free.
Fresh(f, st) ==
    /\ \A j \in mem.inodes : j # f.ino =>
          /\ Uses(st.din) \cap Uses(mem.table[j]) = {}
          /\ Uses(mem.table[j]) \subseteq mem.blocks
    /\ Uses(mem.table[f.ino]) \subseteq Uses(st.din)
    /\ \A k \in 1..NDIRECT : mem.table[f.ino].direct[k] # Blank =>
          st.din.direct[k] = mem.table[f.ino].direct[k]
    /\ \A b \in (0..3) \cup Blocks : b \notin Uses(st.din) => st.x.disk[b] = disk[b]
    /\ st.din \in Dinodes

\* What has been stored touches no other file.
LEMMA StoredUses ==
    ASSUME NEW s \in DOMAIN FsShape, NEW place, Tree(s, Fs(s)!Begin, place),
           NEW f, Handle(Fs(s)!Begin, f), NEW off \in Nat, NEW bytes, NEW e \in Nat,
           off + e <= NDIRECT, NEW st, Stored(s, f, st, off, bytes, e)
    PROVE  Fresh(f, st)
<1> DEFINE x == Fs(s)!Begin
<1>1. x.mem = mem
  BY BeginIs
<1>2. /\ \A i \in 1..NDIRECT : st.din.direct[i] # f.din.direct[i] =>
            f.din.direct[i] = Blank /\ st.din.direct[i] \notin mem.blocks
      /\ st.din \in Dinodes
      /\ \A i \in 1..NDIRECT : i \in (off + 1)..(off + e) => st.din.direct[i] # Blank
      /\ \A b \in (0..3) \cup Blocks :
            (\A i \in (off + 1)..(off + e) : b # st.din.direct[i]) => st.x.disk[b] = disk[b]
  BY DEF Stored
<1>3. /\ \A k \in 1..NDIRECT : mem.table[f.ino].direct[k] # Blank =>
            f.din.direct[k] = mem.table[f.ino].direct[k]
      /\ \A j \in mem.inodes : j # f.ino => Uses(f.din) \cap Uses(mem.table[j]) = {}
  BY <1>1 DEF Handle
<1>4. \A j \in mem.inodes : Uses(mem.table[j]) \subseteq mem.blocks
  BY <1>1 DEF Tree, Apart
<1>5. \A k \in 1..NDIRECT : mem.table[f.ino].direct[k] # Blank =>
         st.din.direct[k] = mem.table[f.ino].direct[k]
  BY <1>2, <1>3
<1>6. Uses(mem.table[f.ino]) \subseteq Uses(st.din)
  BY <1>5 DEF Uses
<1>7. ASSUME NEW j \in mem.inodes, j # f.ino, NEW b \in Uses(st.din)
      PROVE  b \notin Uses(mem.table[j])
  <2>1. PICK k \in 1..NDIRECT : b = st.din.direct[k] /\ b # Blank
    BY <1>7 DEF Uses
  <2>2. CASE st.din.direct[k] = f.din.direct[k]
    <3>1. b \in Uses(f.din)
      BY <2>1, <2>2 DEF Uses
    <3> QED
      BY <1>3, <1>7, <3>1
  <2>3. CASE st.din.direct[k] # f.din.direct[k]
    BY <1>2, <1>4, <2>1, <2>3
  <2> QED
    BY <2>2, <2>3
<1>8. ASSUME NEW b \in (0..3) \cup Blocks, b \notin Uses(st.din) PROVE st.x.disk[b] = disk[b]
  <2>1. ASSUME NEW i \in (off + 1)..(off + e) PROVE b # st.din.direct[i]
    <3>1. i \in 1..NDIRECT
      BY FsConstants
    <3>2. st.din.direct[i] \in Uses(st.din)
      BY <1>2, <3>1 DEF Uses
    <3> QED
      BY <1>8, <3>2
  <2> QED
    BY <1>2, <2>1
<1> QED
  BY <1>2, <1>4, <1>5, <1>6, <1>7, <1>8 DEF Fresh

-----------------------------------------------------------------------------
\* How many blocks of a buffer fit.
LEMMA FitsIs ==
    ASSUME NEW s \in DOMAIN FsShape, NEW off \in Offsets, NEW bytes \in Buffers
    PROVE  /\ off \in Nat /\ off < NDIRECT
           /\ Fs(s)!Fits(off, bytes) \in Nat \ {0} /\ off + Fs(s)!Fits(off, bytes) <= NDIRECT
           /\ Len(bytes) \in Nat
           /\ Fs(s)!Fits(off, bytes) = IF Len(bytes) < NDIRECT - off THEN Len(bytes)
                                       ELSE NDIRECT - off
<1>1. Fs(s)!Assumption
  BY FsAssumption
<1>2. bytes \in Seq(Fs(s)!Members(bytes)) /\ bytes # <<>>
  BY <1>1 DEF Fs!Assumption
<1>3. Len(bytes) \in Nat \ {0}
  BY <1>2
<1>4. off \in 0..(NDIRECT - 1) /\ NDIRECT \in Nat
  BY FsConstants
<1> QED
  BY <1>3, <1>4 DEF Fs!Fits

\* What a write leaves: y with the blocks that st has stored, and with its
\* inode unless the blocks gave out; g is the file that is open then.
Wrote(s, f, st, y, g, last) ==
    /\ y.disk = st.x.disk
    /\ Rewritten(s, f, st.din, y) /\ Handle(y, g)
    /\ y.mem.table[f.ino] = IF st.full = TRUE THEN mem.table[f.ino]
                            ELSE Fs(s)!grown(st.din, last)

\* The size of the inode after the last block.
LEMMA GrownIs ==
    ASSUME NEW s \in DOMAIN FsShape, NEW din, din \in Dinodes, NEW last \in 0..NDIRECT
    PROVE  LET more == Fs(s)!grown(din, last)
           IN  /\ more \in Dinodes /\ more.direct = din.direct /\ more.mode = din.mode
               /\ more.size = IF din.size < last THEN last ELSE din.size
BY FsConstants DEF Fs!grown, Dinodes

\* fs_write stores and, unless the blocks gave out, writes the inode back.
LEMMA FsWriteIs ==
    ASSUME NEW s \in DOMAIN FsShape, NEW place, Tree(s, Fs(s)!Begin, place),
           NEW f, Handle(Fs(s)!Begin, f), NEW off \in Offsets, NEW bytes \in Buffers,
           Fs(s)!fs_write(f, off, bytes)
    PROVE  LET k == Fs(s)!Fits(off, bytes)
           IN  \E st, y, g : \E e \in 0..k :
                  /\ Stored(s, f, st, off, bytes, e) /\ Reached(st, e, k)
                  /\ Wrote(s, f, st, y, g, off + k) /\ Fs(s)!Leave(y, {g})
<1> DEFINE k == Fs(s)!Fits(off, bytes)
           x == Fs(s)!Begin
           st == Fs(s)!stored(f, off, bytes, k)
           more == Fs(s)!grown(st.din, off + k)
           y == IF st.full THEN st.x ELSE [st.x EXCEPT !.mem.table[f.ino] = more]
           din == IF st.full THEN st.din ELSE more
           g == [f EXCEPT !.din = din]
<1>1. off \in Nat /\ k \in Nat \ {0} /\ off + k <= NDIRECT
  BY FitsIs
<1>2. Fs(s)!Leave(y, {g})
  BY DEF Fs!fs_write, Fs!Do
<1>3. \E e \in 0..k : Stored(s, f, st, off, bytes, e) /\ Reached(st, e, k)
  <2> HIDE DEF k
  <2> QED
    BY <1>1, StoredIs
<1>4. PICK e \in 0..k : Stored(s, f, st, off, bytes, e) /\ Reached(st, e, k)
  BY <1>3
<1>5. e \in Nat /\ off + e <= NDIRECT /\ off + k \in 0..NDIRECT
  <2> HIDE DEF k
  <2> QED
    BY <1>1, <1>4, FsConstants
<1>6. /\ mem.inodes \subseteq Fs(s)!Inodes /\ x.mem = mem /\ x.disk = disk
      /\ mem.table \in [Fs(s)!Inodes -> Dinodes]
  BY BeginIs
<1>7. more \in Dinodes /\ more.direct = st.din.direct /\ more.mode = st.din.mode
      /\ more.size = IF st.din.size < off + k THEN off + k ELSE st.din.size
  <2>1. st.din \in Dinodes
    BY <1>4 DEF Stored
  <2> HIDE DEF st, k
  <2> QED
    BY <1>5, <2>1, GrownIs
<1> HIDE DEF k, st, x, more
<1>8. /\ Device(s, st.x) /\ st.x.mem.inodes = mem.inodes /\ st.x.mem.table = mem.table
      /\ mem.blocks \subseteq st.x.mem.blocks
      /\ st.din \in Dinodes /\ st.din.mode = "file" /\ st.din.size = f.din.size
      /\ Distinct(st.din) /\ Uses(st.din) \subseteq st.x.mem.blocks
  BY <1>4 DEF Stored
<1>9. /\ \A j \in mem.inodes : j # f.ino =>
            /\ Uses(st.din) \cap Uses(mem.table[j]) = {}
            /\ Uses(mem.table[j]) \subseteq mem.blocks
      /\ Uses(mem.table[f.ino]) \subseteq Uses(st.din)
      /\ \A i \in 1..NDIRECT : mem.table[f.ino].direct[i] # Blank =>
            st.din.direct[i] = mem.table[f.ino].direct[i]
      /\ \A b \in (0..3) \cup Blocks : b \notin Uses(st.din) => st.x.disk[b] = disk[b]
  <2>1. Stored(s, f, st, off, bytes, e)
    BY <1>4
  <2> HIDE DEF y, din, g
  <2>2. e \in Nat /\ off \in Nat /\ off + e <= NDIRECT
    BY <1>1, <1>5
  <2>3. Fresh(f, st)
    BY <2>1, <2>2, StoredUses
  <2> QED
    BY <2>3 DEF Fresh
<1>10. /\ f.ino \in mem.inodes /\ mem.table[f.ino].mode = "file"
       /\ f.din.size = mem.table[f.ino].size
       /\ f = [path |-> f.path, ino |-> f.ino, din |-> f.din]
       /\ Distinct(mem.table[f.ino])
  BY <1>6 DEF Handle, x, Tree, Apart
<1>11. Uses(more) = Uses(st.din) /\ Distinct(more)
  BY <1>7, <1>8 DEF Uses, Distinct
<1>12. Shaped(st.x)
  BY <1>8 DEF Device, Memories, Shaped
<1>13. g = [path |-> f.path, ino |-> f.ino, din |-> din]
  BY <1>10
<1> HIDE DEF g
<1>14. g = [path |-> g.path, ino |-> f.ino, din |-> din] /\ g.ino = f.ino /\ g.din = din
  BY <1>13
<1>15. CASE st.full
  <2>1. y = st.x /\ din = st.din
    BY <1>15
  <2> HIDE DEF y, din
  <2>2. st.full = TRUE
    BY <1>4, <1>15 DEF Reached
  <2>3. Rewritten(s, f, st.din, y)
    BY <1>8, <1>9, <1>10, <2>1, SMTT(30) DEF Rewritten
  <2>4. Handle(y, g)
    BY <1>8, <1>9, <1>10, <1>14, <2>1 DEF Handle
  <2>5. Wrote(s, f, st, y, g, off + k)
    BY <1>8, <2>1, <2>2, <2>3, <2>4 DEF Wrote
  <2> QED
    BY <1>2, <1>4, <2>5 DEF k
<1>16. CASE ~ st.full
  <2>1. y = [st.x EXCEPT !.mem.table[f.ino] = more] /\ din = more
    BY <1>16
  <2> HIDE DEF y, din
  <2>2. ~ (st.full = TRUE)
    BY <1>4, <1>16, Zenon DEF Reached
  <2>3. Fields(y, st.x.mem.inodes, st.x.mem.blocks, [st.x.mem.table EXCEPT ![f.ino] = more],
               st.x.disk)
    BY <1>12, <2>1, FieldsAre, Zenon
  <2>4. /\ Shaped(y) /\ y.mem.inodes = mem.inodes /\ y.mem.blocks = st.x.mem.blocks
        /\ y.mem.table = [mem.table EXCEPT ![f.ino] = more] /\ y.disk = st.x.disk
    BY <1>8, <2>3 DEF Fields
  <2>5. /\ y.mem.table \in [Fs(s)!Inodes -> Dinodes] /\ y.mem.table[f.ino] = more
        /\ \A j \in mem.inodes : j # f.ino => y.mem.table[j] = mem.table[j]
    BY <1>6, <1>7, <1>10, <2>4
  <2>6. Device(s, y)
    BY <1>8, <2>4, <2>5 DEF Device, Memories, Shaped
  <2>7. Rewritten(s, f, st.din, y)
    BY <1>7, <1>8, <1>9, <1>11, <2>4, <2>5, <2>6 DEF Rewritten
  <2>8. Handle(y, g)
    <3>1. y.mem.inodes = mem.inodes /\ y.mem.blocks = st.x.mem.blocks
      BY <2>4
    <3>2. g.din \in Dinodes /\ g.din.mode = "file" /\ Distinct(g.din)
      BY <1>7, <1>8, <1>11, <1>14, <2>1
    <3>3. y.mem.table[g.ino] = more /\ g.din = more
      BY <1>14, <2>1, <2>5
    <3>4. Uses(g.din) \subseteq y.mem.blocks
      BY <1>8, <1>11, <3>1, <3>3
    <3>5. ASSUME NEW j \in y.mem.inodes, j # g.ino
          PROVE  Uses(g.din) \cap Uses(y.mem.table[j]) = {}
      BY <1>9, <1>11, <1>14, <2>5, <3>1, <3>3, <3>5
    <3>6. g.ino \in y.mem.inodes /\ y.mem.table[g.ino].mode = "file"
      BY <1>10, <1>14, <3>1, <3>2, <3>3
    <3>7. g.din.size = y.mem.table[g.ino].size
      BY <3>3
    <3>8. \A i \in 1..NDIRECT : y.mem.table[g.ino].direct[i] # Blank =>
             g.din.direct[i] = y.mem.table[g.ino].direct[i]
      BY <3>3
    <3>9. g = [path |-> g.path, ino |-> g.ino, din |-> g.din]
      BY <1>14
    <3> QED
      BY <3>2, <3>4, <3>5, <3>6, <3>7, <3>8, <3>9 DEF Handle
  <2>9. Wrote(s, f, st, y, g, off + k)
    BY <2>2, <2>4, <2>5, <2>7, <2>8 DEF Wrote, more
  <2> QED
    BY <1>2, <1>4, <2>9 DEF k
<1> QED
  BY <1>15, <1>16

\* The path of the open file changes, and no other.
LEMMA RewriteChanges ==
    ASSUME NEW s \in DOMAIN FsShape, NEW place, Tree(s, Fs(s)!Begin, place),
           NEW f, Handle(Fs(s)!Begin, f), NEW din, din \in Dinodes, NEW y, Rewritten(s, f, din, y),
           NEW g, Handle(y, g), Fs(s)!Leave(y, {g})
    PROVE  /\ place[f.ino] \in FsShape[s].files
           /\ Changed(s, y, place[f.ino], Inside(y, f.ino), {g})
           /\ Shown(s, Fs(s)!Begin, place[f.ino]) = Inside(Fs(s)!Begin, f.ino)
<1>1. /\ Tree(s, y, place)
      /\ \A b \in 0..3 : y.disk[b] = disk[b]
      /\ place[f.ino] \in FsShape[s].files
      /\ Shown(s, y, place[f.ino]) = Inside(y, f.ino)
      /\ Shown(s, Fs(s)!Begin, place[f.ino]) = Inside(Fs(s)!Begin, f.ino)
      /\ \A q \in Fs(s)!Paths : q # place[f.ino] => Shown(s, y, q) = Shown(s, Fs(s)!Begin, q)
  BY RewrittenIs
<1> QED
  BY <1>1 DEF Changed

\* fs_truncate gives the blocks back and leaves an empty file.
LEMMA TruncateIs ==
    ASSUME NEW s \in DOMAIN FsShape, NEW place, Tree(s, Fs(s)!Begin, place),
           NEW f, Handle(Fs(s)!Begin, f), Fs(s)!fs_truncate(f)
    PROVE  /\ place[f.ino] \in FsShape[s].files
           /\ \E y, g : Changed(s, y, place[f.ino], Regular(<<>>), {g})
           /\ Shown(s, Fs(s)!Begin, place[f.ino]) = Inside(Fs(s)!Begin, f.ino)
<1> DEFINE x == Fs(s)!Begin
           din == [f.din EXCEPT !.size = 0, !.direct = Fs(s)!Unset]
           z == Fs(s)!block_free(x, f.din)
           y == [z EXCEPT !.mem.table[f.ino] = din]
           g == [f EXCEPT !.din = din]
<1>1. Fs(s)!Leave(y, {g})
  BY DEF Fs!fs_truncate, Fs!Do
<1>2. /\ mem.inodes \subseteq Fs(s)!Inodes /\ mem.blocks \subseteq Blocks
      /\ x.mem = mem /\ x.disk = disk /\ Shaped(x) /\ Device(s, x)
      /\ mem.table \in [Fs(s)!Inodes -> Dinodes]
  BY BeginIs
<1>3. Fields(z, mem.inodes, mem.blocks \ Fs(s)!Members(f.din.direct), mem.table, disk)
  BY <1>2, FieldsAre, Zenon DEF Fs!block_free
<1> HIDE DEF x
<1>4. Apart(x) /\ Handle(x, f)
  BY DEF Tree, x
<1>5. /\ f.ino \in mem.inodes /\ mem.table[f.ino].mode = "file"
      /\ f = [path |-> f.path, ino |-> f.ino, din |-> f.din]
      /\ f.din \in Dinodes /\ f.din.mode = "file"
      /\ \A j \in mem.inodes : j # f.ino => Uses(f.din) \cap Uses(mem.table[j]) = {}
      /\ \A j \in mem.inodes : Uses(mem.table[j]) \subseteq mem.blocks
  BY <1>2, <1>4 DEF Handle, Apart
<1>6. mem.blocks \ Fs(s)!Members(f.din.direct) = mem.blocks \ Uses(f.din)
  <2>1. f.din.direct \in [1..NDIRECT -> Blocks \cup {Blank}]
    BY <1>5 DEF Dinodes
  <2> QED
    BY <1>2, <2>1, OwnedIs
<1>7. /\ din \in Dinodes /\ din.mode = "file" /\ din.size = 0
      /\ \A k \in 1..NDIRECT : din.direct[k] = Blank
  <2> DEFINE d == f.din
  <2>1. d \in Dinodes /\ d.mode = "file" /\ din = [d EXCEPT !.size = 0, !.direct = Fs(s)!Unset]
    BY <1>5
  <2> HIDE DEF d, din
  <2>2. d = [mode |-> d.mode, size |-> d.size, direct |-> d.direct]
    BY <2>1 DEF Dinodes
  <2>3. din = [mode |-> "file", size |-> 0, direct |-> Fs(s)!Unset]
    BY <2>1, <2>2
  <2>4. /\ Fs(s)!Unset \in [1..NDIRECT -> Blocks \cup {Blank}]
        /\ \A k \in 1..NDIRECT : Fs(s)!Unset[k] = Blank
    BY DEF Fs!Unset
  <2>5. 0 \in 0..NDIRECT
    BY FsConstants
  <2>6. din.mode = "file" /\ din.size = 0 /\ din.direct = Fs(s)!Unset
    BY <2>3
  <2>7. din \in Dinodes
    BY <2>3, <2>4, <2>5 DEF Dinodes
  <2> QED
    BY <2>4, <2>6, <2>7
<1>8. g = [path |-> f.path, ino |-> f.ino, din |-> din]
  BY <1>5, SMTT(30)
<1> HIDE DEF z, din, g
<1>9. Fields(y, z.mem.inodes, z.mem.blocks, [z.mem.table EXCEPT ![f.ino] = din], z.disk)
  <2>1. Shaped(z)
    BY <1>3 DEF Fields
  <2> QED
    BY <2>1, FieldsAre, Zenon
<1> HIDE DEF y
<1>10. /\ Shaped(y) /\ y.mem.inodes = mem.inodes /\ y.mem.blocks = mem.blocks \ Uses(f.din)
       /\ y.mem.table = [mem.table EXCEPT ![f.ino] = din] /\ y.disk = disk
  BY <1>3, <1>6, <1>9 DEF Fields
<1>11. /\ y.mem.table \in [Fs(s)!Inodes -> Dinodes] /\ y.mem.table[f.ino] = din
       /\ \A j \in mem.inodes : j # f.ino => y.mem.table[j] = mem.table[j]
  BY <1>2, <1>5, <1>7, <1>10
<1>12. Device(s, y)
  <2>1. y = [mem |-> y.mem, disk |-> y.disk] /\ y.mem \in Memories(s)
    BY <1>2, <1>10, <1>11 DEF Shaped, Memories
  <2> QED
    BY <1>2, <1>10, <2>1 DEF Device
<1>13. Uses(din) = {} /\ Distinct(din)
  BY <1>7 DEF Uses, Distinct
<1>14. Rewritten(s, f, f.din, y)
  <2>1. ASSUME NEW k \in mem.inodes, k # f.ino
        PROVE  /\ y.mem.table[k] = mem.table[k] /\ Uses(mem.table[k]) \subseteq y.mem.blocks
               /\ Uses(f.din) \cap Uses(mem.table[k]) = {}
    BY <1>5, <1>10, <1>11, <2>1
  <2> QED
    BY <1>7, <1>10, <1>11, <1>12, <1>13, <2>1 DEF Rewritten
<1>15. Handle(y, g)
  <2>1. g = [path |-> g.path, ino |-> g.ino, din |-> g.din] /\ g.ino = f.ino /\ g.din = din
    BY <1>8
  <2>2. Uses(g.din) \subseteq y.mem.blocks
        /\ \A j \in y.mem.inodes : j # g.ino => Uses(g.din) \cap Uses(y.mem.table[j]) = {}
    BY <1>13, <2>1
  <2>3. g.ino \in y.mem.inodes /\ y.mem.table[g.ino] = g.din
    BY <1>5, <1>10, <1>11, <2>1
  <2>4. g.din \in Dinodes /\ g.din.mode = "file" /\ Distinct(g.din)
    BY <1>7, <1>13, <2>1
  <2> QED
    BY <2>1, <2>2, <2>3, <2>4 DEF Handle
<1>16. /\ place[f.ino] \in FsShape[s].files
       /\ Changed(s, y, place[f.ino], Inside(y, f.ino), {g})
       /\ Shown(s, x, place[f.ino]) = Inside(x, f.ino)
  BY <1>1, <1>5, <1>14, <1>15, RewriteChanges DEF x
<1>17. Inside(y, f.ino) = Regular(<<>>)
  BY <1>7, <1>11 DEF Inside, Data
<1> QED
  BY <1>16, <1>17 DEF x

-----------------------------------------------------------------------------
\* What is in the blocks counts, and not what the metadata on the disk are.
LEMMA OnlyMetadata ==
    ASSUME NEW s \in DOMAIN FsShape, NEW x, NEW place, Tree(s, x, place),
           NEW y, Device(s, y), y.mem = x.mem, \A b \in Blocks : y.disk[b] = x.disk[b]
    PROVE  /\ Tree(s, y, place)
           /\ \A f : Handle(x, f) => Handle(y, f)
           /\ \A p \in Fs(s)!Paths : Shown(s, y, p) = Shown(s, x, p)
<1>1. Device(s, x) /\ Apart(x) /\ x.mem.table \in [Fs(s)!Inodes -> Dinodes]
      /\ x.mem.inodes \subseteq Fs(s)!Inodes /\ x.mem.blocks \subseteq Blocks
  BY DEF Tree, Device, Memories
<1>2. Apart(y)
  BY <1>1 DEF Apart, Folders
<1>3. \A k \in Folders(x) : Fs(s)!Dir(y, k) = Fs(s)!Dir(x, k)
  BY <1>1 DEF Fs!Dir, Apart
<1>4. Tree(s, y, place)
  BY <1>2, <1>3, NothingMoved
<1>5. \A f : Handle(x, f) => Handle(y, f)
  BY DEF Handle
<1>6. ASSUME NEW p \in Fs(s)!Paths PROVE Shown(s, y, p) = Shown(s, x, p)
  <2>1. p \in Places(s)
    BY DEF Places
  <2>2. ASSUME NEW k \in x.mem.inodes PROVE Inside(y, k) = Inside(x, k)
    <3>1. \A b \in Uses(x.mem.table[k]) : y.disk[b] = x.disk[b]
      BY <1>1 DEF Apart
    <3>2. x.mem.table[k] \in Dinodes /\ y.mem.table[k] = x.mem.table[k]
      BY <1>1
    <3> QED
      BY <3>1, <3>2, InsideTheSame
  <2>3. y.mem.inodes = x.mem.inodes
    OBVIOUS
  <2> QED
    BY <1>4, <2>1, <2>2, <2>3, ShowsTheSame
<1> QED
  BY <1>4, <1>5, <1>6

\* While it is mounted there is a tree in memory.
LEMMA Mounted ==
    ASSUME NEW s \in DOMAIN FsShape, FsIInv(s), mounted
    PROVE  /\ \E place : Tree(s, Fs(s)!Begin, place)
           /\ \A f \in file : Handle(Fs(s)!Begin, f)
           /\ disk[0] # Blank /\ Fs(s)!Current = Fs(s)!Begin
BY CurrentIs DEF FsIInv

\* fs_close leaves what there is.
LEMMA CloseIs ==
    ASSUME NEW s \in DOMAIN FsShape, FsIInv(s), NEW f \in file, Fs(s)!fs_close(f)
    PROVE  FsIInv(s)' /\ mounted /\ disk'[0] = disk[0] /\ Fs(s)!Current' = Fs(s)!Current
<1> DEFINE x == Fs(s)!Begin
           F == file \ {f}
<1>1. Fs(s)!Leave(x, F)
  BY DEF Fs!fs_close, Fs!Do
<1>2. mounted
  BY <1>1 DEF Fs!Leave
<1>3. /\ \E place : Tree(s, x, place)
      /\ \A g \in file : Handle(x, g)
      /\ Fs(s)!Current = x
  BY <1>2, Mounted
<1>4. x.disk = disk
  BY DEF Fs!Begin
<1> HIDE DEF x
<1>5. F = {} \/ \E g : F = {g}
  BY DEF FsIInv
<1>6. Result(s, x, F)
  BY <1>3, <1>4, <1>5 DEF Result
<1>7. FsIInv(s)' /\ Fs(s)!Current' = x
  BY <1>1, <1>6, DoKeeps
<1>8. disk' = disk
  BY <1>1, <1>4 DEF Fs!Leave
<1> QED
  BY <1>2, <1>3, <1>7, <1>8

\* fs_sync writes the metadata, and no path shows anything else after it.
LEMMA SyncIs ==
    ASSUME NEW s \in DOMAIN FsShape, FsIInv(s), Fs(s)!fs_sync
    PROVE  /\ FsIInv(s)' /\ mounted /\ mounted' /\ disk'[0] = disk[0]
           /\ \A p \in Fs(s)!Paths :
                 Shown(s, Fs(s)!Current', p) = Shown(s, Fs(s)!Current, p)
<1> DEFINE x == Fs(s)!Begin
           y == [mem |-> mem, disk |-> disk']
<1>1. mounted /\ mounted' = mounted /\ mem' = mem /\ file' = file /\ ~dirty'
      /\ disk' = Fs(s)!Metadata(x).disk
  BY DEF Fs!fs_sync
<1>2. PICK place : Tree(s, x, place)
  BY <1>1, Mounted
<1>3. /\ \A f \in file : Handle(x, f)
      /\ disk[0] # Blank /\ Fs(s)!Current = x
  BY <1>1, Mounted
<1>4. x.mem = mem /\ x.disk = disk /\ Device(s, x)
  BY <1>2, BeginIs
<1> HIDE DEF x
<1>5. /\ disk' = [b \in (0..3) \cup Blocks |-> disk'[b]]
      /\ disk'[0] = disk[0] /\ \A b \in Blocks : disk'[b] = disk[b]
      /\ disk'[1] = mem.inodes /\ disk'[2] = mem.blocks /\ disk'[3] = mem.table
  <2> DEFINE u == Fs(s)!Write(x, Fs(s)!InodeMap, x.mem.inodes)
             v == Fs(s)!Write(u, Fs(s)!BlockMap, x.mem.blocks)
             w == Fs(s)!Write(v, Fs(s)!InodeTable, x.mem.table)
  <2>1. Fs(s)!InodeMap = 1 /\ Fs(s)!BlockMap = 2 /\ Fs(s)!InodeTable = 3
    BY DEF Fs!InodeMap, Fs!BlockMap, Fs!InodeTable
  <2>2. disk' = w.disk
    BY <1>1 DEF Fs!Metadata
  <2>3. 1 \in (0..3) \cup Blocks /\ 2 \in (0..3) \cup Blocks /\ 3 \in (0..3) \cup Blocks
    OBVIOUS
  <2>4. Writes(s, x, u, 1, x.mem.inodes)
    BY <1>4, <2>1, <2>3, WritesIs
  <2> HIDE DEF u
  <2>5. Writes(s, u, v, 2, x.mem.blocks)
    <3>1. Device(s, u)
      BY <2>4 DEF Writes
    <3> QED
      BY <2>1, <2>3, <3>1, WritesIs
  <2> HIDE DEF v
  <2>6. Writes(s, v, w, 3, x.mem.table)
    <3>1. Device(s, v)
      BY <2>5 DEF Writes
    <3> QED
      BY <2>1, <2>3, <3>1, WritesIs
  <2> HIDE DEF w
  <2>7. 0 \in (0..3) \cup Blocks /\ \A b \in Blocks : b # 1 /\ b # 2 /\ b # 3
    BY FsConstants
  <2>8. w.disk = [b \in (0..3) \cup Blocks |-> w.disk[b]]
    BY <2>6 DEF Writes, Device
  <2> DEFINE d == w.disk
  <2>9. /\ d[0] = disk[0] /\ d[1] = mem.inodes /\ d[2] = mem.blocks /\ d[3] = mem.table
    BY <1>4, <2>3, <2>4, <2>5, <2>6, <2>7 DEF Writes
  <2>10. \A b \in Blocks : d[b] = disk[b]
    BY <1>4, <2>4, <2>5, <2>6, <2>7 DEF Writes
  <2>11. d = [b \in (0..3) \cup Blocks |-> d[b]] /\ disk' = d
    BY <2>2, <2>8
  <2> HIDE DEF d
  <2> QED
    BY <2>9, <2>10, <2>11
<1>6. y.mem = x.mem /\ y.disk = disk' /\ Device(s, y)
  BY <1>4, <1>5 DEF Device
<1>7. Fs(s)!Current' = y /\ Fs(s)!Begin' = y
  BY <1>1 DEF Fs!Current, Fs!Begin
<1> HIDE DEF y
<1>8. /\ Tree(s, y, place)
      /\ \A f : Handle(x, f) => Handle(y, f)
      /\ \A p \in Fs(s)!Paths : Shown(s, y, p) = Shown(s, x, p)
  BY <1>2, <1>4, <1>5, <1>6, OnlyMetadata
<1>9. mem' = Fs(s)!Saved(disk)'
  <2>1. mem = [inodes |-> mem.inodes, blocks |-> mem.blocks, table |-> mem.table]
    BY <1>4 DEF Device, Memories
  <2> QED
    BY <1>1, <1>5, <2>1 DEF Fs!Saved, Fs!InodeMap, Fs!BlockMap, Fs!InodeTable
<1>10. file = {} \/ \E f : file = {f}
  BY DEF FsIInv
<1>11. FsIInv(s)'
  BY <1>1, <1>3, <1>5, <1>7, <1>8, <1>9, <1>10 DEF FsIInv
<1> QED
  BY <1>1, <1>3, <1>5, <1>7, <1>8, <1>11

\* A new file system: the root, which is empty.
LEMMA FormatIs ==
    ASSUME NEW s \in DOMAIN FsShape, disk = [b \in (0..3) \cup Blocks |-> disk[b]]
    PROVE  LET d == Fs(s)!fs_format.disk
               y == [mem |-> Fs(s)!Saved(d), disk |-> d]
           IN  /\ d = [b \in (0..3) \cup Blocks |-> d[b]] /\ d[0] # Blank
               /\ \E place : Tree(s, y, place)
               /\ \A p \in Fs(s)!Paths : Shown(s, y, p) = None
<1> DEFINE b == Fs(s)!First(Blocks)
           T == [Fs(s)!NoMemory.table EXCEPT ![0] = Fs(s)!DirInode(b)]
           M == [inodes |-> {0}, blocks |-> {b}, table |-> T]
           x == [mem |-> M, disk |-> disk]
           h == Fs(s)!Write(x, 0, {})
           u == Fs(s)!Write(h, 1, h.mem.inodes)
           v == Fs(s)!Write(u, 2, h.mem.blocks)
           w == Fs(s)!Write(v, 3, h.mem.table)
           z == Fs(s)!Write(w, b, Fs(s)!EmptyDir)
<1>1. /\ FsShape[s].inodes \in Nat \ {0} /\ 0 \in Fs(s)!Inodes /\ Fs(s)!Root = 0
      /\ Blocks \subseteq Nat \ (0..3) /\ Blocks # {} /\ Blank \notin Blocks /\ Blank # {}
      /\ NDIRECT \in Nat \ {0} /\ <<>> \notin Fs(s)!Paths
  BY FsConstants, PlaceIs
<1>2. b \in Blocks
  BY AllocIs
<1>3. Fs(s)!fs_format = z
  <2>1. /\ Fs(s)!Super = 0 /\ Fs(s)!InodeMap = 1 /\ Fs(s)!BlockMap = 2 /\ Fs(s)!InodeTable = 3
    BY DEF Fs!Super, Fs!InodeMap, Fs!BlockMap, Fs!InodeTable
  <2>2. [Fs(s)!Begin EXCEPT !.mem = [inodes |-> {Fs(s)!Root}, blocks |-> {b},
            table |-> [Fs(s)!NoMemory.table EXCEPT ![Fs(s)!Root] = Fs(s)!DirInode(b)]]] = x
    <3>1. Fs(s)!Begin = [mem |-> mem, disk |-> disk]
      BY DEF Fs!Begin
    <3>2. [inodes |-> {Fs(s)!Root}, blocks |-> {b},
           table |-> [Fs(s)!NoMemory.table EXCEPT ![Fs(s)!Root] = Fs(s)!DirInode(b)]] = M
      BY <1>1
    <3> HIDE DEF M
    <3> QED
      BY <3>1, <3>2, SMTT(30)
  <2> QED
    BY <2>1, <2>2 DEF Fs!fs_format, Fs!Metadata
<1>4. /\ Fs(s)!DirInode(b) \in Dinodes /\ Uses(Fs(s)!DirInode(b)) = {b}
      /\ Distinct(Fs(s)!DirInode(b)) /\ Fs(s)!DirInode(b).mode = "dir"
      /\ Fs(s)!DirInode(b).direct[1] = b
  BY <1>2, InodesAre
<1>5. Fs(s)!NoMemory.table \in [Fs(s)!Inodes -> Dinodes]
  BY InodesAre DEF Fs!NoMemory
<1>6. T \in [Fs(s)!Inodes -> Dinodes] /\ T[0] = Fs(s)!DirInode(b)
  BY <1>1, <1>4, <1>5
<1> HIDE DEF T, b
<1>7. M \in Memories(s)
  BY <1>1, <1>2, <1>6 DEF Memories
<1>8. M.inodes = {0} /\ M.blocks = {b} /\ M.table = T
  OBVIOUS
<1> HIDE DEF M
<1>9. x.mem = M /\ Device(s, x)
  BY <1>7 DEF Device
<1> HIDE DEF x
<1>10. /\ 0 \in (0..3) \cup Blocks /\ 1 \in (0..3) \cup Blocks /\ 2 \in (0..3) \cup Blocks
       /\ 3 \in (0..3) \cup Blocks /\ b \in (0..3) \cup Blocks
       /\ b # 0 /\ b # 1 /\ b # 2 /\ b # 3
  BY <1>1, <1>2
<1>11. /\ Device(s, h) /\ h.mem = x.mem /\ h.disk[0] = {}
  <2>1. Device(s, x) /\ 0 \in (0..3) \cup Blocks
    BY <1>9, <1>10
  <2>2. Writes(s, x, h, 0, {})
    BY <2>1, WritesIs
  <2> HIDE DEF h
  <2> QED
    BY <2>2 DEF Writes
<1> HIDE DEF h
<1>12. /\ Device(s, u) /\ u.mem = h.mem /\ u.disk[1] = h.mem.inodes
       /\ \A d \in (0..3) \cup Blocks : d # 1 => u.disk[d] = h.disk[d]
  <2>1. Device(s, h) /\ 1 \in (0..3) \cup Blocks
    BY <1>11, <1>10
  <2>2. Writes(s, h, u, 1, h.mem.inodes)
    BY <2>1, WritesIs
  <2> HIDE DEF u
  <2> QED
    BY <2>2 DEF Writes
<1> HIDE DEF u
<1>13. /\ Device(s, v) /\ v.mem = u.mem /\ v.disk[2] = h.mem.blocks
       /\ \A d \in (0..3) \cup Blocks : d # 2 => v.disk[d] = u.disk[d]
  <2>1. Device(s, u) /\ 2 \in (0..3) \cup Blocks
    BY <1>12, <1>10
  <2>2. Writes(s, u, v, 2, h.mem.blocks)
    BY <2>1, WritesIs
  <2> HIDE DEF v
  <2> QED
    BY <2>2 DEF Writes
<1> HIDE DEF v
<1>14. /\ Device(s, w) /\ w.mem = v.mem /\ w.disk[3] = h.mem.table
       /\ \A d \in (0..3) \cup Blocks : d # 3 => w.disk[d] = v.disk[d]
  <2>1. Device(s, v) /\ 3 \in (0..3) \cup Blocks
    BY <1>13, <1>10
  <2>2. Writes(s, v, w, 3, h.mem.table)
    BY <2>1, WritesIs
  <2> HIDE DEF w
  <2> QED
    BY <2>2 DEF Writes
<1> HIDE DEF w
<1>15. /\ Device(s, z) /\ z.mem = w.mem /\ z.disk[b] = Fs(s)!EmptyDir
       /\ \A d \in (0..3) \cup Blocks : d # b => z.disk[d] = w.disk[d]
  BY <1>10, <1>14, WriteIs
<1> HIDE DEF z
<1>16. z.mem = M
  BY <1>9, <1>11, <1>12, <1>13, <1>14, <1>15
<1>17. z.disk[0] = {}
  BY <1>10, <1>11, <1>12, <1>13, <1>14, <1>15
<1>18. z.disk[1] = {0} /\ z.disk[2] = {b} /\ z.disk[3] = T
  BY <1>8, <1>9, <1>10, <1>11, <1>12, <1>13, <1>14, <1>15
<1>19. Fs(s)!Saved(z.disk) = M
  BY <1>18 DEF Fs!Saved, Fs!InodeMap, Fs!BlockMap, Fs!InodeTable, M
<1>20. z = [mem |-> Fs(s)!Saved(z.disk), disk |-> z.disk]
       /\ z.disk = [a \in (0..3) \cup Blocks |-> z.disk[a]]
  BY <1>15, <1>16, <1>19 DEF Device
<1> DEFINE place == [i \in {0} |-> <<>>]
<1>21. z.mem.inodes = {0} /\ z.mem.blocks = {b} /\ z.mem.table[0] = Fs(s)!DirInode(b)
  BY <1>6, <1>8, <1>16
<1>22. Folders(z) = {0}
  BY <1>4, <1>21 DEF Folders
<1>23. Apart(z)
  BY <1>2, <1>4, <1>21, <1>22 DEF Apart
<1>24. Placed(s, z, place)
  BY <1>4, <1>21 DEF Placed
<1>25. DOMAIN Fs(s)!Dir(z, 0) = {}
  BY <1>4, <1>15, <1>21 DEF Fs!Dir, Fs!EmptyDir
<1>26. Tree(s, z, place)
  <2>1. Entries(s, z, place)
    BY <1>22, <1>25 DEF Entries
  <2>2. Listed(s, z)
    BY <1>21 DEF Listed
  <2> QED
    BY <1>15, <1>23, <1>24, <2>1, <2>2 DEF Tree
<1>27. ASSUME NEW p \in Fs(s)!Paths PROVE Shown(s, z, p) = None
  <2>1. p \in Places(s)
    BY DEF Places
  <2>2. \A i \in z.mem.inodes : place[i] # p
    BY <1>1, <1>21
  <2> HIDE DEF place
  <2> QED
    BY <1>26, <2>1, <2>2, ShownIs
<1> QED
  BY <1>1, <1>3, <1>17, <1>20, <1>26, <1>27

\* Mounting makes a new file system, or finds the one there was.
LEMMA MountIs ==
    ASSUME NEW s \in DOMAIN FsShape, FsIInv(s), Fs(s)!fs_port_mount
    PROVE  /\ FsIInv(s)' /\ ~mounted /\ mounted' /\ disk'[0] # Blank
           /\ disk[0] = Blank => \A p \in Fs(s)!Paths : Shown(s, Fs(s)!Current', p) = None
           /\ disk[0] # Blank => Fs(s)!Current' = Fs(s)!Current
<1>1. /\ ~mounted /\ mounted' /\ mem' = Fs(s)!Saved(disk') /\ file' = file /\ dirty' = dirty
      /\ mounted' \in BOOLEAN
      /\ disk' = IF disk[0] = Blank THEN Fs(s)!fs_format.disk ELSE disk
  BY DEF Fs!fs_port_mount, Fs!Super
<1>2. /\ disk = [b \in (0..3) \cup Blocks |-> disk[b]] /\ ~dirty /\ file = {}
      /\ disk[0] # Blank => \E place : Tree(s, Fs(s)!Current, place)
  BY <1>1 DEF FsIInv
<1>3. Fs(s)!Current' = [mem |-> Fs(s)!Saved(disk'), disk |-> disk']
  BY <1>1 DEF Fs!Current
<1>4. CASE disk[0] = Blank
  <2>1. /\ disk' = [b \in (0..3) \cup Blocks |-> disk'[b]] /\ disk'[0] # Blank
        /\ \E place : Tree(s, Fs(s)!Current', place)
        /\ \A p \in Fs(s)!Paths : Shown(s, Fs(s)!Current', p) = None
    BY <1>1, <1>2, <1>3, <1>4, FormatIs
  <2>2. FsIInv(s)'
    BY <1>1, <1>2, <2>1 DEF FsIInv, Fs!Saved
  <2> QED
    BY <1>1, <1>4, <2>1, <2>2
<1>5. CASE disk[0] # Blank
  <2>1. disk' = disk /\ Fs(s)!Current' = Fs(s)!Current
    BY <1>1, <1>3, <1>5 DEF Fs!Current
  <2>2. FsIInv(s)'
    BY <1>1, <1>2, <1>5, <2>1 DEF FsIInv, Fs!Saved
  <2> QED
    BY <1>1, <1>5, <2>1, <2>2
<1> QED
  BY <1>4, <1>5

\* A reset comes while the disk is as the memory is, or within a write to
\* blocks that the file has.
Torn(s, f, off, bytes, k, y) ==
    \E st : /\ Stored(s, f, st, off, bytes, k) /\ st.x.mem = mem
            /\ Rewritten(s, f, st.din, y) /\ st.din \in Dinodes /\ y.mem = mem
            /\ st.din.direct[off + k] \in Uses(st.din)
            /\ y.disk = [st.x.disk EXCEPT ![st.din.direct[off + k]] = Blank]

\* What a reset within a write leaves.
LEMMA TornIs ==
    ASSUME NEW s \in DOMAIN FsShape, NEW place, Tree(s, Fs(s)!Begin, place),
           NEW f, Handle(Fs(s)!Begin, f), NEW off \in Offsets, NEW bytes \in Buffers,
           NEW k \in 1..Fs(s)!Fits(off, bytes),
           ~ Fs(s)!stored(f, off, bytes, k).full, Fs(s)!stored(f, off, bytes, k).x.mem = mem
    PROVE  LET st == Fs(s)!stored(f, off, bytes, k)
               d == Fs(s)!Write(st.x, st.din.direct[off + k], Blank).disk
           IN  Torn(s, f, off, bytes, k, [mem |-> mem, disk |-> d])
<1> DEFINE st == Fs(s)!stored(f, off, bytes, k)
           b == st.din.direct[off + k]
           z == Fs(s)!Write(st.x, b, Blank)
           y == [mem |-> mem, disk |-> z.disk]
           x == Fs(s)!Begin
<1>1. off \in Nat /\ k \in Nat \ {0} /\ off + k \in 1..NDIRECT
      /\ off + k \in (off + 1)..(off + k)
  BY FitsIs, FsConstants
<1>2. Stored(s, f, st, off, bytes, k)
  <2>1. \E e \in 0..k : Stored(s, f, st, off, bytes, e) /\ Reached(st, e, k)
    BY <1>1, StoredIs
  <2>2. PICK e \in 0..k : Stored(s, f, st, off, bytes, e) /\ Reached(st, e, k)
    BY <2>1
  <2>3. ~ (st.full = TRUE)
    OBVIOUS
  <2> HIDE DEF st
  <2> QED
    BY <2>2, <2>3 DEF Reached
<1>3. st.x.mem = mem
  OBVIOUS
<1>4. /\ x.mem = mem /\ x.disk = disk /\ Device(s, x) /\ Apart(x)
      /\ f.ino \in mem.inodes /\ mem.table[f.ino].mode = "file"
  BY BeginIs DEF Tree, Handle
<1> HIDE DEF st, x
<1>5. Fresh(f, st)
  BY <1>1, <1>2, StoredUses DEF x
<1>6. b # Blank /\ st.din \in Dinodes /\ Device(s, st.x)
  BY <1>1, <1>2 DEF Stored
<1>7. b \in Uses(st.din) /\ b \in Blocks
  BY <1>1, <1>6 DEF Uses, Dinodes
<1>8. Writes(s, st.x, z, b, Blank)
  BY <1>6, <1>7, WritesIs
<1>9. z.disk = [st.x.disk EXCEPT ![b] = Blank]
  BY <1>6 DEF Fs!Write, Device
<1> HIDE DEF z, b
<1>10. y = [mem |-> mem, disk |-> z.disk] /\ y.mem = mem /\ y.disk = z.disk
  OBVIOUS
<1> HIDE DEF y
<1>11. Device(s, y)
  BY <1>3, <1>8, <1>10 DEF Device, Writes
<1>12. Rewritten(s, f, st.din, y)
  <2>1. Uses(mem.table[f.ino]) \subseteq mem.blocks /\ Distinct(mem.table[f.ino])
    BY <1>4 DEF Apart
  <2>2. \A a \in (0..3) \cup Blocks : a \notin Uses(st.din) => y.disk[a] = disk[a]
    BY <1>5, <1>7, <1>8, <1>10 DEF Fresh, Writes
  <2> QED
    BY <1>4, <1>5, <1>10, <1>11, <2>1, <2>2 DEF Rewritten, Fresh
<1>13. Torn(s, f, off, bytes, k, y)
  BY <1>2, <1>3, <1>6, <1>7, <1>9, <1>10, <1>12 DEF Torn, b
<1> QED
  BY <1>13 DEF y, z, b, st

\* Torn as a reset finds it: Current then.
LEMMA ResetIs ==
    ASSUME NEW s \in DOMAIN FsShape, FsIInv(s), Fs(s)!Reset
    PROVE  /\ FsIInv(s)' /\ mounted /\ disk'[0] = disk[0]
           /\ \/ Fs(s)!Current' = Fs(s)!Current
              \/ \E f \in file, off \in Offsets, bytes \in Buffers :
                    \E k \in 1..Fs(s)!Fits(off, bytes) :
                       Torn(s, f, off, bytes, k, Fs(s)!Current')
<1> DEFINE x == Fs(s)!Begin
           y == [mem |-> mem, disk |-> disk']
<1>1. /\ mounted /\ ~dirty /\ mounted' = FALSE /\ file' = {} /\ dirty' = dirty
      /\ \/ disk' = disk
         \/ \E f \in file, off \in Offsets, bytes \in Buffers :
               \E k \in 1..Fs(s)!Fits(off, bytes) :
                  LET st == Fs(s)!stored(f, off, bytes, k)
                  IN  /\ ~st.full /\ st.x.mem = mem
                      /\ disk' = Fs(s)!Write(st.x, st.din.direct[off + k], Blank).disk
  BY DEF Fs!Reset
<1>2. PICK place : Tree(s, x, place)
  BY <1>1, Mounted
<1>3. /\ \A f \in file : Handle(x, f)
      /\ disk[0] # Blank /\ Fs(s)!Current = x /\ mem = Fs(s)!Saved(disk)
  BY <1>1, Mounted DEF FsIInv
<1>4. x = [mem |-> mem, disk |-> disk] /\ Device(s, x) /\ x.disk = disk
  BY <1>2, BeginIs DEF Fs!Begin
<1> HIDE DEF x
<1>5. Fs(s)!Current' = [mem |-> Fs(s)!Saved(disk)', disk |-> disk']
  BY <1>1 DEF Fs!Current
<1>6. CASE disk' = disk
  <2>1. Fs(s)!Saved(disk)' = Fs(s)!Saved(disk)
    BY <1>6 DEF Fs!Saved
  <2>2. Fs(s)!Current' = x
    BY <1>3, <1>4, <1>5, <1>6, <2>1
  <2>3. FsIInv(s)'
    BY <1>1, <1>2, <1>3, <1>4, <1>6, <2>2 DEF FsIInv, Device
  <2> QED
    BY <1>1, <1>3, <1>6, <2>2, <2>3
<1>7. CASE \E f \in file, off \in Offsets, bytes \in Buffers :
              \E k \in 1..Fs(s)!Fits(off, bytes) :
                 LET st == Fs(s)!stored(f, off, bytes, k)
                 IN  /\ ~st.full /\ st.x.mem = mem
                     /\ disk' = Fs(s)!Write(st.x, st.din.direct[off + k], Blank).disk
  <2>1. PICK f \in file, off \in Offsets, bytes \in Buffers :
              \E k \in 1..Fs(s)!Fits(off, bytes) :
                 LET st == Fs(s)!stored(f, off, bytes, k)
                 IN  /\ ~st.full /\ st.x.mem = mem
                     /\ disk' = Fs(s)!Write(st.x, st.din.direct[off + k], Blank).disk
    BY <1>7
  <2>2. PICK k \in 1..Fs(s)!Fits(off, bytes) :
                 LET st == Fs(s)!stored(f, off, bytes, k)
                 IN  /\ ~st.full /\ st.x.mem = mem
                     /\ disk' = Fs(s)!Write(st.x, st.din.direct[off + k], Blank).disk
    BY <2>1
  <2> DEFINE st == Fs(s)!stored(f, off, bytes, k)
  <2>3. Tree(s, Fs(s)!Begin, place) /\ Handle(Fs(s)!Begin, f)
    BY <1>2, <1>3 DEF x
  <2>4. Torn(s, f, off, bytes, k,
             [mem |-> mem, disk |-> Fs(s)!Write(st.x, st.din.direct[off + k], Blank).disk])
    BY <2>2, <2>3, TornIs
  <2>5. disk' = Fs(s)!Write(st.x, st.din.direct[off + k], Blank).disk
    BY <2>2
  <2> HIDE DEF st
  <2>6. Torn(s, f, off, bytes, k, y)
    BY <2>4, <2>5
  <2>7. PICK t : Rewritten(s, f, t.din, y) /\ t.din \in Dinodes
    BY <2>6 DEF Torn
  <2>8. Tree(s, y, place) /\ \A b \in 0..3 : y.disk[b] = disk[b]
    <3> DEFINE din == t.din
    <3>1. din \in Dinodes /\ Rewritten(s, f, din, y)
      BY <2>7
    <3> HIDE DEF din, y
    <3> QED
      BY <2>3, <3>1, RewrittenIs
  <2>9. Fs(s)!Saved(disk)' = mem /\ disk'[0] = disk[0]
    BY <1>3, <2>8 DEF Fs!Saved, Fs!InodeMap, Fs!BlockMap, Fs!InodeTable
  <2>10. Fs(s)!Current' = y
    BY <1>5, <2>9
  <2>11. disk' = [b \in (0..3) \cup Blocks |-> disk'[b]]
    BY <2>8 DEF Tree, Device
  <2> HIDE DEF y
  <2>12. FsIInv(s)'
    BY <1>1, <1>3, <2>8, <2>9, <2>10, <2>11 DEF FsIInv
  <2> QED
    BY <1>1, <2>6, <2>9, <2>10, <2>12
<1> QED
  BY <1>1, <1>6, <1>7

-----------------------------------------------------------------------------
\* An operation that changed one path, or raised some.
LEMMA ChangedKeeps ==
    ASSUME NEW s \in DOMAIN FsShape, FsIInv(s), NEW y, NEW p, NEW new, NEW F,
           Changed(s, y, p, new, F), F = {} \/ \E f : F = {f}
    PROVE  FsIInv(s)' /\ mounted /\ mounted' /\ Fs(s)!Current' = y /\ disk'[0] = disk[0]
<1>1. Fs(s)!Leave(y, F) /\ Result(s, y, F)
  BY DEF Changed, Result
<1>2. FsIInv(s)' /\ mounted /\ mounted' /\ Fs(s)!Current' = y
  BY <1>1, DoKeeps
<1>3. disk'[0] = disk[0]
  BY <1>1 DEF Fs!Leave, Result
<1> QED
  BY <1>2, <1>3

\* Operations are refused while nothing is mounted.
LEMMA DoIsMounted ==
    ASSUME NEW s \in DOMAIN FsShape
    PROVE  /\ \A x, f : Fs(s)!Leave(x, f) => mounted
           /\ \A p : Fs(s)!fs_mkdir(p) \/ Fs(s)!fs_rmdir(p) \/ Fs(s)!fs_open(p)
                     \/ Fs(s)!fs_unlink(p) => mounted
           /\ \A f : Fs(s)!fs_truncate(f) => mounted
           /\ \A f, off, bytes : Fs(s)!fs_write(f, off, bytes) => mounted
<1>1. \A x, f : Fs(s)!Leave(x, f) => mounted
  BY DEF Fs!Leave
<1>2. ASSUME NEW p, Fs(s)!fs_mkdir(p) PROVE mounted
  BY <1>1, <1>2 DEF Fs!fs_mkdir
<1>3. ASSUME NEW p, Fs(s)!fs_rmdir(p) \/ Fs(s)!fs_open(p) \/ Fs(s)!fs_unlink(p) PROVE mounted
  BY <1>3 DEF Fs!fs_rmdir, Fs!fs_open, Fs!fs_unlink
<1>4. ASSUME NEW f, Fs(s)!fs_truncate(f) PROVE mounted
  BY <1>1, <1>4 DEF Fs!fs_truncate, Fs!Do
<1>5. ASSUME NEW f, NEW off, NEW bytes, Fs(s)!fs_write(f, off, bytes) PROVE mounted
  BY <1>1, <1>5 DEF Fs!fs_write, Fs!Do
<1> QED
  BY <1>1, <1>2, <1>3, <1>4, <1>5

\* At the start nothing is on the disk.
LEMMA FsInit ==
    ASSUME NEW s \in DOMAIN FsShape, Fs(s)!Init
    PROVE  FsIInv(s) /\ disk[0] = Blank
<1>1. mounted = FALSE /\ file = {} /\ dirty = FALSE /\ disk = [b \in (0..3) \cup Blocks |-> Blank]
  BY DEF Fs!Init
<1>2. disk[0] = Blank /\ disk = [b \in (0..3) \cup Blocks |-> disk[b]]
  BY <1>1
<1> QED
  BY <1>1, <1>2 DEF FsIInv

\* Every operation, and a reset, keeps the invariant.
LEMMA FsKeeps ==
    ASSUME NEW s \in DOMAIN FsShape, FsIInv(s), [Fs(s)!Next]_(Fs(s)!vars)
    PROVE  FsIInv(s)'
<1> DEFINE x == Fs(s)!Begin
<1>0. FsShape[s].dirs \subseteq Fs(s)!Paths
  BY FsConstants
<1>1. ASSUME NEW p \in FsShape[s].dirs, Fs(s)!fs_mkdir(p) PROVE FsIInv(s)'
  <2>1. mounted
    BY <1>1, DoIsMounted
  <2>2. PICK place : Tree(s, x, place)
    BY <2>1, Mounted
  <2>3. \A f \in file : Handle(x, f)
    BY <2>1, Mounted
  <2>4. PICK y : /\ Fs(s)!Leave(y, file)
                 /\ \E there : Tree(s, y, there)
                 /\ \A b \in 0..3 : y.disk[b] = disk[b]
                 /\ \A f \in file : Handle(y, f)
    BY <1>1, <2>2, <2>3, MkdirIs
  <2>5. Result(s, y, file)
    BY <2>4 DEF Result, FsIInv
  <2> QED
    BY <2>4, <2>5, DoKeeps
<1>2. ASSUME NEW p \in FsShape[s].dirs, Fs(s)!fs_rmdir(p) PROVE FsIInv(s)'
  <2>1. mounted
    BY <1>2, DoIsMounted
  <2>2. PICK place : Tree(s, x, place)
    BY <2>1, Mounted
  <2>3. \A f \in file : Handle(x, f)
    BY <2>1, Mounted
  <2>4. PICK y : Changed(s, y, p, None, file)
    BY <1>0, <1>2, <2>2, <2>3, RmdirIs
  <2>5. file = {} \/ \E f : file = {f}
    BY DEF FsIInv
  <2> QED
    BY <2>4, <2>5, ChangedKeeps
<1>3. ASSUME NEW p \in FsShape[s].files, Fs(s)!fs_unlink(p) PROVE FsIInv(s)'
  <2>1. mounted
    BY <1>3, DoIsMounted
  <2>2. PICK place : Tree(s, x, place)
    BY <2>1, Mounted
  <2>3. (\A f \in file : Handle(x, f)) /\ p \in Fs(s)!Paths
    BY <2>1, Mounted, FsConstants
  <2>4. PICK y : Changed(s, y, p, None, file)
    BY <1>3, <2>2, <2>3, UnlinkIs
  <2>5. file = {} \/ \E f : file = {f}
    BY DEF FsIInv
  <2> QED
    BY <2>4, <2>5, ChangedKeeps
<1>4. ASSUME NEW p \in FsShape[s].files, Fs(s)!fs_open(p) PROVE FsIInv(s)'
  <2>1. mounted
    BY <1>4, DoIsMounted
  <2>2. PICK place : Tree(s, x, place)
    BY <2>1, Mounted
  <2>3. \E y, F : Changed(s, y, p, Shown(s, y, p), F) /\ (F = {} \/ \E f : F = {f})
    BY <1>4, <2>2, OpenIs
  <2> QED
    BY <2>3, ChangedKeeps
<1>5. ASSUME NEW f \in file, NEW off \in Offsets, NEW bytes \in Buffers,
             Fs(s)!fs_write(f, off, bytes)
      PROVE  FsIInv(s)'
  <2>1. mounted
    BY <1>5, DoIsMounted
  <2>2. PICK place : Tree(s, x, place)
    BY <2>1, Mounted
  <2>3. Handle(x, f)
    BY <2>1, Mounted
  <2>4. \E st, y, g : Wrote(s, f, st, y, g, off + Fs(s)!Fits(off, bytes)) /\ Fs(s)!Leave(y, {g})
                      /\ st.din \in Dinodes
    <3>1. PICK st, y, g : \E e \in 0..Fs(s)!Fits(off, bytes) :
                  /\ Stored(s, f, st, off, bytes, e)
                  /\ Wrote(s, f, st, y, g, off + Fs(s)!Fits(off, bytes)) /\ Fs(s)!Leave(y, {g})
      BY <1>5, <2>2, <2>3, FsWriteIs
    <3> QED
      BY <3>1 DEF Stored
  <2>5. PICK st, y, g : Wrote(s, f, st, y, g, off + Fs(s)!Fits(off, bytes)) /\ Fs(s)!Leave(y, {g})
                        /\ st.din \in Dinodes
    BY <2>4
  <2> DEFINE din == st.din
  <2>6. Rewritten(s, f, din, y) /\ Handle(y, g) /\ din \in Dinodes
    BY <2>5 DEF Wrote
  <2> HIDE DEF din
  <2>7. Changed(s, y, place[f.ino], Inside(y, f.ino), {g})
    BY <2>2, <2>3, <2>5, <2>6, RewriteChanges
  <2> QED
    BY <2>7, ChangedKeeps
<1>6. ASSUME NEW f \in file, Fs(s)!fs_truncate(f) PROVE FsIInv(s)'
  <2>1. mounted
    BY <1>6, DoIsMounted
  <2>2. PICK place : Tree(s, x, place)
    BY <2>1, Mounted
  <2>3. Handle(x, f)
    BY <2>1, Mounted
  <2>4. PICK y, g : Changed(s, y, place[f.ino], Regular(<<>>), {g})
    BY <1>6, <2>2, <2>3, TruncateIs
  <2> QED
    BY <2>4, ChangedKeeps
<1>7. ASSUME NEW f \in file, Fs(s)!fs_close(f) PROVE FsIInv(s)'
  BY <1>7, CloseIs
<1>8. ASSUME Fs(s)!fs_sync PROVE FsIInv(s)'
  BY <1>8, SyncIs
<1>9. ASSUME Fs(s)!fs_port_mount PROVE FsIInv(s)'
  BY <1>9, MountIs
<1>10. ASSUME Fs(s)!Reset PROVE FsIInv(s)'
  BY <1>10, ResetIs
<1>11. ASSUME UNCHANGED Fs(s)!vars PROVE FsIInv(s)'
  <2>1. mem' = mem /\ mounted' = mounted /\ disk' = disk /\ file' = file /\ dirty' = dirty
    BY <1>11 DEF Fs!vars
  <2>2. Fs(s)!Current' = Fs(s)!Current /\ Fs(s)!Begin' = Fs(s)!Begin
        /\ Fs(s)!Saved(disk)' = Fs(s)!Saved(disk)
    BY <2>1 DEF Fs!Current, Fs!Begin, Fs!Saved
  <2> QED
    BY <2>1, <2>2 DEF FsIInv
<1> QED
  BY <1>1, <1>2, <1>3, <1>4, <1>5, <1>6, <1>7, <1>8, <1>9, <1>10, <1>11 DEF Fs!Next, Fs!Operate

\* Nothing goes behind the inode table before every entry of it is in use.
Full(s) == overrun => mounted /\ mem.inodes = Fs(s)!Inodes

\* Every operation keeps that: two of them take inodes, and take the least.
LEMMA FullKept ==
    ASSUME NEW s \in DOMAIN FsShape, FsIInv(s), Full(s), [Fs(s)!Next]_(Fs(s)!vars)
    PROVE  Full(s)'
<1> DEFINE x == Fs(s)!Begin
<1>0. FsIInv(s)' /\ x.mem = mem
  BY FsKeeps DEF Fs!Begin
<1>1. ASSUME mounted', Fs(s)!Inodes \subseteq mem'.inodes PROVE Full(s)'
  <2>1. mem'.inodes \subseteq Fs(s)!Inodes
    <3>1. mounted' => \E place : Tree(s, Fs(s)!Begin', place)
      <4>1. mounted => \E place : Tree(s, Fs(s)!Begin, place)
        BY CurrentIs DEF FsIInv
      <4>2. mounted' => Fs(s)!Current' = Fs(s)!Begin'
        BY DEF Fs!Current, Fs!Begin
      <4> QED
        BY <1>0, <4>2 DEF FsIInv
    <3>2. PICK place : Tree(s, Fs(s)!Begin', place)
      BY <1>1, <3>1
    <3>3. Fs(s)!Begin'.mem = mem'
      BY DEF Fs!Begin
    <3> QED
      BY <3>2, <3>3 DEF Tree, Device, Memories
  <2> QED
    BY <1>1, <2>1 DEF Full
<1>2. ASSUME NEW p \in FsShape[s].dirs, Fs(s)!fs_mkdir(p) PROVE Full(s)'
  <2>1. mounted
    BY <1>2, DoIsMounted
  <2>2. PICK place : Tree(s, x, place)
    BY <2>1, Mounted
  <2>3. \A f \in file : Handle(x, f)
    BY <2>1, Mounted
  <2>4. PICK y : Fs(s)!Leave(y, file) /\ (overrun' => Fs(s)!Inodes \subseteq y.mem.inodes)
    BY <1>2, <2>2, <2>3, MkdirIs
  <2>5. mounted' /\ mem' = y.mem
    BY <2>4 DEF Fs!Leave
  <2> QED
    BY <1>1, <2>4, <2>5 DEF Full
<1>3. ASSUME NEW p \in FsShape[s].files, Fs(s)!fs_open(p), ~ overrun PROVE Full(s)'
  <2>1. CASE overrun' = overrun
    BY <1>3, <2>1 DEF Full
  <2>2. CASE Fs(s)!Overruns(x) /\ Fs(s)!Leave(x, file)
    <3>1. Fs(s)!Inodes \subseteq mem.inodes
      BY <1>0, <2>2, AllocIs
    <3>2. mounted' /\ mem' = mem
      BY <1>0, <2>2 DEF Fs!Leave
    <3> QED
      BY <1>1, <3>1, <3>2
  <2> QED
    BY <1>3, <2>1, <2>2 DEF Fs!fs_open, Fs!Do
<1>4. ASSUME NEW p, Fs(s)!fs_rmdir(p) \/ Fs(s)!fs_unlink(p) PROVE overrun' = overrun
  BY <1>4 DEF Fs!fs_rmdir, Fs!fs_unlink, Fs!Do
<1>5. ASSUME NEW f, NEW off, NEW bytes, Fs(s)!fs_write(f, off, bytes) PROVE overrun' = overrun
  BY <1>5 DEF Fs!fs_write, Fs!Do
<1>6. ASSUME NEW f, Fs(s)!fs_truncate(f) \/ Fs(s)!fs_close(f) PROVE overrun' = overrun
  BY <1>6 DEF Fs!fs_truncate, Fs!fs_close, Fs!Do
<1>7. ASSUME Fs(s)!fs_sync \/ Fs(s)!fs_port_mount \/ Fs(s)!Reset PROVE overrun' = overrun
  BY <1>7 DEF Fs!fs_sync, Fs!fs_port_mount, Fs!Reset
<1>8. CASE Fs(s)!Next
  <2>1. ~ overrun /\ Fs(s)!Operate
    BY <1>8 DEF Fs!Next
  <2>2. overrun' = overrun => Full(s)'
    BY <2>1 DEF Full
  <2> QED
    BY <1>2, <1>3, <1>4, <1>5, <1>6, <1>7, <2>1, <2>2 DEF Fs!Operate
<1>9. CASE UNCHANGED Fs(s)!vars
  BY <1>9 DEF Fs!vars, Full
<1> QED
  BY <1>8, <1>9

\* The inductive invariant of fs.c, for every number of inodes, of bits for them, of
\* blocks and slots and every set of paths: it holds after every sequence of
\* operations and resets, and until every entry of DInodeArray belongs to a name no
\* operation writes behind it.  The 26th name does in this build: nothing is defined
\* from there on, and the sequences end.
THEOREM FsInvariant ==
    ASSUME NEW s \in DOMAIN FsShape
    PROVE  Fs(s)!Spec => [](FsIInv(s) /\ Full(s))
<1>1. Fs(s)!Init => FsIInv(s) /\ Full(s)
  BY FsInit DEF Fs!Init, Full
<1>2. FsIInv(s) /\ Full(s) /\ [Fs(s)!Next]_(Fs(s)!vars) => (FsIInv(s) /\ Full(s))'
  BY FsKeeps, FullKept
<1> QED
  BY <1>1, <1>2, PTL DEF Fs!Spec

\* Bitmaps, inode table and directories agree, by the invariant.
LEMMA SoundIs ==
    ASSUME NEW s \in DOMAIN FsShape, FsIInv(s), Full(s)
    PROVE  Fs(s)!TreeIsSound
<1> SUFFICES ASSUME mounted PROVE Fs(s)!TreeIsSound
  BY DEF Fs!TreeIsSound
<1> DEFINE x == Fs(s)!Begin
           live == {p \in Fs(s)!Paths : Fs(s)!Exists(p)}
<1>1. PICK place : Tree(s, x, place)
  BY Mounted
<1>2. /\ x.mem = mem /\ Apart(x) /\ Placed(s, x, place) /\ mem.table \in [Fs(s)!Inodes -> Dinodes]
      /\ mem.inodes \subseteq Fs(s)!Inodes
  BY <1>1, BeginIs DEF Tree
<1> HIDE DEF x
<1>3. /\ \A p \in live : /\ Fs(s)!Entry(p).ino \in mem.inodes /\ place[Fs(s)!Entry(p).ino] = p
                         /\ Fs(s)!Entry(p).type = mem.table[Fs(s)!Entry(p).ino].mode
      /\ \A p \in Fs(s)!Paths : p \notin live => \A j \in mem.inodes : place[j] # p
  BY <1>1, EntryIs DEF x
<1>4. ASSUME NEW j \in mem.inodes, j # 0
      PROVE  place[j] \in live /\ Fs(s)!Entry(place[j]).ino = j
  <2>1. place[j] \in Fs(s)!Paths
    <3>1. place[j] # <<>>
      BY <1>2, <1>4 DEF Placed
    <3>2. place[j] \in Places(s)
      BY <1>2, PlaceIs
    <3> QED
      BY <3>1, <3>2 DEF Places
  <2>2. place[j] \in live
    BY <1>3, <2>1
  <2> HIDE DEF live
  <2>3. Fs(s)!Entry(place[j]).ino \in mem.inodes /\ place[Fs(s)!Entry(place[j]).ino] = place[j]
    BY <1>3, <2>2
  <2> QED
    BY <1>2, <2>2, <2>3 DEF Placed
<1> HIDE DEF live
<1>5. mem.inodes = {0} \cup {Fs(s)!Entry(p).ino : p \in live}
  <2>1. 0 \in mem.inodes
    BY <1>2 DEF Placed
  <2> QED
    BY <1>3, <1>4, <2>1
<1>6. \A p, q \in live : p # q => Fs(s)!Entry(p).ino # Fs(s)!Entry(q).ino
  BY <1>3
<1>7. \A i \in mem.inodes : Fs(s)!Owned(i) = Uses(mem.table[i])
  <2> SUFFICES ASSUME NEW i \in mem.inodes PROVE Fs(s)!Owned(i) = Uses(mem.table[i])
    OBVIOUS
  <2>1. mem.table[i].direct \in [1..NDIRECT -> Blocks \cup {Blank}]
    BY <1>2 DEF Dinodes
  <2> QED
    BY <2>1, OwnedIs DEF Fs!Owned
<1>8. /\ \A i \in mem.inodes : Fs(s)!Owned(i) \subseteq mem.blocks
      /\ \A i, j \in mem.inodes : i # j => Fs(s)!Owned(i) \cap Fs(s)!Owned(j) = {}
  BY <1>2, <1>7 DEF Apart
<1>9. Fs(s)!Root = 0
  BY FsConstants
<1>10. overrun => mem.inodes = Fs(s)!Inodes
  BY DEF Full
<1> QED
  BY <1>3, <1>5, <1>6, <1>8, <1>9, <1>10 DEF Fs!TreeIsSound, live

\* Bitmaps, inode table and directories of fs.c always agree: the inodes in use are
\* the root and one for each name, of the type that the name has, their blocks are
\* in use, and no block belongs to two of them, whatever operations fail half way,
\* also the one that writes behind the table because every entry belongs to a name;
\* after that one nothing is defined.
THEOREM TreesAreSound ==
    ASSUME NEW s \in DOMAIN FsShape
    PROVE  /\ Fs(s)!Spec => []Fs(s)!TreeIsSound
           /\ Fs(s)!Spec /\ [](part = s) => []TreeIsSound
<1>1. FsIInv(s) /\ Full(s) => Fs(s)!TreeIsSound
  BY SoundIs
<1>2. part = s /\ Fs(s)!TreeIsSound => TreeIsSound
  BY DEF TreeIsSound
<1> QED
  BY <1>1, <1>2, FsInvariant, PTL

-----------------------------------------------------------------------------
(***************************************************************************)
(* What is seen from outside is what Files promises.                       *)
(***************************************************************************)
\* q is what the first blocks of an inode hold.
Reads(q, dev, din) ==
    /\ din.size \in Nat /\ din.size <= NDIRECT
    /\ Len(q) = din.size
    /\ \A i \in 1..din.size :
          /\ i \in 1..NDIRECT
          /\ q[i] = IF din.direct[i] = Blank THEN Blank ELSE dev[din.direct[i]]

\* Data, as Reads says.
LEMMA DataIs ==
    ASSUME NEW s \in DOMAIN FsShape, NEW dev, NEW din, din \in Dinodes
    PROVE  Reads(Data(dev, din), dev, din)
<1>1. din.size \in 0..NDIRECT /\ NDIRECT \in Nat
  BY FsConstants DEF Dinodes
<1>2. Data(dev, din) = [k \in 1..din.size |-> IF din.direct[k] = Blank THEN Blank
                                              ELSE dev[din.direct[k]]]
  BY DEF Data
<1>3. Len(Data(dev, din)) = din.size
  <2> DEFINE q == Data(dev, din)
  <2>1. DOMAIN q = 1..din.size
    BY <1>2
  <2>2. q \in Seq({q[i] : i \in 1..din.size})
    BY <1>1, <1>2
  <2> HIDE DEF q
  <2>3. Len(q) \in Nat /\ 1..Len(q) = 1..din.size
    BY <2>1, <2>2
  <2> DEFINE m == Len(q)
             l == din.size
  <2>4. m \in Nat /\ l \in Nat /\ 1..m = 1..l
    BY <1>1, <2>3
  <2> HIDE DEF m, l
  <2>5. ~ (m < l) /\ ~ (l < m)
    <3>1. (m < l => l \in 1..l /\ l \notin 1..m) /\ (l < m => m \in 1..m /\ m \notin 1..l)
      BY <2>4
    <3> QED
      BY <2>4, <3>1
  <2>6. m = l
    BY <2>4, <2>5
  <2> QED
    BY <2>6 DEF m, l, q
<1> QED
  BY <1>1, <1>2, <1>3 DEF Reads

\* What Put asks for.
Puts(old, new, off, bytes, k, last) ==
    /\ Len(new) = IF k = last THEN IF Len(old) < last THEN last ELSE Len(old) ELSE Len(old)
    /\ \A i \in 1..Len(new) :
          \/ i \in (off + 1)..k /\ new[i] = bytes[i - off]
          \/ /\ k < last /\ i \in (off + 1)..(k + 1) /\ new[i] = Blank
             /\ i = k + 1 \/ old[i] = Blank
          \/ i \notin (off + 1)..k /\ (i <= Len(old) /\ old[i] # Blank => new[i] = old[i])

\* Puts is enough for Put of Files.
LEMMA PutFrom ==
    ASSUME NEW s \in DOMAIN FsShape, NEW old, NEW new, NEW off \in Offsets, NEW bytes \in Buffers,
           NEW k \in off..(off + Fs(s)!Fits(off, bytes)),
           Puts(old, new, off, bytes, k, off + Fs(s)!Fits(off, bytes))
    PROVE  Promise(s)!Put(old, new)
<1> DEFINE last == IF off + Len(bytes) < NDIRECT THEN off + Len(bytes) ELSE NDIRECT
<1>1. off \in 0..(NDIRECT - 1) /\ NDIRECT \in Nat
  BY FsConstants
<1>2. last = off + Fs(s)!Fits(off, bytes)
  BY <1>1, FitsIs
<1>3. k \in off..last /\ Puts(old, new, off, bytes, k, last)
  BY <1>2
<1> QED
  BY <1>1, <1>3 DEF Promise!Put, Puts

\* Block i of the file: what was stored, or what it was.
Kept(f, st, off, bytes, e, i) ==
    /\ i \in (off + 1)..(off + e) =>
          st.din.direct[i] # Blank /\ st.x.disk[st.din.direct[i]] = bytes[i - off]
    /\ mem.table[f.ino].direct[i] # Blank =>
          /\ st.din.direct[i] = mem.table[f.ino].direct[i]
          /\ i \notin (off + 1)..(off + e) =>
                st.x.disk[st.din.direct[i]] = disk[st.din.direct[i]]
    /\ \A k \in 1..NDIRECT : k # i /\ st.din.direct[i] # Blank =>
          st.din.direct[k] # st.din.direct[i]

\* Every block of a file after a write.
LEMMA StoredBlocks ==
    ASSUME NEW s \in DOMAIN FsShape, NEW place, Tree(s, Fs(s)!Begin, place),
           NEW f, Handle(Fs(s)!Begin, f), NEW off \in Nat, NEW bytes, NEW e \in Nat,
           off + e <= NDIRECT, NEW st, Stored(s, f, st, off, bytes, e),
           NEW i \in 1..NDIRECT
    PROVE  Kept(f, st, off, bytes, e, i)
<1>1. Fresh(f, st)
  BY StoredUses
<1>2. /\ \A k \in 1..NDIRECT : k \in (off + 1)..(off + e) =>
            st.din.direct[k] # Blank /\ st.x.disk[st.din.direct[k]] = bytes[k - off]
      /\ \A b \in (0..3) \cup Blocks :
            (\A k \in (off + 1)..(off + e) : b # st.din.direct[k]) => st.x.disk[b] = disk[b]
      /\ Distinct(st.din) /\ st.din \in Dinodes
  BY DEF Stored
<1>3. \A k \in 1..NDIRECT : k # i /\ st.din.direct[i] # Blank => st.din.direct[k] # st.din.direct[i]
  BY <1>2 DEF Distinct
<1>4. ASSUME mem.table[f.ino].direct[i] # Blank, i \notin (off + 1)..(off + e)
      PROVE  st.x.disk[st.din.direct[i]] = disk[st.din.direct[i]]
  <2> DEFINE b == st.din.direct[i]
  <2>1. b # Blank
    BY <1>1, <1>4 DEF Fresh
  <2>2. b \in Blocks
    BY <1>2, <2>1 DEF Dinodes
  <2>3. ASSUME NEW k \in (off + 1)..(off + e) PROVE b # st.din.direct[k]
    <3>1. k \in 1..NDIRECT /\ k # i
      BY <1>4, FsConstants
    <3> QED
      BY <1>3, <2>1, <3>1
  <2> QED
    BY <1>2, <2>2, <2>3
<1> QED
  BY <1>1, <1>2, <1>3, <1>4 DEF Fresh, Kept

\* A write does to the contents of its file what Put allows.
LEMMA WroteIsPut ==
    ASSUME NEW s \in DOMAIN FsShape, NEW place, Tree(s, Fs(s)!Begin, place),
           NEW f, Handle(Fs(s)!Begin, f), NEW off \in Offsets, NEW bytes \in Buffers,
           NEW e \in 0..Fs(s)!Fits(off, bytes), NEW st, Stored(s, f, st, off, bytes, e),
           Reached(st, e, Fs(s)!Fits(off, bytes)), NEW y, NEW g,
           Wrote(s, f, st, y, g, off + Fs(s)!Fits(off, bytes))
    PROVE  Promise(s)!Put(Data(disk, mem.table[f.ino]), Data(y.disk, y.mem.table[f.ino]))
<1> DEFINE n == Fs(s)!Fits(off, bytes)
           T == mem.table[f.ino]
           U == y.mem.table[f.ino]
           old == Data(disk, T)
           new == Data(y.disk, U)
<1>1. /\ off \in Nat /\ n \in Nat \ {0} /\ off + n <= NDIRECT /\ e \in Nat /\ e <= n
      /\ off + e <= NDIRECT /\ NDIRECT \in Nat /\ off + n \in 0..NDIRECT
      /\ off + e \in off..(off + n) /\ off + n \in off..(off + n)
  <2>1. off \in Nat /\ n \in Nat \ {0} /\ off + n <= NDIRECT /\ NDIRECT \in Nat
        /\ e \in 0..n
    BY FitsIs, FsConstants
  <2> HIDE DEF n
  <2> QED
    BY <2>1
<1>2. /\ Fs(s)!Begin.mem = mem /\ mem.table \in [Fs(s)!Inodes -> Dinodes]
      /\ mem.inodes \subseteq Fs(s)!Inodes
  BY BeginIs
<1>3. T \in Dinodes /\ f.din.size = T.size
  BY <1>2 DEF Handle
<1>4. st.din \in Dinodes /\ st.din.size = T.size
  BY <1>3 DEF Stored
<1>5. y.disk = st.x.disk /\ U = IF st.full = TRUE THEN T ELSE Fs(s)!grown(st.din, off + n)
  BY DEF Wrote
<1> HIDE DEF n
<1>6. \A i \in 1..NDIRECT :
         /\ i \in (off + 1)..(off + e) =>
               st.din.direct[i] # Blank /\ st.x.disk[st.din.direct[i]] = bytes[i - off]
         /\ T.direct[i] # Blank =>
               /\ st.din.direct[i] = T.direct[i]
               /\ i \notin (off + 1)..(off + e) =>
                     st.x.disk[st.din.direct[i]] = disk[st.din.direct[i]]
  <2> SUFFICES ASSUME NEW i \in 1..NDIRECT
               PROVE  /\ i \in (off + 1)..(off + e) =>
                            st.din.direct[i] # Blank /\ st.x.disk[st.din.direct[i]] = bytes[i - off]
                      /\ T.direct[i] # Blank =>
                            /\ st.din.direct[i] = T.direct[i]
                            /\ i \notin (off + 1)..(off + e) =>
                                  st.x.disk[st.din.direct[i]] = disk[st.din.direct[i]]
    OBVIOUS
  <2>1. off \in Nat /\ e \in Nat /\ off + e <= NDIRECT
    BY <1>1
  <2>2. Kept(f, st, off, bytes, e, i)
    BY <2>1, StoredBlocks
  <2> QED
    BY <2>2 DEF Kept
<1>7. /\ T.size \in Nat /\ T.size <= NDIRECT /\ Len(old) = T.size
      /\ \A i \in 1..T.size :
            i \in 1..NDIRECT /\ old[i] = IF T.direct[i] = Blank THEN Blank ELSE disk[T.direct[i]]
  <2>1. Reads(old, disk, T)
    BY <1>3, DataIs
  <2> QED
    BY <2>1 DEF Reads
<1>8. CASE st.full = TRUE
  <2>1. U = T /\ e < n /\ off + e # off + n
    BY <1>1, <1>5, <1>8 DEF Reached, n
  <2>2. /\ Len(new) = T.size
        /\ \A i \in 1..T.size :
              new[i] = IF T.direct[i] = Blank THEN Blank ELSE st.x.disk[T.direct[i]]
    <3>1. new = Data(y.disk, T)
      BY <2>1
    <3> HIDE DEF new, old, T, U
    <3>2. /\ Len(Data(y.disk, T)) = T.size
          /\ \A i \in 1..T.size :
                Data(y.disk, T)[i] = IF T.direct[i] = Blank THEN Blank ELSE y.disk[T.direct[i]]
      <4>1. Reads(Data(y.disk, T), y.disk, T)
        BY <1>3, DataIs
      <4> QED
        BY <4>1 DEF Reads
    <3> QED
      BY <1>5, <3>1, <3>2
  <2> HIDE DEF old, new, T, U
  <2>3. ASSUME NEW i \in 1..Len(new)
        PROVE  \/ i \in (off + 1)..(off + e) /\ new[i] = bytes[i - off]
               \/ /\ off + e < off + n /\ i \in (off + 1)..((off + e) + 1) /\ new[i] = Blank
                  /\ i = (off + e) + 1 \/ old[i] = Blank
               \/ /\ i \notin (off + 1)..(off + e)
                  /\ (i <= Len(old) /\ old[i] # Blank => new[i] = old[i])
    <3>1. i \in 1..T.size /\ i \in 1..NDIRECT /\ i \in Nat
      BY <1>7, <2>2
    <3>2. CASE T.direct[i] = Blank
      <4>1. new[i] = Blank /\ old[i] = Blank
        BY <1>7, <2>2, <3>1, <3>2
      <4>2. i \in (off + 1)..(off + e) => i \in (off + 1)..((off + e) + 1)
        BY <1>1, <3>1
      <4> QED
        BY <1>1, <2>1, <4>1, <4>2
    <3>3. CASE T.direct[i] # Blank
      <4>1. new[i] = st.x.disk[st.din.direct[i]] /\ old[i] = disk[st.din.direct[i]]
        BY <1>6, <1>7, <2>2, <3>1, <3>3
      <4> QED
        BY <1>6, <3>1, <3>3, <4>1
    <3> QED
      BY <3>2, <3>3
  <2>4. Puts(old, new, off, bytes, off + e, off + n)
    BY <1>7, <2>1, <2>2, <2>3 DEF Puts
  <2> QED
    BY <1>1, <2>4, PutFrom DEF old, new, T, U, n
<1>9. CASE st.full = FALSE
  <2>1. U = Fs(s)!grown(st.din, off + n) /\ e = n
    BY <1>5, <1>9 DEF Reached, n
  <2>2. /\ U \in Dinodes /\ U.direct = st.din.direct
        /\ U.size = IF T.size < off + n THEN off + n ELSE T.size
    BY <1>1, <1>4, <2>1, GrownIs, SMTT(30)
  <2>3. /\ U.size \in Nat /\ Len(new) = U.size
        /\ \A i \in 1..U.size :
              /\ i \in 1..NDIRECT
              /\ new[i] = IF U.direct[i] = Blank THEN Blank ELSE st.x.disk[U.direct[i]]
    <3>1. /\ U.size \in Nat /\ Len(new) = U.size
          /\ \A i \in 1..U.size :
                /\ i \in 1..NDIRECT
                /\ new[i] = IF U.direct[i] = Blank THEN Blank ELSE y.disk[U.direct[i]]
      <4> HIDE DEF T, U, old
      <4> QED
        <5>1. Reads(Data(y.disk, U), y.disk, U)
          BY <2>2, DataIs
        <5> QED
          BY <5>1 DEF Reads, new
    <3> HIDE DEF new, U
    <3> QED
      BY <1>5, <3>1
  <2> HIDE DEF old, new, T, U
  <2>4. ASSUME NEW i \in 1..Len(new)
        PROVE  \/ i \in (off + 1)..(off + n) /\ new[i] = bytes[i - off]
               \/ /\ i \notin (off + 1)..(off + n)
                  /\ (i <= Len(old) /\ old[i] # Blank => new[i] = old[i])
    <3>1. /\ i \in 1..NDIRECT /\ i \in Nat
          /\ new[i] = IF st.din.direct[i] = Blank THEN Blank ELSE st.x.disk[st.din.direct[i]]
      BY <2>2, <2>3
    <3>2. CASE i \in (off + 1)..(off + n)
      BY <1>6, <2>1, <3>1, <3>2
    <3>3. CASE i \notin (off + 1)..(off + n)
      <4> SUFFICES ASSUME i <= Len(old), old[i] # Blank PROVE new[i] = old[i]
        BY <3>3
      <4>1. i \in 1..T.size
        BY <1>7, <3>1
      <4>2. T.direct[i] # Blank /\ old[i] = disk[T.direct[i]]
        BY <1>7, <4>1
      <4>3. st.din.direct[i] = T.direct[i] /\ st.din.direct[i] # Blank
            /\ st.x.disk[st.din.direct[i]] = disk[st.din.direct[i]]
        BY <1>6, <2>1, <3>1, <3>3, <4>2
      <4> QED
        BY <3>1, <4>2, <4>3
    <3> QED
      BY <3>2, <3>3
  <2>5. Puts(old, new, off, bytes, off + n, off + n)
    BY <1>7, <2>2, <2>3, <2>4 DEF Puts
  <2> QED
    BY <1>1, <2>5, PutFrom DEF old, new, T, U, n
<1> QED
  BY <1>8, <1>9 DEF Reached

\* And so does a write that a reset breaks off.
LEMMA TornIsPut ==
    ASSUME NEW s \in DOMAIN FsShape, NEW place, Tree(s, Fs(s)!Begin, place),
           NEW f, Handle(Fs(s)!Begin, f), NEW off \in Offsets, NEW bytes \in Buffers,
           NEW k \in 1..Fs(s)!Fits(off, bytes), NEW y, Torn(s, f, off, bytes, k, y)
    PROVE  Promise(s)!Put(Data(disk, mem.table[f.ino]), Data(y.disk, y.mem.table[f.ino]))
<1> DEFINE n == Fs(s)!Fits(off, bytes)
           T == mem.table[f.ino]
           old == Data(disk, T)
           new == Data(y.disk, T)
           h == off + (k - 1)
<1>1. /\ off \in Nat /\ n \in Nat \ {0} /\ off + n <= NDIRECT /\ k \in Nat \ {0} /\ k <= n
      /\ off + k <= NDIRECT /\ NDIRECT \in Nat /\ h \in off..(off + n) /\ h < off + n
      /\ h + 1 = off + k /\ off + k \in 1..NDIRECT
  <2>1. off \in Nat /\ n \in Nat \ {0} /\ off + n <= NDIRECT /\ NDIRECT \in Nat
        /\ k \in 1..n
    BY FitsIs, FsConstants
  <2> HIDE DEF n
  <2> QED
    BY <2>1
<1>2. PICK st : /\ Stored(s, f, st, off, bytes, k) /\ st.x.mem = mem
                /\ Rewritten(s, f, st.din, y) /\ st.din \in Dinodes /\ y.mem = mem
                /\ st.din.direct[off + k] \in Uses(st.din)
                /\ y.disk = [st.x.disk EXCEPT ![st.din.direct[off + k]] = Blank]
  BY DEF Torn
<1>3. /\ Fs(s)!Begin.mem = mem /\ mem.table \in [Fs(s)!Inodes -> Dinodes]
      /\ mem.inodes \subseteq Fs(s)!Inodes
  BY BeginIs
<1>4. T \in Dinodes
  BY <1>3 DEF Handle
<1>5. Device(s, st.x)
  BY <1>2 DEF Stored
<1> HIDE DEF n, h
<1>6. \A i \in 1..NDIRECT : Kept(f, st, off, bytes, k, i)
  <2>1. Stored(s, f, st, off, bytes, k)
    BY <1>2
  <2> QED
    BY <1>1, <2>1, StoredBlocks
<1>7. /\ T.size \in Nat /\ T.size <= NDIRECT /\ Len(old) = T.size
      /\ \A i \in 1..T.size :
            i \in 1..NDIRECT /\ old[i] = IF T.direct[i] = Blank THEN Blank ELSE disk[T.direct[i]]
  <2>1. Reads(old, disk, T)
    BY <1>4, DataIs
  <2> QED
    BY <2>1 DEF Reads
<1>8. /\ Len(new) = T.size
      /\ \A i \in 1..T.size :
            new[i] = IF T.direct[i] = Blank THEN Blank ELSE y.disk[T.direct[i]]
  <2>1. Reads(new, y.disk, T)
    BY <1>4, DataIs
  <2> QED
    BY <2>1 DEF Reads
<1>9. ASSUME NEW i \in 1..NDIRECT, T.direct[i] # Blank
      PROVE  y.disk[T.direct[i]] = IF i = off + k THEN Blank ELSE st.x.disk[st.din.direct[i]]
  <2> DEFINE b == st.din.direct[off + k]
             d == st.din.direct[i]
  <2>1. d = T.direct[i]
    BY <1>6, <1>9 DEF Kept
  <2>2. d \in Blocks /\ b \in Blocks
    <3>1. d # Blank /\ b # Blank
      BY <1>2, <1>9, <2>1 DEF Uses
    <3> QED
      BY <1>1, <1>2, <3>1 DEF Dinodes
  <2>3. i # off + k => d # b
    BY <1>1, <1>6, <1>9, <2>1 DEF Kept
  <2>4. st.x.disk = [a \in (0..3) \cup Blocks |-> st.x.disk[a]]
    BY <1>5 DEF Device
  <2>5. y.disk = [st.x.disk EXCEPT ![b] = Blank]
    BY <1>2
  <2>6. i = off + k => d = b
    OBVIOUS
  <2> HIDE DEF b
  <2>7. y.disk[d] = IF d = b THEN Blank ELSE st.x.disk[d]
    BY <2>2, <2>4, <2>5
  <2> HIDE DEF d
  <2>8. y.disk[d] = IF i = off + k THEN Blank ELSE st.x.disk[d]
    BY <2>3, <2>6, <2>7
  <2> QED
    BY <2>1, <2>8 DEF d
<1> HIDE DEF old, new, T
<1>10. ASSUME NEW i \in 1..Len(new)
       PROVE  \/ i \in (off + 1)..h /\ new[i] = bytes[i - off]
              \/ /\ h < off + n /\ i \in (off + 1)..(h + 1) /\ new[i] = Blank
                 /\ i = h + 1 \/ old[i] = Blank
              \/ i \notin (off + 1)..h /\ (i <= Len(old) /\ old[i] # Blank => new[i] = old[i])
  <2>1. i \in 1..T.size /\ i \in 1..NDIRECT /\ i \in Nat
    BY <1>7, <1>8
  <2>2. i \in (off + 1)..(off + k) <=> i \in (off + 1)..h \/ i = h + 1
    BY <1>1, <2>1
  <2>3. i \in (off + 1)..h => i \in (off + 1)..(h + 1)
    BY <1>1, <2>1
  <2>4. h + 1 \in (off + 1)..(h + 1)
    BY <1>1
  <2>5. CASE T.direct[i] = Blank
    <3>1. new[i] = Blank /\ old[i] = Blank
      BY <1>7, <1>8, <2>1, <2>5
    <3> QED
      BY <1>1, <2>3, <3>1
  <2>6. CASE T.direct[i] # Blank /\ i = h + 1
    <3>1. new[i] = Blank
      BY <1>1, <1>8, <1>9, <2>1, <2>6
    <3> QED
      BY <1>1, <2>4, <2>6, <3>1
  <2>7. CASE T.direct[i] # Blank /\ i # h + 1
    <3>1. new[i] = st.x.disk[st.din.direct[i]]
      BY <1>1, <1>8, <1>9, <2>1, <2>7
    <3>2. old[i] = disk[st.din.direct[i]]
      BY <1>6, <1>7, <2>1, <2>7 DEF Kept, T
    <3>3. i \in (off + 1)..h => new[i] = bytes[i - off]
      BY <1>6, <2>1, <2>2, <3>1 DEF Kept
    <3>4. i \notin (off + 1)..h => new[i] = old[i]
      BY <1>6, <2>1, <2>2, <2>7, <3>1, <3>2 DEF Kept, T
    <3> QED
      BY <3>3, <3>4
  <2> QED
    BY <2>5, <2>6, <2>7
<1>11. Puts(old, new, off, bytes, h, off + n)
  BY <1>1, <1>7, <1>8, <1>10 DEF Puts
<1>12. Promise(s)!Put(old, new)
  BY <1>1, <1>11, PutFrom, SMTT(30) DEF n
<1> QED
  BY <1>2, <1>12 DEF old, new, T

\* The paths of the promise, and what they show.
LEMMA SeenIs ==
    ASSUME NEW s \in DOMAIN FsShape, NEW p
    PROVE  /\ Fs(s)!Seen(p) = IF disk[0] = Blank THEN None ELSE Shown(s, Fs(s)!Current, p)
           /\ Fs(s)!Seen(p)' = IF disk'[0] = Blank THEN None ELSE Shown(s, Fs(s)!Current', p)
BY FsConstants DEF Fs!Seen, Fs!Super, Shown, Inside, Data, None, Folder, Regular, Fs!Current

\* A step after which every path shows what it showed.
LEMMA ViewStays ==
    ASSUME NEW s \in DOMAIN FsShape, disk'[0] = disk[0],
           \A p \in Fs(s)!Paths : Shown(s, Fs(s)!Current', p) = Shown(s, Fs(s)!Current, p)
    PROVE  Promise(s)!Step
<1>1. \A p \in Fs(s)!Paths : Fs(s)!Seen(p)' = Fs(s)!Seen(p)
  BY SeenIs
<1>2. [p \in Fs(s)!Paths |-> Fs(s)!Seen(p)]' = [p \in Fs(s)!Paths |-> Fs(s)!Seen(p)]
  BY <1>1
<1> QED
  BY <1>2 DEF Promise!Step

\* One path changes.
Alters(s, old, new) ==
    \/ old = new
    \/ old # None /\ new = None
    \/ old = None /\ new = Regular(<<>>)
    \/ old.kind = "file" /\ new = Regular(<<>>)
    \/ \E a, b : old = Regular(a) /\ new = Regular(b) /\ Promise(s)!Put(a, b)

\* A step after which one path shows something else.
LEMMA ViewChanges ==
    ASSUME NEW s \in DOMAIN FsShape, disk'[0] = disk[0], disk[0] # Blank, NEW p \in Fs(s)!Paths,
           \A q \in Fs(s)!Paths : q # p =>
              Shown(s, Fs(s)!Current', q) = Shown(s, Fs(s)!Current, q),
           Alters(s, Shown(s, Fs(s)!Current, p), Shown(s, Fs(s)!Current', p))
    PROVE  Promise(s)!Step
<1> DEFINE P == Fs(s)!Paths
           files == [q \in P |-> Fs(s)!Seen(q)]
           old == Shown(s, Fs(s)!Current, p)
           new == Shown(s, Fs(s)!Current', p)
<1>1. \A q \in P : /\ Fs(s)!Seen(q) = Shown(s, Fs(s)!Current, q)
                   /\ Fs(s)!Seen(q)' = Shown(s, Fs(s)!Current', q)
  BY SeenIs
<1>2. files[p] = old /\ files'[p] = new
  BY <1>1
<1>3. files' = [files EXCEPT ![p] = new]
  BY <1>1
<1> HIDE DEF old, new
<1>4. CASE old = new
  <2>1. \A q \in P : Shown(s, Fs(s)!Current', q) = Shown(s, Fs(s)!Current, q)
    BY <1>4 DEF old, new
  <2> QED
    BY <2>1, ViewStays
<1>5. CASE old # None /\ new = None
  <2>1. Promise(s)!Remove(p)
    BY <1>2, <1>3, <1>5 DEF Promise!Remove, Promise!Change, Promise!Nothing, None
  <2> QED
    BY <2>1 DEF Promise!Step, Promise!Next
<1>6. CASE old = None /\ new = Regular(<<>>)
  <2>1. Promise(s)!Create(p)
    BY <1>2, <1>3, <1>6 DEF Promise!Create, Promise!Change, Promise!Nothing, Promise!File,
                            None, Regular
  <2> QED
    BY <2>1 DEF Promise!Step, Promise!Next
<1>7. CASE old.kind = "file" /\ new = Regular(<<>>)
  <2>1. Promise(s)!Truncate(p)
    BY <1>2, <1>3, <1>7 DEF Promise!Truncate, Promise!Change, Promise!File, Regular
  <2> QED
    BY <2>1 DEF Promise!Step, Promise!Next
<1>8. CASE \E a, b : old = Regular(a) /\ new = Regular(b) /\ Promise(s)!Put(a, b)
  <2>1. PICK a, b : old = Regular(a) /\ new = Regular(b) /\ Promise(s)!Put(a, b)
    BY <1>8
  <2>2. old.kind = "file" /\ old.data = a /\ new.data = b
    BY <2>1 DEF Regular
  <2>3. files[p].kind = "file" /\ files[p].data = a /\ files'[p].data = b
    BY <1>2, <2>2
  <2>4. files' = [files EXCEPT ![p] = Promise(s)!File(b)]
    BY <1>3, <2>1 DEF Promise!File, Regular
  <2>5. Promise(s)!Rewrite(p)
    BY <2>1, <2>3, <2>4 DEF Promise!Rewrite, Promise!Change
  <2> QED
    BY <2>5 DEF Promise!Step, Promise!Next
<1> QED
  BY <1>4, <1>5, <1>6, <1>7, <1>8 DEF Alters, old, new

\* A step after which there are directories where nothing was.
LEMMA ViewRaised ==
    ASSUME NEW s \in DOMAIN FsShape, disk'[0] = disk[0], disk[0] # Blank, NEW p \in Fs(s)!Paths,
           NEW l \in 0..Len(p), Raised(s, Fs(s)!Current, Fs(s)!Current', Heads(p, l))
    PROVE  Promise(s)!Step
<1> DEFINE P == Fs(s)!Paths
           files == [q \in P |-> Fs(s)!Seen(q)]
           x == Fs(s)!Current
           y == Fs(s)!Current'
<1>1. \A q \in P : Fs(s)!Seen(q) = Shown(s, x, q) /\ Fs(s)!Seen(q)' = Shown(s, y, q)
  BY SeenIs
<1>2. \A q \in P : Shown(s, y, q) = IF q \in Heads(p, l) /\ Shown(s, x, q) = None THEN Folder
                                    ELSE Shown(s, x, q)
  BY DEF Raised
<1>3. CASE l = 0
  <2>1. Heads(p, l) = {}
    BY <1>3 DEF Heads
  <2>2. \A q \in P : Shown(s, y, q) = Shown(s, x, q)
    BY <1>2, <2>1
  <2> QED
    BY <2>2, ViewStays
<1>4. CASE l # 0
  <2>1. l \in 1..Len(p)
    BY <1>4
  <2>2. files' = [q \in P |-> IF q \in Heads(p, l) /\ files[q] = None THEN Folder ELSE files[q]]
    BY <1>1, <1>2
  <2>3. Promise(s)!Mkdir
    BY <2>1, <2>2 DEF Promise!Mkdir, Promise!Nothing, Promise!Directory, None, Folder, Heads
  <2> QED
    BY <2>3 DEF Promise!Step, Promise!Next
<1> QED
  BY <1>3, <1>4

\* An operation on one path, as Changed says.
LEMMA ChangedSteps ==
    ASSUME NEW s \in DOMAIN FsShape, FsIInv(s), NEW y, NEW p \in Fs(s)!Paths, NEW new, NEW F,
           Changed(s, y, p, new, F), F = {} \/ \E f : F = {f},
           Alters(s, Shown(s, Fs(s)!Begin, p), new)
    PROVE  Promise(s)!Step
<1>1. mounted /\ Fs(s)!Current' = y /\ disk'[0] = disk[0]
  BY ChangedKeeps
<1>2. disk[0] # Blank /\ Fs(s)!Current = Fs(s)!Begin
  BY <1>1, Mounted
<1>3. \A q \in Fs(s)!Paths : Shown(s, y, q) = IF q = p THEN new ELSE Shown(s, Fs(s)!Begin, q)
  BY DEF Changed
<1>4. /\ \A q \in Fs(s)!Paths : q # p =>
            Shown(s, Fs(s)!Current', q) = Shown(s, Fs(s)!Current, q)
      /\ Alters(s, Shown(s, Fs(s)!Current, p), Shown(s, Fs(s)!Current', p))
  BY <1>1, <1>2, <1>3
<1> QED
  BY <1>1, <1>2, <1>4, ViewChanges

\* Every operation, and a reset, is a step of Files or changes no path.
LEMMA PromiseKept ==
    ASSUME NEW s \in DOMAIN FsShape, FsIInv(s), [Fs(s)!Next]_(Fs(s)!vars)
    PROVE  Promise(s)!Step
<1> DEFINE x == Fs(s)!Begin
<1>0. FsShape[s].dirs \subseteq Fs(s)!Paths /\ FsShape[s].files \subseteq Fs(s)!Paths
  BY FsConstants
<1>1. ASSUME NEW p \in FsShape[s].dirs, Fs(s)!fs_mkdir(p) PROVE Promise(s)!Step
  <2>1. mounted
    BY <1>1, DoIsMounted
  <2>2. PICK place : Tree(s, x, place)
    BY <2>1, Mounted
  <2>3. (\A f \in file : Handle(x, f)) /\ disk[0] # Blank /\ Fs(s)!Current = x
    BY <2>1, Mounted
  <2>4. PICK y : /\ Fs(s)!Leave(y, file)
                 /\ \E there : Tree(s, y, there)
                 /\ \A b \in 0..3 : y.disk[b] = disk[b]
                 /\ \A f \in file : Handle(y, f)
                 /\ \E l \in 0..Len(p) : Raised(s, x, y, Heads(p, l))
    BY <1>1, <2>2, <2>3, MkdirIs
  <2>5. Result(s, y, file)
    BY <2>4 DEF Result, FsIInv
  <2>6. Fs(s)!Current' = y
    BY <2>4, <2>5, DoKeeps
  <2>7. disk'[0] = disk[0]
    BY <2>4 DEF Fs!Leave
  <2>8. PICK l \in 0..Len(p) : Raised(s, Fs(s)!Current, Fs(s)!Current', Heads(p, l))
    BY <2>3, <2>4, <2>6
  <2> QED
    BY <1>0, <2>3, <2>7, <2>8, ViewRaised
<1>2. ASSUME NEW p \in FsShape[s].dirs, Fs(s)!fs_rmdir(p) PROVE Promise(s)!Step
  <2>1. mounted
    BY <1>2, DoIsMounted
  <2>2. PICK place : Tree(s, x, place)
    BY <2>1, Mounted
  <2>3. (\A f \in file : Handle(x, f)) /\ p \in Fs(s)!Paths
    BY <1>0, <2>1, Mounted
  <2>4. (\E y : Changed(s, y, p, None, file)) /\ Shown(s, x, p) # None
    BY <1>2, <2>2, <2>3, RmdirIs
  <2>5. PICK y : Changed(s, y, p, None, file)
    BY <2>4
  <2>6. (file = {} \/ \E f : file = {f}) /\ Alters(s, Shown(s, x, p), None)
    BY <2>4 DEF FsIInv, Alters
  <2> QED
    BY <2>3, <2>5, <2>6, ChangedSteps
<1>3. ASSUME NEW p \in FsShape[s].files, Fs(s)!fs_unlink(p) PROVE Promise(s)!Step
  <2>1. mounted
    BY <1>3, DoIsMounted
  <2>2. PICK place : Tree(s, x, place)
    BY <2>1, Mounted
  <2>3. (\A f \in file : Handle(x, f)) /\ p \in Fs(s)!Paths
    BY <1>0, <2>1, Mounted
  <2>4. (\E y : Changed(s, y, p, None, file)) /\ Shown(s, x, p) # None
    BY <1>3, <2>2, <2>3, UnlinkIs
  <2>5. PICK y : Changed(s, y, p, None, file)
    BY <2>4
  <2>6. (file = {} \/ \E f : file = {f}) /\ Alters(s, Shown(s, x, p), None)
    BY <2>4 DEF FsIInv, Alters
  <2> QED
    BY <2>3, <2>5, <2>6, ChangedSteps
<1>4. ASSUME NEW p \in FsShape[s].files, Fs(s)!fs_open(p) PROVE Promise(s)!Step
  <2>1. mounted
    BY <1>4, DoIsMounted
  <2>2. PICK place : Tree(s, x, place)
    BY <2>1, Mounted
  <2>3. PICK y, F : /\ Changed(s, y, p, Shown(s, y, p), F)
                    /\ F = {} \/ \E f : F = {f}
                    /\ \/ Shown(s, y, p) = Shown(s, x, p)
                       \/ Shown(s, x, p) = None /\ Shown(s, y, p) = Regular(<<>>)
    BY <1>4, <2>2, OpenIs
  <2>4. Alters(s, Shown(s, x, p), Shown(s, y, p))
    BY <2>3 DEF Alters
  <2>5. p \in Fs(s)!Paths
    BY <1>0
  <2> QED
    BY <2>3, <2>4, <2>5, ChangedSteps
<1>5. ASSUME NEW f \in file, NEW off \in Offsets, NEW bytes \in Buffers,
             Fs(s)!fs_write(f, off, bytes)
      PROVE  Promise(s)!Step
  <2> DEFINE n == Fs(s)!Fits(off, bytes)
  <2>1. mounted
    BY <1>5, DoIsMounted
  <2>2. PICK place : Tree(s, x, place)
    BY <2>1, Mounted
  <2>3. Handle(x, f) /\ x.mem = mem /\ x.disk = disk
    BY <2>1, <2>2, Mounted, BeginIs
  <2>4. PICK st, y, g : \E e \in 0..n : /\ Stored(s, f, st, off, bytes, e) /\ Reached(st, e, n)
                                        /\ Wrote(s, f, st, y, g, off + n) /\ Fs(s)!Leave(y, {g})
    BY <1>5, <2>2, <2>3, FsWriteIs
  <2>5. PICK e \in 0..n : /\ Stored(s, f, st, off, bytes, e) /\ Reached(st, e, n)
                          /\ Wrote(s, f, st, y, g, off + n) /\ Fs(s)!Leave(y, {g})
    BY <2>4
  <2> DEFINE din == st.din
             p == place[f.ino]
  <2>6. Rewritten(s, f, din, y) /\ Handle(y, g) /\ din \in Dinodes
    BY <2>5 DEF Wrote, Stored
  <2>7. y.mem.table[f.ino].mode = "file" /\ mem.table[f.ino].mode = "file"
    BY <2>3, <2>6 DEF Rewritten, Handle
  <2> HIDE DEF din
  <2>8. /\ p \in FsShape[s].files
        /\ Changed(s, y, p, Inside(y, f.ino), {g})
        /\ Shown(s, x, p) = Inside(x, f.ino)
    BY <2>2, <2>3, <2>5, <2>6, RewriteChanges
  <2>9. Promise(s)!Put(Data(disk, mem.table[f.ino]), Data(y.disk, y.mem.table[f.ino]))
    BY <2>2, <2>3, <2>5, WroteIsPut
  <2>10. /\ Inside(x, f.ino) = Regular(Data(disk, mem.table[f.ino]))
         /\ Inside(y, f.ino) = Regular(Data(y.disk, y.mem.table[f.ino]))
    BY <2>3, <2>7 DEF Inside
  <2>11. Alters(s, Shown(s, x, p), Inside(y, f.ino))
    BY <2>8, <2>9, <2>10 DEF Alters
  <2>12. p \in Fs(s)!Paths
    BY <1>0, <2>8
  <2> HIDE DEF p
  <2> QED
    BY <2>8, <2>11, <2>12, ChangedSteps
<1>6. ASSUME NEW f \in file, Fs(s)!fs_truncate(f) PROVE Promise(s)!Step
  <2>1. mounted
    BY <1>6, DoIsMounted
  <2>2. PICK place : Tree(s, x, place)
    BY <2>1, Mounted
  <2>3. Handle(x, f)
    BY <2>1, Mounted
  <2> DEFINE p == place[f.ino]
  <2>4. /\ p \in FsShape[s].files
        /\ \E y, g : Changed(s, y, p, Regular(<<>>), {g})
        /\ Shown(s, x, p) = Inside(x, f.ino)
    BY <1>6, <2>2, <2>3, TruncateIs
  <2>5. Inside(x, f.ino).kind = "file"
    BY <2>3 DEF Handle, Inside, Regular
  <2>6. Alters(s, Shown(s, x, p), Regular(<<>>)) /\ p \in Fs(s)!Paths
    BY <1>0, <2>4, <2>5 DEF Alters
  <2>7. PICK y, g : Changed(s, y, p, Regular(<<>>), {g})
    BY <2>4
  <2> HIDE DEF p
  <2> QED
    BY <2>6, <2>7, ChangedSteps
<1>7. ASSUME NEW f \in file, Fs(s)!fs_close(f) PROVE Promise(s)!Step
  <2>1. disk'[0] = disk[0] /\ Fs(s)!Current' = Fs(s)!Current
    BY <1>7, CloseIs
  <2> QED
    BY <2>1, ViewStays
<1>8. ASSUME Fs(s)!fs_sync PROVE Promise(s)!Step
  BY <1>8, SyncIs, ViewStays
<1>9. ASSUME Fs(s)!fs_port_mount PROVE Promise(s)!Step
  <2>1. CASE disk[0] = Blank
    <3>1. disk'[0] # Blank /\ \A p \in Fs(s)!Paths : Shown(s, Fs(s)!Current', p) = None
      BY <1>9, <2>1, MountIs
    <3>2. \A p \in Fs(s)!Paths : Fs(s)!Seen(p) = None /\ Fs(s)!Seen(p)' = None
      BY <2>1, <3>1, SeenIs
    <3>3. [p \in Fs(s)!Paths |-> Fs(s)!Seen(p)]' = [p \in Fs(s)!Paths |-> Fs(s)!Seen(p)]
      BY <3>2
    <3> QED
      BY <3>3 DEF Promise!Step
  <2>2. CASE disk[0] # Blank
    <3>1. Fs(s)!Current' = Fs(s)!Current /\ disk'[0] = disk[0]
      BY <1>9, <2>2, MountIs DEF Fs!fs_port_mount, Fs!Super
    <3> QED
      BY <3>1, ViewStays
  <2> QED
    BY <2>1, <2>2
<1>10. ASSUME Fs(s)!Reset PROVE Promise(s)!Step
  <2>1. /\ mounted /\ disk'[0] = disk[0]
        /\ \/ Fs(s)!Current' = Fs(s)!Current
           \/ \E f \in file, off \in Offsets, bytes \in Buffers :
                 \E k \in 1..Fs(s)!Fits(off, bytes) : Torn(s, f, off, bytes, k, Fs(s)!Current')
    BY <1>10, ResetIs
  <2>2. CASE Fs(s)!Current' = Fs(s)!Current
    BY <2>1, <2>2, ViewStays
  <2>3. CASE \E f \in file, off \in Offsets, bytes \in Buffers :
                \E k \in 1..Fs(s)!Fits(off, bytes) : Torn(s, f, off, bytes, k, Fs(s)!Current')
    <3> DEFINE y == Fs(s)!Current'
    <3>1. PICK f \in file, off \in Offsets, bytes \in Buffers :
                \E k \in 1..Fs(s)!Fits(off, bytes) : Torn(s, f, off, bytes, k, y)
      BY <2>3
    <3>2. PICK k \in 1..Fs(s)!Fits(off, bytes) : Torn(s, f, off, bytes, k, y)
      BY <3>1
    <3> HIDE DEF y
    <3>3. PICK place : Tree(s, x, place)
      BY <2>1, Mounted
    <3>4. Handle(x, f) /\ disk[0] # Blank /\ Fs(s)!Current = x /\ x.mem = mem /\ x.disk = disk
      BY <2>1, <3>3, Mounted, BeginIs
    <3> DEFINE p == place[f.ino]
    <3>5. PICK st : Rewritten(s, f, st.din, y) /\ st.din \in Dinodes
      BY <3>2 DEF Torn
    <3> DEFINE din == st.din
    <3>6. Rewritten(s, f, din, y) /\ din \in Dinodes
      BY <3>5
    <3> HIDE DEF din
    <3>7. /\ p \in FsShape[s].files
          /\ Shown(s, y, p) = Inside(y, f.ino)
          /\ Shown(s, x, p) = Inside(x, f.ino)
          /\ \A q \in Fs(s)!Paths : q # p => Shown(s, y, q) = Shown(s, x, q)
      BY <3>3, <3>4, <3>6, RewrittenIs
    <3>8. Promise(s)!Put(Data(disk, mem.table[f.ino]), Data(y.disk, y.mem.table[f.ino]))
      BY <3>2, <3>3, <3>4, TornIsPut
    <3>9. /\ Inside(x, f.ino) = Regular(Data(disk, mem.table[f.ino]))
          /\ Inside(y, f.ino) = Regular(Data(y.disk, y.mem.table[f.ino]))
      BY <3>4, <3>6 DEF Inside, Handle, Rewritten
    <3>10. Alters(s, Shown(s, x, p), Shown(s, y, p)) /\ p \in Fs(s)!Paths
      BY <1>0, <3>7, <3>8, <3>9 DEF Alters
    <3> HIDE DEF p
    <3>11. /\ \A q \in Fs(s)!Paths : q # p =>
                 Shown(s, Fs(s)!Current', q) = Shown(s, Fs(s)!Current, q)
           /\ Alters(s, Shown(s, Fs(s)!Current, p), Shown(s, Fs(s)!Current', p))
      BY <3>4, <3>7, <3>10 DEF y
    <3> QED
      BY <2>1, <3>4, <3>10, <3>11, ViewChanges
  <2> QED
    BY <2>1, <2>2, <2>3
<1>11. ASSUME UNCHANGED Fs(s)!vars PROVE Promise(s)!Step
  <2>1. mem' = mem /\ mounted' = mounted /\ disk' = disk
    BY <1>11 DEF Fs!vars
  <2>2. Fs(s)!Current' = Fs(s)!Current
    BY <2>1 DEF Fs!Current, Fs!Saved
  <2> QED
    BY <2>1, <2>2, ViewStays
<1> QED
  BY <1>1, <1>2, <1>3, <1>4, <1>5, <1>6, <1>7, <1>8, <1>9, <1>10, <1>11 DEF Fs!Next, Fs!Operate

\* fs.c implements Files, for every number of inodes, blocks and slots and every set
\* of paths: each operation changes the path it is given and what leads there, each
\* write only the blocks it was asked for, and mounting and fs_sync change nothing;
\* until an operation writes behind the inode table.
THEOREM FilesImplemented ==
    ASSUME NEW s \in DOMAIN FsShape
    PROVE  /\ Fs(s)!Spec => Promise(s)!Spec
           /\ Fs(s)!Spec /\ [](part = s) => ImplementsFiles
<1>1. Fs(s)!Init => Promise(s)!Init
  <2> SUFFICES ASSUME Fs(s)!Init PROVE Promise(s)!Init
    OBVIOUS
  <2>1. disk[0] = Blank
    BY FsInit
  <2>2. \A p : Fs(s)!Seen(p) = None
    BY <2>1, SeenIs
  <2> QED
    BY <2>2 DEF Promise!Init, Promise!Nothing, None
<1>2. FsIInv(s) /\ [Fs(s)!Next]_(Fs(s)!vars) => Promise(s)!Step
  BY PromiseKept
<1>3. FsIInv(s) /\ [Fs(s)!Next]_(Fs(s)!vars)
          => [Promise(s)!Step]_([p \in Fs(s)!Paths |-> Fs(s)!Seen(p)])
  BY <1>2
<1>4. Fs(s)!Spec => Promise(s)!Spec
  BY <1>1, <1>3, FsInvariant, PTL DEF Fs!Spec, Promise!Spec
<1>5. part = s /\ Fs(s)!Init => FilesInit
  BY <1>1 DEF FilesInit
<1>6. part = s /\ FsIInv(s) /\ [Fs(s)!Next]_(Fs(s)!vars)
          => [FilesStep]_<<mem, mounted, disk>>
  BY <1>2 DEF FilesStep
<1>7. Fs(s)!Spec /\ [](part = s) => ImplementsFiles
  BY <1>5, <1>6, FsInvariant, PTL DEF Fs!Spec, ImplementsFiles
<1> QED
  BY <1>4, <1>7
-----------------------------------------------------------------------------
(***************************************************************************)
(* Routes between nodes.                                                   *)
(***************************************************************************)
\* The graph of links: see Ccnet!Assumption.
Links ==
    /\ cost \in [Ccnet!Nodes -> [Ccnet!Nodes -> Nat]]
    /\ \A u, v \in Ccnet!Nodes : u # v => cost[u][v] > 0
    /\ \E most \in 0..INF :
          /\ most * (NodeCount - 1) < INF
          /\ \A u, v \in Ccnet!Nodes : cost[u][v] < INF => cost[u][v] <= most

LEMMA LinksAre ==
    ASSUME cost \in CostMatrices
    PROVE  Links
BY RouteAssumption DEF Ccnet!Assumption, Links

LEMMA RouteConstants ==
    /\ NodeCount \in Nat \ {0} /\ INF \in Nat
    /\ Ccnet!Nodes = 0..(NodeCount - 1)
    /\ IsFiniteSet(Ccnet!Nodes) /\ Cardinality(Ccnet!Nodes) = NodeCount
    /\ \A n \in Ccnet!Nodes : n \in Nat /\ n # Ccnet!NoHop /\ n # -1
<1>1. NodeCount \in Nat \ {0} /\ NodeCount <= 255 /\ INF \in Nat
  BY RouteAssumption DEF Ccnet!Assumption, Ccnet!NoHop
<1>2. Ccnet!Nodes = 0..(NodeCount - 1)
  BY DEF Ccnet!Nodes
<1>3. IsFiniteSet(0..(NodeCount - 1)) /\ Cardinality(0..(NodeCount - 1)) = NodeCount
  <2>1. /\ IsFiniteSet(0..(NodeCount - 1))
        /\ Cardinality(0..(NodeCount - 1)) =
              IF 0 > NodeCount - 1 THEN 0 ELSE (NodeCount - 1) - 0 + 1
    BY <1>1, FS_Interval
  <2> QED
    BY <1>1, <2>1
<1> QED
  BY <1>1, <1>2, <1>3 DEF Ccnet!NoHop

\* More places than nodes: one node is at two of them.
LEMMA Crowded ==
    ASSUME NEW k \in Nat, NEW p \in [1..k -> Ccnet!Nodes],
           \A i, j \in 1..k : p[i] = p[j] => i = j
    PROVE  k <= NodeCount
<1>1. IsFiniteSet(1..k) /\ Cardinality(1..k) = k
  BY InitialInterval
<1>2. k > NodeCount => Cardinality(Ccnet!Nodes) < Cardinality(1..k)
  BY <1>1, RouteConstants
<1>3. ~ \E i, j \in 1..k : i # j /\ p[i] = p[j]
  OBVIOUS
<1>4. ~ (Cardinality(Ccnet!Nodes) < Cardinality(1..k))
  BY <1>1, <1>3, RouteConstants, FS_PigeonHole
<1>5. NodeCount \in Nat
  BY RouteConstants
<1> QED
  BY <1>2, <1>4, <1>5

\* A number cannot fall from node to node more often than there are nodes.
LEMMA Descent ==
    ASSUME NEW c \in [0..NodeCount -> Ccnet!Nodes], NEW g \in [Ccnet!Nodes -> Nat],
           \A i \in 0..(NodeCount - 1) : g[c[i + 1]] < g[c[i]]
    PROVE  FALSE
<1>0. NodeCount \in Nat
  BY RouteConstants
<1> DEFINE N == Ccnet!Nodes
<1>a. \A i \in 0..NodeCount : g[c[i]] \in Nat /\ c[i] \in N
  OBVIOUS
<1> HIDE DEF N
<1> DEFINE T == {i \in Nat : i <= NodeCount => \A j \in 0..(i - 1) : g[c[i]] < g[c[j]]}
<1>1. 0 \in T
  OBVIOUS
<1>2. ASSUME NEW i \in Nat, i \in T PROVE i + 1 \in T
  <2> SUFFICES ASSUME i + 1 <= NodeCount, NEW j \in 0..((i + 1) - 1)
               PROVE  g[c[i + 1]] < g[c[j]]
    OBVIOUS
  <2>0. j \in 0..i /\ i <= NodeCount
    BY <1>0
  <2>6. \A x \in 0..(i - 1) : g[c[i]] < g[c[x]]
    BY <1>2, <2>0
  <2>1. i \in 0..(NodeCount - 1) /\ j \in 0..NodeCount
    BY <1>0, <2>0
  <2>2. g[c[i + 1]] < g[c[i]]
    BY <2>1
  <2>3. i + 1 \in 0..NodeCount /\ i \in 0..NodeCount
    BY <2>1, <1>0
  <2>4. g[c[i + 1]] \in Nat /\ g[c[i]] \in Nat /\ g[c[j]] \in Nat
    BY <1>a, <2>1, <2>3
  <2>5. j = i \/ g[c[i]] < g[c[j]]
    BY <2>0, <2>6
  <2> QED
    BY <2>2, <2>4, <2>5
<1>3. Nat \subseteq T
  <2> HIDE DEF T
  <2> QED
    BY <1>1, <1>2, Induction
<1> DEFINE k == NodeCount + 1
           p == [i \in 1..k |-> c[i - 1]]
<1>4. k \in Nat /\ p \in [1..k -> N]
  <2>1. \A i \in 1..k : i - 1 \in 0..NodeCount
    BY <1>0
  <2> QED
    BY <1>0, <1>a, <2>1
<1>5. ASSUME NEW i \in 1..k, NEW j \in 1..k, i < j PROVE p[i] # p[j]
  <2>1. j - 1 \in T /\ j - 1 <= NodeCount /\ i - 1 \in 0..((j - 1) - 1)
    BY <1>0, <1>3, <1>5
  <2>2. g[c[j - 1]] < g[c[i - 1]]
    BY <2>1
  <2>3. j - 1 \in 0..NodeCount
    BY <1>0
  <2>4. g[c[j - 1]] \in Nat
    BY <1>a, <2>3
  <2>5. c[j - 1] # c[i - 1]
    BY <2>2, <2>4
  <2> QED
    BY <2>5
<1>6. \A i, j \in 1..k : p[i] = p[j] => i = j
  <2> SUFFICES ASSUME NEW i \in 1..k, NEW j \in 1..k, p[i] = p[j], i # j PROVE FALSE
    OBVIOUS
  <2>1. i < j \/ j < i
    BY <1>4
  <2> HIDE DEF p, k
  <2> QED
    BY <1>5, <2>1
<1>7. k <= NodeCount
  <2> HIDE DEF k, p
  <2> QED
    BY <1>4, <1>6, Crowded DEF N
<1> QED
  BY <1>0, <1>7

\* A step that is repeated L times.
Repeats(f, S, x, L, step) ==
    f \in [0..L -> S] /\ f[0] = x /\ \A i \in 0..L : i # 0 => f[i] = step[f[i - 1]]

LEMMA Repeated ==
    ASSUME NEW S, NEW x \in S, NEW L \in Nat, NEW step \in [S -> S]
    PROVE  \E f : Repeats(f, S, x, L, step)
<1>1. PICK f \in [Nat -> S] : f[0] = x /\ \A n \in Nat : f[n + 1] = step[f[n]]
  BY Recursion
<1> DEFINE g == [i \in 0..L |-> f[i]]
<1>2. g \in [0..L -> S] /\ g[0] = x
  BY <1>1
<1>3. ASSUME NEW i \in 0..L, i # 0 PROVE g[i] = step[g[i - 1]]
  <2>1. i - 1 \in Nat /\ i - 1 \in 0..L /\ (i - 1) + 1 = i
    BY <1>3
  <2>2. f[i] = step[f[i - 1]]
    BY <1>1, <2>1
  <2> QED
    BY <2>1, <2>2
<1> HIDE DEF g
<1>4. Repeats(g, S, x, L, step)
  BY <1>2, <1>3 DEF Repeats
<1> QED
  BY <1>4

-----------------------------------------------------------------------------
(***************************************************************************)
(* Dijkstra's algorithm.                                                   *)
(***************************************************************************)
Found == [dist : [Ccnet!Nodes -> 0..INF], prev : [Ccnet!Nodes -> Ccnet!Nodes \cup {-1}],
          visited : SUBSET Ccnet!Nodes]

\* The ways by prev are ways along links, as long as dist says.
Backward(d) ==
    \A v \in Ccnet!Nodes : d.prev[v] # -1 =>
        LET u == d.prev[v]
        IN  /\ u \in Ccnet!Nodes /\ d.dist[u] < d.dist[v]
            /\ cost[u][v] < INF /\ d.dist[v] = d.dist[u] + cost[u][v]

\* What run_dij keeps to, from src.
Sound(d, src) ==
    /\ d \in Found /\ Backward(d)
    /\ d.dist[src] = 0
    /\ \A v \in Ccnet!Nodes : d.prev[v] = -1 => v = src \/ d.dist[v] = INF
    /\ \A v \in Ccnet!Nodes : d.prev[v] \in d.visited \cup {-1}
    /\ \A u \in d.visited : d.dist[u] < INF
    /\ \A u \in d.visited : \A v \in Ccnet!Nodes \ d.visited : d.dist[u] <= d.dist[v]
    /\ \A u \in d.visited : \A v \in Ccnet!Nodes : d.dist[v] <= d.dist[u] + cost[u][v]

\* There is a nearest node among those ahead.
LEMMA NearestIs ==
    ASSUME NEW d \in Found, Ccnet!Ahead(d) # {}
    PROVE  /\ Ccnet!Nearest(d) \in Ccnet!Ahead(d)
           /\ \A v \in Ccnet!Ahead(d) : d.dist[Ccnet!Nearest(d)] <= d.dist[v]
<1> DEFINE A == Ccnet!Ahead(d)
           P(u) == \A v \in A : \/ d.dist[u] < d.dist[v]
                                \/ d.dist[u] = d.dist[v] /\ u <= v
<1>1. /\ A \subseteq Ccnet!Nodes /\ \A u \in A : u \in Nat /\ d.dist[u] \in Nat
  <2>1. A \subseteq Ccnet!Nodes
    BY DEF Ccnet!Ahead
  <2>2. \A u \in Ccnet!Nodes : d.dist[u] \in 0..INF
    BY DEF Found
  <2> QED
    BY <2>1, <2>2, RouteConstants
<1>2. Ccnet!Nearest(d) = CHOOSE u \in A : P(u)
  BY DEF Ccnet!Nearest
<1>3. A # {}
  OBVIOUS
<1> HIDE DEF A
<1>4. \E u \in A : P(u)
  <2> DEFINE R == {d.dist[u] : u \in A}
  <2>1. R \in SUBSET Nat /\ R # {}
    BY <1>1, <1>3
  <2>2. PICK m \in R : \A r \in R : m <= r
    <3> HIDE DEF R
    <3> QED
      BY <2>1, LeastElement
  <2> DEFINE B == {u \in A : d.dist[u] = m}
  <2>3. B \in SUBSET Nat /\ B # {}
    BY <1>1, <2>2
  <2>4. PICK u \in B : \A v \in B : u <= v
    <3> HIDE DEF B
    <3> QED
      BY <2>3, LeastElement
  <2>5. ASSUME NEW v \in A
        PROVE  \/ d.dist[u] < d.dist[v]
               \/ d.dist[u] = d.dist[v] /\ u <= v
    <3>1. m <= d.dist[v] /\ d.dist[u] = m /\ m \in Nat /\ d.dist[v] \in Nat
      BY <1>1, <2>1, <2>2
    <3>2. d.dist[v] = m => u <= v
      BY <2>4
    <3> QED
      BY <3>1, <3>2
  <2> QED
    BY <2>5
<1> DEFINE n == Ccnet!Nearest(d)
<1>5. n \in A /\ P(n)
  <2> HIDE DEF P
  <2> QED
    BY <1>2, <1>4
<1> HIDE DEF n
<1>6. ASSUME NEW v \in A PROVE d.dist[n] <= d.dist[v]
  <2>1. d.dist[n] \in Nat /\ d.dist[v] \in Nat
    BY <1>1, <1>5
  <2> QED
    BY <1>5, <2>1
<1> QED
  BY <1>5, <1>6 DEF n, A

\* What a round does to the distance and the predecessor of a node.
Relaxed(d, u, e) ==
    /\ e.visited = d.visited \cup {u}
    /\ \A v \in Ccnet!Nodes :
          \/ /\ cost[u][v] < INF /\ d.dist[u] + cost[u][v] < d.dist[v]
             /\ e.dist[v] = d.dist[u] + cost[u][v] /\ e.prev[v] = u
          \/ /\ ~ (cost[u][v] < INF /\ d.dist[u] + cost[u][v] < d.dist[v])
             /\ e.dist[v] = d.dist[v] /\ e.prev[v] = d.prev[v]

LEMMA RelaxIs ==
    ASSUME Links, NEW d \in Found, NEW u \in Ccnet!Nodes
    PROVE  Ccnet!relax(d, u) \in Found /\ Relaxed(d, u, Ccnet!relax(d, u))
<1> DEFINE N == Ccnet!Nodes
           near == {v \in N : cost[u][v] < INF /\ d.dist[u] + cost[u][v] < d.dist[v]}
           e == Ccnet!relax(d, u)
<1>1. e = [dist |-> [v \in N |-> IF v \in near THEN d.dist[u] + cost[u][v] ELSE d.dist[v]],
           prev |-> [v \in N |-> IF v \in near THEN u ELSE d.prev[v]],
           visited |-> d.visited \cup {u}]
  BY DEF Ccnet!relax
<1>2. /\ d.dist \in [N -> 0..INF] /\ d.prev \in [N -> N \cup {-1}] /\ d.visited \subseteq N
      /\ INF \in Nat
  BY RouteConstants DEF Found
<1>3. \A v \in N : cost[u][v] \in Nat /\ d.dist[v] \in 0..INF
  BY <1>2 DEF Links
<1> HIDE DEF N
<1>4. \A v \in near : d.dist[u] + cost[u][v] \in 0..INF
  BY <1>2, <1>3 DEF N
<1> HIDE DEF near, e
<1>5. e.dist \in [N -> 0..INF] /\ e.prev \in [N -> N \cup {-1}] /\ e.visited \subseteq N
  BY <1>1, <1>2, <1>4 DEF N
<1>6. e \in [dist : [N -> 0..INF], prev : [N -> N \cup {-1}], visited : SUBSET N]
  BY <1>1, <1>5
<1>7. ASSUME NEW v \in N
      PROVE  \/ /\ cost[u][v] < INF /\ d.dist[u] + cost[u][v] < d.dist[v]
                /\ e.dist[v] = d.dist[u] + cost[u][v] /\ e.prev[v] = u
             \/ /\ ~ (cost[u][v] < INF /\ d.dist[u] + cost[u][v] < d.dist[v])
                /\ e.dist[v] = d.dist[v] /\ e.prev[v] = d.prev[v]
  <2>1. CASE v \in near
    BY <1>1, <2>1 DEF near
  <2>2. CASE v \notin near
    BY <1>1, <2>2 DEF near
  <2> QED
    BY <2>1, <2>2
<1> QED
  BY <1>1, <1>6, <1>7 DEF Relaxed, Found, N, e

\* A round keeps the promises.
LEMMA VisitSound ==
    ASSUME Links, NEW src \in Ccnet!Nodes, NEW d, Sound(d, src), Ccnet!Ahead(d) # {}
    PROVE  LET u == Ccnet!Nearest(d)
           IN  /\ Sound(Ccnet!relax(d, u), src)
               /\ u \in Ccnet!Nodes \ d.visited
               /\ Ccnet!relax(d, u).visited = d.visited \cup {u}
<1> DEFINE N == Ccnet!Nodes
           u == Ccnet!Nearest(d)
           e == Ccnet!relax(d, u)
<1>1. d \in Found
  BY DEF Sound
<1>2. u \in Ccnet!Ahead(d) /\ \A v \in Ccnet!Ahead(d) : d.dist[u] <= d.dist[v]
  BY <1>1, NearestIs
<1> HIDE DEF u
<1>3. u \in N \ d.visited /\ d.dist[u] < INF
  BY <1>2 DEF Ccnet!Ahead
<1>4. e \in Found /\ Relaxed(d, u, e)
  BY <1>1, <1>3, RelaxIs
<1> HIDE DEF e
<1>5. /\ \A v \in N : d.dist[v] \in 0..INF /\ e.dist[v] \in 0..INF
      /\ \A v, w \in N : cost[v][w] \in Nat
      /\ INF \in Nat /\ d.visited \subseteq N /\ -1 \notin N
      /\ \A v \in N : d.prev[v] \in N \cup {-1}
  <2>1. INF \in Nat /\ -1 \notin N
    BY RouteConstants
  <2> HIDE DEF N
  <2>2. \A v, w \in N : cost[v][w] \in Nat
    BY DEF Links, N
  <2>3. /\ d.dist \in [N -> 0..INF] /\ d.prev \in [N -> N \cup {-1}] /\ d.visited \subseteq N
        /\ e.dist \in [N -> 0..INF]
    BY <1>1, <1>4 DEF Found, N
  <2> QED
    BY <2>1, <2>2, <2>3
<1>6. \A v \in N \ d.visited : d.dist[u] <= d.dist[v]
  <2> SUFFICES ASSUME NEW v \in N \ d.visited PROVE d.dist[u] <= d.dist[v]
    OBVIOUS
  <2>1. v \in Ccnet!Ahead(d) \/ d.dist[v] = INF
    BY <1>5 DEF Ccnet!Ahead
  <2> QED
    BY <1>2, <1>3, <1>5, <2>1
<1> DEFINE Closer(v) == cost[u][v] < INF /\ d.dist[u] + cost[u][v] < d.dist[v]
<1>7. \A v \in N : /\ Closer(v) => e.dist[v] = d.dist[u] + cost[u][v] /\ e.prev[v] = u
                   /\ ~Closer(v) => e.dist[v] = d.dist[v] /\ e.prev[v] = d.prev[v]
  BY <1>4 DEF Relaxed
\* Those visited, and u, were as close before.
<1>8. \A w \in d.visited \cup {u} : ~Closer(w) /\ e.dist[w] = d.dist[w] /\ d.dist[w] <= d.dist[u]
  <2> SUFFICES ASSUME NEW w \in d.visited \cup {u}
               PROVE  ~Closer(w) /\ d.dist[w] <= d.dist[u]
    BY <1>3, <1>5, <1>7
  <2>1. w \in N /\ d.dist[w] \in Nat /\ d.dist[u] \in Nat /\ cost[u][w] \in Nat
    BY <1>3, <1>5
  <2>2. d.dist[w] <= d.dist[u]
    BY <1>3, <2>1 DEF Sound
  <2> QED
    BY <2>1, <2>2
<1>9. e.visited = d.visited \cup {u}
  BY <1>4 DEF Relaxed
<1>10. Backward(e)
  <2> SUFFICES ASSUME NEW v \in N, e.prev[v] # -1
               PROVE  LET x == e.prev[v]
                      IN  /\ x \in N /\ e.dist[x] < e.dist[v]
                          /\ cost[x][v] < INF /\ e.dist[v] = e.dist[x] + cost[x][v]
    BY DEF Backward
  <2>1. CASE Closer(v)
    <3>1. e.prev[v] = u /\ e.dist[v] = d.dist[u] + cost[u][v] /\ cost[u][v] < INF
      BY <1>7, <2>1
    <3>2. e.dist[u] = d.dist[u] /\ v # u
      BY <1>8, <2>1
    <3>3. cost[u][v] > 0 /\ cost[u][v] \in Nat /\ d.dist[u] \in Nat
      BY <1>3, <1>5, <3>2 DEF Links
    <3> QED
      BY <1>3, <3>1, <3>2, <3>3
  <2>2. CASE ~Closer(v)
    <3>1. e.prev[v] = d.prev[v] /\ e.dist[v] = d.dist[v]
      BY <1>7, <2>2
    <3> DEFINE x == d.prev[v]
    <3>2. x \in N /\ d.dist[x] < d.dist[v] /\ cost[x][v] < INF
          /\ d.dist[v] = d.dist[x] + cost[x][v]
      BY <3>1 DEF Sound, Backward
    <3>3. x \in d.visited
      BY <3>1 DEF Sound
    <3>4. e.dist[x] = d.dist[x]
      BY <1>8, <3>3
    <3> QED
      BY <3>1, <3>2, <3>4
  <2> QED
    BY <2>1, <2>2
<1>11. e.dist[src] = 0
  <2>1. d.dist[src] = 0
    BY DEF Sound
  <2>2. ~Closer(src)
    BY <1>3, <1>5, <2>1
  <2> QED
    BY <1>7, <2>1, <2>2
<1>12. ASSUME NEW v \in N, e.prev[v] = -1 PROVE v = src \/ e.dist[v] = INF
  <2>1. ~Closer(v)
    BY <1>3, <1>5, <1>7, <1>12
  <2>2. d.prev[v] = -1 /\ e.dist[v] = d.dist[v]
    BY <1>7, <1>12, <2>1
  <2> QED
    BY <2>2 DEF Sound
<1>13. ASSUME NEW v \in N PROVE e.prev[v] \in e.visited \cup {-1}
  <2>1. d.prev[v] \in d.visited \cup {-1}
    BY DEF Sound
  <2> QED
    BY <1>7, <1>9, <2>1
<1>14. ASSUME NEW w \in e.visited PROVE e.dist[w] < INF
  <2>1. w \in d.visited \/ w = u
    BY <1>9
  <2>2. d.dist[w] < INF
    BY <1>3, <2>1 DEF Sound
  <2> QED
    BY <1>8, <2>1, <2>2
<1>15. ASSUME NEW w \in e.visited, NEW v \in N \ e.visited PROVE e.dist[w] <= e.dist[v]
  <2>1. e.dist[w] = d.dist[w] /\ d.dist[w] <= d.dist[u]
    BY <1>8, <1>9
  <2>2. w \in N /\ d.dist[w] \in Nat /\ d.dist[u] \in Nat /\ d.dist[v] \in Nat
        /\ cost[u][v] \in Nat
    BY <1>3, <1>5, <1>9
  <2>3. d.dist[u] <= e.dist[v]
    <3>1. CASE Closer(v)
      BY <1>7, <2>2, <3>1
    <3>2. CASE ~Closer(v)
      BY <1>6, <1>7, <1>9, <3>2
    <3> QED
      BY <3>1, <3>2
  <2>4. e.dist[v] \in Nat
    BY <1>5
  <2> QED
    BY <2>1, <2>2, <2>3, <2>4
<1>16. ASSUME NEW w \in e.visited, NEW v \in N PROVE e.dist[v] <= e.dist[w] + cost[w][v]
  <2>1. /\ w \in N /\ w \in d.visited \cup {u} /\ e.dist[w] = d.dist[w]
    BY <1>3, <1>5, <1>8, <1>9
  <2>2. /\ d.dist[w] \in Nat /\ d.dist[u] \in Nat /\ d.dist[v] \in 0..INF /\ INF \in Nat
        /\ cost[u][v] \in Nat /\ cost[w][v] \in Nat
    BY <1>3, <1>5, <2>1
  <2>3. e.dist[v] <= d.dist[v]
    BY <1>7, <2>2
  <2>4. CASE w = u
    <3>1. CASE cost[u][v] < INF
      BY <1>7, <2>1, <2>2, <2>4, <3>1
    <3>2. CASE ~ (cost[u][v] < INF)
      BY <1>7, <2>1, <2>2, <2>4, <3>2
    <3> QED
      BY <3>1, <3>2
  <2>5. CASE w \in d.visited
    <3>1. d.dist[v] <= d.dist[w] + cost[w][v]
      BY <2>5 DEF Sound
    <3>2. e.dist[v] \in Nat
      BY <1>5
    <3> QED
      BY <2>1, <2>2, <2>3, <3>1, <3>2
  <2> QED
    BY <2>1, <2>4, <2>5
<1>17. Sound(e, src)
  BY <1>4, <1>10, <1>11, <1>12, <1>13, <1>14, <1>15, <1>16 DEF Sound
<1> QED
  BY <1>3, <1>9, <1>17 DEF u, e

\* What run_dij finds from src: the shortest ways.
Shortest(d, src) ==
    /\ Sound(d, src)
    /\ \A u, v \in Ccnet!Nodes : d.dist[v] <= d.dist[u] + cost[u][v]

\* With nothing ahead, nothing can become shorter.
LEMMA NothingAhead ==
    ASSUME Links, NEW src \in Ccnet!Nodes, NEW d, Sound(d, src), Ccnet!Ahead(d) = {}
    PROVE  Shortest(d, src)
<1> SUFFICES ASSUME NEW u \in Ccnet!Nodes, NEW v \in Ccnet!Nodes
             PROVE  d.dist[v] <= d.dist[u] + cost[u][v]
  BY DEF Shortest
<1>1. d.dist[u] \in 0..INF /\ d.dist[v] \in 0..INF /\ INF \in Nat /\ cost[u][v] \in Nat
  <2>1. INF \in Nat
    BY RouteConstants
  <2>2. d.dist \in [Ccnet!Nodes -> 0..INF]
    BY DEF Sound, Found
  <2>3. cost[u][v] \in Nat
    BY DEF Links
  <2> QED
    BY <2>1, <2>2, <2>3
<1>2. CASE u \in d.visited
  BY <1>2 DEF Sound
<1>3. CASE u \notin d.visited
  <2>1. ~ (d.dist[u] < INF)
    BY <1>3 DEF Ccnet!Ahead
  <2> QED
    BY <1>1, <2>1
<1> QED
  BY <1>2, <1>3

LEMMA StartSound ==
    ASSUME Links, NEW src \in Ccnet!Nodes
    PROVE  /\ Ccnet!unvisited(src) \in Found /\ Sound(Ccnet!unvisited(src), src)
           /\ Ccnet!unvisited(src).visited = {}
<1> DEFINE N == Ccnet!Nodes
           d == Ccnet!unvisited(src)
<1>1. d = [dist |-> [v \in N |-> IF v = src THEN 0 ELSE INF],
           prev |-> [v \in N |-> -1], visited |-> {}]
  BY DEF Ccnet!unvisited
<1>2. INF \in Nat /\ src \in N
  BY RouteConstants
<1> HIDE DEF N, d
<1>3. d.dist \in [N -> 0..INF] /\ d.prev \in [N -> N \cup {-1}] /\ d.visited = {}
  BY <1>1, <1>2
<1>4. d.dist[src] = 0 /\ \A v \in N : d.prev[v] = -1 /\ (v = src \/ d.dist[v] = INF)
  BY <1>1, <1>2
<1>5. d \in Found
  BY <1>1, <1>3 DEF Found, N
<1> QED
  BY <1>3, <1>4, <1>5 DEF Sound, Backward, N, d

\* After as many rounds as there are nodes, there is nothing ahead.
LEMMA DijkstraIs ==
    ASSUME Links, NEW src \in Ccnet!Nodes
    PROVE  Shortest(Ccnet!run_dij(src), src)
<1> DEFINE S == {d \in Found : Sound(d, src)}
           x == Ccnet!unvisited(src)
           Round(d) == IF Ccnet!Ahead(d) = {} THEN d
                       ELSE Ccnet!relax(d, Ccnet!Nearest(d))
           step == [d \in S |-> Round(d)]
           Rounds(f) == f = [i \in 0..NodeCount |-> IF i = 0 THEN x ELSE Round(f[i - 1])]
           rounds == CHOOSE f : Rounds(f)
<1>1. Ccnet!run_dij(src) = rounds[NodeCount]
  BY DEF Ccnet!run_dij
<1>2. x \in S
  BY StartSound
<1>3. \A d \in S : Round(d) \in S
  <2> SUFFICES ASSUME NEW d \in S PROVE Round(d) \in S
    OBVIOUS
  <2>1. CASE Ccnet!Ahead(d) = {}
    BY <2>1
  <2>2. CASE Ccnet!Ahead(d) # {}
    <3>1. Sound(Ccnet!relax(d, Ccnet!Nearest(d)), src)
      BY <2>2, VisitSound
    <3>2. Ccnet!relax(d, Ccnet!Nearest(d)) \in Found
      BY <3>1 DEF Sound
    <3> QED
      BY <2>2, <3>1, <3>2
  <2> QED
    BY <2>1, <2>2
<1>4. NodeCount \in Nat
  BY RouteConstants
<1>5. step \in [S -> S]
  <2> HIDE DEF S, Round
  <2> QED
    BY <1>3
<1>6. \E f : Rounds(f)
  <2> DEFINE L == NodeCount
  <2>4. PICK f : Repeats(f, S, x, L, step)
    <3> HIDE DEF S, x, step, L
    <3> QED
      BY <1>2, <1>4, <1>5, Repeated DEF L
  <2> HIDE DEF S, x, step
  <2>1. f \in [0..NodeCount -> S] /\ f[0] = x
        /\ \A i \in 0..NodeCount : i # 0 => f[i] = step[f[i - 1]]
    BY <2>4 DEF Repeats
  <2> HIDE DEF Round
  <2>2. \A i \in 0..NodeCount : f[i] = IF i = 0 THEN x ELSE Round(f[i - 1])
    <3> SUFFICES ASSUME NEW i \in 0..NodeCount, i # 0 PROVE f[i] = Round(f[i - 1])
      BY <2>1
    <3>1. i - 1 \in 0..NodeCount
      BY <1>4
    <3>2. f[i - 1] \in S
      BY <2>1, <3>1
    <3> QED
      BY <2>1, <3>2 DEF step
  <2>3. f = [i \in 0..NodeCount |-> f[i]]
    BY <2>1
  <2> QED
    BY <2>2, <2>3
<1> HIDE DEF step
<1>7. Rounds(rounds)
  <2> HIDE DEF Rounds
  <2> QED
    BY <1>6
<1> HIDE DEF rounds
<1>8. /\ rounds[0] = x
      /\ \A i \in 0..NodeCount : i # 0 => rounds[i] = Round(rounds[i - 1])
  <2> HIDE DEF Round, x
  <2> QED
    BY <1>4, <1>7
\* A node is visited in each round, or there is nothing ahead.
<1> DEFINE T == {i \in Nat : i <= NodeCount =>
                    /\ rounds[i] \in S
                    /\ \/ Ccnet!Ahead(rounds[i]) = {}
                       \/ Cardinality(rounds[i].visited) = i}
<1>9. 0 \in T
  <2>1. Cardinality({}) = 0
    BY FS_EmptySet
  <2>2. x.visited = {}
    BY StartSound
  <2> HIDE DEF S, x
  <2> QED
    BY <1>2, <1>8, <2>1, <2>2
<1>10. ASSUME NEW i \in Nat, i \in T PROVE i + 1 \in T
  <2> SUFFICES ASSUME i + 1 <= NodeCount
               PROVE  /\ rounds[i + 1] \in S
                      /\ \/ Ccnet!Ahead(rounds[i + 1]) = {}
                         \/ Cardinality(rounds[i + 1].visited) = i + 1
    OBVIOUS
  <2> DEFINE d == rounds[i]
  <2>1. i + 1 \in 0..NodeCount /\ i + 1 # 0 /\ (i + 1) - 1 = i /\ i <= NodeCount
    BY <1>4
  <2>2. rounds[i + 1] = Round(d)
    <3> HIDE DEF Round
    <3> QED
      BY <1>8, <2>1
  <2>3. d \in S /\ (Ccnet!Ahead(d) = {} \/ Cardinality(d.visited) = i)
    <3> HIDE DEF S
    <3> QED
      BY <1>10, <2>1
  <2> HIDE DEF d
  <2>4. Round(d) \in S
    <3> HIDE DEF Round, S
    <3> QED
      BY <1>3, <2>3
  <2>5. CASE Ccnet!Ahead(d) = {}
    BY <2>2, <2>4, <2>5
  <2>6. CASE Ccnet!Ahead(d) # {}
    <3> DEFINE u == Ccnet!Nearest(d)
               e == Ccnet!relax(d, u)
    <3>1. u \in Ccnet!Nodes \ d.visited /\ e.visited = d.visited \cup {u}
      BY <2>3, <2>6, VisitSound
    <3>2. d.visited \subseteq Ccnet!Nodes
      BY <2>3 DEF Found
    <3>3. Round(d) = e
      BY <2>6
    <3> HIDE DEF u, e
    <3>4. IsFiniteSet(d.visited)
      BY <3>2, RouteConstants, FS_Subset
    <3>5. Cardinality(d.visited \cup {u}) = Cardinality(d.visited) + 1
      BY <3>1, <3>4, FS_AddElement
    <3> HIDE DEF S, Round
    <3> QED
      BY <2>2, <2>3, <2>4, <2>6, <3>1, <3>3, <3>5
  <2> QED
    BY <2>5, <2>6
<1>11. NodeCount \in T
  <2> HIDE DEF T
  <2> QED
    BY <1>4, <1>9, <1>10, Induction
<1> DEFINE d == rounds[NodeCount]
<1>12. d \in S /\ (Ccnet!Ahead(d) = {} \/ Cardinality(d.visited) = NodeCount)
  <2> HIDE DEF S
  <2> QED
    BY <1>4, <1>11
<1> HIDE DEF d
<1>13. Ccnet!Ahead(d) = {}
  <2> SUFFICES ASSUME Cardinality(d.visited) = NodeCount PROVE Ccnet!Ahead(d) = {}
    BY <1>12
  <2>1. d.visited \subseteq Ccnet!Nodes
    BY <1>12 DEF Found
  <2>2. d.visited = Ccnet!Nodes
    BY <2>1, RouteConstants, FS_Subset
  <2> QED
    BY <2>2 DEF Ccnet!Ahead
<1>14. Sound(d, src)
  BY <1>12
<1> QED
  BY <1>1, <1>13, <1>14, NothingAhead DEF d

-----------------------------------------------------------------------------
(***************************************************************************)
(* The tables.                                                             *)
(***************************************************************************)
\* How far v is from u, by the graph that all the nodes know.
Far(u, v) == Ccnet!run_dij(u).dist[v]

LEMMA FarIs ==
    ASSUME Links, NEW u \in Ccnet!Nodes, NEW v \in Ccnet!Nodes
    PROVE  /\ Far(u, v) \in 0..INF /\ Far(u, v) \in Nat /\ Far(u, u) = 0
           /\ \A w \in Ccnet!Nodes : Far(u, w) <= Far(u, v) + cost[v][w]
<1> DEFINE d == Ccnet!run_dij(u)
<1>1. Shortest(d, u)
  BY DijkstraIs
<1> HIDE DEF d
<1>2. d.dist \in [Ccnet!Nodes -> 0..INF] /\ d.dist[u] = 0
  BY <1>1 DEF Shortest, Sound, Found
<1>3. \A w \in Ccnet!Nodes : d.dist[w] <= d.dist[v] + cost[v][w]
  BY <1>1 DEF Shortest
<1> QED
  BY <1>2, <1>3, RouteConstants DEF Far, d

\* The first hop from src to another node is over a link, and from there it is
\* nearer by what the link costs.
LEMMA HopIs ==
    ASSUME Links, NEW src \in Ccnet!Nodes, NEW dst \in Ccnet!Nodes, src # dst,
           Far(src, dst) < INF
    PROVE  LET h == Ccnet!table(src)[dst]
           IN  /\ h \in Ccnet!Nodes /\ h # src /\ cost[src][h] < INF
               /\ Far(h, dst) + cost[src][h] <= Far(src, dst)
<1> DEFINE N == Ccnet!Nodes
           d == Ccnet!run_dij(src)
           Back(c) == IF d.prev[c] \in {src, -1} THEN c ELSE d.prev[c]
           S == {c \in N : /\ c # src /\ d.dist[c] < INF
                           /\ \A x \in N : Far(x, dst) + d.dist[c] <= d.dist[dst] + Far(x, c)}
           step == [c \in S |-> Back(c)]
           Curs(f) == f = [i \in 0..NodeCount |-> IF i = 0 THEN dst ELSE Back(f[i - 1])]
           cur == CHOOSE f : Curs(f)
           h == cur[NodeCount]
<1>1. Ccnet!table(src)[dst] = IF d.dist[dst] >= INF \/ d.prev[h] = -1 THEN Ccnet!NoHop ELSE h
  BY DEF Ccnet!table, Ccnet!next_hop_from_dij
<1>2. Sound(d, src)
  BY DijkstraIs DEF Shortest
<1>3. NodeCount \in Nat /\ INF \in Nat /\ src # -1 /\ d.dist[dst] = Far(src, dst)
  BY RouteConstants DEF Far
<1> HIDE DEF d
<1>4. d.dist \in [N -> 0..INF] /\ d.prev \in [N -> N \cup {-1}] /\ d.dist[src] = 0
  BY <1>2 DEF Sound, Found
\* Where prev leads to.
<1>5. ASSUME NEW c \in N, c # src, d.dist[c] < INF
      PROVE  /\ d.prev[c] \in N /\ d.prev[c] # -1
             /\ d.dist[d.prev[c]] \in Nat /\ d.dist[d.prev[c]] < d.dist[c]
             /\ cost[d.prev[c]][c] < INF /\ cost[d.prev[c]][c] \in Nat
             /\ d.dist[c] = d.dist[d.prev[c]] + cost[d.prev[c]][c]
  <2>1. d.prev[c] # -1
    BY <1>3, <1>5, <1>2 DEF Sound
  <2> DEFINE p == d.prev[c]
  <2>2. /\ p \in N /\ d.dist[p] < d.dist[c] /\ cost[p][c] < INF
        /\ d.dist[c] = d.dist[p] + cost[p][c]
    BY <1>2, <2>1 DEF Sound, Backward
  <2>3. d.dist[p] \in Nat /\ cost[p][c] \in Nat
    BY <1>4, <2>2 DEF Links
  <2> QED
    BY <2>1, <2>2, <2>3
<1>6. dst \in S
  <2>1. \A x \in N : Far(x, dst) \in Nat
    BY FarIs
  <2>2. d.dist[dst] \in Nat
    BY <1>4
  <2> QED
    BY <1>3, <2>1, <2>2 DEF S
<1>7. \A c \in S : Back(c) \in S
  <2> SUFFICES ASSUME NEW c \in S, d.prev[c] # src, d.prev[c] # -1
               PROVE  d.prev[c] \in S
    OBVIOUS
  <2> DEFINE p == d.prev[c]
  <2>1. /\ p \in N /\ d.dist[p] \in Nat /\ d.dist[p] < d.dist[c]
        /\ cost[p][c] \in Nat /\ d.dist[c] = d.dist[p] + cost[p][c]
        /\ c \in N /\ d.dist[c] < INF
    BY <1>5
  <2> HIDE DEF p
  <2>2. ASSUME NEW x \in N PROVE Far(x, dst) + d.dist[p] <= d.dist[dst] + Far(x, p)
    <3>1. /\ Far(x, c) <= Far(x, p) + cost[p][c]
          /\ Far(x, c) \in Nat /\ Far(x, p) \in Nat /\ Far(x, dst) \in Nat
      BY <2>1, FarIs
    <3>2. Far(x, dst) + d.dist[c] <= d.dist[dst] + Far(x, c)
      OBVIOUS
    <3>3. d.dist[dst] \in Nat
      BY <1>4
    <3> QED
      BY <2>1, <3>1, <3>2, <3>3
  <2>3. p # src /\ d.dist[p] < INF
    BY <1>3, <2>1 DEF p
  <2> QED
    BY <2>1, <2>2, <2>3 DEF p
<1>8. step \in [S -> S]
  <2> HIDE DEF S, Back
  <2> QED
    BY <1>7
<1>9. \E f : Curs(f)
  <2> DEFINE L == NodeCount
  <2>1. PICK f : Repeats(f, S, dst, L, step)
    <3> HIDE DEF S, step, L
    <3> QED
      BY <1>3, <1>6, <1>8, Repeated DEF L
  <2> HIDE DEF S, Back, step
  <2>2. f \in [0..NodeCount -> S] /\ f[0] = dst
        /\ \A i \in 0..NodeCount : i # 0 => f[i] = step[f[i - 1]]
    BY <2>1 DEF Repeats
  <2>3. \A i \in 0..NodeCount : f[i] = IF i = 0 THEN dst ELSE Back(f[i - 1])
    <3> SUFFICES ASSUME NEW i \in 0..NodeCount, i # 0 PROVE f[i] = Back(f[i - 1])
      BY <2>2
    <3>1. i - 1 \in 0..NodeCount
      BY <1>3
    <3>2. f[i - 1] \in S
      BY <2>2, <3>1
    <3> QED
      BY <2>2, <3>2 DEF step
  <2>4. f = [i \in 0..NodeCount |-> f[i]]
    BY <2>2
  <2> QED
    BY <2>3, <2>4
<1> HIDE DEF step
<1>10. Curs(cur)
  <2> HIDE DEF Curs
  <2> QED
    BY <1>9
<1> HIDE DEF cur
<1>11. cur[0] = dst /\ \A i \in 0..(NodeCount - 1) : cur[i + 1] = Back(cur[i])
  <2> HIDE DEF Back
  <2>1. cur[0] = dst /\ \A i \in 0..NodeCount : i # 0 => cur[i] = Back(cur[i - 1])
    BY <1>3, <1>10
  <2> SUFFICES ASSUME NEW i \in 0..(NodeCount - 1) PROVE cur[i + 1] = Back(cur[i])
    BY <2>1
  <2>2. i + 1 \in 0..NodeCount /\ i + 1 # 0 /\ (i + 1) - 1 = i
    BY <1>3
  <2> QED
    BY <2>1, <2>2
<1>12. \A i \in 0..NodeCount : cur[i] \in S
  <2> DEFINE T == {i \in Nat : i <= NodeCount => cur[i] \in S}
  <2> HIDE DEF S, Back
  <2>1. 0 \in T
    BY <1>6, <1>11
  <2>2. ASSUME NEW i \in Nat, i \in T PROVE i + 1 \in T
    <3> SUFFICES ASSUME i + 1 <= NodeCount PROVE cur[i + 1] \in S
      OBVIOUS
    <3>1. i \in 0..(NodeCount - 1) /\ i <= NodeCount
      BY <1>3
    <3> QED
      BY <1>7, <1>11, <2>2, <3>1
  <2>3. Nat \subseteq T
    <3> HIDE DEF T
    <3> QED
      BY <2>1, <2>2, Induction
  <2> QED
    BY <1>3, <2>3
<1>13. cur = [i \in 0..NodeCount |-> cur[i]]
  <2> HIDE DEF Back
  <2> QED
    BY <1>10
\* The way back ends at src: it is shorter with every step.
<1>14. d.prev[h] = src
  <2> SUFFICES ASSUME d.prev[h] # src PROVE FALSE
    OBVIOUS
  <2> HIDE DEF h
  <2>1. \A i \in 0..NodeCount : d.prev[cur[i]] # src
    <3> SUFFICES ASSUME NEW k \in 0..NodeCount, d.prev[cur[k]] = src PROVE FALSE
      OBVIOUS
    <3> DEFINE T == {i \in Nat : k + i <= NodeCount => cur[k + i] = cur[k]}
    <3>1. 0 \in T
      OBVIOUS
    <3>2. ASSUME NEW i \in Nat, i \in T PROVE i + 1 \in T
      <4> SUFFICES ASSUME k + (i + 1) <= NodeCount PROVE cur[k + (i + 1)] = cur[k]
        OBVIOUS
      <4>1. /\ k + i \in 0..(NodeCount - 1) /\ k + i <= NodeCount
            /\ k + (i + 1) = (k + i) + 1
        BY <1>3
      <4>2. cur[k + i] = cur[k]
        BY <3>2, <4>1
      <4>3. cur[(k + i) + 1] = Back(cur[k + i])
        BY <1>11, <4>1
      <4> QED
        BY <4>1, <4>2, <4>3
    <3>3. Nat \subseteq T
      <4> HIDE DEF T
      <4> QED
        BY <3>1, <3>2, Induction
    <3>4. NodeCount - k \in Nat /\ k + (NodeCount - k) = NodeCount
      BY <1>3
    <3>5. cur[NodeCount] = cur[k]
      BY <3>3, <3>4
    <3> QED
      BY <3>5 DEF h
  <2> DEFINE g == d.dist
  <2>2. g \in [N -> Nat]
    BY <1>3, <1>4
  <2>3. cur \in [0..NodeCount -> N]
    BY <1>12, <1>13
  <2>4. ASSUME NEW i \in 0..(NodeCount - 1) PROVE g[cur[i + 1]] < g[cur[i]]
    <3>1. i \in 0..NodeCount
      BY <1>3
    <3>2. cur[i] \in N /\ cur[i] # src /\ d.dist[cur[i]] < INF
      BY <1>12, <3>1
    <3>3. d.prev[cur[i]] # -1 /\ g[d.prev[cur[i]]] < g[cur[i]]
      BY <1>5, <3>2
    <3>4. cur[i + 1] = d.prev[cur[i]]
      BY <1>11, <2>1, <3>1, <3>3
    <3> QED
      BY <3>3, <3>4
  <2> HIDE DEF g
  <2> QED
    BY <2>2, <2>3, <2>4, Descent DEF N
<1>15. h \in S
  BY <1>3, <1>12
<1> HIDE DEF h
<1>16. h \in N /\ h # src /\ d.dist[h] < INF
       /\ Far(h, dst) + d.dist[h] <= d.dist[dst] + Far(h, h)
  BY <1>15
<1>17. cost[src][h] < INF /\ d.dist[h] = cost[src][h]
  BY <1>4, <1>5, <1>14, <1>16
<1>18. Far(h, h) = 0 /\ Far(h, dst) \in Nat /\ d.dist[dst] \in Nat
  BY <1>4, <1>16, FarIs
<1>19. Ccnet!table(src)[dst] = h
  BY <1>1, <1>3, <1>4, <1>14
<1> QED
  BY <1>3, <1>16, <1>17, <1>18, <1>19, SMTT(30)

\* A node that cannot be reached has no hop, and the own one is the hop.
LEMMA NoHopIs ==
    ASSUME Links, NEW src \in Ccnet!Nodes, NEW dst \in Ccnet!Nodes
    PROVE  /\ src = dst => Ccnet!table(src)[dst] = src
           /\ src # dst /\ ~ (Far(src, dst) < INF) => Ccnet!table(src)[dst] = Ccnet!NoHop
<1>1. src = dst => Ccnet!table(src)[dst] = src
  BY DEF Ccnet!table, Ccnet!next_hop_from_dij
<1>2. Far(src, dst) \in Nat /\ INF \in Nat
  BY FarIs, RouteConstants
<1>3. src # dst /\ Far(src, dst) >= INF => Ccnet!table(src)[dst] = Ccnet!NoHop
  BY DEF Ccnet!table, Ccnet!next_hop_from_dij, Far
<1> QED
  BY <1>1, <1>2, <1>3

\* The length of a path adds up from link to link.
LengthFrom(f, p, k) ==
    /\ f \in [0..k -> Nat] /\ f[0] = 0 /\ Ccnet!Length(p) = f[k]
    /\ \A i \in 0..(k - 1) : f[i + 1] = f[i] + cost[p[i + 1]][p[i + 2]]

Adding(f, w, k) == f = [i \in 0..k |-> IF i = 0 THEN 0 ELSE f[i - 1] + w[i]]
Added(f, w, k) == /\ f \in [0..k -> Nat] /\ f[0] = 0
                  /\ \A i \in 0..(k - 1) : f[i + 1] = f[i] + w[i + 1]

LEMMA AddsUp ==
    ASSUME NEW k \in Nat, NEW w, \A i \in 1..k : w[i] \in Nat
    PROVE  (\E f : Adding(f, w, k)) /\ \A f : Adding(f, w, k) => Added(f, w, k)
BY AddingUp DEF Adding, Added

LEMMA LengthIs ==
    ASSUME Links, NEW p \in Seq(Ccnet!Nodes), Len(p) > 0
    PROVE  \E f : LengthFrom(f, p, Len(p) - 1)
<1> DEFINE k == Len(p) - 1
           w == [i \in 1..k |-> cost[p[i]][p[i + 1]]]
           Upto(f) == f = [i \in 0..k |-> IF i = 0 THEN 0 ELSE f[i - 1] + cost[p[i]][p[i + 1]]]
           upto == CHOOSE f : Upto(f)
<1>1. Ccnet!Length(p) = upto[k]
  BY DEF Ccnet!Length
<1>2. Len(p) \in Nat /\ k \in Nat
  OBVIOUS
<1>3. \A i \in 1..k : w[i] \in Nat
  <2> SUFFICES ASSUME NEW i \in 1..k PROVE cost[p[i]][p[i + 1]] \in Nat
    OBVIOUS
  <2>1. i \in 1..Len(p) /\ i + 1 \in 1..Len(p)
    BY <1>2
  <2>2. p[i] \in Ccnet!Nodes /\ p[i + 1] \in Ccnet!Nodes
    BY <2>1
  <2> QED
    BY <2>2 DEF Links
<1>4. ASSUME NEW f PROVE Upto(f) <=> Adding(f, w, k)
  <2> DEFINE ups == [i \in 0..k |-> IF i = 0 THEN 0 ELSE f[i - 1] + cost[p[i]][p[i + 1]]]
             adds == [i \in 0..k |-> IF i = 0 THEN 0 ELSE f[i - 1] + w[i]]
  <2>1. \A i \in 0..k : ups[i] = adds[i]
    <3> SUFFICES ASSUME NEW i \in 0..k, i # 0 PROVE ups[i] = adds[i]
      OBVIOUS
    <3>1. i \in 1..k
      BY <1>2
    <3> QED
      BY <3>1
  <2>2. ups = [i \in 0..k |-> ups[i]] /\ adds = [i \in 0..k |-> adds[i]]
    OBVIOUS
  <2>3. ups = adds
    <3> HIDE DEF ups, adds, k
    <3> QED
      BY <2>1, <2>2
  <2>4. (Upto(f) <=> f = ups) /\ (Adding(f, w, k) <=> f = adds)
    BY DEF Adding
  <2> HIDE DEF ups, adds, Upto
  <2> QED
    BY <2>3, <2>4
<1> HIDE DEF k, w, Upto
<1>5. (\E f : Adding(f, w, k)) /\ \A f : Adding(f, w, k) => Added(f, w, k)
  BY <1>2, <1>3, AddsUp
<1>6. Adding(upto, w, k)
  BY <1>4, <1>5
<1> HIDE DEF upto
<1>7. /\ upto \in [0..k -> Nat] /\ upto[0] = 0
      /\ \A i \in 0..(k - 1) : upto[i + 1] = upto[i] + w[i + 1]
  BY <1>5, <1>6 DEF Added
<1>8. ASSUME NEW i \in 0..(k - 1)
      PROVE  upto[i + 1] = upto[i] + cost[p[i + 1]][p[i + 2]]
  <2>1. i + 1 \in 1..k /\ (i + 1) + 1 = i + 2
    BY <1>2
  <2>2. w[i + 1] = cost[p[i + 1]][p[i + 2]]
    BY <2>1 DEF w
  <2> QED
    BY <1>7, <2>2
<1>9. LengthFrom(upto, p, k)
  BY <1>1, <1>7, <1>8 DEF LengthFrom
<1> QED
  BY <1>9 DEF k

LEMMA LengthAppend ==
    ASSUME Links, NEW p \in Seq(Ccnet!Nodes), Len(p) > 0, NEW n \in Ccnet!Nodes
    PROVE  /\ Ccnet!Length(p) \in Nat
           /\ Ccnet!Length(Append(p, n)) = Ccnet!Length(p) + cost[p[Len(p)]][n]
<1> DEFINE q == Append(p, n)
           k == Len(p) - 1
<1>1. /\ Len(p) \in Nat /\ k \in Nat /\ Len(p) = k + 1
      /\ q \in Seq(Ccnet!Nodes) /\ Len(q) = k + 2
      /\ q[k + 2] = n /\ \A i \in 1..Len(p) : q[i] = p[i]
  OBVIOUS
<1> HIDE DEF q, k
<1>2. PICK f : LengthFrom(f, p, k)
  BY LengthIs DEF k
<1>3. Len(q) - 1 = k + 1 /\ Len(q) > 0
  BY <1>1
<1>4. PICK g : LengthFrom(g, q, k + 1)
  <2>1. \E g : LengthFrom(g, q, Len(q) - 1)
    BY <1>1, <1>3, LengthIs
  <2> QED
    BY <1>3, <2>1
<1>5. /\ f \in [0..k -> Nat] /\ f[0] = 0 /\ Ccnet!Length(p) = f[k]
      /\ \A i \in 0..(k - 1) : f[i + 1] = f[i] + cost[p[i + 1]][p[i + 2]]
  BY <1>2 DEF LengthFrom
<1>6. /\ g[0] = 0 /\ Ccnet!Length(q) = g[k + 1]
      /\ \A i \in 0..k : g[i + 1] = g[i] + cost[q[i + 1]][q[i + 2]]
  BY <1>1, <1>4 DEF LengthFrom
<1>7. ASSUME NEW i \in 0..(k - 1), f[i] = g[i] PROVE f[i + 1] = g[i + 1]
  <2>1. i + 1 \in 1..Len(p) /\ i + 2 \in 1..Len(p) /\ i \in 0..k
    BY <1>1
  <2>2. q[i + 1] = p[i + 1] /\ q[i + 2] = p[i + 2]
    BY <1>1, <2>1
  <2> QED
    BY <1>5, <1>6, <1>7, <2>1, <2>2
<1>8. GoAlike(f, g, k)
  BY <1>5, <1>6, <1>7 DEF GoAlike
<1>9. f[k] = g[k]
  <2>1. k \in 0..k
    BY <1>1
  <2> QED
    BY <1>1, <1>8, <2>1, StepsSame
<1>10. g[k + 1] = g[k] + cost[p[Len(p)]][n]
  <2>1. k \in 0..k /\ k + 1 \in 1..Len(p)
    BY <1>1
  <2>2. q[k + 1] = p[Len(p)] /\ q[k + 2] = n
    BY <1>1, <2>1
  <2> QED
    BY <1>6, <2>1, <2>2
<1>11. f[k] \in Nat
  BY <1>1, <1>5
<1> QED
  BY <1>5, <1>6, <1>9, <1>10, <1>11 DEF q

LEMMA LengthOne ==
    ASSUME Links, NEW n \in Ccnet!Nodes
    PROVE  Ccnet!Length(<<n>>) = 0
<1> DEFINE p == <<n>>
<1>1. p \in Seq(Ccnet!Nodes) /\ Len(p) = 1 /\ Len(p) > 0
  OBVIOUS
<1> HIDE DEF p
<1>2. PICK f : LengthFrom(f, p, Len(p) - 1)
  <2>1. \E f : LengthFrom(f, p, Len(p) - 1)
    BY <1>1, LengthIs
  <2> QED
    BY <2>1
<1>3. f[0] = 0 /\ Ccnet!Length(p) = f[1 - 1]
  BY <1>1, <1>2 DEF LengthFrom
<1> QED
  BY <1>3 DEF p

\* The paths of the reference.
LEMMA PathIs ==
    ASSUME NEW u, NEW v, NEW p
    PROVE  p \in Ccnet!Paths(u, v) <=>
              /\ p \in Seq(Ccnet!Nodes) /\ Len(p) \in 1..NodeCount
              /\ \A i, j \in 1..Len(p) : p[i] = p[j] => i = j
              /\ p[1] = u /\ p[Len(p)] = v
              /\ \A i \in 1..(Len(p) - 1) : cost[p[i]][p[i + 1]] < INF
<1> DEFINE N == Ccnet!Nodes
           C == NodeCount
<1>0. C \in Nat
  BY RouteConstants, SMTT(30)
<1> HIDE DEF N, C
<1>1. ASSUME p \in Seq(N), Len(p) \in 1..C
      PROVE  DOMAIN p = 1..Len(p) /\ \E k \in 1..C : p \in [1..k -> N]
  <2>1. p \in [1..Len(p) -> N]
    BY <1>1
  <2> QED
    BY <1>1, <2>1
<1>2. ASSUME NEW k \in 1..C, p \in [1..k -> N]
      PROVE  p \in Seq(N) /\ Len(p) = k /\ DOMAIN p = 1..Len(p)
  <2>1. k \in Nat
    BY <1>0
  <2> QED
    BY <1>2, <2>1
<1>3. p \in Ccnet!Simple <=>
         /\ \E k \in 1..C : p \in [1..k -> N]
         /\ \A i, j \in DOMAIN p : p[i] = p[j] => i = j
  BY DEF Ccnet!Simple, N, C
<1>4. p \in Ccnet!Simple <=> /\ p \in Seq(N) /\ Len(p) \in 1..C
                             /\ \A i, j \in 1..Len(p) : p[i] = p[j] => i = j
  BY <1>1, <1>2, <1>3
<1> QED
  BY <1>4 DEF Ccnet!Paths, N, C

\* No path is shorter than what Dijkstra's algorithm finds, and none too long.
LEMMA NoneShorter ==
    ASSUME Links, NEW u \in Ccnet!Nodes, NEW v \in Ccnet!Nodes, NEW p \in Ccnet!Paths(u, v)
    PROVE  Far(u, v) < INF /\ Far(u, v) <= Ccnet!Length(p)
<1> DEFINE N == Ccnet!Nodes
           k == Len(p) - 1
<1>1. /\ p \in Seq(N) /\ Len(p) \in 1..NodeCount /\ p[1] = u /\ p[Len(p)] = v
      /\ \A i \in 1..(Len(p) - 1) : cost[p[i]][p[i + 1]] < INF
  BY PathIs
<1>2. NodeCount \in Nat /\ INF \in Nat
  BY RouteConstants
<1>3. k \in Nat /\ k <= NodeCount - 1 /\ Len(p) = k + 1 /\ Len(p) > 0
  BY <1>1, <1>2
<1>4. \A i \in 1..Len(p) : p[i] \in N
  BY <1>1
<1>5. PICK most \in 0..INF : /\ most * (NodeCount - 1) < INF
                             /\ \A x, y \in N : cost[x][y] < INF => cost[x][y] <= most
  BY DEF Links
<1>6. PICK f : LengthFrom(f, p, k)
  BY <1>1, <1>3, LengthIs
<1> HIDE DEF k
<1>7. /\ f \in [0..k -> Nat] /\ f[0] = 0 /\ Ccnet!Length(p) = f[k]
      /\ \A i \in 0..(k - 1) : f[i + 1] = f[i] + cost[p[i + 1]][p[i + 2]]
  BY <1>6 DEF LengthFrom
<1> DEFINE T == {i \in Nat : i <= k => Far(u, p[i + 1]) <= f[i] /\ f[i] <= most * i}
<1> HIDE DEF N
<1>8. 0 \in T
  <2>1. Far(u, u) = 0 /\ p[0 + 1] = u /\ most * 0 = 0
    BY <1>1, <1>5, FarIs
  <2> QED
    BY <1>7, <2>1
<1>9. ASSUME NEW i \in Nat, i \in T PROVE i + 1 \in T
  <2> SUFFICES ASSUME i + 1 <= k
               PROVE  Far(u, p[(i + 1) + 1]) <= f[i + 1] /\ f[i + 1] <= most * (i + 1)
    OBVIOUS
  <2> DEFINE a == p[i + 1]
             b == p[i + 2]
  <2>1. i + 1 \in 1..Len(p) /\ i + 2 \in 1..Len(p) /\ i + 1 \in 1..(Len(p) - 1)
        /\ (i + 1) + 1 = i + 2 /\ i \in 0..(k - 1) /\ i <= k
    BY <1>3
  <2>2. a \in N /\ b \in N /\ cost[a][b] < INF
    BY <1>1, <1>4, <2>1
  <2>3. f[i + 1] = f[i] + cost[a][b] /\ f[i] \in Nat
    BY <1>7, <2>1
  <2>4. Far(u, a) <= f[i] /\ f[i] <= most * i
    BY <1>9, <2>1
  <2>5. cost[a][b] \in Nat /\ cost[a][b] <= most
    BY <1>5, <2>2 DEF Links, N
  <2>6. Far(u, b) <= Far(u, a) + cost[a][b] /\ Far(u, a) \in Nat /\ Far(u, b) \in Nat
    BY <2>2, FarIs DEF N
  <2>7. most \in Nat /\ most * (i + 1) = most * i + most /\ most * i \in Nat
    BY <1>2, <1>5
  <2> DEFINE m == most * i
  <2>8. m + most = most * (i + 1) /\ m \in Nat /\ f[i] <= m
    BY <2>4, <2>7
  <2> HIDE DEF a, b, m
  <2>9. Far(u, b) <= f[i + 1] /\ f[i + 1] <= m + most
    BY <2>3, <2>4, <2>5, <2>6, <2>7, <2>8
  <2> QED
    BY <2>1, <2>8, <2>9 DEF b
<1>10. Nat \subseteq T
  <2> HIDE DEF T
  <2> QED
    BY <1>8, <1>9, Induction
<1>11. Far(u, p[k + 1]) <= f[k] /\ f[k] <= most * k
  BY <1>3, <1>10
<1>12. most * k <= most * (NodeCount - 1)
  <2> DEFINE e == (NodeCount - 1) - k
  <2>1. e \in Nat /\ NodeCount - 1 = k + e
    BY <1>2, <1>3
  <2>2. most \in Nat /\ most * e \in Nat /\ most * (k + e) = most * k + most * e
    BY <1>2, <1>3, <1>5, <2>1
  <2>3. most * k \in Nat
    BY <1>3, <2>2
  <2> HIDE DEF e
  <2> QED
    BY <2>1, <2>2, <2>3
<1>13. Far(u, v) \in Nat /\ f[k] \in Nat /\ most * k \in Nat /\ most * (NodeCount - 1) \in Nat
  <2>1. most \in Nat /\ NodeCount - 1 \in Nat
    BY <1>1, <1>2, <1>5
  <2> QED
    BY <1>3, <1>7, <2>1, FarIs
<1>14. Far(u, v) <= f[k] /\ f[k] < INF
  <2>1. Far(u, v) <= f[k]
    BY <1>1, <1>3, <1>11
  <2> DEFINE a == most * k
             b == most * (NodeCount - 1)
  <2>2. f[k] <= a /\ a <= b /\ b < INF /\ a \in Nat /\ b \in Nat
    BY <1>5, <1>11, <1>12, <1>13
  <2> HIDE DEF a, b
  <2> QED
    BY <1>2, <1>13, <2>1, <2>2
<1>15. Far(u, v) < INF
  BY <1>2, <1>13, <1>14
<1> QED
  BY <1>7, <1>14, <1>15

\* The tables as ccnet_build_routing_table leaves them.
Tables == next_hop = [n \in Ccnet!Nodes |-> Ccnet!table(n)]

\* The way of a packet from u to v, as far as it came.
OnTheWay(w, u, v) ==
    /\ w \in Seq(Ccnet!Nodes) /\ Len(w) > 0 /\ w[1] = u
    /\ \A i \in 1..(Len(w) - 1) : cost[w[i]][w[i + 1]] < INF
    /\ \A i, j \in 1..Len(w) : i < j => Far(w[j], v) < Far(w[i], v)
    /\ Far(w[Len(w)], v) < INF
    /\ Ccnet!Length(w) + Far(w[Len(w)], v) <= Far(u, v)

\* A hop gets a packet nearer to v, by as much as the link is long.
LEMMA HopOnTheWay ==
    ASSUME Links, Tables, NEW u \in Ccnet!Nodes, NEW v \in Ccnet!Nodes,
           NEW w, OnTheWay(w, u, v), w[Len(w)] # v
    PROVE  /\ OnTheWay(Append(w, next_hop[w[Len(w)]][v]), u, v)
           /\ Len(Append(w, next_hop[w[Len(w)]][v])) = Len(w) + 1
<1> DEFINE N == Ccnet!Nodes
           L == Len(w)
           n == w[L]
           h == next_hop[n][v]
           x == Append(w, h)
<1>1. /\ w \in Seq(N) /\ L \in Nat /\ L > 0 /\ w[1] = u
      /\ \A i \in 1..(L - 1) : cost[w[i]][w[i + 1]] < INF
      /\ \A i, j \in 1..L : i < j => Far(w[j], v) < Far(w[i], v)
      /\ Far(n, v) < INF /\ Ccnet!Length(w) + Far(n, v) <= Far(u, v) /\ n # v
  BY DEF OnTheWay
<1>2. \A i \in 1..L : w[i] \in N
  BY <1>1
<1>3. n \in N
  BY <1>1, <1>2
<1>4. h = Ccnet!table(n)[v]
  BY <1>3 DEF Tables
<1> HIDE DEF h
<1>5. /\ h \in N /\ h # n /\ cost[n][h] < INF
      /\ Far(h, v) + cost[n][h] <= Far(n, v)
  BY <1>1, <1>3, <1>4, HopIs
<1>6. /\ Ccnet!Length(w) \in Nat
      /\ Ccnet!Length(x) = Ccnet!Length(w) + cost[n][h]
  BY <1>1, <1>5, LengthAppend
<1>7. /\ x \in Seq(N) /\ Len(x) = L + 1 /\ x[L + 1] = h
      /\ \A i \in 1..L : x[i] = w[i]
  BY <1>1, <1>5
<1> HIDE DEF x, N
<1>8. /\ Far(h, v) \in Nat /\ Far(n, v) \in Nat /\ Far(u, v) \in Nat
      /\ cost[n][h] \in Nat /\ cost[n][h] > 0 /\ INF \in Nat
  BY <1>3, <1>5, FarIs, RouteConstants, ZenonT(30) DEF N, Links
<1>9. Far(h, v) < Far(n, v)
  BY <1>5, <1>8
<1>10. ASSUME NEW i \in 1..(Len(x) - 1) PROVE cost[x[i]][x[i + 1]] < INF
  <2>1. i \in 1..L
    BY <1>1, <1>7
  <2>2. CASE i = L
    BY <1>5, <1>7, <2>1, <2>2 DEF n
  <2>3. CASE i # L
    <3>1. i \in 1..(L - 1) /\ i + 1 \in 1..L
      BY <1>1, <2>1, <2>3
    <3> HIDE DEF L
    <3> QED
      BY <1>1, <1>7, <2>1, <3>1
  <2> QED
    BY <2>2, <2>3
<1>11. ASSUME NEW i \in 1..Len(x), NEW j \in 1..Len(x), i < j
       PROVE  Far(x[j], v) < Far(x[i], v)
  <2>1. i \in 1..L /\ x[i] = w[i] /\ w[i] \in N
    BY <1>1, <1>2, <1>7, <1>11
  <2>2. CASE j = L + 1
    <3>1. x[j] = h
      BY <1>7, <2>2
    <3>2. i = L \/ Far(n, v) < Far(w[i], v)
      BY <1>1, <2>1
    <3>3. Far(w[i], v) \in Nat
      BY <2>1, FarIs DEF N
    <3> HIDE DEF L
    <3>4. i = L => w[i] = n
      OBVIOUS
    <3> HIDE DEF n
    <3> QED
      BY <1>8, <1>9, <2>1, <3>1, <3>2, <3>3, <3>4
  <2>3. CASE j # L + 1
    <3>1. j \in 1..L /\ x[j] = w[j]
      BY <1>1, <1>7, <2>3
    <3> QED
      BY <1>1, <1>11, <2>1, <3>1
  <2> QED
    BY <2>2, <2>3
<1>12. x[Len(x)] = h /\ x[1] = u /\ Len(x) > 0
  BY <1>1, <1>7
<1>13. Far(h, v) < INF /\ Ccnet!Length(x) + Far(h, v) <= Far(u, v)
  BY <1>1, <1>5, <1>6, <1>8, <1>9, SMTT(30)
<1>14. OnTheWay(x, u, v)
  BY <1>7, <1>10, <1>11, <1>12, <1>13 DEF OnTheWay, N
<1> QED
  BY <1>7, <1>14 DEF x, h, n, L

\* A way that came to v is a shortest path.
LEMMA WayThere ==
    ASSUME Links, NEW u \in Ccnet!Nodes, NEW v \in Ccnet!Nodes,
           NEW w, OnTheWay(w, u, v)
    PROVE  /\ Len(w) \in 1..NodeCount
           /\ w[Len(w)] = v =>
                 w \in Ccnet!Paths(u, v) /\ Ccnet!Length(w) <= Far(u, v)
<1> DEFINE L == Len(w)
<1>1. /\ w \in Seq(Ccnet!Nodes) /\ L \in Nat /\ L > 0 /\ w[1] = u
      /\ \A i \in 1..(L - 1) : cost[w[i]][w[i + 1]] < INF
      /\ \A i, j \in 1..L : i < j => Far(w[j], v) < Far(w[i], v)
      /\ Ccnet!Length(w) + Far(w[L], v) <= Far(u, v)
  BY DEF OnTheWay
<1>2. \A i \in 1..L : w[i] \in Ccnet!Nodes
  BY <1>1
<1>3. w \in [1..L -> Ccnet!Nodes]
  BY <1>1
<1> HIDE DEF L
<1>4. ASSUME NEW i \in 1..L, NEW j \in 1..L, w[i] = w[j] PROVE i = j
  <2>1. Far(w[i], v) \in Nat /\ Far(w[i], v) = Far(w[j], v)
    BY <1>2, <1>4, FarIs
  <2>2. ~ (i < j) /\ ~ (j < i)
    BY <1>1, <2>1
  <2> QED
    BY <1>1, <2>2
<1>5. L <= NodeCount
  BY <1>1, <1>3, <1>4, Crowded
<1>6. L \in 1..NodeCount
  BY <1>1, <1>5, RouteConstants
<1>7. ASSUME w[L] = v PROVE w \in Ccnet!Paths(u, v) /\ Ccnet!Length(w) <= Far(u, v)
  <2>1. Far(w[L], v) = 0
    BY <1>7, FarIs
  <2>2. Ccnet!Length(w) \in Nat
    <3>1. L \in 1..L
      BY <1>1
    <3>2. w[L] \in Ccnet!Nodes
      BY <1>2, <3>1
    <3> QED
      BY <1>1, <3>2, LengthAppend DEF L
  <2>3. Far(u, v) \in Nat
    BY FarIs
  <2>4. w \in Ccnet!Paths(u, v)
    BY <1>1, <1>4, <1>6, <1>7, PathIs DEF L
  <2> QED
    BY <1>1, <2>1, <2>2, <2>3, <2>4
<1> QED
  BY <1>6, <1>7 DEF L

\* The tables of the nodes on the way lead there.
LEMMA WayIs ==
    ASSUME Links, Tables, NEW u \in Ccnet!Nodes, NEW v \in Ccnet!Nodes, Far(u, v) < INF
    PROVE  Ccnet!Way(u, v) \in Ccnet!Paths(u, v) /\ Ccnet!Length(Ccnet!Way(u, v)) <= Far(u, v)
<1> DEFINE C == NodeCount
           x == <<u>>
           Hop(w) == IF w[Len(w)] \in {v, Ccnet!NoHop} THEN w
                     ELSE Append(w, next_hop[w[Len(w)]][v])
           S == {w \in Seq(Ccnet!Nodes) : OnTheWay(w, u, v)}
           step == [w \in S |-> Hop(w)]
           Ways(f) == f = [i \in 0..C |-> IF i = 0 THEN x ELSE Hop(f[i - 1])]
           way == CHOOSE f : Ways(f)
<1>1. Ccnet!Way(u, v) = way[C]
  BY DEF Ccnet!Way
<1>2. C \in Nat /\ C > 0
  BY RouteConstants
<1>3. x \in S /\ Len(x) = 1
  <2>1. x \in Seq(Ccnet!Nodes) /\ Len(x) = 1 /\ x[1] = u
    OBVIOUS
  <2> HIDE DEF x
  <2>2. Ccnet!Length(x) = 0
    BY LengthOne DEF x
  <2>3. Far(u, v) \in Nat
    BY FarIs
  <2>4. OnTheWay(x, u, v)
    BY <2>1, <2>2, <2>3 DEF OnTheWay
  <2> QED
    BY <2>1, <2>4
<1>4. \A w \in S : /\ Hop(w) \in S
                   /\ w[Len(w)] = v => Hop(w) = w
                   /\ w[Len(w)] # v => Len(Hop(w)) = Len(w) + 1
  <2> SUFFICES ASSUME NEW w \in S
               PROVE  /\ Hop(w) \in S
                      /\ w[Len(w)] = v => Hop(w) = w
                      /\ w[Len(w)] # v => Len(Hop(w)) = Len(w) + 1
    OBVIOUS
  <2>1. CASE w[Len(w)] = v
    BY <2>1
  <2>2. CASE w[Len(w)] # v
    <3> DEFINE y == Append(w, next_hop[w[Len(w)]][v])
    <3>1. OnTheWay(y, u, v) /\ Len(y) = Len(w) + 1
      BY <2>2, HopOnTheWay
    <3> HIDE DEF y
    <3>2. y \in S
      BY <3>1 DEF OnTheWay
    <3>3. w[Len(w)] \in Ccnet!Nodes
      BY DEF OnTheWay
    <3>4. w[Len(w)] # Ccnet!NoHop
      BY <3>3, RouteConstants
    <3>5. Hop(w) = y
      BY <2>2, <3>4 DEF y
    <3> QED
      BY <2>2, <3>1, <3>2, <3>5
  <2> QED
    BY <2>1, <2>2
<1> HIDE DEF C, x, S
<1>5. step \in [S -> S]
  <2> HIDE DEF Hop
  <2> QED
    BY <1>4
<1>6. \E f : Ways(f)
  <2>1. PICK f : Repeats(f, S, x, C, step)
    <3> HIDE DEF step
    <3> QED
      BY <1>2, <1>3, <1>5, Repeated
  <2> HIDE DEF Hop, step
  <2>2. f \in [0..C -> S] /\ f[0] = x
        /\ \A i \in 0..C : i # 0 => f[i] = step[f[i - 1]]
    BY <2>1 DEF Repeats
  <2>3. \A i \in 0..C : f[i] = IF i = 0 THEN x ELSE Hop(f[i - 1])
    <3> SUFFICES ASSUME NEW i \in 0..C, i # 0 PROVE f[i] = Hop(f[i - 1])
      BY <2>2
    <3>1. i - 1 \in 0..C
      BY <1>2
    <3>2. f[i - 1] \in S
      BY <2>2, <3>1
    <3> QED
      BY <2>2, <3>2 DEF step
  <2>4. f = [i \in 0..C |-> f[i]]
    BY <2>2
  <2> QED
    BY <2>3, <2>4
<1> HIDE DEF step
<1>7. Ways(way)
  <2> HIDE DEF Ways
  <2> QED
    BY <1>6
<1> HIDE DEF way
<1>8. way[0] = x /\ \A i \in 0..(C - 1) : way[i + 1] = Hop(way[i])
  <2> HIDE DEF Hop
  <2>1. way[0] = x /\ \A i \in 0..C : i # 0 => way[i] = Hop(way[i - 1])
    BY <1>2, <1>7
  <2> SUFFICES ASSUME NEW i \in 0..(C - 1) PROVE way[i + 1] = Hop(way[i])
    BY <2>1
  <2>2. i + 1 \in 0..C /\ i + 1 # 0 /\ (i + 1) - 1 = i
    BY <1>2
  <2> QED
    BY <2>1, <2>2
<1> HIDE DEF Hop, Ways
\* There, or one hop further in each round.
<1> DEFINE T == {i \in Nat : i <= C =>
                    /\ way[i] \in S
                    /\ way[i][Len(way[i])] = v \/ Len(way[i]) = i + 1}
<1>9. 0 \in T
  BY <1>3, <1>8
<1>10. ASSUME NEW i \in Nat, i \in T PROVE i + 1 \in T
  <2> SUFFICES ASSUME i + 1 <= C
               PROVE  /\ way[i + 1] \in S
                      /\ \/ way[i + 1][Len(way[i + 1])] = v
                         \/ Len(way[i + 1]) = (i + 1) + 1
    OBVIOUS
  <2> DEFINE w == way[i]
  <2>1. i \in 0..(C - 1) /\ i <= C
    BY <1>2
  <2>2. way[i + 1] = Hop(w)
    BY <1>8, <2>1
  <2>3. w \in S /\ (w[Len(w)] = v \/ Len(w) = i + 1)
    BY <1>10, <2>1
  <2> HIDE DEF w
  <2> QED
    BY <1>4, <2>2, <2>3
<1>11. C \in T
  <2> HIDE DEF T
  <2> QED
    BY <1>2, <1>9, <1>10, Induction
<1> DEFINE w == way[C]
<1>12. w \in S /\ (w[Len(w)] = v \/ Len(w) = C + 1)
  BY <1>2, <1>11
<1> HIDE DEF w
<1>13. OnTheWay(w, u, v)
  BY <1>12 DEF S
<1>14. /\ Len(w) \in 1..C
       /\ w[Len(w)] = v =>
             w \in Ccnet!Paths(u, v) /\ Ccnet!Length(w) <= Far(u, v)
  BY <1>13, WayThere DEF C
<1>15. w[Len(w)] = v
  BY <1>2, <1>12, <1>14
<1> QED
  BY <1>1, <1>14, <1>15 DEF w

\* So the tables of all nodes together are what RoutesReach says.
LEMMA TablesReach ==
    ASSUME Links, Tables
    PROVE  Ccnet!RoutesReach
<1> SUFFICES ASSUME NEW u \in Ccnet!Nodes, NEW v \in Ccnet!Nodes
             PROVE  IF Ccnet!Paths(u, v) = {} THEN next_hop[u][v] = Ccnet!NoHop
                    ELSE /\ Ccnet!Way(u, v) \in Ccnet!Paths(u, v)
                         /\ \A p \in Ccnet!Paths(u, v) :
                               Ccnet!Length(Ccnet!Way(u, v)) <= Ccnet!Length(p)
  BY DEF Ccnet!RoutesReach
<1> DEFINE w == Ccnet!Way(u, v)
           P == Ccnet!Paths(u, v)
<1>1. \A p \in P : Far(u, v) < INF /\ Far(u, v) <= Ccnet!Length(p) /\ Ccnet!Length(p) \in Nat
  <2> SUFFICES ASSUME NEW p \in P
               PROVE  Far(u, v) < INF /\ Far(u, v) <= Ccnet!Length(p) /\ Ccnet!Length(p) \in Nat
    OBVIOUS
  <2>1. p \in Seq(Ccnet!Nodes) /\ Len(p) > 0
    <3>1. p \in Seq(Ccnet!Nodes) /\ Len(p) \in 1..NodeCount
      BY PathIs
    <3> QED
      BY <3>1, RouteConstants
  <2> QED
    BY <2>1, NoneShorter, LengthAppend
<1>2. CASE Far(u, v) < INF
  <2>1. w \in P /\ Ccnet!Length(w) <= Far(u, v)
    BY <1>2, WayIs
  <2>2. Far(u, v) \in Nat
    BY FarIs
  <2> HIDE DEF w, P
  <2>3. ASSUME NEW p \in P PROVE Ccnet!Length(w) <= Ccnet!Length(p)
    <3>1. Far(u, v) <= Ccnet!Length(p) /\ Ccnet!Length(p) \in Nat /\ Ccnet!Length(w) \in Nat
      BY <1>1, <2>1
    <3> QED
      BY <2>1, <2>2, <3>1
  <2> QED
    BY <2>1, <2>3 DEF w, P
<1>3. CASE ~ (Far(u, v) < INF)
  <2>1. P = {}
    BY <1>1, <1>3
  <2>2. u # v
    <3>1. Far(u, u) = 0 /\ INF \in Nat
      BY FarIs, RouteConstants
    <3>2. INF > 0
      <4>1. PICK most \in 0..INF : most * (NodeCount - 1) < INF
        BY DEF Links
      <4>2. most \in Nat /\ NodeCount - 1 \in Nat
        BY <3>1, RouteConstants
      <4>3. most * (NodeCount - 1) \in Nat
        BY <4>2
      <4> QED
        BY <3>1, <4>1, <4>3
    <3> QED
      BY <1>3, <3>1, <3>2
  <2>3. next_hop[u][v] = Ccnet!NoHop
    BY <1>3, <2>2, NoHopIs DEF Tables
  <2> QED
    BY <2>1, <2>3
<1> QED
  BY <1>2, <1>3

\* A table depends on the graph only.
LEMMA SameTable ==
    ASSUME cost' = cost, NEW n \in Ccnet!Nodes
    PROVE  Ccnet!table(n)' = Ccnet!table(n)
<1>1. \A d, u : Ccnet!relax(d, u)' = Ccnet!relax(d, u)
  BY DEF Ccnet!relax
<1>2. Ccnet!run_dij(n)' = Ccnet!run_dij(n)
  BY <1>1 DEF Ccnet!run_dij
<1> QED
  BY <1>2 DEF Ccnet!table

\* The inductive invariant of the routes: the graph stays as it was set up, and
\* every node has no table or the one that belongs to it.
THEOREM RoutesInvariant == Ccnet!Spec => []Ccnet!IInv
<1>1. Ccnet!Init => Ccnet!IInv
  BY DEF Ccnet!Init, Ccnet!IInv
<1>2. Ccnet!IInv /\ [Ccnet!Next]_Ccnet!vars => Ccnet!IInv'
  <2> SUFFICES ASSUME Ccnet!IInv, [Ccnet!Next]_Ccnet!vars PROVE Ccnet!IInv'
    OBVIOUS
  <2>1. ASSUME UNCHANGED <<cost, next_hop>> PROVE Ccnet!IInv'
    BY <2>1, SameTable DEF Ccnet!IInv
  <2>2. ASSUME NEW n \in Ccnet!Nodes, Ccnet!ccnet_build_routing_table(n) PROVE Ccnet!IInv'
    <3>1. cost' = cost /\ next_hop' = [next_hop EXCEPT ![n] = Ccnet!table(n)]
      BY <2>2 DEF Ccnet!ccnet_build_routing_table
    <3>2. \A m \in Ccnet!Nodes : Ccnet!table(m)' = Ccnet!table(m)
      BY <3>1, SameTable
    <3>3. /\ cost \in CostMatrices /\ next_hop = [m \in Ccnet!Nodes |-> next_hop[m]]
          /\ \A m \in Ccnet!Nodes : next_hop[m] \in {Ccnet!Unset, Ccnet!table(m)}
      BY DEF Ccnet!IInv
    <3>4. next_hop' = [m \in Ccnet!Nodes |-> IF m = n THEN Ccnet!table(n) ELSE next_hop[m]]
      BY <3>1, <3>3
    <3>5. /\ next_hop' = [m \in Ccnet!Nodes |-> next_hop'[m]]
          /\ \A m \in Ccnet!Nodes : next_hop'[m] \in {Ccnet!Unset, Ccnet!table(m)}
      BY <3>3, <3>4
    <3> QED
      BY <3>1, <3>2, <3>3, <3>5 DEF Ccnet!IInv
  <2>3. ASSUME NEW n \in Senders, NEW dst \in Ccnet!Nodes, NEW t \in Ttls,
               Ccnet!ccnet_output(n, dst, t)
        PROVE  Ccnet!IInv'
    BY <2>1, <2>3 DEF Ccnet!ccnet_output
  <2>4. ASSUME NEW p \in packets, Ccnet!ccnet_input(p) PROVE Ccnet!IInv'
    BY <2>1, <2>4 DEF Ccnet!ccnet_input
  <2>5. CASE UNCHANGED Ccnet!vars
    BY <2>1, <2>5 DEF Ccnet!vars
  <2> QED
    BY <2>2, <2>3, <2>4, <2>5 DEF Ccnet!Next
<1> QED
  BY <1>1, <1>2, PTL DEF Ccnet!Spec

\* The tables that the nodes compute alone lead every packet, together, to every
\* node that can be reached, by a shortest way, and to no other: for every
\* number of nodes and every graph.
THEOREM RoutesLead == Ccnet!Spec => []Ccnet!RoutesReach /\ []RoutesReach
<1>1. Ccnet!IInv => Ccnet!RoutesReach
  <2> SUFFICES ASSUME Ccnet!IInv, Ccnet!Started PROVE Ccnet!RoutesReach
    BY DEF Ccnet!RoutesReach
  <2>1. Links
    BY LinksAre DEF Ccnet!IInv
  <2>2. Tables
    BY DEF Ccnet!IInv, Ccnet!Started, Tables
  <2> QED
    BY <2>1, <2>2, TablesReach
<1>2. Ccnet!RoutesReach => RoutesReach
  BY DEF RoutesReach
<1> QED
  BY <1>1, <1>2, RoutesInvariant, PTL
-----------------------------------------------------------------------------
(***************************************************************************)
(* The read-write lock, for every finite set of tasks.                     *)
(***************************************************************************)
LEMMA CountIsNat ==
    ASSUME IsFiniteSet(Tasks), NEW label
    PROVE  /\ IsFiniteSet(Are(label))
           /\ Count(label) \in Nat
           /\ Count(label) = 0 <=> Are(label) = {}
<1>1. Are(label) \in SUBSET Tasks
  BY DEF Are
<1>2. IsFiniteSet(Are(label))
  BY <1>1, FS_Subset
<1> QED
  BY <1>2, FS_CardinalityType, FS_EmptySet DEF Count

\* One task more is at place to, one less at place from.
Moved(from, to) ==
    LET after(l) == Count(l) - (IF l = from THEN 1 ELSE 0) + (IF l = to THEN 1 ELSE 0)
    IN  /\ pc' \in [Tasks -> Labels]
        /\ Count(from) >= 1
        /\ Count("take_read") \in Nat /\ Count("take_read")' = after("take_read")
        /\ Count("reading") \in Nat /\ Count("reading")' = after("reading")
        /\ Count("take_write") \in Nat /\ Count("take_write")' = after("take_write")
        /\ Count("lock_w") \in Nat /\ Count("lock_w")' = after("lock_w")
        /\ Count("writing") \in Nat /\ Count("writing")' = after("writing")
        /\ Count("unlocked_w") \in Nat /\ Count("unlocked_w")' = after("unlocked_w")

\* A task that goes on is counted at its new place instead of the old one.
LEMMA GoesCounts ==
    ASSUME IsFiniteSet(Tasks), pc \in [Tasks -> Labels], NEW t \in Tasks,
           NEW from \in Labels, NEW to \in Labels, from # to, Goes(t, from, to)
    PROVE  Moved(from, to)
<1>1. /\ pc' \in [Tasks -> Labels] /\ pc[t] = from /\ Are("writing") \subseteq {t}
      /\ pc' = [pc EXCEPT ![t] = to]
  BY DEF Goes
<1>2. ASSUME NEW l \in Labels
      PROVE  /\ Count(l) \in Nat
             /\ Count(l)' = IF l = from THEN Count(l) - 1
                            ELSE IF l = to THEN Count(l) + 1 ELSE Count(l)
  <2>1. IsFiniteSet(Are(l)) /\ Count(l) \in Nat
    BY CountIsNat
  <2>2. CASE l = from
    <3>1. Are(l)' = Are(l) \ {t} /\ t \in Are(l)
      BY <1>1, <2>2 DEF Are
    <3>2. Cardinality(Are(l) \ {t}) = Cardinality(Are(l)) - 1
      BY <2>1, <3>1, FS_RemoveElement
    <3>3. Count(l)' = Cardinality(Are(l)') /\ Count(l) = Cardinality(Are(l))
      BY DEF Count
    <3>4. Count(l)' = Count(l) - 1
      BY <3>1, <3>2, <3>3
    <3> QED
      BY <2>1, <2>2, <3>4
  <2>3. CASE l = to
    <3>1. Are(l)' = Are(l) \cup {t} /\ t \notin Are(l)
      BY <1>1, <2>3 DEF Are
    <3>2. Cardinality(Are(l) \cup {t}) = Cardinality(Are(l)) + 1
      BY <2>1, <3>1, FS_AddElement
    <3>3. Count(l)' = Cardinality(Are(l)') /\ Count(l) = Cardinality(Are(l))
      BY DEF Count
    <3>4. Count(l)' = Count(l) + 1
      BY <3>1, <3>2, <3>3
    <3> QED
      BY <2>1, <2>3, <3>4
  <2>4. CASE l # from /\ l # to
    <3>1. Are(l)' = Are(l)
      BY <1>1, <2>4 DEF Are
    <3> QED
      BY <2>1, <2>4, <3>1 DEF Count
  <2> QED
    BY <2>2, <2>3, <2>4
<1>3. Count(from) >= 1
  <2>1. t \in Are(from)
    BY <1>1 DEF Are
  <2> QED
    BY <2>1, CountIsNat
<1> QED
  BY <1>1, <1>2, <1>3 DEF Moved, Labels
-----------------------------------------------------------------------------
LEMMA InitIInv == IsFiniteSet(Tasks) /\ Init => IInv
<1> SUFFICES ASSUME IsFiniteSet(Tasks), Init PROVE IInv
  OBVIOUS
<1>1. \A l \in Labels \ {"idle"} : Count(l) = 0
  <2>1. \A l \in Labels \ {"idle"} : Are(l) = {}
    BY DEF Init, Are
  <2> QED
    BY <2>1, CountIsNat
<1> QED
  BY <1>1 DEF Init, IInv, TypeOK, CountersCount, TurnsAlternate, InTurn, Labels

LEMMA CountersAreNat ==
    ASSUME IsFiniteSet(Tasks), IInv
    PROVE  /\ active_reader \in Nat /\ reading_reader \in Nat
           /\ active_writer \in Nat /\ writing_writer \in Nat
           /\ read \in Nat /\ write \in Nat /\ InTurn \in Nat
BY CountIsNat DEF IInv, TypeOK, CountersCount, InTurn

LEMMA NextIInv ==
    ASSUME IsFiniteSet(Tasks), IInv, [Next]_vars
    PROVE  IInv'
<1>0. /\ active_reader \in Nat /\ reading_reader \in Nat /\ active_writer \in Nat
      /\ writing_writer \in Nat /\ read \in Nat /\ write \in Nat
      /\ active_reader = Count("take_read") + Count("reading")
      /\ reading_reader = read + Count("reading")
      /\ active_writer = Count("take_write") + Count("lock_w") + Count("writing")
                            + Count("unlocked_w")
      /\ writing_writer = write + Count("lock_w") + Count("writing") + Count("unlocked_w")
      /\ read <= Count("take_read") /\ write <= Count("take_write")
      /\ reading_reader = 0 \/ writing_writer = 0
      /\ reading_reader < active_reader => active_writer > 0
      /\ writing_writer < active_writer => reading_reader > 0
      /\ Count("writing") <= 1
  BY CountersAreNat, CountIsNat DEF IInv, TypeOK, CountersCount, TurnsAlternate, InTurn
<1>1. CASE UNCHANGED vars
  BY <1>1 DEF IInv, TypeOK, CountersCount, TurnsAlternate, InTurn, Count, Are, vars
<1>2. ASSUME NEW t \in Tasks, read_acquire(t)
      PROVE  IInv'
  <2>1. Goes(t, "idle", "take_read")
    BY <1>2 DEF read_acquire
  <2>2. Moved("idle", "take_read")
    BY <2>1, GoesCounts DEF IInv, TypeOK, Labels
  <2>4. /\ pc' \in [Tasks -> Labels] /\ Count("idle") >= 1
        /\ Count("take_read") \in Nat /\ Count("take_read")' = Count("take_read") + 1
        /\ Count("reading") \in Nat /\ Count("reading")' = Count("reading")
        /\ Count("take_write") \in Nat /\ Count("take_write")' = Count("take_write")
        /\ Count("lock_w") \in Nat /\ Count("lock_w")' = Count("lock_w")
        /\ Count("writing") \in Nat /\ Count("writing")' = Count("writing")
        /\ Count("unlocked_w") \in Nat /\ Count("unlocked_w")' = Count("unlocked_w")
    BY <2>2 DEF Moved
  <2> DEFINE given == IF active_writer = 0 THEN 1 ELSE 0
  <2>5. /\ active_reader' = active_reader + 1 /\ reading_reader' = reading_reader + given
        /\ active_writer' = active_writer /\ writing_writer' = writing_writer
        /\ read' = read + given /\ write' = write
    BY <1>2 DEF read_acquire
  <2>6. TypeOK'
    BY <1>0, <2>4, <2>5 DEF TypeOK
  <2>7. CountersCount'
    BY <1>0, <2>4, <2>5 DEF CountersCount, InTurn
  <2>8. TurnsAlternate'
    BY <1>0, <2>4, <2>5 DEF TurnsAlternate
  <2>9. Count("writing")' <= 1
    BY <1>0, <2>4, <2>5
  <2> QED
    BY <2>6, <2>7, <2>8, <2>9 DEF IInv
<1>3. ASSUME NEW t \in Tasks, read_take(t)
      PROVE  IInv'
  <2>1. Goes(t, "take_read", "reading")
    BY <1>3 DEF read_take
  <2>2. Moved("take_read", "reading")
    BY <2>1, GoesCounts DEF IInv, TypeOK, Labels
  <2>4. /\ pc' \in [Tasks -> Labels] /\ Count("take_read") >= 1
        /\ Count("take_read") \in Nat /\ Count("take_read")' = Count("take_read") - 1
        /\ Count("reading") \in Nat /\ Count("reading")' = Count("reading") + 1
        /\ Count("take_write") \in Nat /\ Count("take_write")' = Count("take_write")
        /\ Count("lock_w") \in Nat /\ Count("lock_w")' = Count("lock_w")
        /\ Count("writing") \in Nat /\ Count("writing")' = Count("writing")
        /\ Count("unlocked_w") \in Nat /\ Count("unlocked_w")' = Count("unlocked_w")
    BY <2>2 DEF Moved
  <2>5. /\ active_reader' = active_reader /\ reading_reader' = reading_reader
        /\ active_writer' = active_writer /\ writing_writer' = writing_writer
        /\ read' = read - 1 /\ write' = write
        /\ read > 0
    BY <1>3 DEF read_take
  <2>6. TypeOK'
    BY <1>0, <2>4, <2>5 DEF TypeOK
  <2>7. CountersCount'
    <3>1. active_reader' = Count("take_read")' + Count("reading")'
      BY <1>0, <2>4, <2>5
    <3>2. reading_reader' = read' + Count("reading")'
      BY <1>0, <2>4, <2>5
    <3>3. active_writer' = Count("take_write")' + InTurn'
      BY <1>0, <2>4, <2>5 DEF InTurn
    <3>4. writing_writer' = write' + InTurn'
      BY <1>0, <2>4, <2>5 DEF InTurn
    <3>5. read' <= Count("take_read")' /\ write' <= Count("take_write")'
      BY <1>0, <2>4, <2>5
    <3> QED
      BY <3>1, <3>2, <3>3, <3>4, <3>5 DEF CountersCount
  <2>8. TurnsAlternate'
    BY <1>0, <2>4, <2>5 DEF TurnsAlternate
  <2>9. Count("writing")' <= 1
    BY <1>0, <2>4, <2>5
  <2> QED
    BY <2>6, <2>7, <2>8, <2>9 DEF IInv
<1>4. ASSUME NEW t \in Tasks, read_release(t)
      PROVE  IInv'
  <2>1. Goes(t, "reading", "idle")
    BY <1>4 DEF read_release
  <2>2. Moved("reading", "idle")
    BY <2>1, GoesCounts DEF IInv, TypeOK, Labels
  <2>4. /\ pc' \in [Tasks -> Labels] /\ Count("reading") >= 1
        /\ Count("take_read") \in Nat /\ Count("take_read")' = Count("take_read")
        /\ Count("reading") \in Nat /\ Count("reading")' = Count("reading") - 1
        /\ Count("take_write") \in Nat /\ Count("take_write")' = Count("take_write")
        /\ Count("lock_w") \in Nat /\ Count("lock_w")' = Count("lock_w")
        /\ Count("writing") \in Nat /\ Count("writing")' = Count("writing")
        /\ Count("unlocked_w") \in Nat /\ Count("unlocked_w")' = Count("unlocked_w")
    BY <2>2 DEF Moved
  <2> DEFINE given == IF reading_reader = 1 THEN active_writer - writing_writer ELSE 0
  <2>5. /\ active_reader' = active_reader - 1 /\ reading_reader' = reading_reader - 1
        /\ active_writer' = active_writer /\ writing_writer' = writing_writer + given
        /\ read' = read /\ write' = write + given
    BY <1>4 DEF read_release
  <2>6. TypeOK'
    BY <1>0, <2>4, <2>5 DEF TypeOK
  <2>7. CountersCount'
    <3>1. active_reader' = Count("take_read")' + Count("reading")'
      BY <1>0, <2>4, <2>5
    <3>2. reading_reader' = read' + Count("reading")'
      BY <1>0, <2>4, <2>5
    <3>3. active_writer' = Count("take_write")' + InTurn'
      BY <1>0, <2>4, <2>5 DEF InTurn
    <3>4. writing_writer' = write' + InTurn'
      BY <1>0, <2>4, <2>5 DEF InTurn
    <3>5. read' <= Count("take_read")' /\ write' <= Count("take_write")'
      BY <1>0, <2>4, <2>5
    <3> QED
      BY <3>1, <3>2, <3>3, <3>4, <3>5 DEF CountersCount
  <2>8. TurnsAlternate'
    <3>1. CASE reading_reader = 1
      <4>1. /\ reading_reader' = 0 /\ active_reader' = active_reader - 1
            /\ active_writer' = active_writer /\ writing_writer' = active_writer
        BY <1>0, <2>5, <3>1
      <4>2. reading_reader' < active_reader' => active_writer' > 0
        BY <1>0, <3>1, <4>1
      <4>3. writing_writer' < active_writer' => reading_reader' > 0
        BY <1>0, <4>1
      <4> QED
        BY <4>1, <4>2, <4>3 DEF TurnsAlternate
    <3>2. CASE reading_reader # 1
      BY <1>0, <2>4, <2>5, <3>2 DEF TurnsAlternate
    <3> QED
      BY <3>1, <3>2
  <2>9. Count("writing")' <= 1
    BY <1>0, <2>4, <2>5
  <2> QED
    BY <2>6, <2>7, <2>8, <2>9 DEF IInv
<1>5. ASSUME NEW t \in Tasks, write_acquire(t)
      PROVE  IInv'
  <2>1. Goes(t, "idle", "take_write")
    BY <1>5 DEF write_acquire
  <2>2. Moved("idle", "take_write")
    BY <2>1, GoesCounts DEF IInv, TypeOK, Labels
  <2>4. /\ pc' \in [Tasks -> Labels] /\ Count("idle") >= 1
        /\ Count("take_read") \in Nat /\ Count("take_read")' = Count("take_read")
        /\ Count("reading") \in Nat /\ Count("reading")' = Count("reading")
        /\ Count("take_write") \in Nat /\ Count("take_write")' = Count("take_write") + 1
        /\ Count("lock_w") \in Nat /\ Count("lock_w")' = Count("lock_w")
        /\ Count("writing") \in Nat /\ Count("writing")' = Count("writing")
        /\ Count("unlocked_w") \in Nat /\ Count("unlocked_w")' = Count("unlocked_w")
    BY <2>2 DEF Moved
  <2> DEFINE given == IF reading_reader = 0 THEN 1 ELSE 0
  <2>5. /\ active_reader' = active_reader /\ reading_reader' = reading_reader
        /\ active_writer' = active_writer + 1 /\ writing_writer' = writing_writer + given
        /\ read' = read /\ write' = write + given
    BY <1>5 DEF write_acquire
  <2>6. TypeOK'
    BY <1>0, <2>4, <2>5 DEF TypeOK
  <2>7. CountersCount'
    BY <1>0, <2>4, <2>5 DEF CountersCount, InTurn
  <2>8. TurnsAlternate'
    BY <1>0, <2>4, <2>5 DEF TurnsAlternate
  <2>9. Count("writing")' <= 1
    BY <1>0, <2>4, <2>5
  <2> QED
    BY <2>6, <2>7, <2>8, <2>9 DEF IInv
<1>6. ASSUME NEW t \in Tasks, write_take(t)
      PROVE  IInv'
  <2>1. Goes(t, "take_write", "lock_w")
    BY <1>6 DEF write_take
  <2>2. Moved("take_write", "lock_w")
    BY <2>1, GoesCounts DEF IInv, TypeOK, Labels
  <2>4. /\ pc' \in [Tasks -> Labels] /\ Count("take_write") >= 1
        /\ Count("take_read") \in Nat /\ Count("take_read")' = Count("take_read")
        /\ Count("reading") \in Nat /\ Count("reading")' = Count("reading")
        /\ Count("take_write") \in Nat /\ Count("take_write")' = Count("take_write") - 1
        /\ Count("lock_w") \in Nat /\ Count("lock_w")' = Count("lock_w") + 1
        /\ Count("writing") \in Nat /\ Count("writing")' = Count("writing")
        /\ Count("unlocked_w") \in Nat /\ Count("unlocked_w")' = Count("unlocked_w")
    BY <2>2 DEF Moved
  <2>5. /\ active_reader' = active_reader /\ reading_reader' = reading_reader
        /\ active_writer' = active_writer /\ writing_writer' = writing_writer
        /\ read' = read /\ write' = write - 1
        /\ write > 0
    BY <1>6 DEF write_take
  <2>6. TypeOK'
    BY <1>0, <2>4, <2>5 DEF TypeOK
  <2>7. CountersCount'
    BY <1>0, <2>4, <2>5 DEF CountersCount, InTurn
  <2>8. TurnsAlternate'
    BY <1>0, <2>4, <2>5 DEF TurnsAlternate
  <2>9. Count("writing")' <= 1
    BY <1>0, <2>4, <2>5
  <2> QED
    BY <2>6, <2>7, <2>8, <2>9 DEF IInv
<1>7. ASSUME NEW t \in Tasks, write_lock(t)
      PROVE  IInv'
  <2>1. Goes(t, "lock_w", "writing")
    BY <1>7 DEF write_lock
  <2>2. Moved("lock_w", "writing")
    BY <2>1, GoesCounts DEF IInv, TypeOK, Labels
  <2>4. /\ pc' \in [Tasks -> Labels] /\ Count("lock_w") >= 1
        /\ Count("take_read") \in Nat /\ Count("take_read")' = Count("take_read")
        /\ Count("reading") \in Nat /\ Count("reading")' = Count("reading")
        /\ Count("take_write") \in Nat /\ Count("take_write")' = Count("take_write")
        /\ Count("lock_w") \in Nat /\ Count("lock_w")' = Count("lock_w") - 1
        /\ Count("writing") \in Nat /\ Count("writing")' = Count("writing") + 1
        /\ Count("unlocked_w") \in Nat /\ Count("unlocked_w")' = Count("unlocked_w")
    BY <2>2 DEF Moved
  <2>3. Count("writing") = 0
    <3>1. Are("writing") = {}
      BY <2>1 DEF Goes, Are
    <3> QED
      BY <3>1, CountIsNat
  <2>5. /\ active_reader' = active_reader /\ reading_reader' = reading_reader
        /\ active_writer' = active_writer /\ writing_writer' = writing_writer
        /\ read' = read /\ write' = write
    BY <1>7 DEF write_lock
  <2>6. TypeOK'
    BY <1>0, <2>4, <2>5, <2>3 DEF TypeOK
  <2>7. CountersCount'
    BY <1>0, <2>4, <2>5, <2>3 DEF CountersCount, InTurn
  <2>8. TurnsAlternate'
    BY <1>0, <2>4, <2>5, <2>3 DEF TurnsAlternate
  <2>9. Count("writing")' <= 1
    BY <1>0, <2>4, <2>5, <2>3
  <2> QED
    BY <2>6, <2>7, <2>8, <2>9 DEF IInv
<1>8. ASSUME NEW t \in Tasks, write_unlock(t)
      PROVE  IInv'
  <2>1. Goes(t, "writing", "unlocked_w")
    BY <1>8 DEF write_unlock
  <2>2. Moved("writing", "unlocked_w")
    BY <2>1, GoesCounts DEF IInv, TypeOK, Labels
  <2>4. /\ pc' \in [Tasks -> Labels] /\ Count("writing") >= 1
        /\ Count("take_read") \in Nat /\ Count("take_read")' = Count("take_read")
        /\ Count("reading") \in Nat /\ Count("reading")' = Count("reading")
        /\ Count("take_write") \in Nat /\ Count("take_write")' = Count("take_write")
        /\ Count("lock_w") \in Nat /\ Count("lock_w")' = Count("lock_w")
        /\ Count("writing") \in Nat /\ Count("writing")' = Count("writing") - 1
        /\ Count("unlocked_w") \in Nat /\ Count("unlocked_w")' = Count("unlocked_w") + 1
    BY <2>2 DEF Moved
  <2>5. /\ active_reader' = active_reader /\ reading_reader' = reading_reader
        /\ active_writer' = active_writer /\ writing_writer' = writing_writer
        /\ read' = read /\ write' = write
    BY <1>8 DEF write_unlock
  <2>6. TypeOK'
    BY <1>0, <2>4, <2>5 DEF TypeOK
  <2>7. CountersCount'
    BY <1>0, <2>4, <2>5 DEF CountersCount, InTurn
  <2>8. TurnsAlternate'
    BY <1>0, <2>4, <2>5 DEF TurnsAlternate
  <2>9. Count("writing")' <= 1
    BY <1>0, <2>4, <2>5
  <2> QED
    BY <2>6, <2>7, <2>8, <2>9 DEF IInv
<1>9. ASSUME NEW t \in Tasks, write_release(t)
      PROVE  IInv'
  <2>1. Goes(t, "unlocked_w", "idle")
    BY <1>9 DEF write_release
  <2>2. Moved("unlocked_w", "idle")
    BY <2>1, GoesCounts DEF IInv, TypeOK, Labels
  <2>4. /\ pc' \in [Tasks -> Labels] /\ Count("unlocked_w") >= 1
        /\ Count("take_read") \in Nat /\ Count("take_read")' = Count("take_read")
        /\ Count("reading") \in Nat /\ Count("reading")' = Count("reading")
        /\ Count("take_write") \in Nat /\ Count("take_write")' = Count("take_write")
        /\ Count("lock_w") \in Nat /\ Count("lock_w")' = Count("lock_w")
        /\ Count("writing") \in Nat /\ Count("writing")' = Count("writing")
        /\ Count("unlocked_w") \in Nat /\ Count("unlocked_w")' = Count("unlocked_w") - 1
    BY <2>2 DEF Moved
  <2> DEFINE given == IF active_writer = 1 THEN active_reader - reading_reader ELSE 0
  <2>5. /\ active_reader' = active_reader /\ reading_reader' = reading_reader + given
        /\ active_writer' = active_writer - 1 /\ writing_writer' = writing_writer - 1
        /\ read' = read + given /\ write' = write
    BY <1>9 DEF write_release
  <2>6. TypeOK'
    BY <1>0, <2>4, <2>5 DEF TypeOK
  <2>7. CountersCount'
    BY <1>0, <2>4, <2>5 DEF CountersCount, InTurn
  <2>8. TurnsAlternate'
    BY <1>0, <2>4, <2>5 DEF TurnsAlternate
  <2>9. Count("writing")' <= 1
    BY <1>0, <2>4, <2>5
  <2> QED
    BY <2>6, <2>7, <2>8, <2>9 DEF IInv
<1> QED
  BY <1>1, <1>2, <1>3, <1>4, <1>5, <1>6, <1>7, <1>8, <1>9 DEF Next

LEMMA IInvImpliesExclusion ==
    ASSUME IsFiniteSet(Tasks), IInv
    PROVE  WriterExcludes
<1>1. \A l \in Labels : Count(l) \in Nat /\ (Count(l) = 0 <=> Are(l) = {})
  BY CountIsNat
<1>2. Are("reading") = {} \/ Are("lock_w") \cup Are("writing") = {}
  <2>1. /\ Count("reading") \in Nat /\ Count("lock_w") \in Nat
        /\ Count("writing") \in Nat /\ Count("unlocked_w") \in Nat
    BY <1>1 DEF Labels
  <2>2. /\ Count("reading") = 0 <=> Are("reading") = {}
        /\ Count("lock_w") = 0 <=> Are("lock_w") = {}
        /\ Count("writing") = 0 <=> Are("writing") = {}
    BY <1>1 DEF Labels
  <2>3. /\ reading_reader = read + Count("reading") /\ read \in Nat
        /\ writing_writer = write + (Count("lock_w") + Count("writing") + Count("unlocked_w"))
        /\ write \in Nat
        /\ reading_reader = 0 \/ writing_writer = 0
    BY DEF IInv, TypeOK, CountersCount, TurnsAlternate, InTurn
  <2>4. Count("reading") = 0 \/ (Count("lock_w") = 0 /\ Count("writing") = 0)
    <3> DEFINE a == Count("reading")
               b == Count("lock_w")
               c == Count("writing")
               d == Count("unlocked_w")
    <3>1. a \in Nat /\ b \in Nat /\ c \in Nat /\ d \in Nat /\ read \in Nat /\ write \in Nat
      BY <2>1, <2>3
    <3>2. read + a = 0 \/ write + (b + c + d) = 0
      BY <2>3
    <3> HIDE DEF a, b, c, d
    <3>3. a = 0 \/ (b = 0 /\ c = 0)
      <4>1. CASE read + a = 0
        BY <4>1, <3>1
      <4>2. CASE write + (b + c + d) = 0
        BY <4>2, <3>1
      <4> QED
        BY <3>2, <4>1, <4>2
    <3> QED
      BY <3>3 DEF a, b, c
  <2>5. Are("reading") = {} \/ (Are("lock_w") = {} /\ Are("writing") = {})
    BY <2>2, <2>4
  <2> QED
    BY <2>5
<1>3. Cardinality(Are("writing")) <= 1
  BY DEF IInv, Count
<1> QED
  BY <1>2, <1>3 DEF WriterExcludes

LEMMA IInvImpliesNobodyStranded ==
    ASSUME IsFiniteSet(Tasks), IInv
    PROVE  NobodyStranded
<1>1. \A l \in Labels : Count(l) \in Nat /\ (Count(l) = 0 <=> Are(l) = {})
  BY CountIsNat
<1>2. /\ Count("take_read") \in Nat /\ Count("reading") \in Nat
      /\ Count("take_write") \in Nat /\ Count("lock_w") \in Nat
      /\ Count("writing") \in Nat /\ Count("unlocked_w") \in Nat
  BY <1>1 DEF Labels
<1>3. /\ Count("take_read") = 0 <=> Are("take_read") = {}
      /\ Count("reading") = 0 <=> Are("reading") = {}
      /\ Count("take_write") = 0 <=> Are("take_write") = {}
      /\ Count("lock_w") = 0 <=> Are("lock_w") = {}
      /\ Count("writing") = 0 <=> Are("writing") = {}
      /\ Count("unlocked_w") = 0 <=> Are("unlocked_w") = {}
  BY <1>1 DEF Labels
<1>4. read \in Nat /\ write \in Nat
  BY DEF IInv, TypeOK
<1>5. \A tr, r, tw, l, w, u, ra, wa \in Nat :
         /\ ra + r = 0 \/ wa + (l + w + u) = 0
         /\ ra + r < tr + r => tw + (l + w + u) > 0
         /\ wa + (l + w + u) < tw + (l + w + u) => ra + r > 0
         /\ ra <= tr /\ wa <= tw
         => /\ tr # 0 => \/ ra > 0
                         \/ wa > 0 \/ ~(l = 0 /\ w = 0 /\ u = 0)
                         \/ (ra > 0 \/ r # 0) /\ tw # 0
            /\ tw # 0 => (ra > 0 \/ r # 0) \/ wa > 0 \/ ~(l = 0 /\ w = 0 /\ u = 0)
  OBVIOUS
<1>6. /\ Count("take_read") # 0 =>
            \/ read > 0
            \/ write > 0 \/ ~(Count("lock_w") = 0 /\ Count("writing") = 0
                               /\ Count("unlocked_w") = 0)
            \/ (read > 0 \/ Count("reading") # 0) /\ Count("take_write") # 0
      /\ Count("take_write") # 0 =>
            \/ read > 0 \/ Count("reading") # 0
            \/ write > 0 \/ ~(Count("lock_w") = 0 /\ Count("writing") = 0
                               /\ Count("unlocked_w") = 0)
  <2>1. /\ read + Count("reading") = 0
           \/ write + (Count("lock_w") + Count("writing") + Count("unlocked_w")) = 0
        /\ read + Count("reading") < Count("take_read") + Count("reading")
           => Count("take_write")
              + (Count("lock_w") + Count("writing") + Count("unlocked_w")) > 0
        /\ write + (Count("lock_w") + Count("writing") + Count("unlocked_w"))
              < Count("take_write")
                + (Count("lock_w") + Count("writing") + Count("unlocked_w"))
           => read + Count("reading") > 0
        /\ read <= Count("take_read") /\ write <= Count("take_write")
    BY DEF IInv, CountersCount, TurnsAlternate, InTurn
  <2> QED
    BY <1>2, <1>4, <1>5, <2>1
<1>7. read <= Cardinality(Are("take_read")) /\ write <= Cardinality(Are("take_write"))
  BY DEF IInv, CountersCount, Count
<1> QED
  BY <1>3, <1>6, <1>7 DEF NobodyStranded, ReaderTurn, WriterTurn
-----------------------------------------------------------------------------
\* The inductive invariant.
THEOREM LockInvariant ==
    ASSUME IsFiniteSet(Tasks)
    PROVE  Spec => []IInv
<1>1. Init => IInv
  BY InitIInv
<1>2. IInv /\ [Next]_vars => IInv'
  BY NextIInv
<1> QED
  BY <1>1, <1>2, PTL DEF Spec

\* read_acquire, write_acquire: nobody reads while a task writes, and one task
\* writes at a time, however many tasks there are.
THEOREM ExclusionHolds ==
    ASSUME IsFiniteSet(Tasks)
    PROVE  Spec => []WriterExcludes
<1>1. IInv => WriterExcludes
  BY IInvImpliesExclusion
<1> QED
  BY <1>1, LockInvariant, PTL

\* read_release, write_release: no token is lost, whoever waits will be let in
\* by a task that has its turn.
THEOREM NobodyStrandedHolds ==
    ASSUME IsFiniteSet(Tasks)
    PROVE  Spec => []NobodyStranded
<1>1. IInv => NobodyStranded
  BY IInvImpliesNobodyStranded
<1> QED
  BY <1>1, LockInvariant, PTL
=============================================================================
