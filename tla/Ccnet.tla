------------------------------- MODULE Ccnet -------------------------------
(***************************************************************************)
(* Routing between nodes: lttit/CSC/ccnet/source/ccnet.c.                  *)
(*                                                                         *)
(* Every node knows the same graph of links, computes the shortest paths   *)
(* from itself and keeps only the first hop towards each node.  A packet   *)
(* goes from node to node by these tables.                                 *)
(***************************************************************************)
EXTENDS Integers, Sequences

CONSTANTS
    NodeCount,      \* node_count; the nodes are 0 .. NodeCount - 1
    CostMatrices,   \* the graphs the programs may set up
    INF,            \* CCNET_INF
    TTL_DEFAULT,    \* CCNET_TTL_DEFAULT
    Senders,        \* nodes that send packets
    Ttls,           \* values of ttl they pass to ccnet_output
    MaxSent         \* bound: packets sent

VARIABLES
    cost,       \* g_base.cost: the cost of the link from u to v, INF for none
    next_hop,   \* the table of each node, Unset until it is computed
    packets,    \* packets on a link, with the node they arrive at
    sent,       \* how many were sent
    arrived,    \* packets handed to the application of a node
    discarded   \* packets a node dropped

vars == <<cost, next_hop, packets, sent, arrived, discarded>>

Nodes == 0..(NodeCount - 1)
NoHop == 255
Unset == [v \in Nodes |-> NoHop]

\* The numbers of the nodes leave one for "no hop".  A link costs something,
\* and a way through all the nodes less than what stands for no link.
Assumption ==
    /\ NodeCount \in 1..NoHop /\ INF \in Nat
    /\ \A c \in CostMatrices :
          /\ c \in [Nodes -> [Nodes -> Nat]]
          /\ \A u, v \in Nodes : u # v => c[u][v] > 0
          /\ \E most \in 0..INF :
                /\ most * (NodeCount - 1) < INF
                /\ \A u, v \in Nodes : c[u][v] < INF => c[u][v] <= most

\* ccnet_init everywhere, and the same ccnet_graph_set_edge calls.
Init ==
    /\ cost \in CostMatrices
    /\ next_hop = [n \in Nodes |-> Unset]
    /\ packets = {}
    /\ sent = 0
    /\ arrived = {}
    /\ discarded = {}
-----------------------------------------------------------------------------
(***************************************************************************)
(* Dijkstra's algorithm, from src: d is [dist, prev, visited].             *)
(***************************************************************************)
unvisited(src) ==
    [dist |-> [v \in Nodes |-> IF v = src THEN 0 ELSE INF],
     prev |-> [v \in Nodes |-> -1], visited |-> {}]

\* The nodes that a way is known to and that were not visited.
Ahead(d) == {u \in Nodes : u \notin d.visited /\ d.dist[u] < INF}

\* The nearest of them, the first of several.
Nearest(d) ==
    CHOOSE u \in Ahead(d) : \A v \in Ahead(d) : \/ d.dist[u] < d.dist[v]
                                                \/ d.dist[u] = d.dist[v] /\ u <= v

\* Mutant of relax: a longer way replaces a shorter one.
relax_any(d, u) ==
    LET near == {v \in Nodes \ d.visited : cost[u][v] < INF}
    IN  [dist |-> [v \in Nodes |-> IF v \in near THEN d.dist[u] + cost[u][v] ELSE d.dist[v]],
         prev |-> [v \in Nodes |-> IF v \in near THEN u ELSE d.prev[v]],
         visited |-> d.visited \cup {u}]

relax(d, u) ==
    LET near == {v \in Nodes : cost[u][v] < INF /\ d.dist[u] + cost[u][v] < d.dist[v]}
    IN  [dist |-> [v \in Nodes |-> IF v \in near THEN d.dist[u] + cost[u][v] ELSE d.dist[v]],
         prev |-> [v \in Nodes |-> IF v \in near THEN u ELSE d.prev[v]],
         visited |-> d.visited \cup {u}]

run_dij(src) ==
    LET rounds[i \in 0..NodeCount] ==
            IF i = 0 THEN unvisited(src)
            ELSE LET d == rounds[i - 1]
                 IN  IF Ahead(d) = {} THEN d ELSE relax(d, Nearest(d))
    IN  rounds[NodeCount]

\* Back along prev from dst, to the node whose prev is src.
next_hop_from_dij(d, src, dst) ==
    LET cur[i \in 0..NodeCount] ==
            IF i = 0 THEN dst
            ELSE LET c == cur[i - 1]
                 IN  IF d.prev[c] \in {src, -1} THEN c ELSE d.prev[c]
        first == cur[NodeCount]
    IN  IF dst = src THEN src
        ELSE IF d.dist[dst] >= INF \/ d.prev[first] = -1 THEN NoHop
        ELSE first

table(n) == LET d == run_dij(n) IN [v \in Nodes |-> next_hop_from_dij(d, n, v)]
-----------------------------------------------------------------------------
\* The tables do not depend on each other: the nodes start one after the
\* other, which is no loss.
ccnet_build_routing_table(n) ==
    /\ next_hop[n] = Unset
    /\ \A m \in 0..(n - 1) : next_hop[m] # Unset
    /\ next_hop' = [next_hop EXCEPT ![n] = table(n)]
    /\ UNCHANGED <<cost, packets, sent, arrived, discarded>>

Started == \A n \in Nodes : next_hop[n] # Unset

\* The packet goes to the next hop, where ccnet_input takes it.  check is the
\* ttl its checksum was computed with: the header holds nothing else that
\* changes on the way.  (No program sends to itself.)
ccnet_output(n, dst, t) ==
    LET ttl == IF t = 0 THEN TTL_DEFAULT ELSE t
        h == [src |-> n, dst |-> dst, ttl |-> ttl, check |-> ttl]
    IN  /\ Started
        /\ sent < MaxSent
        /\ next_hop[n][dst] # NoHop
        /\ packets' = packets \cup {[at |-> next_hop[n][dst], h |-> h]}
        /\ sent' = sent + 1
        /\ UNCHANGED <<cost, next_hop, arrived, discarded>>

\* A wrong checksum, a ttl used up, an unknown destination: dropped.  For
\* another node: forwarded, the header as it is.  For this one: delivered.
ccnet_input(p) ==
    LET n == p.at
        h == [p.h EXCEPT !.ttl = @ - 1]
        hop == next_hop[n][h.dst]
        valid == p.h.check = p.h.ttl /\ p.h.ttl # 0
    IN  /\ packets' = (packets \ {p}) \cup
                      (IF valid /\ h.dst # n /\ hop # NoHop THEN {[at |-> hop, h |-> h]} ELSE {})
        /\ arrived' = IF valid /\ h.dst = n THEN arrived \cup {[at |-> n, h |-> h]} ELSE arrived
        /\ discarded' = IF valid /\ (h.dst = n \/ hop # NoHop) THEN discarded
                        ELSE discarded \cup {p}
        /\ UNCHANGED <<cost, next_hop, sent>>

Next ==
    \/ \E n \in Nodes : ccnet_build_routing_table(n)
    \/ \E n \in Senders : \E dst \in Nodes \ {n}, t \in Ttls : ccnet_output(n, dst, t)
    \/ \E p \in packets : ccnet_input(p)

Spec == Init /\ [][Next]_vars
-----------------------------------------------------------------------------
(***************************************************************************)
(* Properties                                                              *)
(***************************************************************************)
\* The simple paths from u to v and what they cost: the reference.
Simple == {p \in UNION {[1..k -> Nodes] : k \in 1..NodeCount} :
              \A i, j \in DOMAIN p : p[i] = p[j] => i = j}
Paths(u, v) ==
    {p \in Simple : /\ p[1] = u /\ p[Len(p)] = v
                    /\ \A i \in 1..(Len(p) - 1) : cost[p[i]][p[i + 1]] < INF}
Length(p) ==
    LET upto[i \in 0..(Len(p) - 1)] ==
            IF i = 0 THEN 0 ELSE upto[i - 1] + cost[p[i]][p[i + 1]]
    IN  upto[Len(p) - 1]

\* The way a packet takes from u to v by the tables of all the nodes.
Way(u, v) ==
    LET way[i \in 0..NodeCount] ==
            IF i = 0 THEN <<u>>
            ELSE LET w == way[i - 1]
                     n == w[Len(w)]
                 IN  IF n \in {v, NoHop} THEN w ELSE Append(w, next_hop[n][v])
    IN  way[NodeCount]

\* Every node decides by its own table; together they lead a packet to every
\* node that can be reached, by a shortest way, and to no other.  (The tables
\* do not change once packets are sent.)
RoutesReach ==
    Started /\ sent = 0 =>
        \A u, v \in Nodes :
            LET P == Paths(u, v)
                w == Way(u, v)
            IN  IF P = {} THEN next_hop[u][v] = NoHop
                ELSE w \in P /\ \A p \in P : Length(w) <= Length(p)

\* The inductive invariant: a table holds nothing until it is computed, and then
\* what the graph says.
IInv ==
    /\ cost \in CostMatrices
    /\ next_hop = [n \in Nodes |-> next_hop[n]]
    /\ \A n \in Nodes : next_hop[n] \in {Unset, table(n)}

\* CSC.md says that nodes pass a packet on until it is in the hands of its
\* node: ccnet_input drops it for a ttl used up only, never on the way.
ForwardedUntilArrived == \A p \in discarded : p.h.ttl = 0
=============================================================================
