------------------------------- MODULE World -------------------------------
(***************************************************************************)
(* The name space of lttit/world/source/world.c on every node.  A program  *)
(* registers its drivers by name; world_sync_node sends the names of a     *)
(* node to its peer, which registers them without a driver: a call to such *)
(* a name is answered "no such path" and has to go to the node itself.     *)
(*                                                                         *)
(* Programs sync the names of their own node, and no node is called what   *)
(* another's name begins with: world_dump_node looks for "root/<node>",    *)
(* not for "root/<node>/".  A listing that is longer than the buffer is    *)
(* not cut behind "root", the name of the peer's own driver.               *)
(***************************************************************************)
EXTENDS PrefixMap, FiniteSets, SequencesExt

CONSTANTS
    Nodes,      \* the two ends of the transport
    Prefix,     \* "root/<node>" for each of them
    Drivers,    \* the names its program registers
    Root,       \* the name "root"
    BufferSize  \* the characters world_sync_node has room for (512)

Assumption ==
    /\ Cardinality(Nodes) = 2
    /\ \A n, m \in Nodes : IsPrefix(Prefix[n], Prefix[m]) => n = m
    /\ \A n \in Nodes : \A p \in Drivers[n] : IsPrefix(Prefix[n], p) /\ Len(p) + 1 < BufferSize

VARIABLES
    tree,       \* g_world.tree of each node: name -> "driver" or "no driver"
    line,       \* names on their way to each node
    registered, \* the drivers the program of each node has registered
    learnt      \* the names each node got from its peer

vars == <<tree, line, registered, learnt>>

Peer(n) == CHOOSE m \in Nodes : m # n

\* world_register, when the heap has room.  A name that is there already keeps
\* its vnode, whose ops are replaced.
world_register(map, path, ops) == prefix_map_set(map, path, ops)

\* world_init
Init ==
    /\ tree = [n \in Nodes |-> world_register(Null, Root, "driver")]
    /\ line = [n \in Nodes |-> <<>>]
    /\ registered = [n \in Nodes |-> {Root}]
    /\ learnt = [n \in Nodes |-> {}]
-----------------------------------------------------------------------------
register(n, p) ==
    /\ tree' = [tree EXCEPT ![n] = world_register(@, p, "driver")]
    /\ registered' = [registered EXCEPT ![n] = @ \cup {p}]
    /\ UNCHANGED <<line, learnt>>

\* dump_node_cb: a name and its newline go into the buffer.  The first that does
\* not fit with the 0 behind it ends the listing; what snprintf wrote of it stays.
dump_node_cb(c, p) ==
    IF c.full THEN c
    ELSE IF Len(p) + 1 < c.left
         THEN [c EXCEPT !.names = Append(@, p), !.left = @ - Len(p) - 1]
    ELSE [c EXCEPT !.full = TRUE,
                   !.names = IF c.left = 1 THEN @ ELSE Append(@, SubSeq(p, 1, c.left - 1))]

\* The names of node n in order, as far as the buffer holds them.
world_dump_node(n) ==
    FoldLeft(dump_node_cb, [names |-> <<>>, left |-> BufferSize, full |-> FALSE],
             SelectSeq(prefix_map_iter(tree[n]), LAMBDA p : IsPrefix(Prefix[n], p))).names

\* A node without names sends nothing.
world_sync_node(n) ==
    /\ line[Peer(n)] = <<>>
    /\ world_dump_node(n) # <<>>
    /\ line' = [line EXCEPT ![Peer(n)] = world_dump_node(n)]
    /\ UNCHANGED <<tree, registered, learnt>>

\* The peer's rpc handler finds "root" and calls root_write, which registers
\* line after line.  A name that is new may find the heap exhausted, and nobody
\* looks at what world_register returns.
root_write(n) ==
    /\ line[n] # <<>>
    /\ prefix_map_get(tree[n], Root) = "driver"
    /\ \E failed \in SUBSET {p \in ToSet(line[n]) : prefix_map_get(tree[n], p) = Absent} :
          LET got == SelectSeq(line[n], LAMBDA p : p \notin failed)
          IN  /\ tree' = [tree EXCEPT ![n] =
                             FoldLeft(LAMBDA map, p : world_register(map, p, "no driver"),
                                      @, got)]
              /\ learnt' = [learnt EXCEPT ![n] = @ \cup ToSet(got)]
    /\ line' = [line EXCEPT ![n] = <<>>]
    /\ UNCHANGED registered

\* The request of world_sync_node is lost, or refused by the transport.
lost(n) ==
    /\ line[n] # <<>>
    /\ line' = [line EXCEPT ![n] = <<>>]
    /\ UNCHANGED <<tree, registered, learnt>>

Next ==
    \E n \in Nodes : \/ \E p \in Drivers[n] : register(n, p)
                     \/ world_sync_node(n) \/ root_write(n) \/ lost(n)

Spec == Init /\ [][Next]_vars
-----------------------------------------------------------------------------
(***************************************************************************)
(* Properties                                                              *)
(***************************************************************************)
Names == {Root} \cup UNION {Drivers[n] : n \in Nodes}

\* a comes before b in the order of strcmp.
Before(a, b) ==
    \E i \in 0..Len(a) : /\ \A j \in 0..(i - 1) : key_byte(a, j) = key_byte(b, j)
                         /\ key_byte(a, i) < key_byte(b, i)

\* In whatever order names were registered and learnt, a node finds every name
\* it was given and no other; a driver of its own answers for as long as the
\* program runs, whatever the peer has sent; and the listing has every name
\* once, in order.
NamesResolve ==
    \A n \in Nodes :
        /\ \A p \in Names \cup learnt[n] :
              prefix_map_get(tree[n], p) =
                  IF p \in registered[n] THEN "driver"
                  ELSE IF p \in learnt[n] THEN "no driver" ELSE Absent
        /\ LET listing == prefix_map_iter(tree[n])
           IN  /\ ToSet(listing) = registered[n] \cup learnt[n]
               /\ \A i, j \in DOMAIN listing : i < j => Before(listing[i], listing[j])
=============================================================================
