---------------------------- MODULE RedBlackTree ----------------------------
(***************************************************************************)
(* The red-black tree of lttit/lib/source/rbtree.c: links, colours, and    *)
(* the first and last node it caches.  Its in-order sequence is the tree   *)
(* of RbTree, which the kernel is modelled with.                           *)
(*                                                                         *)
(* What is done on the left is done on the right as in a mirror: s is the  *)
(* side of the case, Other(s) the opposite one.                            *)
(***************************************************************************)
EXTENDS Integers, Sequences, FiniteSets

CONSTANTS
    NodeIds,    \* the nodes clients link
    Value,      \* node->value of each of them when it is linked
    NULL        \* no node

VARIABLE root   \* struct rb_root, with the fields of the nodes: parent, the
                \* child on each side, the set of red nodes

Other(s) == IF s = "left" THEN "right" ELSE "left"
NoNode == [n \in NodeIds |-> NULL]

Init == root = [rb_node |-> NULL, first_node |-> NULL, last_node |-> NULL, count |-> 0,
                parent |-> NoNode, left |-> NoNode, right |-> NoNode, red |-> {}]

Red(t, n) == n \in t.red
Black(t, n) == [t EXCEPT !.red = @ \ {n}]
SetRed(t, n) == [t EXCEPT !.red = @ \cup {n}]

SetParent(t, n, p) == IF n = NULL THEN t ELSE [t EXCEPT !.parent[n] = p]
SideOf(t, n, p) == IF t.left[p] = n THEN "left" ELSE "right"

\* The link from p, or from the root, that leads to n now leads to m.
Relink(t, p, n, m) ==
    IF p = NULL THEN [t EXCEPT !.rb_node = m] ELSE [t EXCEPT ![SideOf(t, n, p)][p] = m]

\* n goes down on side s, its other child comes up.
rb_rotate(t, n, s) ==
    LET up == t[Other(s)][n]
        mid == t[s][up]
        moved == [Relink(t, t.parent[n], n, up)
                     EXCEPT ![Other(s)][n] = mid, ![s][up] = n,
                            !.parent[up] = t.parent[n], !.parent[n] = up]
    IN  SetParent(moved, mid, n)

\* The outermost node below n on side s.
RECURSIVE Outermost(_, _, _)
Outermost(t, n, s) == IF n = NULL \/ t[s][n] = NULL THEN n ELSE Outermost(t, t[s][n], s)

\* rb_next with s = "right", rb_prev with s = "left".
RECURSIVE Above(_, _, _)
Above(t, n, s) ==
    LET p == t.parent[n]
    IN  IF p = NULL \/ t[s][p] # n THEN p ELSE Above(t, p, s)
Neighbour(t, n, s) ==
    IF t[s][n] # NULL THEN Outermost(t, t[s][n], Other(s)) ELSE Above(t, n, s)

RECURSIVE rb_first_greater_below(_, _, _, _)
rb_first_greater_below(t, n, key, candidate) ==
    IF n = NULL THEN candidate
    ELSE IF Value[n] > key THEN rb_first_greater_below(t, t.left[n], key, n)
    ELSE rb_first_greater_below(t, t.right[n], key, candidate)
rb_first_greater(t, key) == rb_first_greater_below(t, t.rb_node, key, NULL)
-----------------------------------------------------------------------------
(***************************************************************************)
(* Linking.                                                                *)
(***************************************************************************)
RECURSIVE rb_insert_color(_, _)
rb_insert_color(t, node) ==
    LET parent == t.parent[node]
        grand == t.parent[parent]
        s == SideOf(t, parent, grand)
        uncle == t[Other(s)][grand]
        inner == t[Other(s)][parent] = node
        turned == IF inner THEN rb_rotate(t, parent, s) ELSE t
        top == IF inner THEN node ELSE parent
    IN  IF ~Red(t, parent) THEN Black(t, t.rb_node)
        ELSE IF Red(t, uncle)
             THEN rb_insert_color(SetRed(Black(Black(t, uncle), parent), grand), grand)
        ELSE LET done == rb_rotate(SetRed(Black(turned, top), grand), grand, Other(s))
             IN  Black(done, done.rb_node)

\* Mutant of Goes: a node is linked in front of those of the same value.
Goes_front(new, n) == IF Value[new] <= Value[n] THEN "left" ELSE "right"

\* To the left only below a strictly greater value.
Goes(new, n) == IF Value[new] < Value[n] THEN "left" ELSE "right"

\* Where the search for a place for new leaves the tree.
RECURSIVE Leaf(_, _, _)
Leaf(t, n, new) ==
    LET below == t[Goes(new, n)][n]
    IN  IF below = NULL THEN n ELSE Leaf(t, below, new)

rb_insert_node(t, new) ==
    LET p == Leaf(t, t.rb_node, new)
        empty == t.count = 0
        linked == IF t.rb_node = NULL THEN [t EXCEPT !.rb_node = new]
                  ELSE [t EXCEPT ![Goes(new, p)][p] = new, !.parent[new] = p]
        cached == [linked EXCEPT
                      !.last_node = IF empty \/ Value[new] >= Value[@] THEN new ELSE @,
                      !.first_node = IF empty \/ Value[new] < Value[@] THEN new ELSE @,
                      !.count = @ + 1]
    IN  rb_insert_color(SetRed(cached, new), new)
-----------------------------------------------------------------------------
(***************************************************************************)
(* Unlinking.                                                              *)
(***************************************************************************)
\* Mutant of last_repair: the far child of the sibling stays red.
last_repair_red(t, parent, s) ==
    LET other == t[Other(s)][parent]
        colour == IF Red(t, parent) THEN SetRed(t, other) ELSE Black(t, other)
        done == rb_rotate(Black(colour, parent), parent, s)
    IN  Black(done, done.rb_node)

\* The sibling has a red child on the far side: one rotation, and all is well.
last_repair(t, parent, s) ==
    LET other == t[Other(s)][parent]
        colour == IF Red(t, parent) THEN SetRed(t, other) ELSE Black(t, other)
        done == rb_rotate(Black(Black(colour, parent), t[Other(s)][other]), parent, s)
    IN  Black(done, done.rb_node)

\* The paths through node, which may be NULL, lack a black node.
RECURSIVE rb_erase_color(_, _, _)
rb_erase_color(t, node, parent) ==
    LET s == SideOf(t, node, parent)
        o == Other(s)
        t1 == IF Red(t, t[o][parent])
              THEN rb_rotate(SetRed(Black(t, t[o][parent]), parent), parent, s) ELSE t
        other == t1[o][parent]
        t2 == IF Red(t1, t1[o][other]) THEN t1
              ELSE rb_rotate(SetRed(Black(t1, t1[s][other]), other), other, o)
    IN  IF Red(t, node) \/ node = t.rb_node THEN Black(t, node)
        ELSE IF ~Red(t1, t1[s][other]) /\ ~Red(t1, t1[o][other])
             THEN rb_erase_color(SetRed(t1, other), parent, t1.parent[parent])
        ELSE last_repair(t2, parent, s)

\* A node with two children is replaced by its successor.
erase_between(t, old) ==
    LET node == Outermost(t, t.right[old], "left")
        child == t.right[node]
        up == t.parent[node]
        cut == SetParent(Relink(t, up, node, child), child, up)
        put == Relink([cut EXCEPT !.parent[node] = t.parent[old],
                                  !.left[node] = cut.left[old], !.right[node] = cut.right[old],
                                  !.red = IF Red(t, old) THEN @ \cup {node} ELSE @ \ {node}],
                      t.parent[old], old, node)
        done == SetParent(SetParent(put, put.left[node], node), put.right[node], node)
    IN  IF Red(t, node) THEN done
        ELSE rb_erase_color(done, child, IF up = old THEN node ELSE up)

rb_erase(t, node) ==
    LET child == IF t.left[node] = NULL THEN t.right[node] ELSE t.left[node]
        up == t.parent[node]
        done == SetParent(Relink(t, up, node, child), child, up)
    IN  IF t.left[node] # NULL /\ t.right[node] # NULL THEN erase_between(t, node)
        ELSE IF Red(t, node) THEN done
        ELSE rb_erase_color(done, child, up)

\* Nobody reads the fields of a node that is not linked: they are reset.
rb_remove_node(t, node) ==
    LET cached ==
            [t EXCEPT !.last_node = IF t.count = 1 THEN NULL
                                    ELSE IF node = @ THEN Neighbour(t, node, "left") ELSE @,
                      !.first_node = IF t.count = 1 THEN NULL
                                     ELSE IF node = @ THEN Neighbour(t, node, "right") ELSE @,
                      !.count = @ - 1]
    IN  [rb_erase(cached, node) EXCEPT
            !.parent[node] = NULL, !.left[node] = NULL, !.right[node] = NULL,
            !.red = @ \ {node}]
-----------------------------------------------------------------------------
\* In-order traversal.
RECURSIVE WalkBelow(_, _)
WalkBelow(t, n) ==
    IF n = NULL THEN <<>> ELSE WalkBelow(t, t.left[n]) \o <<n>> \o WalkBelow(t, t.right[n])
Walk(t) == WalkBelow(t, t.rb_node)
Linked == {n \in NodeIds : root.rb_node = n \/ root.parent[n] # NULL}

Insert(n) == n \notin Linked /\ root' = rb_insert_node(root, n)
Remove(n) == n \in Linked /\ root' = rb_remove_node(root, n)

Next == \E n \in NodeIds : Insert(n) \/ Remove(n)

Spec == Init /\ [][Next]_root
-----------------------------------------------------------------------------
(***************************************************************************)
(* Properties                                                              *)
(***************************************************************************)
\* The tree behaves as the sequence the kernel is modelled with: a node goes
\* behind those of the same value, and only the node that is asked for leaves.
Sequence == INSTANCE RbTree
InsertsOrRemoves ==
    \E n \in NodeIds :
        Walk(root)' = IF n \in Linked THEN Sequence!rb_remove_node(Walk(root), n)
                      ELSE Sequence!rb_insert_node(Walk(root), Value, n)
ImplementsRbTree == [][InsertsOrRemoves]_root

\* The black nodes on the way from n down to every end, -1 if they differ.
RECURSIVE BlackHeight(_)
BlackHeight(n) ==
    IF n = NULL THEN 0
    ELSE LET l == BlackHeight(root.left[n])
             r == BlackHeight(root.right[n])
         IN  IF l # r \/ l = -1 THEN -1 ELSE IF Red(root, n) THEN l ELSE l + 1

\* The first node behind each key.
GreaterIsFirst ==
    LET w == Walk(root)
    IN  \A key \in {Value[n] : n \in NodeIds} :
            LET I == {i \in DOMAIN w : Value[w[i]] > key}
            IN  rb_first_greater(root, key) =
                    IF I = {} THEN NULL ELSE w[CHOOSE i \in I : \A j \in I : i <= j]

\* The links agree in both directions, the cached ends are the ends, and the
\* tree is balanced after any sequence of calls: the root is black, a red node
\* has no red child, every way down has as many black nodes.  So a search by
\* key ends where it should.
TreeIsBalanced ==
    LET w == Walk(root)
        ends == IF w = <<>> THEN <<NULL, NULL>> ELSE <<w[1], w[Len(w)]>>
    IN  /\ root.count = Len(w) /\ Linked = {w[i] : i \in DOMAIN w}
        /\ <<root.first_node, root.last_node>> = ends
        /\ \A n \in Linked, s \in {"left", "right"} :
              root[s][n] # NULL => root.parent[root[s][n]] = n
        /\ ~Red(root, root.rb_node)
        /\ \A n \in root.red : ~Red(root, root.parent[n])
        /\ BlackHeight(root.rb_node) # -1
        /\ GreaterIsFirst
=============================================================================
