------------------------------- MODULE RbTree -------------------------------
(***************************************************************************)
(* The ordered collection of lttit/lib/source/rbtree.c as its clients see  *)
(* it.  The kernel keeps every queue in such a tree: the ready tree, the   *)
(* tree of sleeping tasks, the wait tree of each semaphore, mutex and      *)
(* message queue.  A tree is the sequence of its nodes in in-order         *)
(* traversal; the value a node was linked with is key[n].                  *)
(*                                                                         *)
(* Balancing and colours are abstracted: clients only call insert, remove, *)
(* first and last, which depend on the in-order sequence alone.            *)
(***************************************************************************)
EXTENDS Naturals, Sequences, FiniteSets

\* The nodes linked in a tree (node->root == the tree).
Nodes(tree) == {tree[i] : i \in DOMAIN tree}

\* No node is linked twice, and in-order traversal follows the keys.
NoTwice(tree) == \A i, j \in DOMAIN tree : tree[i] = tree[j] => i = j
Ordered(tree, key) ==
    \A i, j \in DOMAIN tree : i < j => key[tree[i]] <= key[tree[j]]

\* How many nodes stay in front of n.  rb_insert_node goes left only below a
\* strictly greater value, so n lands behind every node of the same value.
Place(tree, key, n) ==
    Cardinality({i \in DOMAIN tree : key[tree[i]] <= key[n]})

rb_insert_node(tree, key, n) ==
    LET p == Place(tree, key, n)
    IN  [i \in 1..(Len(tree) + 1) |->
            IF i <= p THEN tree[i] ELSE IF i = p + 1 THEN n ELSE tree[i - 1]]

\* Unlinking a node that is linked.  (The C code has no test: unlinking a node
\* that is not in the tree corrupts it, so every caller here must rule it out.)
rb_remove_node(tree, n) ==
    LET p == CHOOSE i \in DOMAIN tree : tree[i] = n
    IN  [i \in 1..(Len(tree) - 1) |-> IF i < p THEN tree[i] ELSE tree[i + 1]]

\* root->first_node and root->last_node of a tree that is not empty.
first_node(tree) == tree[1]
rb_last(tree) == tree[Len(tree)]
=============================================================================
