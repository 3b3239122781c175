----------------------------- MODULE PrefixMap -----------------------------
(***************************************************************************)
(* The map from strings to values of lttit/lib/source/prefix.c, which      *)
(* holds the name space of a node: a crit-bit tree.  An inner node names   *)
(* the first bit in which the keys below its two children differ.          *)
(*                                                                         *)
(* A string is a sequence of bytes other than 0.  Nothing points into a    *)
(* tree from outside, so a tree is a value: Null, a leaf [key, value], or  *)
(* an inner node [byte, bit, child].                                       *)
(***************************************************************************)
EXTENDS Integers, Sequences

CONSTANT Width  \* bits of a byte (8)

Null == <<>>        \* m->root == 0
Absent == "NULL"    \* what a search for a key that is not there returns

is_inner(p) == "byte" \in DOMAIN p

key_byte(s, i) == IF i < Len(s) THEN s[i + 1] ELSE 0

\* The code keeps the bit n stands for as otherbits, which is every other bit of
\* a byte: 1 + (otherbits | c) overflows the byte when c has the bit.
Side(n, s) == 1 + ((key_byte(s, n.byte) \div 2^(n.bit)) % 2)

\* The leaf that s leads to, whatever its key.
RECURSIVE LeafFor(_, _)
LeafFor(p, s) == IF is_inner(p) THEN LeafFor(p.child[Side(p, s)], s) ELSE p

prefix_map_get(root, key) ==
    LET l == LeafFor(root, key)
    IN  IF l # Null /\ l.key = key THEN l.value ELSE Absent

\* The first byte in which two strings differ, the end counting as 0, and the
\* highest bit in which they differ there.
first_diff(a, b) ==
    LET byte == CHOOSE i \in 0..Len(a) :
                    /\ key_byte(a, i) # key_byte(b, i)
                    /\ \A j \in 0..(i - 1) : key_byte(a, j) = key_byte(b, j)
    IN  [byte |-> byte,
         bit |-> CHOOSE i \in 0..(Width - 1) :
                    /\ key_byte(a, byte) \div 2^i # key_byte(b, byte) \div 2^i
                    /\ key_byte(a, byte) \div 2^(i + 1) = key_byte(b, byte) \div 2^(i + 1)]

\* Mutant of Above: within one byte the order of the bits is not looked at.
Above_byte(d, q) == q.byte > d.byte

\* A node for the difference d belongs above q, whose bit comes later.
Above(d, q) == q.byte > d.byte \/ (q.byte = d.byte /\ q.bit < d.bit)

RECURSIVE NodeAt(_, _, _)
NodeAt(cur, d, new) ==
    IF is_inner(cur) /\ ~Above(d, cur)
    THEN LET s == Side(cur, new.key)
         IN  [cur EXCEPT !.child[s] = NodeAt(@, d, new)]
    ELSE LET s == Side(d, new.key)
         IN  [byte |-> d.byte, bit |-> d.bit,
              child |-> [i \in 1..2 |-> IF i = s THEN new ELSE cur]]

RECURSIVE SetValue(_, _, _)
SetValue(p, key, value) ==
    IF is_inner(p)
    THEN LET s == Side(p, key) IN [p EXCEPT !.child[s] = SetValue(@, key, value)]
    ELSE [p EXCEPT !.value = value]

\* prefix_map_set with the memory it needs.
prefix_map_set(root, key, value) ==
    LET new == [key |-> key, value |-> value]
        old == LeafFor(root, key)
    IN  IF root = Null THEN new
        ELSE IF old.key = key THEN SetValue(root, key, value)
        ELSE NodeAt(root, first_diff(old.key, key), new)

\* The keys in the order prefix_map_iter visits them.
RECURSIVE prefix_map_iter(_)
prefix_map_iter(p) ==
    IF p = Null THEN <<>>
    ELSE IF is_inner(p) THEN prefix_map_iter(p.child[1]) \o prefix_map_iter(p.child[2])
    ELSE <<p.key>>
=============================================================================
