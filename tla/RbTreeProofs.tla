---------------------------- MODULE RbTreeProofs ----------------------------
(***************************************************************************)
(* What linking and unlinking a node do to the nodes and to the order of   *)
(* a tree, for trees of any size; and what proofs about counters of any    *)
(* width, about recursion and about sequences rest on.                     *)
(***************************************************************************)
EXTENDS RbTree, Integers, FiniteSetTheorems, WellFoundedInduction, TLAPS

\* A sequence over a set is one over any larger set.
LEMMA SeqGrows ==
    ASSUME NEW S, NEW T, S \subseteq T, NEW s \in Seq(S)
    PROVE  s \in Seq(T)
OBVIOUS

LEMMA InitialInterval ==
    ASSUME NEW n \in Nat
    PROVE  IsFiniteSet(1..n) /\ Cardinality(1..n) = n
BY FS_Interval

\* The place of a node is a position in or right behind the tree.
LEMMA PlaceType ==
    ASSUME NEW S, NEW tree \in Seq(S), NEW key, NEW n
    PROVE  Place(tree, key, n) \in 0..Len(tree)
<1> DEFINE P == {i \in DOMAIN tree : key[tree[i]] <= key[n]}
<1>1. Len(tree) \in Nat /\ DOMAIN tree = 1..Len(tree)
  OBVIOUS
<1>2. IsFiniteSet(1..Len(tree)) /\ Cardinality(1..Len(tree)) = Len(tree)
  BY <1>1, InitialInterval
<1>3. IsFiniteSet(P) /\ Cardinality(P) <= Len(tree)
  <2>1. P \subseteq 1..Len(tree)
    BY <1>1
  <2> HIDE DEF P
  <2> QED
    BY <1>2, <2>1, FS_Subset
<1>4. Cardinality(P) \in Nat
  BY <1>3, FS_CardinalityType
<1> QED
  BY <1>1, <1>3, <1>4 DEF Place

\* Linking a node adds it, and only it.
LEMMA InsertNodes ==
    ASSUME NEW S, NEW tree \in Seq(S), NEW key, NEW n \in S
    PROVE  /\ rb_insert_node(tree, key, n) \in Seq(S)
           /\ Nodes(rb_insert_node(tree, key, n)) = Nodes(tree) \cup {n}
           /\ NoTwice(tree) /\ n \notin Nodes(tree)
                => NoTwice(rb_insert_node(tree, key, n))
<1> DEFINE p == Place(tree, key, n)
           new == rb_insert_node(tree, key, n)
           L == Len(tree)
<1>1. p \in 0..L /\ L \in Nat /\ DOMAIN tree = 1..L
  BY PlaceType
<1>2. new = [i \in 1..(L + 1) |->
               IF i <= p THEN tree[i] ELSE IF i = p + 1 THEN n ELSE tree[i - 1]]
  BY DEF rb_insert_node
<1> HIDE DEF p, new
<1>3. \A i \in 1..L : tree[i] \in S
  BY <1>1
<1>4. new \in Seq(S) /\ DOMAIN new = 1..(L + 1)
  <2>1. \A i \in 1..(L + 1) : new[i] \in S
    BY <1>1, <1>2, <1>3
  <2> QED
    BY <1>1, <1>2, <2>1
<1>5. Nodes(new) = Nodes(tree) \cup {n}
  <2>1. \A i \in 1..(L + 1) : new[i] \in Nodes(tree) \cup {n}
    <3> SUFFICES ASSUME NEW i \in 1..(L + 1)
                 PROVE  new[i] \in Nodes(tree) \cup {n}
      OBVIOUS
    <3> DEFINE back == IF i <= p THEN i ELSE i - 1
    <3>1. CASE i = p + 1
      BY <1>1, <1>2, <3>1
    <3>2. CASE i # p + 1
      <4>1. back \in 1..L /\ new[i] = tree[back]
        BY <1>1, <1>2, <3>2
      <4> QED
        BY <1>1, <4>1 DEF Nodes
    <3> QED
      BY <3>1, <3>2
  <2>2. \A i \in 1..L : tree[i] \in Nodes(new)
    <3> SUFFICES ASSUME NEW i \in 1..L PROVE tree[i] \in Nodes(new)
      OBVIOUS
    <3>1. CASE i <= p
      <4>1. i \in 1..(L + 1) /\ new[i] = tree[i]
        BY <1>1, <1>2, <3>1
      <4> QED
        BY <1>4, <4>1 DEF Nodes
    <3>2. CASE ~(i <= p)
      <4>1. i + 1 \in 1..(L + 1) /\ new[i + 1] = tree[i]
        BY <1>1, <1>2, <3>2
      <4> QED
        BY <1>4, <4>1 DEF Nodes
    <3> QED
      BY <3>1, <3>2
  <2>3. n \in Nodes(new)
    <3>1. p + 1 \in 1..(L + 1) /\ new[p + 1] = n
      BY <1>1, <1>2
    <3> QED
      BY <1>4, <3>1 DEF Nodes
  <2> QED
    BY <1>1, <1>4, <2>1, <2>2, <2>3 DEF Nodes
<1>6. ASSUME NoTwice(tree), n \notin Nodes(tree)
      PROVE  NoTwice(new)
  <2>1. \A i \in 1..L : tree[i] # n
    BY <1>1, <1>6 DEF Nodes
  <2>2. \A i, j \in 1..L : tree[i] = tree[j] => i = j
    BY <1>1, <1>6 DEF NoTwice
  <2> SUFFICES ASSUME NEW i \in 1..(L + 1), NEW j \in 1..(L + 1),
                      new[i] = new[j], i # j
               PROVE  FALSE
    BY <1>4 DEF NoTwice
  <2>3. CASE i = p + 1 \/ j = p + 1
    BY <1>1, <1>2, <2>1, <2>3
  <2>4. CASE i # p + 1 /\ j # p + 1
    <3> DEFINE back(x) == IF x <= p THEN x ELSE x - 1
    <3>1. back(i) \in 1..L /\ back(j) \in 1..L /\ back(i) # back(j)
      BY <1>1, <2>4
    <3>2. new[i] = tree[back(i)] /\ new[j] = tree[back(j)]
      BY <1>1, <1>2, <2>4
    <3> QED
      BY <2>2, <3>1, <3>2
  <2> QED
    BY <2>3, <2>4
<1> QED
  BY <1>4, <1>5, <1>6 DEF new

\* Unlinking a node removes it, and only it.
LEMMA RemoveNodes ==
    ASSUME NEW S, NEW tree \in Seq(S), NEW n \in Nodes(tree), NoTwice(tree)
    PROVE  /\ rb_remove_node(tree, n) \in Seq(S)
           /\ Nodes(rb_remove_node(tree, n)) = Nodes(tree) \ {n}
           /\ NoTwice(rb_remove_node(tree, n))
<1> DEFINE p == CHOOSE i \in DOMAIN tree : tree[i] = n
           new == rb_remove_node(tree, n)
           L == Len(tree)
<1>1. L \in Nat /\ DOMAIN tree = 1..L
  OBVIOUS
<1>2. p \in 1..L /\ tree[p] = n
  <2>1. \E i \in DOMAIN tree : tree[i] = n
    BY DEF Nodes
  <2> QED
    BY <1>1, <2>1
<1>3. new = [i \in 1..(L - 1) |-> IF i < p THEN tree[i] ELSE tree[i + 1]]
  BY DEF rb_remove_node
<1> HIDE DEF p, new
<1>4. \A i, j \in 1..L : tree[i] = tree[j] => i = j
  BY <1>1 DEF NoTwice
<1>5. L - 1 \in Nat /\ DOMAIN new = 1..(L - 1)
  BY <1>1, <1>2, <1>3
<1>6. new \in Seq(S)
  <2>1. \A i \in 1..(L - 1) : new[i] \in S
    BY <1>1, <1>2, <1>3
  <2> QED
    BY <1>3, <1>5, <2>1
<1>7. Nodes(new) = Nodes(tree) \ {n}
  <2>1. \A i \in 1..(L - 1) : new[i] \in Nodes(tree) /\ new[i] # n
    <3> SUFFICES ASSUME NEW i \in 1..(L - 1)
                 PROVE  new[i] \in Nodes(tree) /\ new[i] # n
      OBVIOUS
    <3> DEFINE j == IF i < p THEN i ELSE i + 1
    <3>1. j \in 1..L /\ j # p /\ new[i] = tree[j]
      BY <1>1, <1>2, <1>3
    <3> QED
      BY <1>1, <1>2, <1>4, <3>1 DEF Nodes
  <2>2. \A i \in 1..L : i # p => tree[i] \in Nodes(new)
    <3> SUFFICES ASSUME NEW i \in 1..L, i # p PROVE tree[i] \in Nodes(new)
      OBVIOUS
    <3> DEFINE j == IF i < p THEN i ELSE i - 1
    <3>1. j \in 1..(L - 1) /\ new[j] = tree[i]
      BY <1>1, <1>2, <1>3
    <3> QED
      BY <1>5, <3>1 DEF Nodes
  <2> QED
    BY <1>1, <1>2, <1>5, <2>1, <2>2 DEF Nodes
<1>8. NoTwice(new)
  <2> SUFFICES ASSUME NEW i \in 1..(L - 1), NEW j \in 1..(L - 1),
                      new[i] = new[j], i # j
               PROVE  FALSE
    BY <1>5 DEF NoTwice
  <2> DEFINE fwd(x) == IF x < p THEN x ELSE x + 1
  <2>1. fwd(i) \in 1..L /\ fwd(j) \in 1..L /\ fwd(i) # fwd(j)
    BY <1>1, <1>2
  <2>2. new[i] = tree[fwd(i)] /\ new[j] = tree[fwd(j)]
    BY <1>1, <1>2, <1>3
  <2> QED
    BY <1>4, <2>1, <2>2
<1> QED
  BY <1>6, <1>7, <1>8 DEF new

\* The nodes that stay in front of n are the first ones: with the tree in order
\* the place is where the keys begin to exceed that of n.
LEMMA PlaceSplits ==
    ASSUME NEW S, NEW tree \in Seq(S), NEW key \in [S -> Int], NEW n \in S,
           Ordered(tree, key)
    PROVE  \A i \in 1..Len(tree) :
               i <= Place(tree, key, n) <=> key[tree[i]] <= key[n]
<1> DEFINE L == Len(tree)
           P == {i \in DOMAIN tree : key[tree[i]] <= key[n]}
           p == Cardinality(P)
<1>1. L \in Nat /\ DOMAIN tree = 1..L /\ \A i \in 1..L : tree[i] \in S
  OBVIOUS
<1>2. P \subseteq 1..L
  BY <1>1
<1>3. \A i \in P : 1..i \subseteq P
  <2> SUFFICES ASSUME NEW i \in P, NEW j \in 1..i PROVE j \in P
    OBVIOUS
  <2>1. i \in 1..L /\ j \in 1..L /\ (j < i \/ j = i) /\ key[tree[i]] <= key[n]
    BY <1>1, <1>2
  <2>2. i \in DOMAIN tree /\ j \in DOMAIN tree
    BY <1>1, <2>1
  <2>3. key[tree[i]] \in Int /\ key[tree[j]] \in Int /\ key[n] \in Int
    BY <1>1, <2>1
  <2>4. CASE j < i
    <3>1. key[tree[j]] <= key[tree[i]]
      BY <2>2, <2>4 DEF Ordered
    <3> QED
      BY <2>1, <2>2, <2>3, <3>1
  <2>5. CASE j = i
    BY <2>1, <2>2, <2>5
  <2> QED
    BY <2>1, <2>4, <2>5
<1> HIDE DEF P
<1>4. IsFiniteSet(P) /\ p \in Nat /\ p <= L
  <2>1. IsFiniteSet(1..L) /\ Cardinality(1..L) = L
    BY <1>1, InitialInterval
  <2>2. IsFiniteSet(P) /\ p <= L
    BY <1>2, <2>1, FS_Subset
  <2> QED
    BY <2>2, FS_CardinalityType
<1>5. \A i \in P : i <= p
  <2> SUFFICES ASSUME NEW i \in P PROVE i <= p
    OBVIOUS
  <2>1. i \in Nat /\ i >= 1
    BY <1>1, <1>2
  <2>2. Cardinality(1..i) = i
    BY <2>1, InitialInterval
  <2> QED
    BY <1>3, <1>4, <2>1, <2>2, FS_Subset
<1>6. P = 1..p
  <2>1. IsFiniteSet(1..p) /\ Cardinality(1..p) = p
    BY <1>4, InitialInterval
  <2>2. P \subseteq 1..p
    BY <1>1, <1>2, <1>4, <1>5
  <2> QED
    BY <2>1, <2>2, FS_Subset
<1>7. \A i \in 1..L : i \in P <=> key[tree[i]] <= key[n]
  BY <1>1 DEF P
<1>8. Place(tree, key, n) = p
  BY DEF Place, P
<1> QED
  BY <1>1, <1>4, <1>6, <1>7, <1>8

\* Linking a node keeps the tree in order.
LEMMA InsertOrdered ==
    ASSUME NEW S, NEW tree \in Seq(S), NEW key \in [S -> Int], NEW n \in S,
           Ordered(tree, key)
    PROVE  Ordered(rb_insert_node(tree, key, n), key)
<1> DEFINE p == Place(tree, key, n)
           new == rb_insert_node(tree, key, n)
           L == Len(tree)
<1>1. p \in 0..L /\ L \in Nat /\ DOMAIN tree = 1..L
  BY PlaceType
<1>2. new = [i \in 1..(L + 1) |->
               IF i <= p THEN tree[i] ELSE IF i = p + 1 THEN n ELSE tree[i - 1]]
  BY DEF rb_insert_node
<1>3. \A i \in 1..L : i <= p <=> key[tree[i]] <= key[n]
  BY PlaceSplits
<1> HIDE DEF p, new
<1>4. \A i \in 1..L : key[tree[i]] \in Int
  BY <1>1
<1>5. key[n] \in Int
  OBVIOUS
<1>6. \A i, j \in 1..L : i < j => key[tree[i]] <= key[tree[j]]
  BY <1>1 DEF Ordered
<1> SUFFICES ASSUME NEW i \in 1..(L + 1), NEW j \in 1..(L + 1), i < j
             PROVE  key[new[i]] <= key[new[j]]
  BY <1>2 DEF Ordered, new
<1> DEFINE back(x) == IF x <= p THEN x ELSE x - 1
<1>7. CASE i = p + 1
  <2>1. j - 1 \in 1..L /\ ~(j - 1 <= p) /\ new[j] = tree[j - 1] /\ new[i] = n
    BY <1>1, <1>2, <1>7
  <2> QED
    BY <1>3, <1>4, <1>5, <2>1
<1>8. CASE j = p + 1
  <2>1. i \in 1..L /\ i <= p /\ new[i] = tree[i] /\ new[j] = n
    BY <1>1, <1>2, <1>8
  <2> QED
    BY <1>3, <1>4, <1>5, <2>1
<1>9. CASE i # p + 1 /\ j # p + 1
  <2>1. back(i) \in 1..L /\ back(j) \in 1..L /\ back(i) < back(j)
    BY <1>1, <1>9
  <2>2. new[i] = tree[back(i)] /\ new[j] = tree[back(j)]
    BY <1>1, <1>2, <1>9
  <2> HIDE DEF back
  <2> QED
    BY <1>6, <2>1, <2>2
<1> QED
  BY <1>7, <1>8, <1>9

\* n stands behind every node whose key is not greater and in front of the others,
\* and those are in the order they had.
LandsBehind(tree, new, key, n) ==
    \E p \in 0..Len(tree) :
       /\ Len(new) = Len(tree) + 1 /\ new[p + 1] = n
       /\ \A i \in 1..p : new[i] = tree[i] /\ key[tree[i]] <= key[n]
       /\ \A i \in (p + 1)..Len(tree) : new[i + 1] = tree[i] /\ key[n] < key[tree[i]]

\* rb_insert_node keeps a tree in the order of its keys, and nodes of one key in the
\* order in which they were linked: the new one comes behind those that are there, and
\* no two of those change places.
THEOREM LinkedInOrder ==
    ASSUME NEW S, NEW tree \in Seq(S), NEW key \in [S -> Int], NEW n \in S,
           Ordered(tree, key)
    PROVE  LET new == rb_insert_node(tree, key, n)
           IN  Ordered(new, key) /\ LandsBehind(tree, new, key, n)
<1> DEFINE p == Place(tree, key, n)
           new == rb_insert_node(tree, key, n)
           L == Len(tree)
<1>1. p \in 0..L /\ L \in Nat /\ DOMAIN tree = 1..L
  BY PlaceType
<1>2. new = [i \in 1..(L + 1) |->
               IF i <= p THEN tree[i] ELSE IF i = p + 1 THEN n ELSE tree[i - 1]]
  BY DEF rb_insert_node
<1>3. \A i \in 1..L : i <= p <=> key[tree[i]] <= key[n]
  BY PlaceSplits
<1>4. \A i \in 1..L : key[tree[i]] \in Int
  BY <1>1
<1>5. Ordered(new, key)
  BY InsertOrdered
<1> HIDE DEF p, new
<1>6. new \in [1..(L + 1) -> S]
  <2>1. \A i \in 1..(L + 1) : i <= p \/ i = p + 1 \/ i - 1 \in 1..L
    BY <1>1
  <2> QED
    BY <1>1, <1>2, <2>1
<1>7. Len(new) = L + 1 /\ new[p + 1] = n
  <2>1. p + 1 \in 1..(L + 1) /\ ~ (p + 1 <= p)
    BY <1>1
  <2> QED
    BY <1>1, <1>2, <1>6, <2>1
<1>8. \A i \in 1..p : new[i] = tree[i] /\ key[tree[i]] <= key[n]
  <2> SUFFICES ASSUME NEW i \in 1..p PROVE new[i] = tree[i] /\ key[tree[i]] <= key[n]
    OBVIOUS
  <2>1. i \in 1..(L + 1) /\ i \in 1..L /\ i <= p
    BY <1>1
  <2> QED
    BY <1>2, <1>3, <2>1
<1>9. \A i \in (p + 1)..L : new[i + 1] = tree[i] /\ key[n] < key[tree[i]]
  <2> SUFFICES ASSUME NEW i \in (p + 1)..L PROVE new[i + 1] = tree[i] /\ key[n] < key[tree[i]]
    OBVIOUS
  <2>1. /\ i + 1 \in 1..(L + 1) /\ i \in 1..L /\ ~ (i <= p) /\ ~ (i + 1 <= p)
        /\ i + 1 # p + 1 /\ (i + 1) - 1 = i
    BY <1>1
  <2>2. new[i + 1] = tree[i]
    BY <1>2, <2>1
  <2>3. key[n] \in Int /\ key[tree[i]] \in Int /\ ~ (key[tree[i]] <= key[n])
    BY <1>3, <1>4, <2>1
  <2> QED
    BY <2>2, <2>3
<1> QED
  BY <1>1, <1>5, <1>7, <1>8, <1>9 DEF LandsBehind, new

\* Unlinking a node keeps the tree in order.
LEMMA RemoveOrdered ==
    ASSUME NEW S, NEW tree \in Seq(S), NEW key, NEW n \in Nodes(tree),
           Ordered(tree, key)
    PROVE  Ordered(rb_remove_node(tree, n), key)
<1> DEFINE p == CHOOSE i \in DOMAIN tree : tree[i] = n
           new == rb_remove_node(tree, n)
           L == Len(tree)
<1>1. L \in Nat /\ DOMAIN tree = 1..L
  OBVIOUS
<1>2. p \in 1..L
  <2>1. \E i \in DOMAIN tree : tree[i] = n
    BY DEF Nodes
  <2> QED
    BY <1>1, <2>1
<1>3. new = [i \in 1..(L - 1) |-> IF i < p THEN tree[i] ELSE tree[i + 1]]
  BY DEF rb_remove_node
<1> HIDE DEF p, new
<1>4. \A i, j \in 1..L : i < j => key[tree[i]] <= key[tree[j]]
  BY <1>1 DEF Ordered
<1> SUFFICES ASSUME NEW i \in 1..(L - 1), NEW j \in 1..(L - 1), i < j
             PROVE  key[new[i]] <= key[new[j]]
  BY <1>3 DEF Ordered, new
<1> DEFINE fwd(x) == IF x < p THEN x ELSE x + 1
<1>5. fwd(i) \in 1..L /\ fwd(j) \in 1..L /\ fwd(i) < fwd(j)
  BY <1>1, <1>2
<1>6. new[i] = tree[fwd(i)] /\ new[j] = tree[fwd(j)]
  BY <1>1, <1>2, <1>3
<1> HIDE DEF fwd
<1> QED
  BY <1>4, <1>5, <1>6

\* The order depends on the keys of the nodes in the tree only.
LEMMA OrderedSameKeys ==
    ASSUME NEW tree, NEW key, NEW other, Ordered(tree, key),
           \A n \in Nodes(tree) : other[n] = key[n]
    PROVE  Ordered(tree, other)
BY DEF Ordered, Nodes

\* The ends of a tree that is not empty are nodes of it.
LEMMA EndsAreNodes ==
    ASSUME NEW S, NEW tree \in Seq(S), tree # <<>>
    PROVE  /\ first_node(tree) \in Nodes(tree) /\ first_node(tree) \in S
           /\ rb_last(tree) \in Nodes(tree) /\ rb_last(tree) \in S
<1>1. Len(tree) \in Nat /\ Len(tree) > 0 /\ DOMAIN tree = 1..Len(tree)
  OBVIOUS
<1>2. 1 \in DOMAIN tree /\ Len(tree) \in DOMAIN tree
  BY <1>1
<1> QED
  BY <1>2 DEF first_node, rb_last, Nodes

\* The first node of a tree in order has the least key.
LEMMA FirstIsLeast ==
    ASSUME NEW S, NEW tree \in Seq(S), NEW key \in [S -> Int],
           Ordered(tree, key), NEW n \in Nodes(tree)
    PROVE  key[first_node(tree)] <= key[n]
<1>1. Len(tree) \in Nat /\ DOMAIN tree = 1..Len(tree)
  OBVIOUS
<1>2. PICK i \in 1..Len(tree) : tree[i] = n
  BY <1>1 DEF Nodes
<1>3. 1 \in 1..Len(tree) /\ tree[1] \in S /\ key[tree[1]] \in Int
  BY <1>1, <1>2
<1>4. i = 1 \/ 1 < i
  BY <1>1, <1>2
<1> QED
  BY <1>1, <1>2, <1>3, <1>4 DEF Ordered, first_node

\* A tree without nodes is empty.
LEMMA EmptyNodes ==
    ASSUME NEW S, NEW tree \in Seq(S)
    PROVE  tree = <<>> <=> Nodes(tree) = {}
<1>1. tree # <<>> => Nodes(tree) # {}
  BY EndsAreNodes
<1>2. Nodes(<<>>) = {}
  BY DEF Nodes
<1> QED
  BY <1>1, <1>2
-----------------------------------------------------------------------------
(***************************************************************************)
(* Words of m values.                                                      *)
(***************************************************************************)
\* A word that is small enough is not cut.
LEMMA SmallMod ==
    ASSUME NEW m \in Nat, NEW n \in 0..(m - 1)
    PROVE  n % m = n
OBVIOUS

\* Division leaves one quotient and one remainder.
LEMMA DivisionUnique ==
    ASSUME NEW m \in Nat, m > 0, NEW a \in Int, NEW b \in Int,
           NEW r \in 0..(m - 1), NEW s \in 0..(m - 1), m * a + r = m * b + s
    PROVE  r = s
<1>1. m * (a - b) = s - r
  OBVIOUS
<1>2. CASE a - b >= 1
  <2>1. m * (a - b) >= m
    BY <1>2
  <2> QED
    BY <1>1, <2>1
<1>3. CASE a - b <= -1
  <2>1. m * (b - a) >= m
    BY <1>3
  <2>2. m * (b - a) = r - s
    OBVIOUS
  <2> QED
    BY <2>1, <2>2
<1>4. CASE a = b
  BY <1>4
<1> QED
  BY <1>2, <1>3, <1>4

\* A word is the same after a whole turn.
LEMMA TurnMod ==
    ASSUME NEW m \in Nat, m > 0, NEW c \in Int
    PROVE  (c + m) % m = c % m
<1> DEFINE q == c \div m
           p == (c + m) \div m
           r == c % m
           s == (c + m) % m
<1>1. /\ q \in Int /\ r \in 0..(m - 1) /\ c = m * q + r
      /\ p \in Int /\ s \in 0..(m - 1) /\ c + m = m * p + s
  OBVIOUS
<1> HIDE DEF p, q, r, s
<1>2. m * (q + 1) + r = m * p + s
  BY <1>1
<1>3. r = s
  BY <1>1, <1>2, DivisionUnique
<1> QED
  BY <1>3 DEF r, s

\* Counting a word down and something else up keeps the sum, also around zero.
LEMMA DownMod ==
    ASSUME NEW m \in Nat, m > 0, NEW v \in 0..(m - 1), NEW c \in Int
    PROVE  /\ (v - 1) % m \in 0..(m - 1)
           /\ (((v - 1) % m) + (c + 1)) % m = (v + c) % m
<1>1. CASE v > 0
  <2>1. v - 1 \in 0..(m - 1)
    BY <1>1
  <2>2. (v - 1) % m = v - 1
    BY <2>1
  <2> QED
    BY <2>1, <2>2
<1>2. CASE v = 0
  <2>1. (-1 + m) % m = (-1) % m
    BY TurnMod
  <2>2. m - 1 \in 0..(m - 1) /\ -1 + m = m - 1
    OBVIOUS
  <2>3. (v - 1) % m = m - 1
    BY <1>2, <2>1, <2>2
  <2>4. (c + m) % m = c % m
    BY TurnMod
  <2> QED
    BY <1>2, <2>2, <2>3, <2>4, SMTT(30)
<1> QED
  BY <1>1, <1>2

\* Counting a word up and something else down keeps the sum, also at the top.
LEMMA UpMod ==
    ASSUME NEW m \in Nat, m > 0, NEW v \in 0..(m - 1), NEW c \in Int
    PROVE  /\ (v + 1) % m \in 0..(m - 1)
           /\ (((v + 1) % m) + (c - 1)) % m = (v + c) % m
<1>1. CASE v + 1 < m
  <2>1. (v + 1) % m = v + 1
    BY <1>1
  <2> QED
    BY <1>1, <2>1
<1>2. CASE v + 1 = m
  <2>1. (0 + m) % m = 0 % m
    BY TurnMod
  <2>2. (v + 1) % m = 0
    BY <1>2, <2>1
  <2> DEFINE d == c - 1
  <2>3. d \in Int /\ v + c = d + m
    BY <1>2
  <2> HIDE DEF d
  <2>4. (d + m) % m = d % m
    BY <2>3, TurnMod
  <2>5. (((v + 1) % m) + d) % m = (v + c) % m
    BY <2>2, <2>3, <2>4
  <2> QED
    BY <2>2, <2>5 DEF d
<1> QED
  BY <1>1, <1>2

\* The position after position x of a ring of m.
LEMMA NextMod ==
    ASSUME NEW m \in Nat, m > 0, NEW x \in Int
    PROVE  ((x % m) + 1) % m = (x + 1) % m
<1> DEFINE q == x \div m
           r == x % m
<1>1. q \in Int /\ r \in 0..(m - 1) /\ x = m * q + r
  OBVIOUS
<1> HIDE DEF q, r
<1> DEFINE p == (r + 1) \div m
           s == (r + 1) % m
           a == (x + 1) \div m
           b == (x + 1) % m
<1>2. /\ p \in Int /\ s \in 0..(m - 1) /\ r + 1 = m * p + s
      /\ a \in Int /\ b \in 0..(m - 1) /\ x + 1 = m * a + b
  BY <1>1
<1> HIDE DEF p, s, a, b
<1>3. q + p \in Int /\ m * (q + p) + s = m * a + b
  BY <1>1, <1>2
<1>4. s = b
  BY <1>2, <1>3, DivisionUnique
<1> QED
  BY <1>4 DEF r, s, b

\* Positions less than a turn apart differ.
LEMMA ApartMod ==
    ASSUME NEW m \in Nat, m > 0, NEW x \in Int, NEW y \in Int,
           x < y, y - x < m
    PROVE  x % m # y % m
<1> SUFFICES ASSUME x % m = y % m PROVE FALSE
  OBVIOUS
<1> DEFINE q == x \div m
           p == y \div m
           r == x % m
<1>1. q \in Int /\ p \in Int /\ r \in 0..(m - 1) /\ x = m * q + r /\ y = m * p + r
  OBVIOUS
<1> HIDE DEF q, p, r
<1>2. m * (p - q) + 0 = m * 0 + (y - x)
  BY <1>1
<1>3. y - x = 0
  BY <1>1, <1>2, DivisionUnique
<1> QED
  BY <1>3
-----------------------------------------------------------------------------
(***************************************************************************)
(* Rings: n elements of an array of d, from the one behind place b on.     *)
(***************************************************************************)
Ring(r, b, n, d) == [i \in 1..n |-> r[(b + i) % d]]

\* An array of d elements of S, of which n are in use.
InRing(r, b, n, d, S) ==
    d \in Nat /\ d > 0 /\ r \in [0..(d - 1) -> S] /\ b \in Int /\ n \in Nat

PutBehind(r, b, n, d, m) == [r EXCEPT ![(b + (n + 1)) % d] = m]

\* There is room for one more, m, and there is one to take.
RoomFor(r, b, n, d, S, m) == InRing(r, b, n, d, S) /\ n < d /\ m \in S
SomeIn(r, b, n, d, S) == InRing(r, b, n, d, S) /\ n > 0

\* Append and Tail, slot by slot.
LEMMA AppendIs ==
    ASSUME NEW S, NEW c \in Seq(S), NEW m \in S
    PROVE  Append(c, m) = [i \in 1..(Len(c) + 1) |-> IF i = Len(c) + 1 THEN m ELSE c[i]]
<1> DEFINE a == Append(c, m)
<1>1. a \in Seq(S) /\ Len(a) = Len(c) + 1 /\ Len(c) \in Nat
  OBVIOUS
<1>2. \A i \in 1..(Len(c) + 1) : a[i] = IF i = Len(c) + 1 THEN m ELSE c[i]
  OBVIOUS
<1> HIDE DEF a
<1>3. a = [i \in 1..(Len(c) + 1) |-> a[i]]
  BY <1>1
<1> QED
  BY <1>2, <1>3 DEF a

LEMMA TailIs ==
    ASSUME NEW S, NEW c \in Seq(S), Len(c) > 0
    PROVE  Tail(c) = [i \in 1..(Len(c) - 1) |-> c[i + 1]]
<1> DEFINE a == Tail(c)
<1>1. a \in Seq(S) /\ Len(a) = Len(c) - 1 /\ Len(c) \in Nat
  OBVIOUS
<1>2. \A i \in 1..(Len(c) - 1) : a[i] = c[i + 1]
  OBVIOUS
<1> HIDE DEF a
<1>3. a = [i \in 1..(Len(c) - 1) |-> a[i]]
  BY <1>1
<1> QED
  BY <1>2, <1>3 DEF a

\* What is at each place of it.
LEMMA RingIs ==
    ASSUME NEW S, NEW d, NEW r, NEW b, NEW n, InRing(r, b, n, d, S),
           NEW c, c = Ring(r, b, n, d)
    PROVE  /\ c \in Seq(S) /\ Len(c) = n
           /\ \A i \in 1..n : c[i] = r[(b + i) % d]
<1>0. d \in Nat /\ d > 0 /\ r \in [0..(d - 1) -> S] /\ b \in Int /\ n \in Nat
  BY DEF InRing
<1>1. \A i \in 1..n : (b + i) % d \in 0..(d - 1)
  BY <1>0
<1>2. c \in [1..n -> S] /\ \A i \in 1..n : c[i] = r[(b + i) % d]
  BY <1>0, <1>1 DEF Ring
<1>3. c \in Seq(S) /\ DOMAIN c = 1..n
  BY <1>0, <1>2
<1> QED
  BY <1>0, <1>2, <1>3

\* Writing the place behind the last element appends, while there is one that
\* is free: it is none of those that are in use.
LEMMA RingAppend ==
    ASSUME NEW S, NEW d, NEW r, NEW b, NEW n, NEW m, RoomFor(r, b, n, d, S, m),
           NEW c, c = Ring(r, b, n, d)
    PROVE  Ring(PutBehind(r, b, n, d, m), b, n + 1, d) = Append(c, m)
<1>0. /\ d \in Nat /\ d > 0 /\ r \in [0..(d - 1) -> S] /\ b \in Int /\ n \in Nat
      /\ n < d /\ m \in S
  BY DEF RoomFor, InRing
<1>1. c \in [1..n -> S] /\ \A i \in 1..n : c[i] = r[(b + i) % d]
  <2>1. \A i \in 1..n : (b + i) % d \in 0..(d - 1)
    BY <1>0
  <2> QED
    BY <1>0, <2>1 DEF Ring
<1>2. c \in Seq(S) /\ Len(c) = n
  <2>1. c \in Seq(S) /\ DOMAIN c = 1..n
    BY <1>0, <1>1
  <2> QED
    BY <1>0, <2>1
<1> DEFINE w == (b + (n + 1)) % d
           new == [r EXCEPT ![w] = m]
<1>3. Append(c, m) = [i \in 1..(n + 1) |-> IF i = n + 1 THEN m ELSE c[i]]
  <2> HIDE DEF w, new
  <2> QED BY <1>0, <1>2, AppendIs
<1>4. ASSUME NEW i \in 1..(n + 1)
      PROVE  new[(b + i) % d] = IF i = n + 1 THEN m ELSE c[i]
  <2>1. w \in 0..(d - 1)
    BY <1>0
  <2>2. CASE i = n + 1
    BY <1>0, <2>1, <2>2
  <2>3. CASE i # n + 1
    <3> DEFINE x == b + i
               y == b + (n + 1)
    <3>1. x \in Int /\ y \in Int /\ x < y /\ y - x < d /\ i \in 1..n
      BY <1>0, <2>3
    <3>2. x % d \in 0..(d - 1)
      BY <1>0, <3>1
    <3> HIDE DEF x, y
    <3>3. x % d # y % d
      BY <1>0, <3>1, ApartMod
    <3> QED
      BY <1>0, <1>1, <2>3, <3>1, <3>2, <3>3 DEF x, y
  <2> QED
    BY <2>2, <2>3
<1> QED
  BY <1>3, <1>4 DEF Ring, PutBehind

\* Going on by one place takes the first element away.
LEMMA RingTail ==
    ASSUME NEW S, NEW d, NEW r, NEW b, NEW n, SomeIn(r, b, n, d, S),
           NEW c, c = Ring(r, b, n, d)
    PROVE  /\ c # <<>> /\ Head(c) = r[(b + 1) % d]
           /\ Tail(c) = Ring(r, b + 1, n - 1, d)
<1>0. /\ d \in Nat /\ d > 0 /\ r \in [0..(d - 1) -> S] /\ b \in Int /\ n \in Nat
      /\ n > 0 /\ InRing(r, b, n, d, S)
  BY DEF SomeIn, InRing
<1>2. c \in Seq(S) /\ Len(c) = n /\ \A i \in 1..n : c[i] = r[(b + i) % d]
  <2>1. InRing(r, b, n, d, S)
    BY DEF SomeIn
  <2> QED
    BY <2>1, RingIs
<1>3. c # <<>> /\ Head(c) = c[1] /\ 1 \in 1..n
  BY <1>0, <1>2
<1>4. Tail(c) = [i \in 1..(n - 1) |-> c[i + 1]]
  BY <1>0, <1>2, TailIs
<1>5. ASSUME NEW i \in 1..(n - 1)
      PROVE  c[i + 1] = r[((b + 1) + i) % d]
  <2>1. i + 1 \in 1..n /\ b + (i + 1) = (b + 1) + i
    BY <1>0
  <2> QED
    BY <1>2, <2>1
<1>6. Tail(c) = Ring(r, b + 1, n - 1, d)
  BY <1>4, <1>5 DEF Ring
<1>7. Head(c) = r[(b + 1) % d]
  BY <1>2, <1>3
<1> QED
  BY <1>3, <1>6, <1>7

\* The place may be counted around the ring.
LEMMA RingTurn ==
    ASSUME NEW d \in Nat, d > 0, NEW r, NEW v \in 0..(d - 1), NEW e \in Int, NEW n \in Nat
    PROVE  Ring(r, ((v + 1) % d) + e, n, d) = Ring(r, (v + e) + 1, n, d)
<1>1. ASSUME NEW i \in 1..n
      PROVE  ((((v + 1) % d) + e) + i) % d = (((v + e) + 1) + i) % d
  <2> DEFINE c == (e + i) + 1
             w == (v + 1) % d
  <2>1. (w + (c - 1)) % d = (v + c) % d
    <3> HIDE DEF c
    <3>1. c \in Int
      BY DEF c
    <3> QED
      BY <3>1, UpMod
  <2>2. w \in Int
    OBVIOUS
  <2> HIDE DEF w
  <2>3. w + (c - 1) = (w + e) + i /\ v + c = ((v + e) + 1) + i
    BY <2>2
  <2> QED
    BY <2>1, <2>3 DEF w
<1> QED
  BY <1>1 DEF Ring

-----------------------------------------------------------------------------
(***************************************************************************)
(* Induction over the natural numbers, and functions defined by it.        *)
(***************************************************************************)
\* A set of natural numbers has a least element: so a claim about every number
\* is refuted by a least counterexample, which is what induction comes to.
LEMMA LeastElement ==
    ASSUME NEW T \in SUBSET Nat, T # {}
    PROVE  \E n \in T : \A m \in T : n <= m
<1> DEFINE R == OpToRel(<, Nat)
<1>1. IsWellFoundedOn(R, Nat)
  BY NatLessThanWellFounded
<1>2. R = {ss \in Nat \X Nat : ss[1] < ss[2]}
  BY DEF OpToRel
<1> HIDE DEF R
<1>3. PICK n \in T : \A m \in T : ~ (<<m, n>> \in R)
  BY <1>1, WFMin
<1>4. \A m \in T : ~ (m < n)
  BY <1>2, <1>3
<1> QED
  BY <1>3, <1>4

\* What holds of 0 and of the successor of every number it holds of.
LEMMA Induction ==
    ASSUME NEW T, 0 \in T, \A n \in Nat : n \in T => n + 1 \in T
    PROVE  Nat \subseteq T
<1> SUFFICES ASSUME Nat \ T # {} PROVE FALSE
  OBVIOUS
<1>1. PICK n \in Nat \ T : \A m \in Nat \ T : n <= m
  BY LeastElement
<1>2. n # 0 /\ n - 1 \in Nat
  BY <1>1
<1>3. n - 1 \in T
  BY <1>1, <1>2
<1> QED
  BY <1>1, <1>2, <1>3

\* A step that is repeated without end has a function of its results.
LEMMA Recursion ==
    ASSUME NEW S, NEW x \in S, NEW step \in [S -> S]
    PROVE  \E f \in [Nat -> S] : f[0] = x /\ \A n \in Nat : f[n + 1] = step[f[n]]
<1> DEFINE Upto(g, n) == /\ g \in [0..n -> S] /\ g[0] = x
                         /\ \A i \in 0..(n - 1) : g[i + 1] = step[g[i]]
           T == {n \in Nat : \E g \in [0..n -> S] : Upto(g, n)}
           U == {n \in Nat : \A m \in Nat : \A g, h : m >= n /\ Upto(g, n) /\ Upto(h, m) => g[n] = h[n]}
<1>1. Nat \subseteq T
  <2>1. 0 \in T
    <3> DEFINE g == [i \in 0..0 |-> x]
    <3>1. Upto(g, 0)
      OBVIOUS
    <3> QED BY <3>1
  <2>2. ASSUME NEW n \in Nat, n \in T PROVE n + 1 \in T
    <3>1. PICK g \in [0..n -> S] : Upto(g, n)
      BY <2>2
    <3> DEFINE h == [i \in 0..(n + 1) |-> IF i = n + 1 THEN step[g[n]] ELSE g[i]]
    <3>2. h \in [0..(n + 1) -> S] /\ h[0] = x
      BY <3>1
    <3>3. \A i \in 0..((n + 1) - 1) : h[i + 1] = step[h[i]]
      BY <3>1
    <3>4. Upto(h, n + 1)
      BY <3>2, <3>3
    <3> HIDE DEF Upto, h
    <3> QED BY <3>2, <3>4
  <2> HIDE DEF T
  <2> QED BY <2>1, <2>2, Induction
<1>2. Nat \subseteq U
  <2>1. 0 \in U
    OBVIOUS
  <2>2. ASSUME NEW n \in Nat, n \in U PROVE n + 1 \in U
    <3> SUFFICES ASSUME NEW m \in Nat, NEW g, NEW h, m >= n + 1,
                        Upto(g, n + 1), Upto(h, m)
                 PROVE g[n + 1] = h[n + 1]
      OBVIOUS
    <3> DEFINE g1 == [i \in 0..n |-> g[i]]
    <3>1. Upto(g1, n) /\ g1[n] = g[n]
      OBVIOUS
    <3>2. g1[n] = h[n]
      <4> HIDE DEF Upto, g1
      <4> QED BY <2>2, <3>1
    <3>3. g[n + 1] = step[g[n]] /\ h[n + 1] = step[h[n]]
      OBVIOUS
    <3> QED BY <3>1, <3>2, <3>3
  <2> HIDE DEF U
  <2> QED BY <2>1, <2>2, Induction
<1> DEFINE G == [n \in Nat |-> CHOOSE g \in [0..n -> S] : Upto(g, n)]
           f == [n \in Nat |-> G[n][n]]
<1>3. ASSUME NEW n \in Nat PROVE Upto(G[n], n)
  <2> HIDE DEF Upto
  <2>1. \E g \in [0..n -> S] : Upto(g, n)
    BY <1>1
  <2> QED BY <2>1
<1> HIDE DEF G
<1>4. f \in [Nat -> S] /\ f[0] = x
  <2>1. \A n \in Nat : G[n] \in [0..n -> S] /\ G[n][0] = x
    BY <1>3
  <2> QED BY <2>1
<1>5. ASSUME NEW n \in Nat PROVE f[n + 1] = step[f[n]]
  <2>0. n + 1 \in Nat /\ n + 1 >= n
    OBVIOUS
  <2> DEFINE a == G[n]
             b == G[n + 1]
             m == n + 1
  <2>1. Upto(a, n) /\ Upto(b, m)
    BY <1>3, <2>0
  <2>4. f[n + 1] = b[m] /\ f[n] = a[n]
    BY <2>0
  <2> HIDE DEF a, b, f
  <2>2. b[m] = step[b[n]]
    BY <2>0, <2>1
  <2>3. a[n] = b[n]
    <3> HIDE DEF Upto, m
    <3>1. n \in U /\ m \in Nat /\ m >= n
      BY <1>2, <2>0 DEF m
    <3> QED BY <2>1, <3>1
  <2> QED BY <2>2, <2>3, <2>4
<1> HIDE DEF f
<1> QED BY <1>4, <1>5

\* Remainders of numbers a little too small or too large.
LEMMA Remainders ==
    ASSUME NEW S \in Nat, S > 0, NEW x \in Int
    PROVE  /\ 0 <= x /\ x < S => x % S = x
           /\ -S <= x /\ x < 0 => x % S = x + S
           /\ S <= x /\ x < 2 * S => x % S = x - S
OBVIOUS

-----------------------------------------------------------------------------
(***************************************************************************)
(* Functions that start somewhere and go on step by step.                  *)
(***************************************************************************)
\* f starts with x, and step i leads from its value at i - 1 to that at i.
Steps(f, L, x, step) == f = [i \in 0..L |-> IF i = 0 THEN x ELSE step[i][f[i - 1]]]

Walk(S, x, L, step) == x \in S /\ L \in Nat /\ step \in [1..L -> [S -> S]]

\* L steps from x: there is such a function, and its values are in S.
LEMMA StepsExist ==
    ASSUME NEW S, NEW x, NEW L \in Nat, NEW step, Walk(S, x, L, step)
    PROVE  \E f : Steps(f, L, x, step)
<1> USE DEF Walk
<1> DEFINE Upto(f, n) == /\ f \in [0..n -> S] /\ f[0] = x
                         /\ \A i \in 0..(n - 1) : f[i + 1] = step[i + 1][f[i]]
           T == {n \in Nat : n <= L => \E f : Upto(f, n)}
<1>1. Nat \subseteq T
  <2>1. 0 \in T
    <3> DEFINE f == [i \in 0..0 |-> x]
    <3>1. Upto(f, 0)
      OBVIOUS
    <3> QED
      BY <3>1
  <2>2. ASSUME NEW n \in Nat, n \in T PROVE n + 1 \in T
    <3> SUFFICES ASSUME n + 1 <= L PROVE \E f : Upto(f, n + 1)
      OBVIOUS
    <3>1. PICK g : Upto(g, n)
      BY <2>2
    <3> DEFINE f == [i \in 0..(n + 1) |-> IF i = n + 1 THEN step[i][g[n]] ELSE g[i]]
    <3>2. f \in [0..(n + 1) -> S] /\ f[0] = x
      BY <3>1
    <3>3. \A i \in 0..((n + 1) - 1) : f[i + 1] = step[i + 1][f[i]]
      BY <3>1
    <3>4. Upto(f, n + 1)
      BY <3>2, <3>3
    <3> HIDE DEF Upto, f
    <3> QED
      BY <3>4
  <2> HIDE DEF T
  <2> QED
    BY <2>1, <2>2, Induction
<1>2. \E f : Steps(f, L, x, step)
  <2>1. PICK f : Upto(f, L)
    BY <1>1
  <2>2. ASSUME NEW i \in 0..L, i # 0 PROVE f[i] = step[i][f[i - 1]]
    <3>1. i - 1 \in 0..(L - 1) /\ (i - 1) + 1 = i
      BY <2>2
    <3> QED
      BY <2>1, <3>1
  <2> QED
    BY <2>1, <2>2 DEF Steps
<1> QED
  BY <1>2

\* What such a function does.
Walks(f, S, x, L, step) ==
    /\ f \in [0..L -> S] /\ f[0] = x
    /\ \A i \in 0..(L - 1) : f[i + 1] = step[i + 1][f[i]]
LEMMA StepsAre ==
    ASSUME NEW S, NEW x, NEW L \in Nat, NEW step, Walk(S, x, L, step),
           NEW f, Steps(f, L, x, step)
    PROVE  Walks(f, S, x, L, step)
<1> USE DEF Walk, Walks
<1>1. f = [i \in 0..L |-> IF i = 0 THEN x ELSE step[i][f[i - 1]]]
  BY DEF Steps
<1>2. f[0] = x
  BY <1>1
<1>3. \A i \in 0..(L - 1) : f[i + 1] = step[i + 1][f[i]]
  <2> SUFFICES ASSUME NEW i \in 0..(L - 1) PROVE f[i + 1] = step[i + 1][f[i]]
    OBVIOUS
  <2>1. i + 1 \in 0..L /\ i + 1 # 0 /\ (i + 1) - 1 = i
    OBVIOUS
  <2> QED
    BY <1>1, <2>1
<1> DEFINE V == {n \in Nat : n <= L => f[n] \in S}
<1>4. 0 \in V
  BY <1>2
<1>5. ASSUME NEW n \in Nat, n \in V PROVE n + 1 \in V
  <2>1. CASE n + 1 <= L
    <3>1. n \in 0..(L - 1) /\ f[n] \in S /\ n + 1 \in 1..L
      BY <1>5, <2>1
    <3>2. step[n + 1] \in [S -> S]
      BY <3>1
    <3>3. f[n + 1] = step[n + 1][f[n]]
      BY <1>3, <3>1
    <3> QED
      BY <3>1, <3>2, <3>3
  <2> QED
    BY <2>1
<1>6. Nat \subseteq V
  <2> HIDE DEF V
  <2> QED
    BY <1>4, <1>5, Induction
<1>7. \A i \in 0..L : f[i] \in S
  BY <1>6
<1> QED
  BY <1>1, <1>2, <1>3, <1>7

\* Functions that start alike and go on alike are alike.
GoAlike(f, g, L) ==
    f[0] = g[0] /\ \A i \in 0..(L - 1) : f[i] = g[i] => f[i + 1] = g[i + 1]
LEMMA StepsSame ==
    ASSUME NEW L \in Nat, NEW f, NEW g, GoAlike(f, g, L)
    PROVE  \A i \in 0..L : f[i] = g[i]
<1> USE DEF GoAlike
<1> DEFINE V == {n \in Nat : n <= L => f[n] = g[n]}
<1>1. 0 \in V
  OBVIOUS
<1>2. ASSUME NEW n \in Nat, n \in V PROVE n + 1 \in V
  <2>1. CASE n + 1 <= L
    <3>1. n \in 0..(L - 1) /\ f[n] = g[n]
      BY <1>2, <2>1
    <3> QED
      BY <3>1
  <2> QED
    BY <2>1
<1>3. Nat \subseteq V
  <2> HIDE DEF V
  <2> QED
    BY <1>1, <1>2, Induction
<1> QED
  BY <1>3

LEMMA AddingUp ==
    ASSUME NEW L \in Nat, NEW w, \A i \in 1..L : w[i] \in Nat
    PROVE  /\ \E f : f = [i \in 0..L |-> IF i = 0 THEN 0 ELSE f[i - 1] + w[i]]
           /\ \A f : f = [i \in 0..L |-> IF i = 0 THEN 0 ELSE f[i - 1] + w[i]] =>
                 /\ f \in [0..L -> Nat] /\ f[0] = 0
                 /\ \A i \in 0..(L - 1) : f[i + 1] = f[i] + w[i + 1]
<1> DEFINE step == [i \in 1..L |-> [a \in Nat |-> a + w[i]]]
<1>1. step \in [1..L -> [Nat -> Nat]]
  OBVIOUS
<1>2. PICK g : /\ g \in [0..L -> Nat] /\ g[0] = 0
               /\ \A i \in 0..(L - 1) : g[i + 1] = step[i + 1][g[i]]
  <2> HIDE DEF step
  <2> DEFINE S == Nat
             none == 0
  <2>1. Walk(S, none, L, step)
    BY <1>1 DEF Walk
  <2> HIDE DEF S, none
  <2>2. PICK f : Steps(f, L, none, step)
    BY <2>1, StepsExist
  <2>3. Walks(f, S, none, L, step)
    BY <2>1, <2>2, StepsAre
  <2> QED
    BY <2>3 DEF Walks, S, none
<1>3. \A i \in 0..(L - 1) : g[i + 1] = g[i] + w[i + 1]
  <2> SUFFICES ASSUME NEW i \in 0..(L - 1) PROVE g[i + 1] = g[i] + w[i + 1]
    OBVIOUS
  <2>1. i + 1 \in 1..L /\ g[i] \in Nat
    BY <1>2
  <2> QED
    BY <1>2, <2>1
<1> HIDE DEF step
<1>4. g = [i \in 0..L |-> IF i = 0 THEN 0 ELSE g[i - 1] + w[i]]
  <2>1. ASSUME NEW i \in 0..L, i # 0 PROVE g[i] = g[i - 1] + w[i]
    <3>1. i - 1 \in 0..(L - 1) /\ (i - 1) + 1 = i
      BY <2>1
    <3> QED
      BY <1>3, <3>1
  <2> QED
    BY <1>2, <2>1
<1>5. ASSUME NEW f, f = [i \in 0..L |-> IF i = 0 THEN 0 ELSE f[i - 1] + w[i]]
      PROVE  /\ f \in [0..L -> Nat] /\ f[0] = 0
             /\ \A i \in 0..(L - 1) : f[i + 1] = f[i] + w[i + 1]
  <2>1. f[0] = 0
    BY <1>5
  <2>2. \A i \in 0..(L - 1) : f[i + 1] = f[i] + w[i + 1]
    <3> SUFFICES ASSUME NEW i \in 0..(L - 1) PROVE f[i + 1] = f[i] + w[i + 1]
      OBVIOUS
    <3>1. i + 1 \in 0..L /\ i + 1 # 0 /\ (i + 1) - 1 = i
      OBVIOUS
    <3> QED
      BY <1>5, <3>1
  <2>3. \A i \in 0..L : f[i] = g[i]
    <3>1. \A i \in 0..(L - 1) : f[i] = g[i] => f[i + 1] = g[i + 1]
      BY <1>3, <2>2
    <3>2. GoAlike(f, g, L)
      BY <1>2, <2>1, <3>1 DEF GoAlike
    <3> QED
      BY <3>2, StepsSame
  <2>4. f = [i \in 0..L |-> f[i]]
    BY <1>5
  <2> QED
    BY <1>2, <2>1, <2>2, <2>3, <2>4
<1> QED
  BY <1>4, <1>5

\* f[i] is d with the first i of the L strings of w behind it.
Strings(S, d, L, w) == S = Seq(Nat) /\ d \in S /\ L \in Nat /\ w \in [1..L -> S]
Joint(f, d, L, w) == f = [i \in 0..L |-> IF i = 0 THEN d ELSE f[i - 1] \o w[i]]
OneByOne(f, S, d, L, w) ==
    /\ f \in [0..L -> S] /\ f[0] = d
    /\ \A i \in 0..(L - 1) : f[i + 1] = f[i] \o w[i + 1]
LEMMA Joining ==
    ASSUME NEW S, NEW d, NEW L, NEW w, Strings(S, d, L, w)
    PROVE  /\ \E f : Joint(f, d, L, w)
           /\ \A f : Joint(f, d, L, w) => OneByOne(f, S, d, L, w)
<1> USE DEF Strings, Joint, OneByOne
<1> DEFINE step == [i \in 1..L |-> [a \in S |-> a \o w[i]]]
<1>1. step \in [1..L -> [S -> S]]
  OBVIOUS
<1>2. PICK g : /\ g \in [0..L -> S] /\ g[0] = d
               /\ \A i \in 0..(L - 1) : g[i + 1] = step[i + 1][g[i]]
  <2> HIDE DEF step
  <2>1. Walk(S, d, L, step)
    BY <1>1 DEF Walk
  <2>2. PICK f : Steps(f, L, d, step)
    BY <2>1, StepsExist
  <2>3. Walks(f, S, d, L, step)
    BY <2>1, <2>2, StepsAre
  <2> QED
    BY <2>3 DEF Walks
<1>3. \A i \in 0..(L - 1) : g[i + 1] = g[i] \o w[i + 1]
  <2> SUFFICES ASSUME NEW i \in 0..(L - 1) PROVE g[i + 1] = g[i] \o w[i + 1]
    OBVIOUS
  <2>1. i + 1 \in 1..L /\ g[i] \in S
    BY <1>2
  <2> QED
    BY <1>2, <2>1
<1> HIDE DEF step
<1>4. g = [i \in 0..L |-> IF i = 0 THEN d ELSE g[i - 1] \o w[i]]
  <2>1. ASSUME NEW i \in 0..L, i # 0 PROVE g[i] = g[i - 1] \o w[i]
    <3>1. i - 1 \in 0..(L - 1) /\ (i - 1) + 1 = i
      BY <2>1
    <3> QED
      BY <1>3, <3>1
  <2>2. g = [i \in 0..L |-> g[i]]
    BY <1>2
  <2> QED
    BY <1>2, <2>1, <2>2
<1>5. ASSUME NEW f, f = [i \in 0..L |-> IF i = 0 THEN d ELSE f[i - 1] \o w[i]]
      PROVE  /\ f \in [0..L -> S] /\ f[0] = d
             /\ \A i \in 0..(L - 1) : f[i + 1] = f[i] \o w[i + 1]
  <2>1. f[0] = d
    BY <1>5
  <2>2. \A i \in 0..(L - 1) : f[i + 1] = f[i] \o w[i + 1]
    <3> SUFFICES ASSUME NEW i \in 0..(L - 1) PROVE f[i + 1] = f[i] \o w[i + 1]
      OBVIOUS
    <3>1. i + 1 \in 0..L /\ i + 1 # 0 /\ (i + 1) - 1 = i
      OBVIOUS
    <3> QED
      BY <1>5, <3>1
  <2>3. \A i \in 0..L : f[i] = g[i]
    <3>1. \A i \in 0..(L - 1) : f[i] = g[i] => f[i + 1] = g[i + 1]
      BY <1>3, <2>2
    <3>2. GoAlike(f, g, L)
      BY <1>2, <2>1, <3>1 DEF GoAlike
    <3> QED
      BY <3>2, StepsSame
  <2>4. f = [i \in 0..L |-> f[i]]
    BY <1>5
  <2> QED
    BY <1>2, <2>1, <2>2, <2>3, <2>4
<1> QED
  BY <1>4, <1>5

-----------------------------------------------------------------------------
(***************************************************************************)
(* Parts of sequences, and sequences joined one after the other.           *)
(***************************************************************************)
\* What is left when the first k are gone.
LEMMA SuffixIs ==
    ASSUME NEW S, NEW q \in Seq(S), NEW k \in 0..Len(q)
    PROVE  /\ SubSeq(q, k + 1, Len(q)) \in Seq(S)
           /\ Len(SubSeq(q, k + 1, Len(q))) = Len(q) - k
           /\ \A i \in 1..(Len(q) - k) :
                 k + i \in 1..Len(q) /\ SubSeq(q, k + 1, Len(q))[i] = q[k + i]
<1>1. Len(q) \in Nat /\ k \in Nat /\ k <= Len(q)
  OBVIOUS
<1>2. SubSeq(q, k + 1, Len(q)) \in Seq(S)
  OBVIOUS
<1>3. Len(SubSeq(q, k + 1, Len(q))) = Len(q) - k
  OBVIOUS
<1>4. \A i \in 1..(Len(q) - k) : SubSeq(q, k + 1, Len(q))[i] = q[k + i]
  OBVIOUS
<1>5. \A i \in 1..(Len(q) - k) : k + i \in 1..Len(q)
  BY <1>1
<1> QED
  BY <1>2, <1>3, <1>4, <1>5

LEMMA PartOfSequence ==
    ASSUME NEW d \in Seq(Nat), NEW lo \in Nat, NEW hi \in Nat, lo <= hi, hi <= Len(d)
    PROVE  /\ SubSeq(d, lo + 1, hi) \in Seq(Nat) /\ Len(SubSeq(d, lo + 1, hi)) = hi - lo
           /\ \A i \in 1..(hi - lo) :
                 lo + i \in 1..Len(d) /\ SubSeq(d, lo + 1, hi)[i] = d[lo + i]
OBVIOUS

\* Three sequences, one after the other.
InARow(r, d, e) ==
    r \o (d \o e) = (r \o d) \o e /\ d \o e \in Seq(Nat) /\ r \o d \in Seq(Nat)

LEMMA JoinAssociates ==
    ASSUME NEW r \in Seq(Nat), NEW d \in Seq(Nat), NEW e \in Seq(Nat)
    PROVE  InARow(r, d, e)
BY SMTT(30) DEF InARow

\* Two sequences, one after the other.
LEMMA OneAfterOther ==
    ASSUME NEW u \in Seq(Nat), NEW v \in Seq(Nat)
    PROVE  /\ u \o v \in Seq(Nat) /\ Len(u \o v) = Len(u) + Len(v)
           /\ Len(u) \in Nat /\ Len(v) \in Nat
           /\ \A i \in 1..Len(u) : (u \o v)[i] = u[i]
           /\ \A i \in 1..Len(v) : (u \o v)[Len(u) + i] = v[i]
OBVIOUS

LEMMA SameSequence ==
    ASSUME NEW d \in Seq(Nat), NEW e \in Seq(Nat), Len(d) = Len(e),
           \A i \in 1..Len(d) : e[i] = d[i]
    PROVE  e = d
<1>1. /\ d = [i \in 1..Len(d) |-> d[i]] /\ e = [i \in 1..Len(e) |-> e[i]]
  OBVIOUS
<1> DEFINE D == 1..Len(d)
<1>2. d = [i \in D |-> d[i]] /\ e = [i \in D |-> e[i]] /\ \A i \in D : e[i] = d[i]
  BY <1>1
<1> HIDE DEF D
<1> QED
  BY <1>2

\* The front of what is to read is read.
LEMMA FrontRead ==
    ASSUME NEW r \in Seq(Nat), NEW d \in Seq(Nat), NEW k \in 0..Len(d)
    PROVE  LET u == SubSeq(d, 1, k)
               v == SubSeq(d, k + 1, Len(d))
           IN  /\ u \in Seq(Nat) /\ v \in Seq(Nat) /\ (r \o u) \o v = r \o d
               /\ r \o u \in Seq(Nat) /\ Len(r \o u) = Len(r) + k
               /\ Len(v) = Len(d) - k
<1> DEFINE u == SubSeq(d, 1, k)
           v == SubSeq(d, k + 1, Len(d))
           e == u \o v
<1>1. k \in Nat /\ Len(d) \in Nat /\ k <= Len(d)
  OBVIOUS
<1>2. u \in Seq(Nat) /\ Len(u) = k /\ \A i \in 1..k : u[i] = d[i]
  BY <1>1
<1>3. /\ v \in Seq(Nat) /\ Len(v) = Len(d) - k
      /\ \A i \in 1..(Len(d) - k) : v[i] = d[k + i]
  BY SuffixIs
<1> HIDE DEF u, v
<1>4. /\ e \in Seq(Nat) /\ Len(e) = Len(u) + Len(v)
      /\ \A i \in 1..Len(u) : e[i] = u[i]
      /\ \A i \in 1..Len(v) : e[Len(u) + i] = v[i]
  BY <1>2, <1>3, OneAfterOther
<1> HIDE DEF e
<1>5. Len(e) = Len(d)
  BY <1>1, <1>2, <1>3, <1>4
<1>6. ASSUME NEW i \in 1..Len(d) PROVE e[i] = d[i]
  <2>1. CASE i <= k
    <3>1. i \in 1..k
      BY <1>1, <2>1
    <3>2. e[i] = u[i]
      BY <1>2, <1>4, <3>1
    <3>3. u[i] = d[i]
      BY <1>2, <3>1
    <3> QED
      BY <3>2, <3>3
  <2>2. CASE i > k
    <3> DEFINE j == i - k
    <3>1. j \in 1..(Len(d) - k) /\ k + j = i
      BY <1>1, <2>2
    <3> HIDE DEF j
    <3>2. e[k + j] = v[j]
      BY <1>2, <1>3, <1>4, <3>1
    <3>3. v[j] = d[k + j]
      BY <1>3, <3>1
    <3> QED
      BY <3>1, <3>2, <3>3
  <2>3. i <= k \/ i > k
    BY <1>1
  <2> QED
    BY <2>1, <2>2, <2>3
<1>7. e = d
  BY <1>4, <1>5, <1>6, SameSequence
<1>8. (r \o u) \o v = r \o d
  <2>1. InARow(r, u, v)
    BY <1>2, <1>3, JoinAssociates
  <2> QED
    BY <1>7, <2>1 DEF e, InARow
<1>9. r \o u \in Seq(Nat) /\ Len(r \o u) = Len(r) + k
  BY <1>2, OneAfterOther
<1> QED
  BY <1>2, <1>3, <1>8, <1>9 DEF u, v
=============================================================================
