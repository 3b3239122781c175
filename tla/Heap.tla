-------------------------------- MODULE Heap --------------------------------
(***************************************************************************)
(* The heap every part allocates from: lttit/mg/source/heap.c.  One call   *)
(* is one critical section.  Addresses and sizes count words of the        *)
(* alignment, 8 bytes, from the aligned start of the arena; the header of  *)
(* a block takes one word.                                                 *)
(***************************************************************************)
EXTENDS Integers, Sequences, FiniteSets, FiniteSetsExt, SequencesExt

CONSTANTS
    Words,      \* words of the arena, the sentinel included
    Requests    \* words callers ask for

Assumption == Words \in Nat /\ Words > 1 /\ Requests \subseteq Nat

VARIABLES
    covers,     \* how far the first block reaches over the sentinel
    list,       \* the free blocks in the order of the list, [at, size]
    used,       \* the blocks in use: address -> size
    all_size,   \* the_heap.all_size
    lost        \* the sentinel is part of a block in use

vars == <<covers, list, used, all_size, lost>>

HeaderWords == 1            \* heap_struct_size
MIN_SIZE == 2 * HeaderWords
tail == Words - HeaderWords
Ends(b) == b.at + b.size

\* heap_init.  The last word becomes the sentinel.  Its place is rounded down
\* when the arena does not end at a multiple of 8, and only then is all_size
\* cut to what lies in front of it: else the first block covers it.
Init ==
    /\ covers \in {0, HeaderWords}
    /\ all_size = tail + covers
    /\ list = <<[at |-> 0, size |-> all_size]>>
    /\ used = <<>>
    /\ lost = FALSE
-----------------------------------------------------------------------------
splits(size, need) == size - need > MIN_SIZE

FirstFit(need) == SelectInSeq(list, LAMBDA b : b.size >= need)

\* The first block that is large enough; what is left of it takes its place.
heap_malloc(request) ==
    LET need == request + HeaderWords
        i == FirstFit(need)
        b == list[i]
        size == IF splits(b.size, need) THEN need ELSE b.size
    IN  /\ ~lost
        /\ i # 0
        /\ list' = IF splits(b.size, need)
                   THEN [list EXCEPT ![i] = [at |-> b.at + need, size |-> b.size - need]]
                   ELSE RemoveAt(list, i)
        /\ used' = [a \in DOMAIN used \cup {b.at} |-> IF a = b.at THEN size ELSE used[a]]
        /\ all_size' = all_size - size
        /\ lost' = (b.at + size > tail)
        /\ UNCHANGED covers

\* Mutant of join: what follows is not looked at.
join_before_only(l, i) ==
    IF i > 1 /\ Ends(l[i - 1]) = l[i].at
    THEN RemoveAt([l EXCEPT ![i - 1].size = @ + l[i].size], i) ELSE l

\* The block at place i grows by the one behind it, then the one in front by it.
join(l, i) ==
    LET m == IF i < Len(l) /\ Ends(l[i]) = l[i + 1].at
             THEN RemoveAt([l EXCEPT ![i].size = @ + l[i + 1].size], i + 1) ELSE l
    IN  IF i > 1 /\ Ends(m[i - 1]) = m[i].at
        THEN RemoveAt([m EXCEPT ![i - 1].size = @ + m[i].size], i) ELSE m

\* insert_free_block: in front of the first block that does not lie below.
FirstAbove(a) ==
    LET i == SelectInSeq(list, LAMBDA b : b.at >= a)
    IN  IF i = 0 THEN Len(list) + 1 ELSE i

heap_free(a) ==
    LET i == FirstAbove(a)
    IN  /\ ~lost
        /\ a \in DOMAIN used
        /\ list' = join(InsertAt(list, i, [at |-> a, size |-> used[a]]), i)
        /\ used' = [x \in DOMAIN used \ {a} |-> used[x]]
        /\ all_size' = all_size + used[a]
        /\ UNCHANGED <<covers, lost>>

Next ==
    \/ \E r \in Requests : heap_malloc(r)
    \/ \E a \in DOMAIN used : heap_free(a)

Spec == Init /\ [][Next]_vars
-----------------------------------------------------------------------------
(***************************************************************************)
(* Properties                                                              *)
(***************************************************************************)
\* The words of a block, of the free blocks and of those in use.
WordsOf(b) == b.at..(Ends(b) - 1)
Free(l) == UNION {WordsOf(l[i]) : i \in DOMAIN l}
InUse(u) == UNION {a..(a + u[a] - 1) : a \in DOMAIN u}
Apart(u) ==
    \A a, b \in DOMAIN u :
        a # b => (a..(a + u[a] - 1)) \cap (b..(b + u[b] - 1)) = {}

\* Free blocks and blocks in use share the arena without gap or overlap, so
\* none is handed out twice and none is lost; the list is in order of address,
\* no two free blocks touch, every block can hold a header, and all_size is
\* what is free.  (Once the sentinel is written over, the list has no end.)
BlocksTileArena ==
    ~lost =>
        /\ Free(list) \cup InUse(used) = 0..(tail + covers - 1)
        /\ Free(list) \cap InUse(used) = {}
        /\ Apart(used)
        /\ \A i \in 1..(Len(list) - 1) : Ends(list[i]) < list[i + 1].at
        /\ \A i \in DOMAIN list : list[i].size >= HeaderWords
        /\ all_size = Cardinality(Free(list))
-----------------------------------------------------------------------------
(***************************************************************************)
(* The inductive invariant behind it.                                      *)
(***************************************************************************)
Block == [at : Nat, size : Nat \ {0}]

\* The blocks come in order of address, and no two touch.
Sparse(l) == \A i, j \in DOMAIN l : i < j => Ends(l[i]) < l[j].at

TypeOK ==
    /\ covers \in {0, HeaderWords} /\ lost \in BOOLEAN
    /\ list \in Seq(Block) /\ all_size \in Nat
    /\ DOMAIN used \subseteq Nat /\ used \in [DOMAIN used -> Nat \ {0}]

IInv ==
    /\ TypeOK
    /\ Sparse(list)
    /\ Free(list) \cup InUse(used) = 0..(tail + covers - 1)
    /\ Free(list) \cap InUse(used) = {}
    /\ Apart(used)
    /\ all_size = Cardinality(Free(list))
=============================================================================
