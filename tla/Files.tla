------------------------------- MODULE Files -------------------------------
(***************************************************************************)
(* What the file system promises: a map from paths to files and            *)
(* directories.  An operation on a path changes that path and nothing      *)
(* else, and what was written is what is read.                             *)
(***************************************************************************)
EXTENDS Integers, Sequences

CONSTANTS
    Paths,
    NDIRECT,    \* the most blocks a file has
    Buffers,    \* what may be written at once
    Hole        \* a block that was never written

VARIABLE files  \* [kind, data] of every path

Nothing == [kind |-> "none", data |-> <<>>]
Directory == [kind |-> "dir", data |-> <<>>]
File(data) == [kind |-> "file", data |-> data]

Init == files = [p \in Paths |-> Nothing]

\* A path and those that lead to it, as many as there is room for.
Mkdir ==
    \E p \in Paths :
        \E k \in 1..Len(p) :
            LET made == {SubSeq(p, 1, i) : i \in 1..k}
            IN  files' = [q \in Paths |-> IF q \in made /\ files[q] = Nothing
                                          THEN Directory ELSE files[q]]

Change(p, new) == files' = [files EXCEPT ![p] = new]

Create(p) == files[p] = Nothing /\ Change(p, File(<<>>))
Remove(p) == files[p] # Nothing /\ Change(p, Nothing)
Truncate(p) == files[p].kind = "file" /\ Change(p, File(<<>>))

\* A write stores its blocks in order and leaves the others alone.  The file
\* then ends no earlier than the write did; a write that fails, or that a reset
\* interrupts, does not extend it, may leave the block it was at a hole, and
\* fills no hole.  A hole reads as anything until it is written.
Put(old, new) ==
    \E off \in 0..(NDIRECT - 1), buf \in Buffers :
        LET last == IF off + Len(buf) < NDIRECT THEN off + Len(buf) ELSE NDIRECT
            size == IF Len(old) < last THEN last ELSE Len(old)
        IN  \E k \in off..last :
               /\ Len(new) = IF k = last THEN size ELSE Len(old)
               /\ \A i \in 1..Len(new) :
                     \/ i \in (off + 1)..k /\ new[i] = buf[i - off]
                     \/ /\ k < last /\ i \in (off + 1)..(k + 1) /\ new[i] = Hole
                        /\ i = k + 1 \/ old[i] = Hole
                     \/ i \notin (off + 1)..k /\
                        (i <= Len(old) /\ old[i] # Hole => new[i] = old[i])

Rewrite(p) ==
    /\ files[p].kind = "file"
    /\ \E new \in {files'[p].data} : Change(p, File(new)) /\ Put(files[p].data, new)

Next ==
    \/ Mkdir
    \/ \E p \in Paths : Create(p) \/ Remove(p) \/ Truncate(p) \/ Rewrite(p)

Step == [Next]_files

Spec == Init /\ [][Step]_files
=============================================================================
