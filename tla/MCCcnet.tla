------------------------------ MODULE MCCcnet ------------------------------
(***************************************************************************)
(* Three nodes in a row, the first sends to each of the others with the    *)
(* default ttl: the only node two links away is reached by forwarding.     *)
(***************************************************************************)
EXTENDS Ccnet

INFINITE == 99
Row == [u \in Nodes |-> [v \in Nodes |->
            IF u = v THEN 0 ELSE IF u - v \in {1, -1} THEN 1 ELSE INFINITE]]
Rows == {Row}
First == {0}
DefaultTtl == {0}
=============================================================================
