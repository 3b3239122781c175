----------------------------- MODULE ByteStream -----------------------------
(***************************************************************************)
(* What SCP promises the applications at the two ends of a connection: a   *)
(* reliable, ordered stream of bytes in each direction.  The bytes an end  *)
(* sends are numbered 1, 2, ... and the other end reads them in that       *)
(* order, each once, none that was not sent.                               *)
(***************************************************************************)
EXTENDS Naturals, Sequences

CONSTANTS Ends

VARIABLES
    written,    \* how many bytes each end has sent
    readout     \* the bytes each end's peer has read

Init ==
    /\ written = [n \in Ends |-> 0]
    /\ readout = [n \in Ends |-> <<>>]

Write(n) ==
    /\ written'[n] > written[n]
    /\ written' = [written EXCEPT ![n] = written'[n]]
    /\ UNCHANGED readout

\* The peer of n reads the next bytes.
Read(n) ==
    /\ Len(readout'[n]) > Len(readout[n])
    /\ Len(readout'[n]) <= written[n]
    /\ readout' = [readout EXCEPT ![n] = [i \in 1..Len(readout'[n]) |-> i]]
    /\ UNCHANGED written

Next == \E n \in Ends : Write(n) \/ Read(n)

Spec == Init /\ [][Next]_<<written, readout>>
=============================================================================
