------------------------------ MODULE MCCcbpf -------------------------------
(* The first example of the manual, compiled and run on one node. *)
EXTENDS Migration

S == INSTANCE Sources
MCPrograms == {S!Sums}
MCPacket == <<2>>
=============================================================================
