------------------------------- MODULE Parts -------------------------------
(***************************************************************************)
(* Parts that share no state, one per behaviour: part is chosen at the     *)
(* start and says which of them moves.                                     *)
(***************************************************************************)
VARIABLE part
=============================================================================
