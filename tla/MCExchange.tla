------------------------------ MODULE MCExchange ------------------------------
(***************************************************************************)
(* Instances of Exchange for TLC: the sets of options and of misfortunes   *)
(* the configurations choose from.                                         *)
(***************************************************************************)
EXTENDS Exchange, TLC

NetFaults == {"error", "refuse", "nack", "block"}

Symmetry == Permutations(Message)
=============================================================================
