-------------------------------- MODULE MCQueue --------------------------------
(***************************************************************************)
(* Instances of Queue for TLC: the options and misfortunes the             *)
(* configurations choose from.                                             *)
(***************************************************************************)
EXTENDS Queue

Plain == [noDeclare |-> FALSE, closeChannelOnUnsubscribe |-> FALSE]

EachOption == {Plain, [Plain EXCEPT !.noDeclare = TRUE],
               [Plain EXCEPT !.closeChannelOnUnsubscribe = TRUE]}

\* All but calls on a queue that is not open.
WhileOpen == FaultKinds \ {"whileDown"}
=============================================================================
