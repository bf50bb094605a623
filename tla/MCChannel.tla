------------------------------- MODULE MCChannel -------------------------------
(***************************************************************************)
(* Instances of Channel for TLC.  Two tasks wait for the same reply, a     *)
(* third for another one and a fourth for none, so that replies can be     *)
(* matched to the wrong task and tasks without reply sit between others.   *)
(***************************************************************************)
EXTENDS Channel

CONSTANTS t1, t2, t3, t4

FourTasks == {t1, t2, t3, t4}
FourReplies ==
  [t \in FourTasks |-> CASE t \in {t1, t2} -> "cancelOk"
                         [] t = t3 -> "consumeOk"
                         [] OTHER -> NoReply]
=============================================================================
