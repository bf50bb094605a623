------------------------------ MODULE FrameStream ------------------------------
(***************************************************************************)
(* What a reader of frames promises: however the bytes are cut into        *)
(* chunks, the frames sent are handed on one by one, in order, none twice  *)
(* and none left out but one that is refused; an error is raised only for  *)
(* a frame that is flawed; and a reader that stopped hands on no more.     *)
(***************************************************************************)
EXTENDS Naturals, Sequences, SequencesExt

VARIABLES sent,     \* the frames written, each with its flaw
          passed,   \* how many of them have been dealt with
          handed,   \* those handed on
          failed,   \* an error was raised
          stopped   \* nothing is read any more

vars == <<sent, passed, handed, failed, stopped>>

Upcoming == sent[passed + 1]

Init == /\ sent = <<>> /\ handed = <<>>
        /\ passed = 0
        /\ failed = FALSE /\ stopped = FALSE

Send == /\ IsPrefix(sent, sent')
        /\ UNCHANGED <<passed, handed, failed, stopped>>

Pass == /\ ~stopped
        /\ passed < Len(sent)
        /\ passed' = passed + 1

HandOn == /\ Pass
          /\ Upcoming.flaw # "type"
          /\ handed' = Append(handed, Upcoming.frame)
          /\ UNCHANGED <<sent, failed, stopped>>

Refuse == /\ Pass
          /\ Upcoming.flaw = "type"
          /\ failed' = TRUE
          /\ UNCHANGED <<sent, handed, stopped>>

\* An error may be raised as soon as the flaw shows.
Fail == /\ ~stopped
        /\ passed < Len(sent) /\ Upcoming.flaw # "none"
        /\ failed' = TRUE
        /\ stopped' \in BOOLEAN
        /\ UNCHANGED <<sent, passed, handed>>

Stop == /\ failed
        /\ stopped' = TRUE
        /\ UNCHANGED <<sent, passed, handed, failed>>

Next == Send \/ HandOn \/ Refuse \/ Fail \/ Stop

Spec == Init /\ [][Next]_vars
===============================================================================
