--------------------------- MODULE ConfirmContract ---------------------------
(***************************************************************************)
(* What exchange.publish promises its caller, whatever the channel, the    *)
(* connection and the server go through meanwhile (README.md, section      *)
(* "exchange.publish").  A publish is refused at once, or handed to the    *)
(* server; on an exchange in confirm mode its callback then learns exactly *)
(* once either that the server confirmed it or that its fate is unknown.   *)
(***************************************************************************)

CONSTANT Message \* the publish calls the application makes

VARIABLES outcome,   \* what the application knows of each publish
          confirmed  \* the publishes the server took responsibility for

vars == <<outcome, confirmed>>

Init == /\ outcome = [p \in Message |-> "idle"]
        /\ confirmed = {}

Settle(S, result) ==
  outcome' = [p \in Message |-> IF p \in S THEN result ELSE outcome[p]]

(***************************************************************************)
(* The call of publish: refused, sent without a confirm, or pending.       *)
(***************************************************************************)
Submit(p) == /\ outcome[p] = "idle"
             /\ \E result \in {"rejected", "sent", "pending"} : Settle({p}, result)
             /\ UNCHANGED confirmed

\* The server only confirms what the caller is still waiting to hear about.
Confirm(S) == /\ \A p \in S : outcome[p] = "pending"
              /\ confirmed' = confirmed \cup S
              /\ UNCHANGED outcome

Ack(S) == /\ \A p \in S : outcome[p] = "pending" /\ p \in confirmed
          /\ Settle(S, "acked")
          /\ UNCHANGED confirmed

Fail(S) == /\ \A p \in S : outcome[p] = "pending"
           /\ Settle(S, "failed")
           /\ UNCHANGED confirmed

Next == \/ \E p \in Message : Submit(p)
        \/ \E S \in SUBSET Message : Confirm(S) \/ Ack(S) \/ Fail(S)

Spec == Init /\ [][Next]_vars
=============================================================================
