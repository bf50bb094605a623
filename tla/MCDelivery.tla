------------------------------- MODULE MCDelivery ------------------------------
(***************************************************************************)
(* Instances of Delivery for TLC: the messages in the queues, and the ways *)
(* to subscribe.                                                           *)
(***************************************************************************)
EXTENDS Delivery

CONSTANTS q1, q2, m1, m2, m3

TwoQueues  == q1 :> <<m1, m2>> @@ q2 :> <<m3>>
Sizes      == m1 :> 0 @@ m2 :> 2 @@ m3 :> 1
\* As README.md has it: shift() only with a prefetchCount of 1.
AsDocumented == {[settle |-> "noAck", prefetchCount |-> 1],
                 [settle |-> "shift", prefetchCount |-> 1],
                 [settle |-> "message", prefetchCount |-> 2]}
===============================================================================
