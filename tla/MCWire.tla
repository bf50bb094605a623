--------------------------------- MODULE MCWire --------------------------------
(***************************************************************************)
(* Instances of Wire for TLC: octets of three bits, and contents that are  *)
(* each there for one conversion.                                          *)
(***************************************************************************)
EXTENDS Wire

Content(properties, body) ==
  [routingKey |-> <<4>>, immediate |-> TRUE, properties |-> properties, body |-> body]

BodyOf(n) == [i \in 1 .. n |-> i % Base]

Headers == <<<<<<1>>, [type |-> "int", v |-> 70]>>, <<<<2>>, [type |-> "bool", v |-> TRUE]>>>>

\* No body; a table and a small body; a body of two frames, and the largest
\* timestamp that survives; a property out of its domain.
EachContent ==
  { Content(<<>>, <<>>),
    Content("headers" :> Headers @@ "messageId" :> <<7>>, BodyOf(2)),
    Content("priority" :> 5 @@ "timestamp" :> Pow2[WordBits - 1] - 1, BodyOf(MaxFrame - 7)),
    Content("priority" :> Base, BodyOf(1)) }

ZeroPriority == { Content("priority" :> 0 @@ "messageId" :> <<7>>, <<>>) }

\* What the theorems about Understood and HeardAsGiven suppose holds of the one
\* instance, and not of the other.
ASSUME InstancesAssumption ==
  /\ Contents = EachContent => NothingLost("server") /\ NothingLost("client")
  /\ Contents = ZeroPriority => ~NothingLost("server") /\ ~NothingLost("client")
===============================================================================
