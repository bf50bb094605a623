------------------------------- MODULE MCRegistry ------------------------------
(***************************************************************************)
(* Instances of Registry for TLC.                                          *)
(***************************************************************************)
EXTENDS Registry, TLC

CONSTANTS c1, c2, o1, o2, o3

\* The other connection shares channelMax only.
AllOnOne == [o \in Objects |-> c1]

Interchangeable == Permutations(Objects)
===============================================================================
