------------------------------- MODULE SeqFilter -------------------------------
(***************************************************************************)
(* The elements of a sequence that belong to a set, in their order: what   *)
(* SelectSeq gives for a test of membership, written as a recursive        *)
(* function so that its properties can be proved (SeqFilterProofs).        *)
(***************************************************************************)
EXTENDS Integers, Sequences

Filter(s, P) ==
  LET f[i \in 0 .. Len(s)] ==
        IF i = 0 THEN <<>>
        ELSE IF s[i] \in P THEN Append(f[i - 1], s[i]) ELSE f[i - 1]
  IN  f[Len(s)]
================================================================================
