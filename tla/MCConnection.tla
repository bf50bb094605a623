----------------------------- MODULE MCConnection -----------------------------
(***************************************************************************)
(* Instances of Connection for TLC: the sets of misfortunes the            *)
(* configurations choose from.                                             *)
(***************************************************************************)
EXTENDS Connection

NoChannels   == {}
FirstChannel == {1}

DefaultOptions == {[reconnect |-> TRUE, exponential |-> FALSE]}

\* After these the old socket is dead: nothing of it arrives late.
CleanFaults == {"error", "refused", "close"}

PeerEndsIt == {"peerEnd"}
=============================================================================
