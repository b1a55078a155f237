----------------------------- MODULE MCChmRing -----------------------------
(***************************************************************************)
(* Instances of ChmRing for TLC.  The configurations differ in how the     *)
(* RING is operated: which commands occur, whether the operator waits for  *)
(* the RING to settle before the next one, whether servers crash and       *)
(* whether the clock moves on while packets are in flight.                 *)
(***************************************************************************)
EXTENDS ChmRing

\* Commands of an operator of an auto-merge RING.
InOutCmds == {"SERVICEIN", "SERVICEOUT", "UPDATE"}

\* Commands of an operator who merges by hand.
MergeCmds == {"SERVICEIN", "SERVICEOUT", "MERGE", "ABORT", "COMPLETE"}

\* Client processes coming and going under the abort command.
ClientCmds == {"JOIN", "LEAVE", "ABORT"}

\* One or more servers in service, filled from the front of the list.
SomeIn == {1 .. k : k \in 1 .. N}

\* At most one server without a client.
MostJoined == {Server} \cup {Server \ {s} : s \in Server}

AllJoined == {Server}
=============================================================================
