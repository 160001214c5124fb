--------------------------- MODULE MCMessageQueue ---------------------------
(***************************************************************************)
(* Message queue instances for TLC.  With two ticks per millisecond a      *)
(* message may be half a millisecond ahead, which the run loop rounds; a   *)
(* delay of 0 and one of a second (reduced to one millisecond) make        *)
(* messages overtake each other.                                           *)
(***************************************************************************)
EXTENDS MessageQueue

MCDelays == {0, 2}
=============================================================================
