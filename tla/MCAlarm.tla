------------------------------ MODULE MCAlarm -------------------------------
(***************************************************************************)
(* Alarm instances for TLC: every thread may start and cancel any alarm at *)
(* any moment, and identifiers are reused within a run.                    *)
(***************************************************************************)
EXTENDS Alarm

MCDelays == {0, 1}
=============================================================================
