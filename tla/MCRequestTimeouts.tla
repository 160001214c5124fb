------------------------- MODULE MCRequestTimeouts --------------------------
(***************************************************************************)
(* Request timeouts for TLC: two or three alarms for two identifiers and   *)
(* the 0 that requests without reply share, so that the pool hands out     *)
(* used alarms.                                                            *)
(***************************************************************************)
EXTENDS RequestTimeouts
=============================================================================
