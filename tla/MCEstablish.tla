----------------------------- MODULE MCEstablish -----------------------------
(***************************************************************************)
(* From a host to a socket for TLC.  Two calls of the resolver, so that a  *)
(* query may be late for its call and a breaker that was left behind is    *)
(* used again.  Three addresses in the race as in tcp_client.cpp, fewer    *)
(* attempts at a time than addresses, a time limit that is no whole number *)
(* of seconds.                                                             *)
(***************************************************************************)
EXTENDS Establish
===============================================================================
