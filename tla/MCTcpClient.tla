---------------------------- MODULE MCTcpClient -----------------------------
(***************************************************************************)
(* Connection instances for TLC: one or two request identifiers, reused as *)
(* the run goes on, beside the 0 of SendNoReply, and a bounded queue of    *)
(* messages to write.                                                      *)
(***************************************************************************)
EXTENDS TcpClient
=============================================================================
