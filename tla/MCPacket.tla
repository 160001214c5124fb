------------------------------- MODULE MCPacket -------------------------------
(***************************************************************************)
(* The codec for TLC, whose integers cannot hold 2^32: a smaller word that *)
(* is still larger than all lengths of a message together.  The bytes give *)
(* short lengths, lengths at the edges of a digit, and lengths written     *)
(* with more digits than they need.                                        *)
(***************************************************************************)
EXTENDS Packet

MCHeaderBytes == 0..9 \cup {128, 129}
MCFieldBytes == {0, 1, 127, 128}
MCSizes == {0, 1, 127, 128, 16383, 16384, 2097152, 268435448, 268435449}
===============================================================================
