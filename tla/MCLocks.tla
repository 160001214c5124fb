------------------------------- MODULE MCLocks -------------------------------
(***************************************************************************)
(* The mutexes for TLC: one thread of the application beside the client's  *)
(* and the queue's.  The client thread calls the public interface too, in  *)
(* callbacks, so that two of its operations meet all the same.             *)
(***************************************************************************)
EXTENDS Locks
===============================================================================
