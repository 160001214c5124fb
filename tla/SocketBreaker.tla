--------------------------- MODULE SocketBreaker ----------------------------
(***************************************************************************)
(* socket/socket_breaker.cpp: a non-blocking pipe and a flag that let one  *)
(* thread wake another out of select.  A breaker is the record of          *)
(*   open    - the two descriptors are those of a pipe,                    *)
(*   bytes   - what is in the pipe,                                        *)
(*   broken  - _broken.                                                    *)
(* Break and Clear hold the breaker's _mutex, so each is one step of the   *)
(* components that use it; they are given here as functions of the record. *)
(* Writing to or reading from descriptors that are closed fails; that the  *)
(* system may have given the same numbers to another file is not modelled. *)
(***************************************************************************)
EXTENDS Naturals

Breaker == [open : BOOLEAN, bytes : 0..1, broken : BOOLEAN]

\* The constructor: pipe() may fail.
NewBreaker(ok) == [open |-> ok, bytes |-> 0, broken |-> FALSE]

\* Break returns true if a signal is already there, without writing.
BreakSucceeds(b) == b.broken \/ b.open

\* Mutant: the flag is set and no byte is written.
BreakWithoutByte(b) == IF b.open THEN [b EXCEPT !.broken = TRUE] ELSE b

Break(b) ==
    IF b.broken \/ ~b.open THEN b
    ELSE [b EXCEPT !.bytes = @ + 1, !.broken = TRUE]

\* read() takes whatever is in the pipe; it fails with EAGAIN on an empty
\* one and with EBADF on a closed one, and then the flag stays.
ClearSucceeds(b) == b.open /\ b.bytes > 0

\* Mutant: the pipe is emptied and the flag stays.
ClearKeepsFlag(b) == IF ClearSucceeds(b) THEN [b EXCEPT !.bytes = 0] ELSE b

Clear(b) ==
    IF ClearSucceeds(b) THEN [b EXCEPT !.bytes = 0, !.broken = FALSE] ELSE b

\* The descriptors keep their numbers; the flag is not touched.
Close(b) == [b EXCEPT !.open = FALSE, !.bytes = 0]

\* A new pipe, if pipe() succeeds; the flag is not touched.
ReCreate(b, ok) == [b EXCEPT !.open = ok, !.bytes = 0]

\* What select sees of BreakerFd.
Readable(b) == b.open /\ b.bytes > 0

\* A byte is in an open pipe, and the flag says so.
Marked(b) == b.bytes = 1 => b.open /\ b.broken
=============================================================================
