---------------------------- MODULE SocketProofs ----------------------------
(***************************************************************************)
(* What the users of the breaker and of select rely on: the breaker in any *)
(* state of its pipe and flag, select with both back ends and whatever is  *)
(* asked of a descriptor and true of it.                                   *)
(***************************************************************************)
EXTENDS SocketBreaker, SocketSelect, TLAPS

-----------------------------------------------------------------------------
(***************************************************************************)
(* The breaker: what Break, Clear, Close and ReCreate do to the pipe and   *)
(* to the flag (socket_breaker.cpp).                                       *)
(***************************************************************************)

\* IsBreak tells the truth of b.
Honest(b) == b.broken => Readable(b)

\* Updating two fields of a breaker gives a breaker.
LEMMA BreakerUpdate ==
  ASSUME NEW b \in Breaker, NEW o \in BOOLEAN, NEW n \in 0..1, NEW k \in BOOLEAN
  PROVE  /\ [b EXCEPT !.open = o, !.bytes = n] \in Breaker
         /\ [b EXCEPT !.bytes = n, !.broken = k] \in Breaker
<1> DEFINE c == [b EXCEPT !.open = o]
           d == [b EXCEPT !.bytes = n]
<1>1. c \in Breaker /\ d \in Breaker
  BY DEF Breaker
<1>2. [c EXCEPT !.bytes = n] \in Breaker /\ [d EXCEPT !.broken = k] \in Breaker
  <2> HIDE DEF c, d
  <2> QED BY <1>1 DEF Breaker
<1>3. QED BY <1>2

\* Clear: the pipe is empty afterwards, and a flag that told the truth still
\* does.
LEMMA ClearFacts ==
  ASSUME NEW b \in Breaker, Marked(b)
  PROVE  /\ Clear(b) \in Breaker /\ Marked(Clear(b))
         /\ Clear(b).open = b.open
         /\ Clear(b).broken => b.broken
         /\ ~Readable(Clear(b))
         /\ Honest(b) => Honest(Clear(b))
<1> USE DEF Breaker, Marked, Readable, ClearSucceeds, Honest
<1>1. CASE ClearSucceeds(b)
  <2>1. Clear(b) = [open |-> b.open, bytes |-> 0, broken |-> FALSE]
    BY <1>1 DEF Clear
  <2>2. QED BY <2>1
<1>2. CASE ~ClearSucceeds(b)
  <2>1. Clear(b) = b
    BY <1>2 DEF Clear
  <2>2. QED BY <2>1, <1>2
<1>3. QED BY <1>1, <1>2

\* Break: a breaker that tells the truth and has its pipe is readable
\* afterwards; there is never a second byte.
LEMMA BreakFacts ==
  ASSUME NEW b \in Breaker, Marked(b)
  PROVE  /\ Break(b) \in Breaker /\ Marked(Break(b))
         /\ Break(b).open = b.open
         /\ ~b.open => Break(b) = b
         /\ Honest(b) => Honest(Break(b)) /\ (b.open => Readable(Break(b)))
<1> USE DEF Breaker, Marked, Readable, Honest
<1>1. CASE b.broken \/ ~b.open
  <2>1. Break(b) = b
    BY <1>1 DEF Break
  <2>2. QED BY <2>1, <1>1
<1>2. CASE ~b.broken /\ b.open
  <2>1. b.bytes = 0
    BY <1>2
  <2>2. Break(b) = [b EXCEPT !.bytes = 1, !.broken = TRUE]
    BY <1>2, <2>1 DEF Break
  <2>3. 1 \in 0..1
    OBVIOUS
  <2>4. Break(b) \in Breaker
    BY <2>2, <2>3, BreakerUpdate, Zenon
  <2>5. Break(b).open = b.open /\ Break(b).bytes = 1 /\ Break(b).broken = TRUE
    BY <2>2
  <2>6. QED BY <2>4, <2>5, <1>2
<1>3. QED BY <1>1, <1>2

\* Close: the pipe is gone and the flag stays.
LEMMA CloseFacts ==
  ASSUME NEW b \in Breaker
  PROVE  /\ Close(b) \in Breaker /\ Marked(Close(b))
         /\ ~Close(b).open /\ Close(b).broken = b.broken
<1> 0 \in 0..1
  OBVIOUS
<1>1. Close(b) \in Breaker
  BY BreakerUpdate, Zenon DEF Close
<1>2. Close(b).open = FALSE /\ Close(b).bytes = 0 /\ Close(b).broken = b.broken
  BY DEF Breaker, Close
<1>3. QED BY <1>1, <1>2 DEF Marked

\* ReCreate: a new pipe, if there is one, is empty, and the flag stays.
LEMMA ReCreateFacts ==
  ASSUME NEW b \in Breaker, NEW ok \in BOOLEAN
  PROVE  /\ ReCreate(b, ok) \in Breaker /\ Marked(ReCreate(b, ok))
         /\ ReCreate(b, ok).open = ok /\ ReCreate(b, ok).broken = b.broken
         /\ ~Readable(ReCreate(b, ok))
<1> 0 \in 0..1
  OBVIOUS
<1>1. ReCreate(b, ok) \in Breaker
  BY BreakerUpdate, Zenon DEF ReCreate
<1>2. /\ ReCreate(b, ok).open = ok /\ ReCreate(b, ok).bytes = 0
      /\ ReCreate(b, ok).broken = b.broken
  BY DEF Breaker, ReCreate
<1>3. QED BY <1>1, <1>2 DEF Marked, Readable

\* The constructor.
LEMMA NewBreakerFacts ==
  ASSUME NEW ok \in BOOLEAN
  PROVE  /\ NewBreaker(ok) \in Breaker /\ Marked(NewBreaker(ok)) /\ Honest(NewBreaker(ok))
         /\ ~NewBreaker(ok).broken /\ ~Readable(NewBreaker(ok))
BY DEF NewBreaker, Breaker, Marked, Honest, Readable

-----------------------------------------------------------------------------
(***************************************************************************)
(* Select.                                                                 *)
(***************************************************************************)
\* That the back end has an event for the descriptor, so that Select returns.
Reported(b, asked, facts) ==
    IF b = "epoll" THEN EpollFlags(Registered(b, asked), facts) # {}
    ELSE \E f \in Registered(b, asked) : Ready(f, facts)

LEMMA FailedFlags ==
    ASSUME NEW asked, asked # {}, NEW facts, "failed" \in facts, "closed" \notin facts
    PROVE  "EPOLLERR" \in EpollFlags(asked, facts)
BY DEF EpollFlags

\* What a report of kqueue is made of.
LEMMA KqueueFirst ==
    ASSUME NEW asked \in SUBSET Asks, NEW facts,
           NEW r \in Reports("kqueue", asked, facts),
           \E f \in Registered("kqueue", asked) : Ready(f, facts)
    PROVE  \E first \in {"read", "write"} :
              /\ first \in {f \in Registered("kqueue", asked) : Ready(f, facts)}
              /\ r = KqueueReport({f \in Registered("kqueue", asked) : Ready(f, facts)},
                                  first, facts)
<1> DEFINE reported == {f \in Registered("kqueue", asked) : Ready(f, facts)}
<1>1. r \in KqueueReports(reported, facts)
    BY DEF Reports
<1>2. reported # {}
    OBVIOUS
<1>3. PICK first \in reported : r = KqueueReport(reported, first, facts)
    <2> HIDE DEF reported
    <2> QED BY <1>1, <1>2 DEF KqueueReports
<1>4. first \in {"read", "write"}
    BY <1>3 DEF Registered, Asks
<1> QED BY <1>3, <1>4

(***************************************************************************)
(* A socket whose connection has failed is an exception to whoever asked   *)
(* for reading or writing it, with either back end, even where kqueue      *)
(* reports two events and ExceptionFdIsSet looks at the first only         *)
(* (socket_epoll.cpp:151-158, socket_kqueue.cpp:141-148).  The loops test  *)
(* for the exception first.                                                *)
(***************************************************************************)
THEOREM FailureIsSeen ==
    ASSUME NEW b \in Backends, NEW asked \in SUBSET Asks,
           asked \cap {"read", "write"} # {},
           NEW facts, "failed" \in facts, "closed" \notin facts,
           NEW r \in Reports(b, asked, facts)
    PROVE  r.exception
<1>1. CASE b = "epoll"
    <2>1. r = EpollReport(EpollFlags(asked, facts))
        BY <1>1 DEF Reports, Registered
    <2>2. "EPOLLERR" \in EpollFlags(asked, facts)
        BY FailedFlags
    <2> QED BY <2>1, <2>2 DEF EpollReport
<1>2. CASE b = "kqueue"
    <2>1. \E f \in Registered("kqueue", asked) : Ready(f, facts)
        BY DEF Registered, Ready
    <2>2. PICK first \in {"read", "write"} :
             r = KqueueReport({f \in Registered("kqueue", asked) : Ready(f, facts)},
                              first, facts)
        BY <1>2, <2>1, KqueueFirst
    <2>3. Wrong(first, facts)
        BY DEF Wrong, Kevent
    <2> QED BY <2>2, <2>3 DEF KqueueReport
<1> QED BY <1>1, <1>2 DEF Backends

(***************************************************************************)
(* Whatever makes Select return for a descriptor is seen by one of the     *)
(* three tests: no loop can spin on an event that none of them shows, as   *)
(* a kqueue event at its end, which counts neither for reading nor for     *)
(* writing (socket_kqueue.cpp:119-148, socket_epoll.cpp:133-158).          *)
(***************************************************************************)
THEOREM ReportedIsSeen ==
    ASSUME NEW b \in Backends, NEW asked \in SUBSET Asks, NEW facts,
           NEW r \in Reports(b, asked, facts),
           Reported(b, asked, facts)
    PROVE  r.read \/ r.write \/ r.exception
<1>1. CASE b = "epoll"
    <2> DEFINE flags == EpollFlags(Registered(b, asked), facts)
    <2>1. r = EpollReport(flags)
        BY <1>1 DEF Reports
    <2>2. PICK f \in flags : f \in {"EPOLLIN", "EPOLLOUT", "EPOLLHUP", "EPOLLERR"}
        BY <1>1 DEF Reported, EpollFlags
    <2> HIDE DEF flags
    <2> QED BY <2>1, <2>2 DEF EpollReport
<1>2. CASE b = "kqueue"
    <2> DEFINE reported == {f \in Registered("kqueue", asked) : Ready(f, facts)}
    <2>1. PICK first \in {"read", "write"} :
             /\ first \in reported
             /\ r = KqueueReport(reported, first, facts)
        BY <1>2, KqueueFirst DEF Reported
    <2>2. CASE Wrong(first, facts)
        BY <2>1, <2>2 DEF KqueueReport
    <2>3. CASE ~Wrong(first, facts)
        <3>1. Usable(first, reported, facts)
            BY <2>1, <2>3 DEF Usable
        <3> HIDE DEF reported
        <3> QED BY <2>1, <3>1 DEF KqueueReport
    <2> QED BY <2>2, <2>3
<1> QED BY <1>1, <1>2 DEF Backends
=============================================================================
