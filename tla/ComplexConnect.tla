--------------------------- MODULE ComplexConnect ---------------------------
(***************************************************************************)
(* The race of connection attempts, ComplexConnect::ConnectImpatient       *)
(* (connect/complex_connect.cpp), with its connectors, tcp_connector.cpp   *)
(* and ssl_connector.cpp.  One connector per address; a round of the loop  *)
(* may start the next one, prepares all that have started, waits in select *)
(* and looks at each of them.                                              *)
(*                                                                         *)
(* Time is counted in ticks and passes in select only; it is kept as the   *)
(* age of each attempt and of the latest start, each up to the value from  *)
(* which the code no longer tells it apart.  Select takes whole seconds.   *)
(***************************************************************************)
EXTENDS Integers, FiniteSetsExt, SocketSelect

CONSTANTS
    N,              \* addrs.size()
    MaxConnect,     \* _maxConnect
    Timeout,        \* _timeout, in ticks
    Interval,       \* _interval
    ErrorInterval,  \* _errorInterval
    Second,         \* ticks to a second
    Early           \* SSL_connect may succeed at once

ASSUME ConnectAssumption ==
    /\ {N, MaxConnect, Timeout, Interval, Second} \subseteq Nat \ {0}
    /\ ErrorInterval \in 0..Interval
    /\ Early \in BOOLEAN

Index == 1..N

\* Bound on the age of an attempt: it is over, by any measure.
AgeBound == Timeout + 2

VARIABLES
    pc,         \* "pre", "select", "after", "finish", "done"
    backend,    \* the back end of select in this build
    tls,        \* isTls, the same for all addresses
    status,     \* _status of each connector; "null" once it is deleted
    fd,         \* the socket of each connector; "lost" if nobody holds it
    age,        \* time since _startConnTime
    since,      \* time since lastStartConnTime
    lastError,  \* lastError # 0
    index,      \* how many connectors have been started
    wait,       \* the timeout of select
    events,     \* what select said of each socket, and whether it had failed
    result,     \* retIndex; 0 for none
    stopped,    \* the breaker or an error of select ended the loop
    errors      \* history: the connectors deleted because of ConnStatusError

vars == <<pc, backend, tls, status, fd, age, since, lastError, index, wait,
          events, result, stopped, errors>>

Outcomes == [seen : {"none", "ready", "bad"}, failed : BOOLEAN]

Events == [Index -> Outcomes]

Nothing == [seen |-> "none", failed |-> FALSE]

NoEvents == [i \in Index |-> Nothing]

Init ==
    /\ pc = "pre"
    /\ backend \in Backends
    /\ tls \in BOOLEAN
    /\ status = [i \in Index |-> "start"]
    /\ fd = [i \in Index |-> "none"]
    /\ age = [i \in Index |-> 0]
    /\ since = Interval
    /\ lastError = FALSE
    /\ index = 0 /\ wait = 0 /\ events = NoEvents
    /\ result = 0 /\ stopped = FALSE /\ errors = {}

-----------------------------------------------------------------------------
\* __IsConnecting.
Running == {i \in Index : fd[i] = "open"}

NextConnTimeout == (IF lastError THEN ErrorInterval ELSE Interval) - since

\* Mutant: one attempt too many.
MayExceed == index < N /\ Cardinality(Running) <= MaxConnect

MayStart == index < N /\ Cardinality(Running) < MaxConnect

\* ConnectorStatus, "null" in place of ConnStatusEnd.
Statuses == {"start", "connecting", "startSSL", "sslConnecting", "connected",
             "error", "null"}

Timed == {"connecting", "sslConnecting"}

\* Mutant: the time limits of attempts under way are not looked at.
NoLimits(s) == {}

\* TcpConnector::Timeout of the connectors in use, without the INT_MAX of
\* one that has nothing to wait for.
Limits(s) ==
    {Timeout - age[i] : i \in {j \in 1..index' : s[j] \in Timed}}
      \cup (IF \E j \in 1..index' : s[j] = "error" THEN {0} ELSE {})

\* Mutant: a wait is rounded up.
SecondsUp(t) == ((Max({0, t}) + Second - 1) \div Second) * Second

WholeSeconds(t) == (Max({0, t}) \div Second) * Second

\* The statuses a connector may have afterwards: socket(), the mode of the
\* socket, connect() and SSL_connect() may fail.
PreConnectSelect == {"connecting", "error"}
PreSSLSelect ==
    {"sslConnecting", "error"} \cup (IF Early THEN {"startSSL"} ELSE {})

Prepared(s) ==
    CASE s = "start" -> PreConnectSelect
      [] s = "startSSL" -> PreSSLSelect
      [] OTHER -> {s}

\* A round up to select.  A socket that was created before its attempt failed
\* is kept by nobody.
PreSelect ==
    LET starts == MayStart /\ NextConnTimeout <= 0
        limit == IF MayStart /\ NextConnTimeout > 0
                 THEN Min({Timeout, NextConnTimeout}) ELSE Timeout
    IN
    /\ pc = "pre"
    /\ index' = IF starts THEN index + 1 ELSE index
    /\ since' = IF starts THEN 0 ELSE since
    /\ lastError' = (lastError /\ ~starts)
    /\ status' \in [Index -> Statuses]
    /\ \A i \in Index : status'[i] \in IF i <= index' THEN Prepared(status[i])
                                        ELSE {status[i]}
    /\ \E f \in [Index -> {"none", "lost"}] :
          fd' = [i \in Index |->
                    IF status[i] # "start" \/ status'[i] = "start" THEN fd[i]
                    ELSE IF status'[i] = "connecting" THEN "open" ELSE f[i]]
    /\ wait' = WholeSeconds(Min({limit} \cup Limits(status')))
    /\ pc' = "select"
    /\ UNCHANGED <<backend, tls, age, events, result, stopped, errors>>

\* What PreSelect may have asked select of the socket of a connector.
\* SSL_connect wants to read or to write.
Asked(s) ==
    CASE s = "connecting" -> {{"write", "error"}}
      [] s = "sslConnecting" -> {{"read", "error"}, {"write", "error"}}
      [] OTHER -> {}

\* The tests of AfterConnectSelect and AfterSSLSelect.
Seen(s, report) ==
    CASE report.exception -> "bad"
      [] ~report.exception /\ (report.write \/ (s = "sslConnecting" /\ report.read))
            -> "ready"
      [] OTHER -> "none"

\* Anything may be true of a socket that is watched.
Situations ==
    {k \in [backend : Backends, status : Timed,
            facts : SUBSET (Facts \ {"closed"}), report : Report] :
        \E asked \in Asked(k.status) : k.report \in Reports(k.backend, asked, k.facts)}

Sights ==
    {<<k.backend, k.status,
       [seen |-> Seen(k.status, k.report), failed |-> "failed" \in k.facts]>> :
        k \in Situations}

\* What select may say of all sockets.
Snapshots ==
    {e \in Events : \A i \in Index :
        IF i <= index /\ status[i] \in Timed
        THEN <<backend, status[i], e[i]>> \in Sights ELSE e[i] = Nothing}

\* Select returns early if there is an event; a wait of 0 still takes the time
\* of a round.
Select(d, e) ==
    /\ pc = "select"
    /\ IF wait = 0 THEN d \in {0, 1}
       ELSE d \in 0..wait /\ (e = NoEvents => d = wait)
    /\ events' = e
    /\ age' = [i \in Index |-> IF status[i] \in Timed THEN Min({age[i] + d, AgeBound})
                                   ELSE age[i]]
    /\ since' = Min({since + d, Interval})
    /\ pc' = "after"
    /\ UNCHANGED <<backend, tls, status, fd, lastError, index, wait, result,
                   stopped, errors>>

\* The breaker was broken, or select failed.
SelectStops ==
    /\ pc = "select"
    /\ stopped' = TRUE
    /\ pc' = "finish"
    /\ UNCHANGED <<backend, tls, status, fd, age, since, lastError, index, wait,
                   events, result, errors>>

\* A socket that is to block again may refuse.
Blocking == {"connected", "error"}

\* An attempt without event fails at its time limit.
Silent(i) == IF age[i] >= Timeout THEN {"error"} ELSE {status[i]}

\* Mutant: an attempt that is silent never fails.
ConnectWithoutLimit(i) ==
    CASE events[i].seen = "bad" -> {"error"}
      [] events[i].seen = "ready" -> IF tls THEN {"startSSL"} ELSE Blocking
      [] OTHER -> {status[i]}

AfterConnectSelect(i) ==
    CASE events[i].seen = "bad" -> {"error"}
      [] events[i].seen = "ready" -> IF tls THEN {"startSSL"} ELSE Blocking
      [] OTHER -> Silent(i)

\* An event counts as the end of the handshake.
AfterSSLSelect(i) ==
    CASE events[i].seen = "bad" -> {"error"}
      [] events[i].seen = "ready" -> Blocking
      [] OTHER -> Silent(i)

Looked(i) ==
    CASE status[i] = "connecting" -> AfterConnectSelect(i)
      [] status[i] = "sslConnecting" -> AfterSSLSelect(i)
      [] OTHER -> {status[i]}

\* Mutant: the loop ends once there is nothing left to start.
NothingToStart(s) == index = N

AllInvalid(s) == \A i \in Index : s[i] = "null"

\* The connectors are looked at in order up to the first that is connected.
\* One that failed is closed and deleted, the winner keeps its socket.
AfterSelect ==
    /\ pc = "after"
    /\ \E s \in [1..index -> Statuses] :
          LET winners == {i \in 1..index : s[i] = "connected"}
              seen == {i \in 1..index : \A w \in winners : i <= w}
              failed == {i \in seen : s[i] = "error"}
          IN
          /\ \A i \in 1..index : s[i] \in Looked(i)
          /\ result' = IF winners = {} THEN 0 ELSE Min(winners)
          /\ status' = [i \in Index |->
                 IF i \notin seen THEN status[i]
                 ELSE IF s[i] \in {"error", "connected"} THEN "null" ELSE s[i]]
          /\ fd' = [i \in Index |->
                 IF i \in failed /\ fd[i] = "open" THEN "closed"
                 ELSE IF i = result' THEN "returned" ELSE fd[i]]
          /\ lastError' = (lastError \/ failed # {})
          /\ errors' = errors \cup failed
    /\ pc' = IF AllInvalid(status') \/ result' # 0 THEN "finish" ELSE "pre"
    /\ age' = [i \in Index |-> IF status'[i] = "null" THEN 0 ELSE age[i]]
    /\ events' = NoEvents
    /\ wait' = 0
    /\ UNCHANGED <<backend, tls, since, index, stopped>>

\* Mutant: only connectors that are still connecting are closed.
FinishSome ==
    /\ pc = "finish"
    /\ status' = [i \in Index |-> "null"]
    /\ fd' = [i \in Index |->
                 IF status[i] = "connecting" /\ fd[i] = "open" THEN "closed" ELSE fd[i]]
    /\ age' = [i \in Index |-> 0]
    /\ pc' = "done"
    /\ UNCHANGED <<backend, tls, since, lastError, index, wait, events, result,
                   stopped, errors>>

\* Whatever is left is closed.
Finish ==
    /\ pc = "finish"
    /\ status' = [i \in Index |-> "null"]
    /\ fd' = [i \in Index |->
                 IF status[i] # "null" /\ fd[i] = "open" THEN "closed" ELSE fd[i]]
    /\ age' = [i \in Index |-> 0]
    /\ pc' = "done"
    /\ UNCHANGED <<backend, tls, since, lastError, index, wait, events, result,
                   stopped, errors>>

-----------------------------------------------------------------------------
SelectReturns ==
    /\ pc = "select"
    /\ \E e \in Snapshots : \E d \in 0..Timeout : Select(d, e)

\* A round whose wait is 0 and that takes a tick.
SlowRound ==
    /\ pc = "select" /\ wait = 0
    /\ \E e \in Snapshots : Select(1, e)

RaceSteps == PreSelect \/ SelectReturns \/ AfterSelect \/ Finish

Next == RaceSteps \/ SelectStops

Spec == Init /\ [][Next]_vars

-----------------------------------------------------------------------------
TypeOK ==
    /\ pc \in {"pre", "select", "after", "finish", "done"}
    /\ backend \in Backends
    /\ tls \in BOOLEAN /\ lastError \in BOOLEAN /\ stopped \in BOOLEAN
    /\ status \in [Index -> Statuses \ {"connected"}]
    /\ fd \in [Index -> {"none", "open", "lost", "closed", "returned"}]
    /\ age \in [Index -> 0..AgeBound] /\ since \in 0..Interval
    /\ index \in 0..N /\ wait \in 0..Timeout
    /\ events \in Events
    /\ result \in 0..N /\ errors \subseteq Index

(***************************************************************************)
(* The caller gets the socket of the winner, open, and every other socket  *)
(* a connector holds has been closed (complex_connect.cpp:129-134,         *)
(* 149-156).                                                               *)
(***************************************************************************)
OnlyTheWinnerStays ==
    pc = "done" => \A i \in Index : /\ fd[i] # "open"
                                    /\ fd[i] = "returned" <=> i = result

(***************************************************************************)
(* No more attempts at a time than kMaxConnectNum                          *)
(* (complex_connect.cpp:66-69).                                            *)
(***************************************************************************)
NotTooMany == Cardinality(Running) <= MaxConnect

(***************************************************************************)
(* No attempt, TCP and TLS together, goes on after its time limit, but for *)
(* the tick of a round that does not wait: the wait in select never        *)
(* reaches past the nearest limit, although it is computed from several    *)
(* and rounded (complex_connect.cpp:84-95).                                *)
(***************************************************************************)
AttemptsEndInTime == \A i \in Index : age[i] <= Timeout + 1

(***************************************************************************)
(* Unless it was stopped, the race fails only after the attempt to every   *)
(* address was made and ended in an error of its own; none is given up     *)
(* while it is still at work (complex_connect.cpp:116-147).                *)
(***************************************************************************)
FailsOnlyIfAllFail ==
    (pc = "done" /\ result = 0 /\ ~stopped) => errors = Index

(***************************************************************************)
(* A socket whose connection had failed when select looked at it is never  *)
(* returned as connected, although epoll reports it as writable too and    *)
(* kqueue only as a writable socket at its end (tcp_connector.cpp:95-127,  *)
(* ssl_connector.cpp:81-104, ExceptionFdIsSet of both back ends).          *)
(***************************************************************************)
FailedNeverWins ==
    [][\A i \in Index : (result # i /\ result' = i) => ~events[i].failed]_vars
-----------------------------------------------------------------------------
(***************************************************************************)
(* What makes the properties inductive; module EstablishProofs.            *)
(***************************************************************************)

\* Connectors are started in order, and nothing is known of the later ones.
StartedInOrder ==
    \A i \in Index :
        /\ i <= index => status[i] # "start"
        /\ i > index => fd[i] = "none" /\ (pc # "done" => status[i] = "start")

\* A connector that is at work holds its socket and none that is deleted
\* does; the socket that was handed over is the winner's.
SocketShape ==
    \A i \in Index :
        /\ status[i] \in {"connecting", "startSSL", "sslConnecting"} => fd[i] = "open"
        /\ status[i] \in {"start", "null"} => fd[i] # "open"
        /\ fd[i] = "returned" <=> i = result

\* The loop is left with a winner, with nothing left, or because it was
\* stopped.
EndShape ==
    /\ result # 0 => pc \in {"finish", "done"}
    /\ pc = "done" => \A i \in Index : status[i] = "null"
    /\ pc \in {"finish", "done"} /\ result = 0 /\ ~stopped =>
          index = N /\ errors = Index /\ \A i \in Index : status[i] = "null"

\* A connector is deleted in the loop for an error, or because it has won.
ErrorShape ==
    pc # "done" => \A i \in Index : status[i] = "null" => i \in errors \cup {result}

\* How old an attempt may be when the loop is where it is.  The handshake may
\* begin when the time is just up; the wait before select is within what the
\* youngest limit leaves.
AgeShape ==
    \A i \in Index :
        /\ age[i] <= Timeout + 1
        /\ status[i] = "start" => age[i] = 0
        /\ status[i] = "startSSL" => age[i] <= Timeout
        /\ status[i] = "connecting" =>
              /\ pc \in {"pre", "select"} => age[i] < Timeout
              /\ pc = "after" => age[i] <= Timeout
        /\ status[i] = "sslConnecting" =>
              /\ pc = "pre" => age[i] < Timeout
              /\ pc = "select" => age[i] <= Timeout
        /\ pc = "select" /\ status[i] \in Timed /\ wait > 0 => age[i] + wait <= Timeout

\* A failure is seen as one, whichever back end reports it.
EventShape == \A i \in Index : events[i].seen = "ready" => ~events[i].failed
=============================================================================
