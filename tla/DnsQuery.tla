------------------------------ MODULE DnsQuery ------------------------------
(***************************************************************************)
(* Name resolution, DnsQuery::GetHostByName (connect/dns_query.cpp).  Each *)
(* call that gets nothing from the http resolver starts a detached thread  *)
(* (__GetIps) that asks the system resolver, stores what it finds in       *)
(* _cacheIps and breaks _retBreaker; the caller waits for that, or for the *)
(* connect breaker, no longer than its time limit, and answers from        *)
(* _cacheIps.  A query may outlive its call: nothing but the breaker keeps *)
(* the two apart, neither _cacheIps nor Close and ReCreate have a lock.    *)
(*                                                                         *)
(* All calls ask for the same host.  An address is the query that found it *)
(* and its place in the answer.  A copy of _cacheIps that meets a query    *)
(* that is filling it takes what is there; that it may also read freed     *)
(* memory is not modelled.                                                 *)
(***************************************************************************)
EXTENDS Integers, Sequences, FiniteSetsExt, SocketBreaker

CONSTANTS
    MaxCalls,   \* bound on the calls of GetHostByName
    MaxIps,     \* bound on the addresses of an answer
    PipeFails   \* pipe() may fail

ASSUME DnsAssumption ==
    /\ {MaxCalls, MaxIps} \subseteq Nat \ {0}
    /\ PipeFails \in BOOLEAN

Calls == 1..MaxCalls

\* Who found an address, if not the query of a call.
Http == 0
BackupIp == <<-1, 1>>

VARIABLES
    dpc,        \* where the caller is
    call,       \* the number of the call, 0 before the first
    retb,       \* _retBreaker
    cacheIps,   \* _cacheIps
    query,      \* the thread of each call: "none", "lookup", "fill", "ended"
    found,      \* how many addresses getaddrinfo gave it
    left,       \* how many of them it has still to store
    selRet,     \* why select returned
    ips,        \* the addresses the call returns
    crossed     \* history: a call began while an earlier query was running

dnsVars == <<dpc, call, retb, cacheIps, query, found, left, selRet, ips, crossed>>

DnsInit ==
    /\ dpc = "idle" /\ call = 0
    /\ \E ok \in {TRUE, ~PipeFails} : retb = NewBreaker(ok)
    /\ cacheIps = <<>>
    /\ query = [c \in Calls |-> "none"]
    /\ found = [c \in Calls |-> 0] /\ left = [c \in Calls |-> 0]
    /\ selRet = "none" /\ ips = <<>>
    /\ crossed = FALSE

Answer(c, n) == [i \in 1..n |-> <<c, i>>]

UnderWay == {c \in Calls : query[c] \notin {"none", "ended"}}

-----------------------------------------------------------------------------
(***************************************************************************)
(* The caller.                                                             *)
(***************************************************************************)

\* The http resolver is asked first.
GetHostByName(n) ==
    /\ dpc \in {"idle", "answered", "stopped"}
    /\ call < MaxCalls
    /\ call' = call + 1
    /\ selRet' = "none"
    /\ ips' = Answer(Http, n)
    /\ dpc' = IF n = 0 THEN "clear" ELSE "answered"
    /\ UNCHANGED <<retb, cacheIps, query, found, left, crossed>>

\* Mutant: the signal of the query before stays.
ClearNothing ==
    /\ dpc = "clear"
    /\ dpc' = "start"
    /\ crossed' = (crossed \/ UnderWay # {})
    /\ UNCHANGED <<call, retb, cacheIps, query, found, left, selRet, ips>>

\* Clear fails if there is no signal, as before the first query.
ClearRet ==
    /\ dpc = "clear"
    /\ retb' = Clear(retb)
    /\ dpc' = IF ClearSucceeds(retb) THEN "start" ELSE "close"
    /\ crossed' = (crossed \/ UnderWay # {})
    /\ UNCHANGED <<call, cacheIps, query, found, left, selRet, ips>>

CloseRet ==
    /\ dpc = "close"
    /\ retb' = Close(retb)
    /\ dpc' = "recreate"
    /\ UNCHANGED <<call, cacheIps, query, found, left, selRet, ips, crossed>>

RecreateRet(ok) ==
    /\ dpc = "recreate"
    /\ ok \/ PipeFails
    /\ retb' = ReCreate(retb, ok)
    /\ dpc' = "start"
    /\ UNCHANGED <<call, cacheIps, query, found, left, selRet, ips, crossed>>

StartQuery ==
    /\ dpc = "start"
    /\ query' = [query EXCEPT ![call] = "lookup"]
    /\ dpc' = "select"
    /\ UNCHANGED <<call, retb, cacheIps, found, left, selRet, ips, crossed>>

\* Mutant: the wait has no limit.
SelectForever(w) ==
    /\ dpc = "select"
    /\ w # "timeout"
    /\ w = "signal" => Readable(retb)
    /\ selRet' = w
    /\ dpc' = IF w = "break" THEN "stopped" ELSE "copy"
    /\ UNCHANGED <<call, retb, cacheIps, query, found, left, ips, crossed>>

\* Select returns with w.  Only the connect breaker makes a difference: it
\* ends the call at once, without an answer.
SelectRet(w) ==
    /\ dpc = "select"
    /\ w = "signal" => Readable(retb)
    /\ w = "timeout" => ~Readable(retb)
    /\ selRet' = w
    /\ dpc' = IF w = "break" THEN "stopped" ELSE "copy"
    /\ UNCHANGED <<call, retb, cacheIps, query, found, left, ips, crossed>>

\* Whatever select said.
CopyIps ==
    /\ dpc = "copy"
    /\ ips' = IF cacheIps = <<>> THEN <<BackupIp>> ELSE cacheIps
    /\ dpc' = "answered"
    /\ UNCHANGED <<call, retb, cacheIps, query, found, left, selRet, crossed>>

-----------------------------------------------------------------------------
(***************************************************************************)
(* The thread of the query of call c.                                      *)
(***************************************************************************)

\* getaddrinfo returns n addresses, or fails, for which 0 stands.
Lookup(c, n) ==
    /\ query[c] = "lookup"
    /\ found' = [found EXCEPT ![c] = n]
    /\ left' = [left EXCEPT ![c] = n]
    /\ cacheIps' = IF n = 0 THEN cacheIps ELSE <<>>
    /\ query' = [query EXCEPT ![c] = "fill"]
    /\ UNCHANGED <<dpc, call, retb, selRet, ips, crossed>>

StoreIp(c) ==
    /\ query[c] = "fill" /\ left[c] > 0
    /\ left' = [left EXCEPT ![c] = @ - 1]
    /\ cacheIps' = Append(cacheIps, <<c, found[c] - left[c] + 1>>)
    /\ UNCHANGED <<dpc, call, retb, query, found, selRet, ips, crossed>>

BreakRet(c) ==
    /\ query[c] = "fill" /\ left[c] = 0
    /\ retb' = Break(retb)
    /\ query' = [query EXCEPT ![c] = "ended"]
    /\ UNCHANGED <<dpc, call, cacheIps, found, left, selRet, ips, crossed>>

-----------------------------------------------------------------------------
CallerSteps ==
    \/ ClearRet \/ CloseRet \/ (\E ok \in BOOLEAN : RecreateRet(ok))
    \/ StartQuery \/ CopyIps

\* What select does without help from outside.
SelectEnds == SelectRet("signal") \/ SelectRet("timeout")

DnsNext ==
    \/ \E n \in 0..MaxIps : GetHostByName(n)
    \/ CallerSteps \/ SelectEnds \/ SelectRet("break") \/ SelectRet("error")
    \/ \E c \in Calls :
          (\E n \in 0..MaxIps : Lookup(c, n)) \/ StoreIp(c) \/ BreakRet(c)

-----------------------------------------------------------------------------
DnsTypeOK ==
    /\ dpc \in {"idle", "clear", "close", "recreate", "start", "select", "copy",
                "answered", "stopped"}
    /\ call \in 0..MaxCalls
    /\ retb \in Breaker
    /\ cacheIps \in Seq(Calls \X (1..MaxIps))
    /\ query \in [Calls -> {"none", "lookup", "fill", "ended"}]
    /\ found \in [Calls -> 0..MaxIps] /\ left \in [Calls -> 0..MaxIps]
    /\ selRet \in {"none", "signal", "break", "timeout", "error"}
    /\ ips \in Seq(((Calls \cup {Http}) \X (1..MaxIps)) \cup {BackupIp})
    /\ crossed \in BOOLEAN

(***************************************************************************)
(* The end of a query reaches its caller (dns_query.cpp:49, "tell that the *)
(* query has ended"): a caller that still waits after its own query has    *)
(* ended finds the breaker readable.  Clear, Close and ReCreate keep this  *)
(* as long as every query has ended before the next call begins.  They do  *)
(* not if one has not: a Break between Clear and Close leaves the flag     *)
(* without its byte, and no later query is heard of.                       *)
(***************************************************************************)
NoLostAnswer ==
    (dpc = "select" /\ query[call] = "ended" /\ retb.open /\ ~crossed) =>
        Readable(retb)

(***************************************************************************)
(* A call that was woken by the breaker returns the whole of the latest    *)
(* answer, its own if its query found anything, and not what an earlier    *)
(* query left behind or this one has stored so far: the signal is of this  *)
(* query, although one that came too late for the call before has broken   *)
(* the same breaker (lines 64-67, 98).  Excepted are calls that begin      *)
(* while an earlier query is running.                                      *)
(***************************************************************************)
SignalledAnswer ==
    (dpc = "answered" /\ selRet = "signal" /\ ~crossed) =>
        LET known == {c \in 1..call : found[c] > 0} IN
        ips = IF known = {} THEN <<BackupIp>>
              ELSE LET c == Max(known) IN Answer(c, found[c])
-----------------------------------------------------------------------------
(***************************************************************************)
(* What makes the properties inductive; module EstablishProofs.            *)
(***************************************************************************)

\* Where the caller is, and how far the queries are.
CallShape ==
    /\ dpc # "idle" => call > 0
    /\ dpc = "answered" => ips # <<>>
    /\ dpc = "start" => query[call] = "none"
    /\ dpc \in {"clear", "close", "recreate"} => query[call] = "none"
    /\ dpc \in {"select", "copy"} => query[call] # "none"
    /\ \A c \in Calls :
          /\ query[c] # "none" => c <= call
          /\ query[c] \in {"none", "lookup"} => found[c] = 0 /\ left[c] = 0
          /\ query[c] = "ended" => left[c] = 0
          /\ left[c] <= found[c]
    /\ Marked(retb)

\* Queries run one after the other if each has ended before the next call
\* looks at the breaker.
InTurn ==
    ~crossed =>
        /\ \A c, d \in Calls : c \in UnderWay /\ d > c => query[d] = "none"
        /\ dpc \in {"close", "recreate", "start"} => UnderWay = {}
        /\ dpc \in {"select", "copy"} => UnderWay \subseteq {call}

\* The flag then tells the truth, and the byte is of the query of this call.
BreakerTold ==
    ~crossed =>
        /\ retb.broken => Readable(retb)
        /\ dpc \in {"close", "recreate"} => ~retb.broken
        /\ dpc = "start" => ~Readable(retb)
        /\ dpc = "select" => IF query[call] = "ended" THEN retb.open => Readable(retb)
                             ELSE ~Readable(retb)
        /\ dpc = "copy" /\ selRet = "signal" => query[call] = "ended"

\* _cacheIps is what the latest query that found anything has stored.
CacheShape ==
    ~crossed =>
        /\ (\A c \in Calls : found[c] = 0) => cacheIps = <<>>
        /\ \A c \in Calls :
              (found[c] > 0 /\ \A d \in Calls : d > c => found[d] = 0) =>
                  cacheIps = Answer(c, found[c] - left[c])

\* SignalledAnswer, before it is known what is in _cacheIps.
AnswerShape ==
    dpc = "answered" /\ selRet = "signal" /\ ~crossed =>
        /\ UnderWay = {}
        /\ ips = IF cacheIps = <<>> THEN <<BackupIp>> ELSE cacheIps
=============================================================================
