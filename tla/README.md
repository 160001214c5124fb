# A verification of go-socket-client

TLA+ models of the client of a message protocol over TCP (`src/`, C++), model-checked with TLC, their safety
properties proved with TLAPS.

## 1. The system

An application calls the facade (`net_core.cpp`), which owns one `TcpClient`. Three kinds of threads meet in it:

* **callers**, any thread of the application, in `MakeSureConnected`, `DisconnectAsync`, `Send`, `SendNoReply`,
  `SendDisconnect`; each call holds `_mutex`;
* **the client thread**, `TcpClient::__Run`: it resolves the host, races connection attempts, shakes hands, then loops
  in `__RunReadWrite`: wait in select, check, write one message, read one message, heartbeat;
* **the queue's thread**, `MessageQueue::__RunLoop`: it runs the callbacks of all alarms, one at a time: the
  heartbeat, the time limits of requests, and the reconnect alarm, which joins the client thread, tells the waiting
  requests that the connection is lost and connects again.

They wake each other through a condition variable (message queue) and through pipes (socket breakers).

| Component | State | Operations | Interaction | What makes it correct |
|---|---|---|---|---|
| Message queue, `common/message_queue.*` | sorted list, ids cancelled since the last round, `_hasPost`, next id | `PostMessage`, `CancelMessage`, `__RunLoop` | callbacks run unlocked in its thread | sorted; no lost wake-up; a cancelled message never runs; each message ends |
| Alarm, `common/alarm.*` | `_messageId`, `_status` | `SetCallback`, `Start`, `Cancel`, callback | calls the queue under its own lock; the callback takes that lock | `IsWaiting` means that it will ring; it does not wait for ever; a stale message does not ring it |
| Socket breaker, `socket/socket_breaker.*` | pipe, `_broken` | `Break`, `Clear`, `Close`, `ReCreate` | written by anyone, read by select | the flag is set only if the byte is there |
| Select, `socket/socket_select.cpp`, `socket_epoll`, `socket_kqueue`, `socket_poll` | descriptors and events | `PreSelect`, `…FdSet`, `Select`, `…IsSet` | clears the breaker after its snapshot | a signal erased by the clear is seen afterwards; a failure is an exception, whatever the back end; what makes it return can be seen |
| TCP client, `tcp_client.*` | status, thread, queue of messages, callbacks, timeouts, flags | see above | everything | disconnections happen, requests get one answer, the connection comes back, a logout and a kickout are final, no circle of threads waiting for mutexes |
| Object pool, `object_pool.hpp` | idle alarms | `Get`, give back | client and queue thread | an alarm has one owner and no old life |
| DNS query, `connect/dns_query.*` | cache, queries, breaker | `GetHostByName` | a thread per query, the connect breaker | a call ends even if its query does not; the end of a query reaches its caller; the answer is whole, the latest, and never empty |
| Complex connect, `connect/*` | one connector per attempt | `ConnectImpatient` | select over all attempts, connect breaker | the first complete attempt wins, never one that has failed, all others are closed, every address is tried, it ends |
| Packet codec, `packet/*` | none | encode, decode | used by the client thread | a message is read to its end and no further, whatever the bytes; decoding inverts encoding |
| Facade, `net_core.*` | one `TcpClient` | the public interface | callers, user code | only its order of calls is modelled, for the mutexes |
| Sockets, time, log, JNI, iOS, examples, OpenSSL | | | | I/O, glue, vendored code: not modelled |

What is hard here: signals between threads that may be consumed too early; state read with no lock (`_disCode`,
`_shouldReconnect`, `_thread`, the status of alarms); two maps under two locks that must agree; alarm objects that are
used again; cleaning up a connection while the next one may start; queries that outlive their call; a dozen mutexes
under user code that calls back; two back ends of select that report the same event differently. `PROJECT.json` lists
these hazards with their lines and the properties that watch them.

## 2. Modules

| Module | Models | Extends |
|---|---|---|
| `TimerService` | what the message queue promises: timers that are posted, cancelled or fired once, no sooner than their time | |
| `MessageQueue` | `message_queue.cpp` | |
| `MessageQueueProofs` | theorems about it | `MessageQueue` |
| `Alarm` | `alarm.cpp` composed with the queue it posts to | `MessageQueue` |
| `AlarmProofs` | theorems about it | `Alarm`, `MessageQueueProofs` |
| `SocketBreaker` | `socket_breaker.cpp`, as functions of a breaker's state | |
| `TcpClient` | `tcp_client.cpp` with its callers, its thread and the queue's thread | `SocketBreaker`, `SocketSelect` |
| `TcpClientProofs` | theorems about it | `TcpClient`, `SocketProofs` |
| `RequestTimeouts` | the alarms of requests with the object pool | |
| `RequestTimeoutsProofs` | theorems about it | `RequestTimeouts` |
| `SocketSelect` | `socket_select.cpp` over `socket_epoll.cpp` and `socket_kqueue.cpp`, as functions | |
| `SocketProofs` | theorems about breaker and select | `SocketBreaker`, `SocketSelect` |
| `ComplexConnect` | `complex_connect.cpp` with `tcp_connector.cpp` and `ssl_connector.cpp` | `SocketSelect` |
| `DnsQuery` | `dns_query.cpp`, the caller and the threads of its queries | `SocketBreaker` |
| `Establish` | from a host to a socket, as in `__RunConnect` | `DnsQuery`, `ComplexConnect` |
| `EstablishProofs` | theorems about it, the resolver and the race | `Establish`, `SocketProofs` |
| `Locks` | the mutexes of all classes and the order in which threads take them | |
| `LocksProofs` | theorems about it | `Locks` |
| `Packet` | `packet/`: fixed header, lengths, message bodies | |
| `PacketProofs` | theorems about it | `Packet` |
| `MC…` | the instances for TLC | each its module |

**MessageQueue.** `queue`, `canceled`, `hasPost`, `nextId` are the members; `pc`, `batch` (callbackMap), `running` and
`wakeAt` (where the wait ends, `Forever` for `_cv.wait`) are the loop's. Each action is one stretch under `_mutex`:
`Collect` (lines 36-69), `Dispatch` (one look at the cancelled ids), `Return` of a callback, `EndDispatch` (79-91);
`TimedWake` and `SpuriousWake` end a wait. Time is counted in ticks, `TicksPerMs` of them to a millisecond, so that
the truncation of `DURATION_TO_MS` is what it is in the code: `Due` is true up to a millisecond early, `WholeMs`
rounds the wait down. `alive` is a history variable: the messages posted and neither run nor cancelled.

**Alarm.** `Start` and `Cancel` are two steps each, because what they do in the queue is seen before they write
`_messageId` and `_status`; `busy` is the alarm's lock. The callback first waits for that lock.

**SocketBreaker.** A record of open, bytes and flag. A pipe may fail to be created. Writing to descriptors that the
system has meanwhile given to another file is not modelled.

**TcpClient.** `cpc` and `qpc` are the program counters of the client thread and the queue's thread. A step is a
stretch that no other thread can see into: the locked part of an operation, or a read of shared state without lock.
A stretch under `_mutex` is cut where it stores what others read without `_mutex`, namely `_disCode` (read at line
494), `_shouldReconnect` (84) and `_thread` (171): a caller creates the thread (`MakeSureConnected`) and stores
`_thread` afterwards (`StoreThread`); it stores `_disCode` (`DisconnectAsync`), and then the flag and the signals
(`FinishDisconnect`). `mutex` says where a caller is in between; all that locks `_mutex` waits for it. The same code
run by the thread that does the reading is one step, since nobody else reads these variables.

Data are reduced to request identifiers; name resolution and the race of attempts are `ConnectSelect` and
`ConnectClear`, repeated; what a socket does is free. `mute` are the requests whose function is NULL, which have their
entry in `_callbackMap` all the same. `Handshake` may return any code: the ConnAck has been freed when its code is
read (line 434). An alarm may ring at any time after its start. `Env` switches on what callers and environment do.
Requests without reply share one element of `timers` here; `RequestTimeouts` tells their alarms apart. What select
says of the socket is any report that `SocketSelect` allows for what the client asks. Three variables are history:
`wish`, whether the application has logged out, or the server has refused or kicked out the login, and nobody has
asked for a connection since; `missed`, the reconnect alarm has found no `_thread` to join because line 129 had not
yet stored it; `lost`, the requests that `__WaitDisconnect` had still to tell when it returned at line 190.

**RequestTimeouts.** Here alarms are objects that pass from pool to client thread to map and back. A message carries,
as history, the request it was posted for. Any thread may be held up anywhere, in particular the queue's between its
look at the cancelled messages, the callback's lock and `GetUserData` (line 551). Two histories name the messages
whose alarm went back to the pool too early: `raced`, a reply gave it back while its callback had been entered and had
not yet read its request; `replaced`, a request without reply took its place in the map.

**ComplexConnect.** One connector per address. A round of `ConnectImpatient` is `PreSelect` (start the next attempt if
it may be started, prepare all, compute the wait), `Select` (any events, any time up to the wait) and `AfterSelect`
(look at the attempts in order, up to the first that is connected). What a socket does is free; what select says of it
is what `backend`, chosen at the start, reports of that; `events` keeps, as history, whether the attempt had failed,
and `errors` which attempts were given up because of an error of their own.
Time is the age of each attempt and of the latest start, counted in ticks and cut to whole seconds for select, as the
code does. `fd` says where the socket of an attempt is; `"lost"` is a socket whose `connect` failed at once and that
no connector holds. `Early` lets `SSL_connect` succeed at once; the code leaves such a connector as it was, with no
time limit, and says that it does not happen.

**SocketSelect.** Every `SocketSelect` of the code serves one `Select`, so a back end is a function: from what was
asked of a descriptor (read, write, error) and what is true of it (data, space, end of the peer's sending, failure,
not open) to what the three tests say. `EpollFlags`, `Kevent` and `Ready` stand for the system; `Registered`,
`EpollReport` and `KqueueReport` are the code. kqueue has a choice: of the two events of a descriptor the one reported
first decides whether there is an exception.

**DnsQuery.** `dpc` is where the caller is, `query` where each query's thread is. The steps are the calls on the
breaker (`ClearRet`, `CloseRet`, `RecreateRet`), the start of the thread, select, the copy of `_cacheIps`; and for a
query the answer of `getaddrinfo`, each `push_back` and the `Break`. An address is the query that found it and its
place. `crossed` is history: a call began while an earlier query was still running.

**Establish.** The resolver, then the race over the addresses it returned, dealt out by `ipIndex`. The race reads
nothing else of the resolver, whose state is therefore set back when the race begins.

**Locks.** An operation is the sequence of its locks and unlocks, with the points where a thread is started, joined,
ends, or calls user code, which may call the public interface. Where the code branches on data both ways are
operations. It is not about what happens under the locks; that is in the other modules.

**Packet.** `Decode` of a message is a sequence of reads, each counted off `packetRemaining`, a `uint32_t`: `GetFixed`
for numbers, `GetString` for whatever has its length in front. Bytes are kept only where they encode lengths, since
the questions are about counts. A message is a peer's, with any lengths, or one that `Encode` of the client has
written. A length whose fourth byte still has the continuation bit is -1, as in the code; where it becomes the size of
an array, the call does not return (`"stuck"`). `Encode` of the messages that only a server sends is not modelled.

## 3. Runs

| Run | Bounds | Shows |
|---|---|---|
| `queue` | 3 ids, 2 ticks, 2 ticks per ms, delays 0 and 1 ms, messages without callback | types, `Sorted`, `NoLostWakeup`, `AliveIsPending`, refinement of `TimerService`, `EveryTimerEnds` |
| `alarm` | 2 alarms, 3 ids, delays 0 and 1, 1 tick | `WaitingHasMessage`, `WaitingEnds` |
| `alarm_stale` | 1 alarm | violated: a cancelled message rings the alarm that was started again |
| `client` | 1 request id and the 0 of requests without reply, 2 queued messages, requests without callback, kickouts, no network, pipes that fail one by one | `WriteHoldsHead`, `NoLostWakeup`, `SignalIsThere`, `TimeoutHasCallback`, `SomeoneAnswers` |
| `client_live` | 1 request id, 1 queued message, requests without callback, `SendDisconnect`, callers that connect while `__WaitDisconnect` clears up | `DisconnectHappens`, `WrittenRequestsEnd`, `Reconnects`, `LogoutIsFinal` |
| `client_unwritten` | 2 request ids, 1 queued message, no special environment | violated: a request that was not written when the connection ended is never answered |
| `client_kickout` | the same with kickouts | violated: a timeout under way turns reconnection on again |
| `timeouts` | 2 alarms, 2 ids and 0, 3 messages | `OneOwner`, `RecordedWillRing`, `TimeoutIsItsOwn` |
| `timeouts_noreply` | 3 alarms, 4 messages | violated, `NoReplyIsHarmless`: a replaced alarm returns to the pool running and times out another request |
| `connect` | 2 calls of the resolver, 2 addresses in an answer, pipes that fail; then 3 attempts, 2 at a time, limit 7 ticks, interval 3, 2 ticks per second, TCP and TLS, epoll and kqueue | resolver: `NoLostAnswer`, `SignalledAnswer`, `ResolveEnds`; race: `OnlyTheWinnerStays`, `NotTooMany`, `AttemptsEndInTime`, `FailsOnlyIfAllFail`, `FailedNeverWins`, `RaceEnds`; both: `EstablishTypeOK`, `EveryIpTried` |
| `locks` | 1 application thread, the client's and the queue's | `NoWaitCycle`, `MutexIsFirst` |
| `packet` | any type and flags; bytes and sizes at the edges of the digits, up to `kMaxPayloadSize` | `FrameConsumed`, `BadLengthRefused`, `OwnMessageAccepted` |

Why the bounds suffice: three messages give one that runs, one collected and one in the list, with ids that wrap
within a run; what is checked of the queue's safety is proved for all bounds. A second queued message is pushed while
the first is written with `_mutex` released, and a message without reply can stand before or behind a request. One
request id gives the race of reply, timeout and end of connection for the same request, and its reuse; two, where one
request is answered or forgotten while another waits, are too many for a queue of two, and were checked once with a
queue of one: `client` with `"overlap"`, and with `"noreply"` and `"nofunc"` (9.4 million states). `client_live` was
checked once with a queue of two and `"overlap"` and `"disconnect"`; with `"noreply"` its liveness takes longer than
the five minutes a run should take. The safety properties of both are proved for all bounds. Two calls of the resolver
give a query that is late for its call and a breaker that was left broken, or closed, by the call before. The client
thread calls the public interface too, from callbacks, so one application thread gives two of its operations at once;
two threads (5.2 million states) were checked once, with the same result. Two alarms for three keys give one in use
while the other is given back and taken again; three alarms and four messages were checked once without requests that
expect no reply. Three attempts with two places give an attempt that must wait for another to fail; limit, interval
and second are chosen to have no common divisor, so that every rounding occurs. TLC's integers cannot hold 2^32, so
the run `packet` has a `Word` of 2·10^9, wider than the fields of any message together; that is all the proofs assume
of it. The bounds named in the modules: `MaxTime`, `IdLimit`, `MaxQueue`, `MaxPosts`, `AgeBound`, `MaxCalls`,
`MaxIps`, and that an identifier is not reused while in use (`NextIdIsFree`, `NextIdIsForgotten`, `IdIsFree`: in the
code they are 16 and 32 bits wide).

**Deadlock** is checked in every run but `connect`, where the call simply ends. **Fairness.** Queue: its thread keeps
running and callbacks return; time passes. Alarm: also a thread inside `Start` or `Cancel` leaves it. Client: a caller
inside `_mutex` leaves it; both threads keep running, and get `_mutex` in the end although callers take it again and
again (strong fairness); select returns when the breaker is readable (nothing is assumed of the socket); connecting
ends, since every attempt has a time limit in the code (strong fairness of leaving the connect loop); each alarm that
stays started rings, which is what `EveryTimerEnds` and `WaitingEnds` show (strong fairness for each request's alarm,
as the queue's thread may be busy with another callback in between). Connect: the caller's thread keeps running and
select returns at its time limit, but nothing is assumed of the threads of queries, so `ResolveEnds` holds if
`getaddrinfo` never returns; of the race's rounds that do not wait at least some take a tick; nothing is assumed of
servers or of the breaker. `locks` checks that there is no circle, which is safety, and needs no fairness.

**Findings.** The four violated properties are stated after comments in the code, quoted in `PROJECT.json`. Beside
them the models show the following, which no comment speaks of. The first four are in the runs, recorded by history
variables and excepted by the properties they would break:

* `__WaitDisconnect` returns at the first identifier without a function to call (line 190): one sent with a NULL
  function, the 0 of a request without reply, or, when a caller has connected meanwhile, one that the new connection
  has answered. The requests after it are never answered (`lost`, in `SomeoneAnswers` and `WrittenRequestsEnd`).
* A thread that fails at once may have its reconnect alarm ring before line 129 has stored `_thread`. The alarm joins
  nobody, `MakeSureConnected` does nothing from then on, and the client stays offline (`missed`, in `Reconnects` and
  `DisconnectHappens`).
* A logout may end the thread by `_disCode` (line 149) and store `_shouldReconnect` (line 151) only after the alarm
  has read it (line 84): the client connects again. `LogoutIsFinal` is about logouts whose flag is stored in time. It
  is also about logouts that find a thread: `DisconnectAsync` without one changes nothing, so one between the join and
  the test of the flag has no effect; and a request that times out overrides it (line 571), as it does a kickout.
* A reply that meets the callback of its timeout before `GetUserData` gives the alarm back; taken at once by the next
  request, it is that request that the callback times out (`raced`, in `TimeoutIsItsOwn`).
* With `"overlap"` and `"pipefail"` together `SignalIsThere` is violated, because `ReCreate` does not reset the flag;
  no run has both.
* With `"stall"` `TimeoutHasCallback` is violated: an alarm that rings before line 579 has recorded it takes the
  callback, and the entry recorded afterwards has none; at the end of the connection line 190 returns at it.
* `NoLostAnswer` and `SignalledAnswer` except calls that begin while an earlier query runs (`crossed`); a call waits
  two seconds, so such calls are nothing unusual on a bad network. Without the exception both are violated: a late
  `Break` between the `Clear` that fails and the `Close` leaves the flag without its byte, and no later query is heard
  of until the time limit; and a late query that failed wakes the next call at once, which then takes the backup
  address.
* `FailedNeverWins` is about connections that have failed. After the first `SSL_connect`, any readable event makes a
  TLS attempt connected, on epoll the end of the peer's sending too, so such a peer may win the race. On kqueue the
  last data before the end of the stream are an exception, so a `Disconnect` that the server sends just before closing
  is not read.
* `OwnMessageAccepted` excepts `SendReq` with data: the bit that announces data is one that the library's own
  `FixHeader::Decode` refuses, so only the server's decoder can read it.

## 4. Proofs

`MessageQueueProofs` proves for every value of the constants that satisfies `QueueAssumption`: the inductive invariant
`IInv` (`QueueInvariant`), hence `SortedAlways`, `NoLostWakeupAlways` and `AliveIsPendingAlways`; and
`QueueRefinesTimer`, the queue implements `TimerService`: the step simulation proves its safety part, which is all
that `TimerService!Spec` states.

`NoLostWakeup` is not inductive alone. That the wait ends at the first message needs that the list is sorted when
`Collect` stops at the first message not due; that nothing is waited for while it is due needs that a post sets
`_hasPost` whenever the loop is not waiting, and `LoopShape`, that the loop waits only with `_hasPost` clear. The
refinement needs `AliveIsPending` (a message may run exactly if it is in the list, or collected and not in
`_canceledMessageIds`) and with it `UniqueIds`: cancelling an id must remove one message only, so no two messages of
the list and the batch may share one. The lemmas are one per action, on three about lists: where the elements are
after an insertion, a removal and a cut.

`PacketProofs` proves for every word with `Word > 6 * 2^28` (2^32 is one), all bytes and all sizes: `PacketInvariant`,
hence `PacketTypeOK`, `DoneAtZero`, `FrameConsumedAlways` and `BadLengthRefusedAlways`; and `LengthRoundTrip`,
`decodeLength` inverts `encodeLength` for every length up to `kMaxPayloadSize`.

`FrameConsumed` is not inductive: that the count is 0 at the end says nothing if it has wrapped on the way, which it
may, because the bytes of a length are taken off before anything is tested. `CountInv` says that the count is the
number of bytes left or that number plus `Word`, so that it has wrapped at most once; that each field read so far took
at most `FieldMax` bytes; and that a bad length that went unnoticed can only be that of the header, which is then
`Word - 1`. A message has at most five fields, so a count that has wrapped, or started at `Word - 1`, cannot come down
to 0. `LengthRoundTrip` goes by the number of digits; the lemma `DigitsMakeUp` is the arithmetic. Leaves that hold
large numerals name `SMT`, which alone can take them.

`OwnMessageAccepted` has an invariant of its own, `OwnInv`: of a message of the client as many strings are left as
fields that read one, and the bytes left of it, length by length as `setString` writes them, are what the count says.
So no field finds too little, and at the end nothing is left over (`OwnMessageAcceptedAlways`). It uses
`LengthRoundTrip` for the header and for every string.

`AlarmProofs` proves for any number of alarms and of threads that use them: `AlarmInvariant`, hence
`AlarmTypeOKAlways` and `WaitingHasMessageAlways`. `WaitingHasMessage` needs `OwnIds`: no identifier belongs to two
alarms, so that cancelling one alarm cannot take the message of another; and `StartShape`: what `Start` and `Cancel`
have done half-way, since they release the queue's mutex in between. The proof uses the queue only through `IInv` and
the lemma that each step of an alarm is a call of the queue's interface or leaves it alone. That lemma is a theorem
too, `AlarmsUseTheQueue`: what is proved of the queue for any callers holds under the alarms, the timer service
included (`AlarmsRefineTimer`).

`TcpClientProofs` proves for any number of callers, identifiers and queued messages, in three layers:

* `ClientInvariant`, with no further condition: types, `ThreadShape` (which positions of the two threads and of a
  caller inside `_mutex`, and which flags, go together), `LogoutShape` (where a logout stands, `_shouldReconnect` is
  off, and the alarm that has read it has a thread before it), a byte in a pipe is marked, and `WriteHoldsHead`.
  Hence `ClientTypeOKAlways`, `WriteHoldsHeadAlways` and `LogoutIsFinalAlways`, and from types and `ThreadShape` step
  by step `SomeoneAnswersAlways`: each action that takes a request out of one keeper's hands puts it into another's,
  or takes its callback, or is the return at line 190.
* `SignalInvariant`, if `PipesOrTurns`: the breakers tell the truth, those waiting to be rebuilt are closed and
  unmarked (`RebuildShape`), and `PendingSignal`: whatever the client thread should be woken for is in the pipe, or
  somebody is just about to write it, from the moment it came up and not only while the thread waits. Hence
  `SignalIsThereAlways` and `ClientNoLostWakeup`. `PipesOrTurns` says that not both pipes fail and a caller connects
  while `__WaitDisconnect` clears up; with both, `SignalIsThere` is false (section 3).
* `RequestInvariant`, if `Prompt`: where the callback of a request is from `Send` to its end (`QueuedShape`,
  `CurrentShape`), and that a recorded timeout has its entry. Hence `TimeoutHasCallbackAlways`. `Prompt` says that the
  client thread is not held up for the ten seconds of a request timeout between starting the alarm and recording it.

`RequestTimeoutsProofs` proves for any number of alarms, identifiers and messages, with `SendNoReply` and threads held
up anywhere, in three layers:

* `OwnerInvariant`, hence `TimeoutsTypeOKAlways` and `OneOwnerAlways`. `OneOwner` counts, which is not a form to
  reason with: `Owned` says instead that the pool has no element twice and that pool, map and hand are disjoint, and
  the counts follow.
* `WaitInvariant`, hence `RecordedWillRingAlways`: an alarm in use knows its request and has a message identifier
  (`UsedShape`); one that waits has a message in the queue or at the callback's door, be it one that it inherited from
  an earlier owner (`WaitingShape`); and `RecordedShape` is the property with the request that is about to be
  recorded.
* `RingInvariant`, hence `TimeoutIsItsOwnAlways`: a message that is not `Stray`, that is neither `raced` nor
  `replaced`, is the one its alarm knows of, and that alarm is in the map under the message's request, or about to be
  (`PostedShape`); so is the one whose callback is running, until a reply takes its request, and then nobody uses the
  identifier that the callback has read (`RingingShape`). `MessageShape` keeps messages apart.

`EstablishProofs` proves `EstablishInvariant` for any number of calls, addresses, attempts and places, and all limits,
intervals and ticks per second, and from it ten properties of resolver and race. Of the race: attempts are begun in
order, `SocketShape` says what the status of a connector says about its socket, `EndShape` what a result leaves open,
`ErrorShape` that a connector which is gone before the end had an error of its own or has won, and `AgeShape` is the
arithmetic: the wait of select, the smallest of several remaining times, rounded, ends before the nearest limit.
`NotTooMany` is about a cardinality and is inductive as it stands. `FailedNeverWinsAlways` rests on `FailureIsSeen`.
Of the resolver: `BreakerTold` (a query that has ended has told the breaker, if the queries run one after the other,
`InTurn`), `CacheShape` (the cache is the latest answer, as far as it has been stored) and `AnswerShape` (what was
copied is what the cache held). Both are proved apart and joined, since `Establish` runs them in turn; `AddressShape`
says that connector p has address p.

`LocksProofs` proves `LocksInvariant` for any number of application threads, hence `NoWaitCycleAlways` and
`MutexIsFirstAlways`. The mutexes have three ranks: `_mutex` and `_timeoutMutex`; the alarms; all others. The
invariant says of the whole rest of a thread's script, not only of its next step, that it leads from the mutexes the
thread holds to none by steps that ask for higher ranks only, and call user code or join with nothing held (`Path`);
so it survives a call of user code, which puts an operation in front of the rest. That every operation is such a path
is composed from the paths of its parts. In a circle the rank of what is waited for would rise for ever; joining
counts as the lowest rank, as only the queue's thread joins, and it joins the client thread only.

`SocketProofs` proves what the operations of a breaker keep (lemmas for `TcpClientProofs` and `EstablishProofs`), and,
for both back ends, every set of questions and every state of a descriptor: `FailureIsSeen`, a failed connection whose
descriptor is open and watched for reading or writing is an exception; and `ReportedIsSeen`, what makes select return
shows in one of the three tests, so no loop spins on an event that it cannot see. epoll reports a failure whatever was
asked (`FailedFlags`). kqueue looks at one event only, which may be that of either filter (`KqueueFirst` names it),
but a failure is on both; and an event that is not an exception is usable for its filter.

Every invariant that a passing run checks is stated by a theorem, and so are the two action properties,
`SomeoneAnswers` and `LogoutIsFinal`. Only model-checked are the liveness properties, which are out of the prover's
reach: `EveryTimerEnds`, `WaitingEnds`, `DisconnectHappens`,
`WrittenRequestsEnd`, `Reconnects`, `ResolveEnds`, `RaceEnds`. The strengthenings were checked by TLC on the instances
of the runs before they were proved.

## 5. Plan

Done, in this order: message queue with its abstract specification and proofs; alarm over the queue; breaker and
client; request timeouts with the pool; complex connect; codec with proofs; name resolution and its composition with
the race; the back ends of select with proofs; the order of the mutexes; the proofs of all invariants. Left:

1. The synchronous `Disconnect` and the destructor as a third process of `TcpClient`.
2. A specification of what a client promises its callers (every request that was written is answered, timed out or
   lost once), which `TcpClient` would implement.

## 6. Not modelled

* `openssl/`: headers of a vendored library, most of the C and C++ lines of the repository, with no code of the
  client.
* `socket_poll.cpp` is in no build; partial sends and receives (`tcp_socket.cpp`), the loops of gzip, the contents of
  messages, TLS beyond the end of its handshake.
* Steps of the system clock, which delays are measured with; the delay by which a reconnection is put off after
  several that failed.
* Data races as such: the object pool's give-back and `_cacheIps` are changed without a lock. The models take such a
  step as atomic, or as several where they are several calls, and do not speak of memory that is torn.
* The synchronous `Disconnect` and the destructor, see the plan.
* Logs, JNI, iOS, examples.
