----------------------------- MODULE TcpClient ------------------------------
(***************************************************************************)
(* The connection of the client, tcp_client.cpp, with the threads that     *)
(* touch it:                                                               *)
(*   - callers of the public interface, any number of them; each call      *)
(*     holds _mutex;                                                       *)
(*   - the client thread (__Run), which connects and then loops in         *)
(*     __RunReadWrite; its program counter is cpc;                         *)
(*   - the thread of the message queue, which runs the callbacks of the    *)
(*     alarms one at a time: reconnect, heartbeat and request timeouts;    *)
(*     its program counter is qpc.                                         *)
(* A step ends where another thread can see or change what comes next:     *)
(* where a lock is released, and in a stretch under _mutex between the     *)
(* stores that others read without it: mutex says where a caller is then.  *)
(* _thread (line 171) and _shouldReconnect (line 84) are read so by the    *)
(* queue's thread only, so that a stretch of that thread itself, in which  *)
(* nobody else can read them, is one step; and so is the client thread's   *)
(* (__handleDisconnect), which alone reads _disCode (line 494).            *)
(*                                                                         *)
(* Time is left out: an alarm that is started may ring at any later        *)
(* moment.  The alarms themselves are the subject of module Alarm, the     *)
(* pool that request timeouts are taken from of module RequestTimeouts;    *)
(* here every request that is written gets an alarm of its own.            *)
(***************************************************************************)
EXTENDS Integers, Sequences, SocketBreaker, SocketSelect

CONSTANTS
    IdLimit,      \* UINT16_MAX in the code
    MaxQueue,     \* bound on the length of _messageQueue
    Env           \* what callers and environment may do, out of EnvChoices

\* "noreply", "disconnect": SendNoReply, SendDisconnect are called;
\* "kickout": the server refuses or kicks out the login;
\* "nonet": the network type may be kNetTypeNoNet;
\* "pipefail": pipe() may fail;
\* "stall": a thread may be held up for the length of a request timeout;
\* "nofunc": Send may be given no callback, func = NULL;
\* "overlap": a caller may connect while __WaitDisconnect is still clearing
\*   up after the thread it has joined.
EnvChoices ==
    {"noreply", "nofunc", "disconnect", "kickout", "nonet", "pipefail", "stall", "overlap"}

ASSUME ClientAssumption ==
    /\ IdLimit \in Nat /\ IdLimit > 1
    /\ MaxQueue \in Nat
    /\ Env \subseteq EnvChoices

Ids == 1..(IdLimit - 1)

\* The messages a caller queues: a SendReq by its identifier (0 for one that
\* expects no reply), or a Disconnect.
DisconnectMsg == -1
Queueable == Ids \cup {0, DisconnectMsg}

VARIABLES
    status,             \* _connectStatus
    thread,             \* _thread # NULL
    disCode,            \* _disCode # kDisCodeNone
    shouldReconnect,    \* _shouldReconnect
    timeoutDisconnect,  \* _timeoutDisconnect
    mutex,              \* who holds _mutex in the middle of a stretch: "start", a
                        \* caller that has yet to store _thread; "again" and
                        \* "logout", one that has yet to store _shouldReconnect
    newRw, newConn,     \* _shouldNewBreaker, _shouldNewConnBreaker
    rwb, cnb,           \* _readWriteBreaker, _connectBreaker
    messageQueue,       \* _messageQueue
    nextId,             \* _currentMsgId
    callbacks,          \* the keys of _callbackMap
    mute,               \* those whose function is NULL
    timeoutMap,         \* the keys of _timeoutAlarmMap
    timers,             \* the identifiers whose timeout alarm will ring
    ping, pingTimeout,  \* _pingAlarm, _pingTimeoutAlarm: "off", "start", "alarm"
    reconnect,          \* _reconnectAlarm has been started
    cpc,                \* where the client thread is; "none": there is none
    ret,                \* what __RunConnect returned
    sel,                \* what the last select saw; like the other locals of a
                        \* thread, reset once the code no longer uses it
    cur,                \* the message being written, or whose reply was read
    wire,               \* the requests the server has still to answer
    qpc,                \* where the thread of the message queue is
    qid,                \* the request whose timeout it handles
    qids,               \* timeoutMessageIds of __WaitDisconnect, still to do
    wish,               \* history: "kickout" once the server has refused or
                        \* kicked out the login, "logout" once a caller has
                        \* disconnected for good, and nobody has asked for a
                        \* connection since
    missed,             \* history: the reconnect alarm found no _thread although
                        \* the thread that had started it was there
    lost                \* history: the requests that __WaitDisconnect had still
                        \* to tell when it met a NULL function and returned

histVars == <<wish, missed, lost>>
connVars == <<status, thread, disCode, shouldReconnect, timeoutDisconnect, mutex, histVars>>
breakerVars == <<newRw, newConn, rwb, cnb>>
requestVars == <<messageQueue, nextId, callbacks, mute, timeoutMap, timers>>
alarmVars == <<ping, pingTimeout, reconnect>>
clientVars == <<cpc, ret, sel, cur, wire>>
queueVars == <<qpc, qid, qids>>
vars == <<connVars, breakerVars, requestVars, alarmVars, clientVars, queueVars>>

NoSelect == [read |-> FALSE, write |-> FALSE, bad |-> FALSE, brk |-> FALSE]

\* The constructor, then InitHostAndPort.  Either pipe() may have failed.
Init ==
    /\ status = "idle" /\ thread = FALSE /\ disCode = FALSE
    /\ shouldReconnect = FALSE /\ timeoutDisconnect = FALSE /\ mutex = "free"
    /\ wish = "connect" /\ missed = FALSE /\ lost = {}
    /\ newRw = FALSE /\ newConn = FALSE
    /\ \E okRw, okConn \in {TRUE, "pipefail" \notin Env} :
          rwb = NewBreaker(okRw) /\ cnb = NewBreaker(okConn)
    /\ messageQueue = <<>> /\ nextId = 1
    /\ callbacks = {} /\ mute = {} /\ timeoutMap = {} /\ timers = {}
    /\ ping = "off" /\ pingTimeout = "off" /\ reconnect = FALSE
    /\ cpc = "none" /\ ret = "failed" /\ sel = NoSelect /\ cur = 0 /\ wire = {}
    /\ qpc = "idle" /\ qid = 0 /\ qids = {}

-----------------------------------------------------------------------------
(***************************************************************************)
(* Bodies shared by callers, the client thread and the queue's thread.     *)
(***************************************************************************)

\* MakeSureConnected when there is no thread: reset and start one, which runs
\* from here on.  (A connection, or a thread that is still there, makes it
\* return.)
StartThread ==
    /\ mutex = "free"
    /\ status # "connected"
    /\ ~thread
    /\ status' = "idle"
    /\ disCode' = FALSE
    /\ shouldReconnect' = TRUE
    /\ timeoutDisconnect' = FALSE
    /\ newRw' = FALSE /\ newConn' = FALSE
    /\ rwb' = Clear(rwb) /\ cnb' = Clear(cnb)
    /\ messageQueue' = <<>>
    /\ cpc' = "start"

\* Mutant: the disconnection is noted and nobody is woken.
SignalNobody(again) ==
    /\ shouldReconnect' = again
    /\ UNCHANGED breakerVars

\* Mutant: an earlier wish to reconnect is not taken back.
SignalKeepsWish(again) ==
    /\ shouldReconnect' = (shouldReconnect \/ again)
    /\ rwb' = IF BreakSucceeds(rwb) THEN Break(rwb) ELSE Close(rwb)
    /\ newRw' = (newRw \/ ~BreakSucceeds(rwb))
    /\ cnb' = IF BreakSucceeds(cnb) THEN Break(cnb) ELSE Close(cnb)
    /\ newConn' = (newConn \/ ~BreakSucceeds(cnb))

\* DisconnectAsync after _disCode is stored: the flag and the two signals.
\* One step, since the steps that read or write the flag without _mutex touch
\* no breaker, and what the client thread does with _connectBreaker is over
\* before it uses _readWriteBreaker.
SignalDisconnect(again) ==
    /\ shouldReconnect' = again
    /\ rwb' = IF BreakSucceeds(rwb) THEN Break(rwb) ELSE Close(rwb)
    /\ newRw' = (newRw \/ ~BreakSucceeds(rwb))
    /\ cnb' = IF BreakSucceeds(cnb) THEN Break(cnb) ELSE Close(cnb)
    /\ newConn' = (newConn \/ ~BreakSucceeds(cnb))

\* DisconnectAsync by the client thread or the queue's, when there is a thread.
RequestDisconnect(again) ==
    /\ mutex = "free"
    /\ thread
    /\ disCode' = TRUE
    /\ SignalDisconnect(again)

-----------------------------------------------------------------------------
(***************************************************************************)
(* Callers.                                                                *)
(***************************************************************************)

\* The thread is created ...
MakeSureConnected ==
    /\ "overlap" \in Env \/ qpc \notin {"collect", "lose"}
    /\ StartThread
    /\ mutex' = "start"
    /\ wish' = "connect"
    /\ UNCHANGED <<thread, missed, lost, nextId, callbacks, mute, timeoutMap,
                   timers, alarmVars, ret, sel, cur, wire, queueVars>>

\* ... and then _thread is stored, which the thread may have outrun.
StoreThread ==
    /\ mutex = "start"
    /\ thread' = TRUE
    /\ mutex' = "free"
    /\ UNCHANGED <<status, disCode, shouldReconnect, timeoutDisconnect, histVars,
                   breakerVars, requestVars, alarmVars, clientVars, queueVars>>

\* _disCode is stored if there is a thread ...
DisconnectAsync(again) ==
    \/ /\ mutex = "free"
       /\ thread
       /\ disCode' = TRUE
       /\ mutex' = IF again THEN "again" ELSE "logout"
       /\ UNCHANGED <<status, thread, shouldReconnect, timeoutDisconnect, histVars,
                      breakerVars, requestVars, alarmVars, clientVars, queueVars>>
    \/ again /\ MakeSureConnected

\* The reconnect alarm has read _shouldReconnect and will connect.
ReadAlready == qpc = "connect" /\ ~thread

\* ... and then the rest.  The thread may have seen _disCode meanwhile, have
\* ended and been joined, and the alarm may have read the old flag: then this
\* call comes too late.
FinishDisconnect ==
    /\ mutex \in {"again", "logout"}
    /\ SignalDisconnect(mutex = "again")
    /\ mutex' = "free"
    /\ wish' = CASE mutex = "again" -> "connect"
                 [] mutex = "logout" /\ (wish = "kickout" \/ ReadAlready) -> wish
                 [] OTHER -> "logout"
    /\ UNCHANGED <<status, thread, disCode, timeoutDisconnect, missed, lost,
                   requestVars, alarmVars, clientVars, queueVars>>

\* Bound on the identifiers: fewer than IdLimit - 1 requests are sent while
\* one of them is still waiting for its callback (2^16 - 2 in the code).
NextIdIsFree ==
    /\ nextId \notin callbacks \cup timeoutMap \cup timers \cup wire \cup qids
    /\ qpc \in {"tErase", "tGet"} => qid # nextId
    /\ cpc \in {"arm", "map", "respTimer", "respCall"} => cur # nextId

\* Mutant: the counter is not wrapped.
NextIdUnwrapped(i) == i + 1

FollowingId(i) == IF i + 1 = IdLimit THEN 1 ELSE i + 1

\* func is NULL, or a callback.
Send(null) ==
    /\ null => "nofunc" \in Env
    /\ mutex = "free"
    /\ status = "connected"
    /\ Len(messageQueue) < MaxQueue
    /\ NextIdIsFree
    /\ callbacks' = callbacks \cup {nextId}
    /\ mute' = IF null THEN mute \cup {nextId} ELSE mute
    /\ lost' = lost \ {nextId}
    /\ messageQueue' = Append(messageQueue, nextId)
    /\ nextId' = FollowingId(nextId)
    /\ rwb' = Break(rwb)
    /\ UNCHANGED <<status, thread, disCode, shouldReconnect, timeoutDisconnect,
                   mutex, wish, missed, newRw, newConn, cnb, timeoutMap, timers,
                   alarmVars, clientVars, queueVars>>

\* SendNoReply queues a SendReq with identifier 0, SendDisconnect a Disconnect.
SendPlain(m) ==
    /\ mutex = "free"
    /\ status = "connected"
    /\ Len(messageQueue) < MaxQueue
    /\ messageQueue' = Append(messageQueue, m)
    /\ rwb' = Break(rwb)
    /\ UNCHANGED <<connVars, newRw, newConn, cnb, nextId, callbacks, mute,
                   timeoutMap, timers, alarmVars, clientVars, queueVars>>

SendNoReply == "noreply" \in Env /\ SendPlain(0)
SendDisconnect == "disconnect" \in Env /\ SendPlain(DisconnectMsg)

-----------------------------------------------------------------------------
(***************************************************************************)
(* The client thread: __RunConnect.                                        *)
(***************************************************************************)
Goto(l) == cpc' = l

\* Without network the attempt fails and is not repeated.
ConnectBegin ==
    /\ cpc = "start"
    /\ status' = "connecting"
    /\ \/ /\ Goto("connect")
          /\ UNCHANGED <<shouldReconnect, ret>>
       \/ /\ "nonet" \in Env
          /\ shouldReconnect' = FALSE
          /\ ret' = "failed"
          /\ Goto("set")
    /\ UNCHANGED <<thread, disCode, timeoutDisconnect, mutex, histVars, breakerVars,
                   requestVars, alarmVars, sel, cur, wire, queueVars>>

\* Name resolution and the race of connection attempts wait in select on the
\* connect breaker, over and over.  Select first takes a snapshot ...
ConnectSelect ==
    /\ cpc = "connect"
    /\ sel' = [NoSelect EXCEPT !.brk = Readable(cnb)]
    /\ Goto("connectClear")
    /\ UNCHANGED <<connVars, breakerVars, requestVars, alarmVars, ret, cur,
                   wire, queueVars>>

\* ... and then clears the breaker, whether or not the snapshot has it.
ConnectClear(l) ==
    /\ cpc = "connectClear"
    /\ sel.brk => l = "set"
    /\ cnb' = Clear(cnb)
    /\ ret' = "failed"
    /\ sel' = NoSelect
    /\ Goto(l)
    /\ UNCHANGED <<connVars, newRw, newConn, rwb, requestVars, alarmVars,
                   cur, wire, queueVars>>

\* A socket is connected: Connect is sent and ConnAck awaited, with a time
\* limit of kSocketTimeout.  The return code is read from a ConnAck that has
\* been freed, so it may be any, whatever the server sent.
Handshake(r) ==
    /\ cpc = "handshake"
    /\ r = "kickout" => "kickout" \in Env
    /\ ret' = r
    /\ shouldReconnect' = (shouldReconnect /\ r # "kickout")
    /\ wish' = IF r = "kickout" THEN r ELSE wish
    /\ Goto("set")
    /\ UNCHANGED <<status, thread, disCode, timeoutDisconnect, mutex, missed, lost,
                   breakerVars, requestVars, alarmVars, sel, cur, wire, queueVars>>

SetStatus ==
    /\ cpc = "set"
    /\ status' = CASE ret = "success" -> "connected"
                   [] ret = "kickout" -> "kickout"
                   [] OTHER -> "failed"
    /\ ret' = "failed"
    /\ Goto(IF ret = "success" THEN "top" ELSE "close")
    /\ UNCHANGED <<thread, disCode, shouldReconnect, timeoutDisconnect, mutex, histVars,
                   breakerVars, requestVars, alarmVars, sel, cur, wire,
                   queueVars>>

-----------------------------------------------------------------------------
(***************************************************************************)
(* The client thread: __RunReadWrite.                                      *)
(***************************************************************************)
ArmPing ==
    /\ cpc = "top"
    /\ ping' = "start"
    /\ Goto("has")
    /\ UNCHANGED <<connVars, breakerVars, requestVars, pingTimeout, reconnect,
                   ret, sel, cur, wire, queueVars>>

\* Under _mutex: is there a message to write?
LookForMessage ==
    /\ cpc = "has"
    /\ mutex = "free"
    /\ sel' = [NoSelect EXCEPT !.write = messageQueue # <<>>]
    /\ Goto("select")
    /\ UNCHANGED <<connVars, breakerVars, requestVars, alarmVars, ret, cur,
                   wire, queueVars>>

\* What select may say of the socket, of which anything may be true; it is
\* asked about writing only if a message was seen.
Asked(w) == {"read", "error"} \cup (IF w THEN {"write"} ELSE {})

Sights ==
    UNION {{<<w, r>> : r \in Reports(b, Asked(w), facts)} :
            w \in BOOLEAN, b \in Backends, facts \in SUBSET (Facts \ {"closed"})}

\* The wait.  The breaker wakes the thread in any case.
Select(r) ==
    /\ cpc = "select"
    /\ <<sel.write, r>> \in Sights
    /\ r # NoReport \/ Readable(rwb)
    /\ sel' = IF r.exception THEN [NoSelect EXCEPT !.bad = TRUE]
              ELSE [NoSelect EXCEPT !.read = r.read, !.write = r.write]
    /\ Goto("clear")
    /\ UNCHANGED <<connVars, breakerVars, requestVars, alarmVars, ret, cur,
                   wire, queueVars>>

ClearBreaker ==
    /\ cpc = "clear"
    /\ rwb' = Clear(rwb)
    /\ Goto("check")
    /\ UNCHANGED <<connVars, newRw, newConn, cnb, requestVars, alarmVars, ret,
                   sel, cur, wire, queueVars>>

\* _disCode and the status of the alarm are read without a lock.
Check ==
    /\ cpc = "check"
    /\ \/ /\ disCode \/ sel.bad
          /\ Goto("exit")
          /\ UNCHANGED disCode
       \/ /\ ~disCode /\ ~sel.bad /\ pingTimeout = "alarm"
          /\ disCode' = TRUE
          /\ Goto("exit")
       \/ /\ ~disCode /\ ~sel.bad /\ pingTimeout # "alarm"
          /\ Goto("write")
          /\ UNCHANGED disCode
    /\ sel' = IF cpc' = "exit" THEN NoSelect ELSE sel
    /\ UNCHANGED <<status, thread, shouldReconnect, timeoutDisconnect, mutex, histVars,
                   breakerVars, requestVars, alarmVars, ret, cur, wire,
                   queueVars>>

\* Mutant: the message leaves the queue when it is written.
WriteAndPop(ok) ==
    /\ cpc = "write"
    /\ mutex = "free"
    /\ sel.write /\ messageQueue # <<>>
    /\ cur' = IF ok THEN Head(messageQueue) ELSE 0
    /\ sel' = IF ok THEN [sel EXCEPT !.write = FALSE] ELSE NoSelect
    /\ messageQueue' = Tail(messageQueue)
    /\ wire' = IF ok THEN wire \cup ({Head(messageQueue)} \cap Ids) ELSE wire
    /\ Goto(CASE ~ok -> "exit"
              [] ok /\ Head(messageQueue) = DisconnectMsg -> "pop"
              [] OTHER -> "arm")
    /\ UNCHANGED <<connVars, breakerVars, nextId, callbacks, mute, timeoutMap, timers,
                   alarmVars, ret, queueVars>>

\* One message is written per round; it stays at the head of the queue, which
\* is unlocked meanwhile.  A failure ends the connection.
Write(ok) ==
    /\ cpc = "write"
    /\ mutex = "free"
    /\ sel.write /\ messageQueue # <<>>
    /\ cur' = IF ok THEN Head(messageQueue) ELSE 0
    /\ sel' = IF ok THEN [sel EXCEPT !.write = FALSE] ELSE NoSelect
    /\ wire' = IF ok THEN wire \cup ({Head(messageQueue)} \cap Ids) ELSE wire
    /\ Goto(CASE ~ok -> "exit"
              [] ok /\ Head(messageQueue) = DisconnectMsg -> "pop"
              [] OTHER -> "arm")
    /\ UNCHANGED <<connVars, breakerVars, requestVars, alarmVars, ret,
                   queueVars>>

NothingToWrite ==
    /\ cpc = "write"
    /\ mutex = "free"
    /\ ~(sel.write /\ messageQueue # <<>>)
    /\ sel' = [sel EXCEPT !.write = FALSE]
    /\ Goto("read")
    /\ UNCHANGED <<connVars, breakerVars, requestVars, alarmVars, ret,
                   cur, wire, queueVars>>

StartTimeout ==
    /\ cpc = "arm"
    /\ timers' = timers \cup {cur}
    /\ Goto("map")
    /\ UNCHANGED <<connVars, breakerVars, messageQueue, nextId, callbacks, mute,
                   timeoutMap, alarmVars, ret, sel, cur, wire, queueVars>>

RecordTimeout ==
    /\ cpc = "map"
    /\ timeoutMap' = timeoutMap \cup {cur}
    /\ Goto("pop")
    /\ UNCHANGED <<connVars, breakerVars, messageQueue, nextId, callbacks, mute,
                   timers, alarmVars, ret, sel, cur, wire, queueVars>>

\* The message is removed and the heartbeat restarted.
PopMessage ==
    /\ cpc = "pop"
    /\ mutex = "free"
    /\ messageQueue' = Tail(messageQueue)
    /\ ping' = "start"
    /\ cur' = 0
    /\ Goto("read")
    /\ UNCHANGED <<connVars, breakerVars, nextId, callbacks, mute, timeoutMap,
                   timers, pingTimeout, reconnect, ret, sel, wire,
                   queueVars>>

\* What may be read: a reply the server still owes, a heartbeat reply, a
\* message of the server's own (handed to _onSendReq in another thread), a
\* Disconnect that kicks the login out, or an error.
ReadReply(i) ==
    /\ cpc = "read" /\ sel.read
    /\ i \in wire
    /\ wire' = wire \ {i}
    /\ cur' = i
    /\ sel' = NoSelect
    /\ Goto("respTimer")
    /\ UNCHANGED <<connVars, breakerVars, requestVars, alarmVars, ret,
                   queueVars>>

ReadPingResp ==
    /\ cpc = "read" /\ sel.read
    /\ pingTimeout' = "off"
    /\ sel' = NoSelect
    /\ Goto("ping")
    /\ UNCHANGED <<connVars, breakerVars, requestVars, ping, reconnect, ret, cur, wire, queueVars>>

ReadKickout ==
    /\ cpc = "read" /\ sel.read
    /\ "kickout" \in Env
    /\ RequestDisconnect(FALSE)
    /\ wish' = "kickout"
    /\ sel' = NoSelect
    /\ Goto("ping")
    /\ UNCHANGED <<status, thread, timeoutDisconnect, mutex, missed, lost,
                   requestVars, alarmVars, ret, cur, wire, queueVars>>

ReadError ==
    /\ cpc = "read" /\ sel.read
    /\ sel' = NoSelect
    /\ Goto("exit")
    /\ UNCHANGED <<connVars, breakerVars, requestVars, alarmVars, ret,
                   cur, wire, queueVars>>

\* Nothing to read, or a message that changes nothing here.
ReadOther ==
    /\ cpc = "read"
    /\ sel' = NoSelect
    /\ Goto("ping")
    /\ UNCHANGED <<connVars, breakerVars, requestVars, alarmVars, ret,
                   cur, wire, queueVars>>

\* __handleSendResp: the alarm under _timeoutMutex, then the callback under
\* _mapMutex.
ReplyTimer ==
    /\ cpc = "respTimer"
    /\ timers' = timers \ ({cur} \cap timeoutMap)
    /\ timeoutMap' = timeoutMap \ {cur}
    /\ Goto("respCall")
    /\ UNCHANGED <<connVars, breakerVars, messageQueue, nextId, callbacks, mute,
                   alarmVars, ret, sel, cur, wire, queueVars>>

ReplyCallback ==
    /\ cpc = "respCall"
    /\ callbacks' = callbacks \ {cur}
    /\ mute' = mute \ {cur}
    /\ cur' = 0
    /\ Goto("ping")
    /\ UNCHANGED <<connVars, breakerVars, messageQueue, nextId, timeoutMap,
                   timers, alarmVars, ret, sel, wire, queueVars>>

\* The heartbeat is due: write a PingReq and start its time limit.
Heartbeat(ok) ==
    /\ cpc = "ping"
    /\ \/ /\ ping = "alarm" /\ ok
          /\ pingTimeout' = "start"
          /\ Goto("top")
       \/ /\ ping = "alarm" /\ ~ok
          /\ Goto("exit")
          /\ UNCHANGED pingTimeout
       \/ /\ ping # "alarm" /\ ok
          /\ Goto("top")
          /\ UNCHANGED pingTimeout
    /\ UNCHANGED <<connVars, breakerVars, requestVars, ping, reconnect, ret,
                   sel, cur, wire, queueVars>>

\* The scope guard of __RunReadWrite.
LeaveLoop ==
    /\ cpc = "exit"
    /\ ping' = "off" /\ pingTimeout' = "off"
    /\ Goto("close")
    /\ UNCHANGED <<connVars, breakerVars, requestVars, reconnect, ret, sel,
                   cur, wire, queueVars>>

\* The end of __Run: close the socket, announce it, start the alarm whose
\* callback joins this thread.
CloseSocket ==
    /\ cpc = "close"
    /\ status' = "disconnected"
    /\ wire' = {}
    /\ Goto("rearm")
    /\ UNCHANGED <<thread, disCode, shouldReconnect, timeoutDisconnect, mutex, histVars,
                   breakerVars, requestVars, alarmVars, ret, sel, cur,
                   queueVars>>

StartReconnect ==
    /\ cpc = "rearm"
    /\ reconnect' = TRUE
    /\ Goto("dead")
    /\ UNCHANGED <<connVars, breakerVars, requestVars, ping, pingTimeout, ret,
                   sel, cur, wire, queueVars>>

-----------------------------------------------------------------------------
(***************************************************************************)
(* The thread of the message queue: request timeouts and heartbeat.        *)
(***************************************************************************)

\* The alarm of request i rings.  It was started kSendReqTimeout before;
\* unless Env has "stall", the client thread is not held up for that long
\* between starting the alarm and recording it.
TimeoutRings(i) ==
    /\ qpc = "idle"
    /\ i \in timers
    /\ "stall" \in Env \/ ~(cpc = "map" /\ cur = i)
    /\ timers' = timers \ {i}
    /\ qpc' = "tErase"
    /\ qid' = i
    /\ UNCHANGED <<connVars, breakerVars, messageQueue, nextId, callbacks, mute,
                   timeoutMap, alarmVars, clientVars, qids>>

\* Mutant: the alarm that rings stays in the map.
TimeoutErasesNothing ==
    /\ qpc = "tErase"
    /\ qpc' = "tGet"
    /\ UNCHANGED <<connVars, breakerVars, requestVars, alarmVars, clientVars,
                   qid, qids>>

TimeoutErase ==
    /\ qpc = "tErase"
    /\ timeoutMap' = timeoutMap \ {qid}
    /\ qpc' = "tGet"
    /\ UNCHANGED <<connVars, breakerVars, messageQueue, nextId, callbacks, mute,
                   timers, alarmVars, clientVars, qid, qids>>

\* __GetCallback, then the callback in a thread of its own.  Without an entry,
\* or with a NULL function, nothing more is done.
TimeoutCallback ==
    /\ qpc = "tGet"
    /\ callbacks' = callbacks \ {qid}
    /\ mute' = mute \ {qid}
    /\ qid' = 0
    /\ qpc' = IF qid \in callbacks \ mute THEN "tCheck" ELSE "idle"
    /\ UNCHANGED <<connVars, breakerVars, messageQueue, nextId, timeoutMap,
                   timers, alarmVars, clientVars, qids>>

\* Read without a lock.
TimeoutCheck ==
    /\ qpc = "tCheck"
    /\ \/ /\ status = "connected" /\ ~timeoutDisconnect
          /\ timeoutDisconnect' = TRUE
          /\ qpc' = "tDisc"
       \/ /\ ~(status = "connected" /\ ~timeoutDisconnect)
          /\ qpc' = "idle"
          /\ UNCHANGED timeoutDisconnect
    /\ UNCHANGED <<status, thread, disCode, shouldReconnect, mutex, histVars,
                   breakerVars, requestVars, alarmVars, clientVars, qid, qids>>

\* There is still a thread: only this thread joins it.
TimeoutDisconnects ==
    /\ qpc = "tDisc"
    /\ RequestDisconnect(TRUE)
    /\ wish' = IF wish = "logout" THEN "connect" ELSE wish
    /\ qpc' = "idle"
    /\ UNCHANGED <<status, thread, timeoutDisconnect, mutex, missed, lost,
                   requestVars, alarmVars, clientVars, qid, qids>>

PingRings ==
    /\ qpc = "idle"
    /\ \/ ping = "start" /\ ping' = "alarm" /\ UNCHANGED pingTimeout
       \/ pingTimeout = "start" /\ pingTimeout' = "alarm" /\ UNCHANGED ping
    /\ qpc' = "pBreak"
    /\ UNCHANGED <<connVars, breakerVars, requestVars, reconnect, clientVars,
                   qid, qids>>

PingBreaks ==
    /\ qpc = "pBreak"
    /\ rwb' = Break(rwb)
    /\ qpc' = "idle"
    /\ UNCHANGED <<connVars, newRw, newConn, cnb, requestVars, alarmVars,
                   clientVars, qid, qids>>

-----------------------------------------------------------------------------
(***************************************************************************)
(* The thread of the message queue: the callback of _reconnectAlarm, which *)
(* is __WaitDisconnect followed by MakeSureConnected.                      *)
(***************************************************************************)
ReconnectRings ==
    /\ qpc = "idle"
    /\ reconnect
    /\ reconnect' = FALSE
    /\ qpc' = IF thread THEN "join" ELSE "again"
    /\ missed' = (missed \/ ~thread)
    /\ UNCHANGED <<status, thread, disCode, shouldReconnect, timeoutDisconnect,
                   mutex, wish, lost, breakerVars, requestVars, ping, pingTimeout,
                   clientVars, qid, qids>>

\* _mutex is not held.
Join ==
    /\ qpc = "join"
    /\ cpc = "dead"
    /\ cpc' = "none"
    /\ thread' = FALSE
    /\ qpc' = "collect"
    /\ UNCHANGED <<status, disCode, shouldReconnect, timeoutDisconnect, mutex, histVars,
                   breakerVars, requestVars, alarmVars, ret, sel, cur, wire,
                   qid, qids>>

\* Mutant: the alarms are canceled and their requests are not remembered.
CancelTimeoutsOnly ==
    /\ qpc = "collect"
    /\ timers' = timers \ timeoutMap
    /\ timeoutMap' = {}
    /\ qpc' = "lose"
    /\ UNCHANGED <<connVars, breakerVars, messageQueue, nextId, callbacks, mute,
                   alarmVars, clientVars, qid, qids>>

CancelTimeouts ==
    /\ qpc = "collect"
    /\ qids' = timeoutMap
    /\ timers' = timers \ timeoutMap
    /\ timeoutMap' = {}
    /\ qpc' = "lose"
    /\ UNCHANGED <<connVars, breakerVars, messageQueue, nextId, callbacks, mute,
                   alarmVars, clientVars, qid>>

\* One round of the loop over timeoutMessageIds, in increasing order.  An
\* identifier without callback, or with a NULL function, ends __WaitDisconnect.
LoseCallback ==
    /\ qpc = "lose"
    /\ \E i \in qids :
          /\ \A j \in qids : i <= j
          /\ qids' = qids \ {i}
          /\ callbacks' = callbacks \ {i}
          /\ mute' = mute \ {i}
          /\ \/ /\ i \in callbacks \ mute
                /\ qpc' = "lose"
                /\ UNCHANGED lost
             \/ /\ i \notin callbacks \ mute
                /\ qpc' = "again"
                /\ lost' = lost \cup (qids' \cap callbacks)
    /\ UNCHANGED <<status, thread, disCode, shouldReconnect, timeoutDisconnect,
                   mutex, wish, missed, breakerVars, messageQueue, nextId,
                   timeoutMap, timers, alarmVars, clientVars, qid>>

RebuildBreakers(okRw, okConn) ==
    /\ qpc = "lose"
    /\ qids = {}
    /\ (okRw /\ okConn) \/ "pipefail" \in Env
    /\ rwb' = IF newRw THEN ReCreate(rwb, okRw) ELSE rwb
    /\ cnb' = IF newConn THEN ReCreate(cnb, okConn) ELSE cnb
    /\ qpc' = "again"
    /\ UNCHANGED <<connVars, newRw, newConn, requestVars, alarmVars,
                   clientVars, qid, qids>>

\* Mutant: only a connection that was asked to end is made again.
ConnectAgainIfAsked ==
    /\ qpc = "again"
    /\ qids' = {}
    /\ qpc' = IF shouldReconnect /\ disCode THEN "connect" ELSE "idle"
    /\ UNCHANGED <<connVars, breakerVars, requestVars, alarmVars, clientVars,
                   qid>>

\* _shouldReconnect is read without a lock, after __WaitDisconnect.
ConnectAgain ==
    /\ qpc = "again"
    /\ qids' = {}
    /\ qpc' = IF shouldReconnect THEN "connect" ELSE "idle"
    /\ UNCHANGED <<connVars, breakerVars, requestVars, alarmVars, clientVars,
                   qid>>

MakeSureConnectedAgain ==
    /\ qpc = "connect"
    /\ \/ /\ StartThread
          /\ thread' = TRUE
          /\ UNCHANGED <<mutex, histVars, nextId, callbacks, mute, timeoutMap,
                         timers, ret, sel, cur, wire>>
       \/ /\ mutex = "free"
          /\ status = "connected" \/ thread
          /\ UNCHANGED <<connVars, breakerVars, requestVars, clientVars>>
    /\ qpc' = "idle"
    /\ UNCHANGED <<alarmVars, qid, qids>>

-----------------------------------------------------------------------------
Caller ==
    \/ MakeSureConnected
    \/ \E again \in BOOLEAN : DisconnectAsync(again)
    \/ \E null \in BOOLEAN : Send(null)
    \/ SendNoReply \/ SendDisconnect

\* What a caller does that has entered _mutex.
InsideSteps == StoreThread \/ FinishDisconnect

ConnectSteps ==
    \/ ConnectBegin \/ ConnectSelect
    \/ \E l \in {"connect", "handshake", "set"} : ConnectClear(l)
    \/ \E r \in {"success", "kickout", "failed", "timeout"} : Handshake(r)
    \/ SetStatus

\* Waiting in select is left to the outside unless the breaker is readable.
SelectSteps == \E r \in Report : Select(r)

LoopSteps ==
    \/ ArmPing \/ LookForMessage \/ ClearBreaker \/ Check
    \/ (\E ok \in BOOLEAN : Write(ok)) \/ NothingToWrite
    \/ StartTimeout \/ RecordTimeout \/ PopMessage
    \/ (\E i \in Ids : ReadReply(i))
    \/ ReadPingResp \/ ReadKickout \/ ReadError \/ ReadOther
    \/ ReplyTimer \/ ReplyCallback
    \/ (\E ok \in BOOLEAN : Heartbeat(ok))
    \/ LeaveLoop \/ CloseSocket \/ StartReconnect

TimeoutSteps == TimeoutErase \/ TimeoutCallback \/ TimeoutCheck \/ TimeoutDisconnects

ReconnectSteps ==
    \/ ReconnectRings \/ Join \/ CancelTimeouts \/ LoseCallback
    \/ (\E okRw, okConn \in BOOLEAN : RebuildBreakers(okRw, okConn))
    \/ ConnectAgain \/ MakeSureConnectedAgain

Next ==
    \/ Caller \/ InsideSteps
    \/ ConnectSteps \/ SelectSteps \/ LoopSteps
    \/ (\E i \in Ids \cup {0} : TimeoutRings(i))
    \/ TimeoutSteps \/ PingRings \/ PingBreaks \/ ReconnectSteps

Spec == Init /\ [][Next]_vars

\* The two threads, and a caller inside _mutex, keep being scheduled, and one
\* of them that waits for _mutex gets it in the end (strong fairness, as
\* callers may take it again and again); select returns once the breaker is
\* readable (what the socket does is not relied upon); connecting ends,
\* because every attempt has a time limit; and, since the message queue runs
\* or cancels every message (EveryTimerEnds of MessageQueue), an alarm that
\* stays started rings.
Fairness ==
    /\ WF_vars(InsideSteps)
    /\ SF_vars(ConnectSteps \/ LoopSteps \/ (SelectSteps /\ Readable(rwb)))
    /\ SF_vars(\E l \in {"handshake", "set"} : ConnectClear(l))
    /\ SF_vars(TimeoutSteps \/ PingBreaks \/ ReconnectSteps)
    /\ \A i \in Ids \cup {0} : SF_vars(TimeoutRings(i))

FairSpec == Spec /\ Fairness

-----------------------------------------------------------------------------
ConnTypeOK ==
    /\ status \in {"idle", "connecting", "connected", "disconnected", "failed", "kickout"}
    /\ thread \in BOOLEAN /\ disCode \in BOOLEAN
    /\ shouldReconnect \in BOOLEAN /\ timeoutDisconnect \in BOOLEAN
    /\ mutex \in {"free", "start", "again", "logout"}
    /\ wish \in {"connect", "logout", "kickout"}
    /\ missed \in BOOLEAN /\ lost \subseteq Ids

BreakerTypeOK ==
    /\ newRw \in BOOLEAN /\ newConn \in BOOLEAN
    /\ rwb \in Breaker /\ cnb \in Breaker

RequestTypeOK ==
    /\ messageQueue \in Seq(Queueable)
    /\ nextId \in Ids
    /\ callbacks \subseteq Ids /\ mute \subseteq callbacks
    /\ timeoutMap \subseteq Ids \cup {0} /\ timers \subseteq Ids \cup {0}

AlarmTypeOK ==
    /\ ping \in {"off", "start", "alarm"} /\ pingTimeout \in {"off", "start", "alarm"}
    /\ reconnect \in BOOLEAN

ClientTypeOK ==
    /\ cpc \in {"none", "start", "connect", "connectClear", "handshake", "set",
                "top", "has", "select", "clear", "check", "write", "arm", "map",
                "pop", "read", "respTimer", "respCall", "ping", "exit", "close",
                "rearm", "dead"}
    /\ ret \in {"success", "kickout", "failed", "timeout"}
    /\ sel \in [read : BOOLEAN, write : BOOLEAN, bad : BOOLEAN, brk : BOOLEAN]
    /\ cur \in Queueable
    /\ wire \subseteq Ids

QueueTypeOK ==
    /\ qpc \in {"idle", "tErase", "tGet", "tCheck", "tDisc", "pBreak", "join",
                "collect", "lose", "again", "connect"}
    /\ qid \in Ids \cup {0}
    /\ qids \subseteq Ids \cup {0}

TypeOK ==
    /\ ConnTypeOK /\ BreakerTypeOK /\ RequestTypeOK
    /\ AlarmTypeOK /\ ClientTypeOK /\ QueueTypeOK

(***************************************************************************)
(* The pointer that __RunReadWrite takes from the front of _messageQueue   *)
(* and uses with _mutex released (lines 535-585) stays valid, and what is  *)
(* popped is what was written.                                             *)
(***************************************************************************)
WriteHoldsHead ==
    cpc \in {"arm", "map", "pop"} =>
        messageQueue # <<>> /\ Head(messageQueue) = cur

(***************************************************************************)
(* When the client thread waits in select with a pipe that could be        *)
(* created and is empty, there is nothing it should have been woken for:   *)
(* a queued message was seen before waiting, and a caller that has         *)
(* requested a disconnection, or an alarm that has rung, is about to write *)
(* to the pipe (lines 475-526).                                            *)
(***************************************************************************)
NoLostWakeup ==
    (cpc = "select" /\ rwb.open /\ ~Readable(rwb)) =>
        /\ disCode => mutex \in {"again", "logout"}
        /\ messageQueue # <<>> => sel.write
        /\ (ping = "alarm" \/ pingTimeout = "alarm") => qpc = "pBreak"

(***************************************************************************)
(* IsBreak tells the truth (socket_breaker.hpp:26, "is there a signal"): a *)
(* breaker that is marked has its byte in the pipe.  Otherwise every later *)
(* Break would return at once and wake nobody.                             *)
(***************************************************************************)
SignalIsThere == \A b \in {rwb, cnb} : b.broken => Readable(b)

(***************************************************************************)
(* A request with a timeout alarm still has its entry in _callbackMap,     *)
(* which only a NULL function (line 225) then keeps __WaitDisconnect from  *)
(* calling (line 190).  Reply and timeout take the two entries away under  *)
(* two locks, in this order.                                               *)
(***************************************************************************)
TimeoutHasCallback == timeoutMap \ {0} \subseteq callbacks

\* Somebody will call the callback of request i, or is about to.
InCharge(i) ==
    \/ i \in timeoutMap
    \/ cpc = "respCall" /\ cur = i
    \/ qpc = "tGet" /\ qid = i
    \/ qpc = "lose" /\ i \in qids

(***************************************************************************)
(* A request that was written always has somebody in charge of it: the     *)
(* alarm map, a reply, a timeout and __WaitDisconnect hand it on to each   *)
(* other until one of them takes its callback (lines 177-196, 552-581,     *)
(* 675-695).  The one way out is the return in the middle of line 190's    *)
(* loop, at a NULL function or at the entry of a SendNoReply.              *)
(***************************************************************************)
SomeoneAnswers ==
    [][\A i \in Ids :
          i \in callbacks /\ InCharge(i) =>
              (i \in callbacks => InCharge(i) \/ i \in lost)']_vars

(***************************************************************************)
(* When __WaitDisconnect is over and nobody has connected again, no        *)
(* request of the old connection is left without an answer (line 187).     *)
(***************************************************************************)
NobodyLeftWaiting == (qpc = "again" /\ cpc = "none") => callbacks = {}

(***************************************************************************)
(* After the server refused or kicked out the login, the client does not   *)
(* connect by itself again (line 442: "if kicked out, no more reconnect"). *)
(***************************************************************************)
KickoutIsFinal == ~(wish = "kickout" /\ cpc = "start")

(***************************************************************************)
(* A disconnection that was requested takes place: the client thread ends  *)
(* and is joined, wherever it was (DisconnectAsync, lines 135-163), unless *)
(* its reconnect alarm has read _thread (line 171) before line 129 had     *)
(* stored it: then nobody joins it.                                        *)
(***************************************************************************)
DisconnectHappens == disCode ~> (cpc = "none" \/ missed)

(***************************************************************************)
(* A request that was written gets its callback: from the reply, from the  *)
(* timeout or from the end of the connection (lines 544-581), unless       *)
(* __WaitDisconnect returns before it comes to it (line 190).              *)
(***************************************************************************)
WrittenRequestsEnd ==
    \A i \in Ids : (i \in timeoutMap /\ i \in callbacks) ~> (i \notin callbacks \/ i \in lost)

(***************************************************************************)
(* A connection that ends while _shouldReconnect holds is followed by a    *)
(* new attempt, unless the flag is taken back (lines 79-88, 318), or the   *)
(* alarm of a thread that failed at once has read _thread (line 171)       *)
(* before line 129 had stored it.                                          *)
(***************************************************************************)
Reconnects ==
    (cpc = "dead" /\ shouldReconnect) ~> (cpc = "start" \/ ~shouldReconnect \/ missed)

(***************************************************************************)
(* A caller's DisconnectAsync(code, false) that has stored the flag at     *)
(* line 151 is the last word: no new connection begins, wherever the       *)
(* client thread and the reconnect alarm are, until a caller asks for one  *)
(* or a request times out, which overrides it (line 571).  The store may   *)
(* come too late: when, since line 149, the thread has ended and been      *)
(* joined and the alarm has read the old flag (line 84), the alarm         *)
(* connects again, and the logout is lost.                                 *)
(***************************************************************************)
LogoutIsFinal ==
    [][cpc # "start" /\ cpc' = "start" => wish' # "logout"]_vars

-----------------------------------------------------------------------------
(***************************************************************************)
(* What makes the properties inductive; module TcpClientProofs.            *)
(***************************************************************************)
InLoop == {"top", "has", "select", "clear", "check", "write", "arm", "map",
           "pop", "read", "respTimer", "respCall", "ping", "exit"}

\* There is a thread until it is joined, a connection only while it runs, and
\* the heartbeat only in the loop; a Disconnect gets no timeout.
ThreadShape ==
    /\ thread <=> cpc # "none" /\ mutex # "start"
    /\ mutex = "start" => cpc # "none"
    /\ qpc = "join" => thread
    /\ status = "connected" => cpc \in InLoop \cup {"close"}
    /\ cpc \notin InLoop => ping = "off" /\ pingTimeout = "off"
    /\ cpc \in {"arm", "map"} => cur # DisconnectMsg

\* A logout is recorded in _shouldReconnect, and once the reconnect alarm has
\* read that flag a thread is needed for another logout.
LogoutShape ==
    wish = "logout" => ~shouldReconnect /\ (qpc = "connect" => thread)

\* A byte in a pipe is marked, so that there is never a second one.
ByteIsMarked == Marked(rwb) /\ Marked(cnb)

\* Unless a caller connects meanwhile, __WaitDisconnect has no thread beside it.
ClearingUpAlone ==
    "overlap" \notin Env =>
        (qpc \in {"collect", "lose"} => cpc = "none")

\* Breakers that are to be rebuilt are closed and not marked.
RebuildShape ==
    /\ "pipefail" \notin Env => rwb.open /\ cnb.open /\ ~newRw /\ ~newConn
    /\ (cpc # "none" \/ qpc \in {"collect", "lose"}) =>
          /\ newRw => ~rwb.open /\ ~rwb.broken
          /\ newConn => ~cnb.open /\ ~cnb.broken

\* Where the client thread has not cleared the pipe since it last looked, what
\* it must be woken for is in the pipe.
BeforeClear ==
    {"start", "connect", "connectClear", "handshake", "set"}
      \cup (InLoop \ {"check", "exit"})

PendingSignal ==
    (rwb.open /\ ~Readable(rwb)) =>
        /\ disCode => cpc \notin BeforeClear \/ mutex \in {"again", "logout"}
        /\ pingTimeout = "alarm" => cpc \notin BeforeClear \/ qpc = "pBreak"
        /\ ping = "alarm" => cpc \notin {"has", "select", "clear"} \/ qpc = "pBreak"
        /\ cpc = "select" /\ messageQueue # <<>> => sel.write

\* The timeout of request i is being handled.
Handled(i) == qpc \in {"tErase", "tGet"} /\ qid = i

\* A request that is queued and not yet written has its callback and nothing
\* else; the one at the head may be under way.
QueuedShape ==
    cpc # "none" =>
        /\ \A j, k \in 1..Len(messageQueue) :
              messageQueue[j] \in Ids /\ j # k => messageQueue[j] # messageQueue[k]
        /\ \A k \in 1..Len(messageQueue) :
              LET i == messageQueue[k] IN
              i \in Ids =>
                  /\ k > 1 \/ cpc \notin {"map", "pop"} =>
                        /\ i \in callbacks
                        /\ i \notin timers \cup timeoutMap \cup qids
                        /\ ~Handled(i)
                  /\ k > 1 \/ cpc \notin {"arm", "map", "pop"} => i \notin wire
                  /\ cpc \in {"respTimer", "respCall"} => i # cur

\* The request that is being written, or whose reply is being handled, and
\* the one whose timeout is.
CurrentShape ==
    /\ cpc \in {"arm", "map", "pop"} /\ cur \in Ids => cur \in wire
    /\ cpc = "map" /\ cur \in Ids =>
          cur \in callbacks /\ cur \notin timeoutMap /\ ~Handled(cur)
    /\ cpc = "respCall" => cur \notin timeoutMap
    /\ qpc = "tGet" /\ qid \in Ids => qid \notin timeoutMap
    /\ qpc = "lose" => qids \cap timeoutMap \subseteq {0}
    /\ qpc = "lose" /\ cpc = "map" /\ cur \in Ids => cur \notin qids
=============================================================================
