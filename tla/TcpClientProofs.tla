-------------------------- MODULE TcpClientProofs ---------------------------
(***************************************************************************)
(* Proofs about TcpClient, for any number of identifiers, any length of    *)
(* the message queue and any number of callers.                            *)
(*                                                                         *)
(* Three inductive invariants, each resting on the one before:             *)
(*   ClientInv   the types, where the threads are, a byte in a pipe is     *)
(*               marked, the message being written is the head of the      *)
(*               queue; whatever callers and environment do;               *)
(*   SignalInv   the two breakers tell the truth and what the client       *)
(*               thread must be woken for is in the pipe; unless a caller  *)
(*               connects while __WaitDisconnect rebuilds a breaker whose  *)
(*               pipe could not be created;                                *)
(*   RequestInv  where the callback and the timeout of a request are, from *)
(*               Send to its end; when no thread is held up for the length *)
(*               of a timeout.                                             *)
(* Every step is shown for one action at a time, in the order of Next.     *)
(***************************************************************************)
EXTENDS TcpClient, SocketProofs, SequenceTheorems, TLAPS

USE ClientAssumption
USE DEF vars, histVars, connVars, breakerVars, requestVars, alarmVars,
        clientVars, queueVars, Goto

-----------------------------------------------------------------------------
\* What DisconnectAsync does to each of the breakers: Break, or Close where
\* that fails.
Signal(b) == IF BreakSucceeds(b) THEN Break(b) ELSE Close(b)

\* DisconnectAsync leaves each breaker readable or without a pipe; one that
\* is closed was not marked, so that it can be rebuilt.
LEMMA SignalFacts ==
  ASSUME NEW b \in Breaker, Marked(b)
  PROVE  /\ Signal(b) \in Breaker /\ Marked(Signal(b))
         /\ Honest(b) => Honest(Signal(b)) /\ (Signal(b).open => Readable(Signal(b)))
         /\ Signal(b).open = b.open
         /\ BreakSucceeds(b) <=> b.broken \/ b.open
         /\ ~BreakSucceeds(b) => ~Signal(b).broken
<1>1. CASE BreakSucceeds(b)
  BY <1>1, BreakFacts DEF Signal, BreakSucceeds, Honest, Readable
<1>2. CASE ~BreakSucceeds(b)
  <2>1. b.open = FALSE /\ b.broken = FALSE
    BY <1>2 DEF BreakSucceeds, Breaker
  <2>2. Signal(b) = Close(b)
    BY <1>2 DEF Signal
  <2>3. /\ Close(b) \in Breaker /\ Marked(Close(b))
        /\ Close(b).open = FALSE /\ Close(b).broken = FALSE
    BY <2>1, CloseFacts DEF Breaker
  <2>4. QED BY <1>2, <2>1, <2>2, <2>3 DEF BreakSucceeds, Honest
<1>3. QED BY <1>1, <1>2

-----------------------------------------------------------------------------
(***************************************************************************)
(* Types, where the threads are, and the message that is being written.    *)
(***************************************************************************)

Control ==
    /\ ConnTypeOK /\ AlarmTypeOK /\ QueueTypeOK
    /\ ThreadShape /\ LogoutShape

\* No connection begins while a logout stands.
NoStartAfterLogout == cpc # "start" /\ cpc' = "start" => wish' # "logout"

Writing == RequestTypeOK /\ ClientTypeOK /\ WriteHoldsHead
Pipes == BreakerTypeOK /\ ByteIsMarked
ClientInv == Control /\ Writing /\ Pipes

\* A step keeps the types of the connection, the alarms and the queue's
\* thread, the places of the two threads, and starts no connection while a
\* logout stands.
LEMMA ControlStep ==
  ASSUME TypeOK, ThreadShape, LogoutShape, [Next]_vars
  PROVE  Control' /\ NoStartAfterLogout
<1> USE DEF TypeOK, ConnTypeOK, AlarmTypeOK, QueueTypeOK, RequestTypeOK,
            ClientTypeOK, ThreadShape, LogoutShape, InLoop, Control,
            NoStartAfterLogout
<1>MakeSureConnected. CASE MakeSureConnected
  BY <1>MakeSureConnected DEF MakeSureConnected, StartThread
<1>DisconnectAsync. ASSUME NEW again \in BOOLEAN, DisconnectAsync(again)
                     PROVE  Control' /\ NoStartAfterLogout
  <2>1. CASE MakeSureConnected
    BY <2>1, <1>MakeSureConnected
  <2>2. CASE ~MakeSureConnected
    <3>1. /\ mutex = "free" /\ thread
          /\ disCode' = TRUE
          /\ mutex' = IF again THEN "again" ELSE "logout"
          /\ UNCHANGED <<status, thread, shouldReconnect, timeoutDisconnect, histVars,
                         breakerVars, requestVars, alarmVars, clientVars, queueVars>>
      BY <1>DisconnectAsync, <2>2 DEF DisconnectAsync
    <3>2. QED BY <3>1
  <2>3. QED BY <2>1, <2>2
<1>StoreThread. CASE StoreThread
  BY <1>StoreThread DEF StoreThread
<1>FinishDisconnect. CASE FinishDisconnect
  <2>1. ConnTypeOK' /\ shouldReconnect' = (mutex = "again")
    BY <1>FinishDisconnect DEF FinishDisconnect, SignalDisconnect
  <2>2. AlarmTypeOK' /\ QueueTypeOK' /\ ThreadShape'
    BY <1>FinishDisconnect DEF FinishDisconnect
  <2>3. wish' = "logout" => mutex = "logout" /\ (qpc = "connect" => thread)
    BY <1>FinishDisconnect DEF FinishDisconnect, ReadAlready
  <2>4. LogoutShape' /\ NoStartAfterLogout
    BY <1>FinishDisconnect, <2>1, <2>3 DEF FinishDisconnect
  <2>5. QED BY <2>1, <2>2, <2>4
<1>Send. ASSUME NEW null \in BOOLEAN, Send(null)
          PROVE  Control' /\ NoStartAfterLogout
  BY <1>Send DEF Send, FollowingId
<1>SendNoReply. CASE SendNoReply
  BY <1>SendNoReply DEF SendNoReply, SendPlain
<1>SendDisconnect. CASE SendDisconnect
  BY <1>SendDisconnect DEF SendDisconnect, SendPlain
<1>ConnectBegin. CASE ConnectBegin
  <2>1. ConnTypeOK'
    BY <1>ConnectBegin DEF ConnectBegin
  <2>2. AlarmTypeOK' /\ QueueTypeOK'
    BY <1>ConnectBegin DEF ConnectBegin
  <2>3. ThreadShape'
    BY <1>ConnectBegin DEF ConnectBegin
  <2>4. LogoutShape' /\ NoStartAfterLogout
    BY <1>ConnectBegin DEF ConnectBegin
  <2>5. QED BY <2>1, <2>2, <2>3, <2>4
<1>ConnectSelect. CASE ConnectSelect
  BY <1>ConnectSelect DEF ConnectSelect
<1>ConnectClear. ASSUME NEW l \in {"connect", "handshake", "set"}, ConnectClear(l)
                  PROVE  Control' /\ NoStartAfterLogout
  BY <1>ConnectClear DEF ConnectClear
<1>Handshake. ASSUME NEW r \in {"success", "kickout", "failed", "timeout"}, Handshake(r)
               PROVE  Control' /\ NoStartAfterLogout
  BY <1>Handshake DEF Handshake
<1>SetStatus. CASE SetStatus
  BY <1>SetStatus DEF SetStatus
<1>Select. ASSUME NEW r \in Report, Select(r)
            PROVE  Control' /\ NoStartAfterLogout
  BY <1>Select DEF Select, Report
<1>ArmPing. CASE ArmPing
  BY <1>ArmPing DEF ArmPing
<1>LookForMessage. CASE LookForMessage
  BY <1>LookForMessage DEF LookForMessage
<1>ClearBreaker. CASE ClearBreaker
  BY <1>ClearBreaker DEF ClearBreaker
<1>Check. CASE Check
  <2>1. ConnTypeOK'
    BY <1>Check DEF Check
  <2>2. AlarmTypeOK' /\ QueueTypeOK'
    BY <1>Check DEF Check
  <2>3. ThreadShape'
    BY <1>Check DEF Check
  <2>4. LogoutShape' /\ NoStartAfterLogout
    BY <1>Check DEF Check
  <2>5. QED BY <2>1, <2>2, <2>3, <2>4
<1>Write. ASSUME NEW ok \in BOOLEAN, Write(ok)
           PROVE  Control' /\ NoStartAfterLogout
  BY <1>Write DEF Write, Ids, DisconnectMsg, Queueable
<1>NothingToWrite. CASE NothingToWrite
  BY <1>NothingToWrite DEF NothingToWrite
<1>StartTimeout. CASE StartTimeout
  BY <1>StartTimeout DEF StartTimeout, Ids, DisconnectMsg, Queueable
<1>RecordTimeout. CASE RecordTimeout
  BY <1>RecordTimeout DEF RecordTimeout, Ids, DisconnectMsg, Queueable
<1>PopMessage. CASE PopMessage
  BY <1>PopMessage DEF PopMessage
<1>ReadReply. ASSUME NEW i \in Ids, ReadReply(i)
               PROVE  Control' /\ NoStartAfterLogout
  BY <1>ReadReply DEF ReadReply, Ids, DisconnectMsg, Queueable
<1>ReadPingResp. CASE ReadPingResp
  BY <1>ReadPingResp DEF ReadPingResp
<1>ReadKickout. CASE ReadKickout
  <2>1. ConnTypeOK'
    BY <1>ReadKickout DEF ReadKickout, RequestDisconnect, SignalDisconnect
  <2>2. AlarmTypeOK' /\ QueueTypeOK'
    BY <1>ReadKickout DEF ReadKickout, RequestDisconnect, SignalDisconnect
  <2>3. ThreadShape'
    BY <1>ReadKickout DEF ReadKickout, RequestDisconnect, SignalDisconnect
  <2>4. LogoutShape' /\ NoStartAfterLogout
    BY <1>ReadKickout DEF ReadKickout, RequestDisconnect, SignalDisconnect
  <2>5. QED BY <2>1, <2>2, <2>3, <2>4
<1>ReadError. CASE ReadError
  BY <1>ReadError DEF ReadError
<1>ReadOther. CASE ReadOther
  BY <1>ReadOther DEF ReadOther
<1>ReplyTimer. CASE ReplyTimer
  BY <1>ReplyTimer DEF ReplyTimer
<1>ReplyCallback. CASE ReplyCallback
  BY <1>ReplyCallback DEF ReplyCallback
<1>Heartbeat. ASSUME NEW ok \in BOOLEAN, Heartbeat(ok)
               PROVE  Control' /\ NoStartAfterLogout
  BY <1>Heartbeat DEF Heartbeat
<1>LeaveLoop. CASE LeaveLoop
  BY <1>LeaveLoop DEF LeaveLoop
<1>CloseSocket. CASE CloseSocket
  BY <1>CloseSocket DEF CloseSocket
<1>StartReconnect. CASE StartReconnect
  BY <1>StartReconnect DEF StartReconnect
<1>TimeoutRings. ASSUME NEW i \in Ids \cup {0}, TimeoutRings(i)
                  PROVE  Control' /\ NoStartAfterLogout
  BY <1>TimeoutRings DEF TimeoutRings, Ids, DisconnectMsg, Queueable
<1>TimeoutErase. CASE TimeoutErase
  BY <1>TimeoutErase DEF TimeoutErase
<1>TimeoutCallback. CASE TimeoutCallback
  BY <1>TimeoutCallback DEF TimeoutCallback
<1>TimeoutCheck. CASE TimeoutCheck
  <2>1. ConnTypeOK'
    BY <1>TimeoutCheck DEF TimeoutCheck
  <2>2. AlarmTypeOK' /\ QueueTypeOK'
    BY <1>TimeoutCheck DEF TimeoutCheck
  <2>3. ThreadShape'
    BY <1>TimeoutCheck DEF TimeoutCheck
  <2>4. LogoutShape' /\ NoStartAfterLogout
    BY <1>TimeoutCheck DEF TimeoutCheck
  <2>5. QED BY <2>1, <2>2, <2>3, <2>4
<1>TimeoutDisconnects. CASE TimeoutDisconnects
  BY <1>TimeoutDisconnects DEF TimeoutDisconnects, RequestDisconnect, SignalDisconnect
<1>PingRings. CASE PingRings
  BY <1>PingRings DEF PingRings
<1>PingBreaks. CASE PingBreaks
  BY <1>PingBreaks DEF PingBreaks
<1>ReconnectRings. CASE ReconnectRings
  <2>1. ConnTypeOK'
    BY <1>ReconnectRings DEF ReconnectRings
  <2>2. AlarmTypeOK' /\ QueueTypeOK'
    BY <1>ReconnectRings DEF ReconnectRings
  <2>3. ThreadShape'
    BY <1>ReconnectRings DEF ReconnectRings
  <2>4. LogoutShape' /\ NoStartAfterLogout
    BY <1>ReconnectRings DEF ReconnectRings
  <2>5. QED BY <2>1, <2>2, <2>3, <2>4
<1>Join. CASE Join
  <2>1. ConnTypeOK' /\ AlarmTypeOK' /\ QueueTypeOK'
    BY <1>Join DEF Join
  <2>2. mutex # "start" /\ status # "connected"
    BY <1>Join DEF Join
  <2>3. ThreadShape'
    BY <1>Join, <2>2 DEF Join
  <2>4. LogoutShape' /\ NoStartAfterLogout
    BY <1>Join DEF Join
  <2>5. QED BY <2>1, <2>3, <2>4
<1>CancelTimeouts. CASE CancelTimeouts
  BY <1>CancelTimeouts DEF CancelTimeouts
<1>LoseCallback. CASE LoseCallback
  BY <1>LoseCallback DEF LoseCallback
<1>RebuildBreakers. ASSUME NEW okRw \in BOOLEAN, NEW okConn \in BOOLEAN,
                            RebuildBreakers(okRw, okConn)
                     PROVE  Control' /\ NoStartAfterLogout
  BY <1>RebuildBreakers DEF RebuildBreakers
<1>ConnectAgain. CASE ConnectAgain
  BY <1>ConnectAgain DEF ConnectAgain
<1>MakeSureConnectedAgain. CASE MakeSureConnectedAgain
  <2>1. ConnTypeOK'
    BY <1>MakeSureConnectedAgain DEF MakeSureConnectedAgain, StartThread
  <2>2. AlarmTypeOK' /\ QueueTypeOK'
    BY <1>MakeSureConnectedAgain DEF MakeSureConnectedAgain, StartThread
  <2>3. ThreadShape'
    BY <1>MakeSureConnectedAgain DEF MakeSureConnectedAgain, StartThread
  <2>4. LogoutShape' /\ NoStartAfterLogout
    BY <1>MakeSureConnectedAgain DEF MakeSureConnectedAgain, StartThread
  <2>5. QED BY <2>1, <2>2, <2>3, <2>4
<1>stutter. CASE UNCHANGED vars
  BY <1>stutter
<1>QED. QED
  BY <1>stutter, <1>MakeSureConnected, <1>DisconnectAsync,
     <1>StoreThread, <1>FinishDisconnect, <1>Send, <1>SendNoReply,
     <1>SendDisconnect, <1>ConnectBegin, <1>ConnectSelect,
     <1>ConnectClear, <1>Handshake, <1>SetStatus, <1>Select, <1>ArmPing,
     <1>LookForMessage, <1>ClearBreaker, <1>Check, <1>Write,
     <1>NothingToWrite, <1>StartTimeout, <1>RecordTimeout, <1>PopMessage,
     <1>ReadReply, <1>ReadPingResp, <1>ReadKickout, <1>ReadError,
     <1>ReadOther, <1>ReplyTimer, <1>ReplyCallback, <1>Heartbeat,
     <1>LeaveLoop, <1>CloseSocket, <1>StartReconnect, <1>TimeoutRings,
     <1>TimeoutErase, <1>TimeoutCallback, <1>TimeoutCheck,
     <1>TimeoutDisconnects, <1>PingRings, <1>PingBreaks, <1>ReconnectRings,
     <1>Join, <1>CancelTimeouts, <1>LoseCallback, <1>RebuildBreakers,
     <1>ConnectAgain, <1>MakeSureConnectedAgain
  DEF Next, Caller, InsideSteps, ConnectSteps, SelectSteps, LoopSteps,
      TimeoutSteps, ReconnectSteps

\* A step keeps the types of the requests and of the client thread's locals,
\* and the message being written stays the head of the queue: callers only
\* append, and only the thread that holds it removes it.
LEMMA WritingStep ==
  ASSUME TypeOK, ThreadShape, WriteHoldsHead, [Next]_vars
  PROVE  Writing'
<1> USE DEF TypeOK, RequestTypeOK, ClientTypeOK, QueueTypeOK, ThreadShape,
            WriteHoldsHead, Writing
<1>MakeSureConnected. CASE MakeSureConnected
  BY <1>MakeSureConnected DEF MakeSureConnected, StartThread, Ids, DisconnectMsg, Queueable
<1>DisconnectAsync. ASSUME NEW again \in BOOLEAN, DisconnectAsync(again)
                     PROVE  Writing'
  <2>1. CASE MakeSureConnected
    BY <2>1, <1>MakeSureConnected
  <2>2. CASE ~MakeSureConnected
    <3>1. /\ mutex = "free" /\ thread
          /\ disCode' = TRUE
          /\ mutex' = IF again THEN "again" ELSE "logout"
          /\ UNCHANGED <<status, thread, shouldReconnect, timeoutDisconnect, histVars,
                         breakerVars, requestVars, alarmVars, clientVars, queueVars>>
      BY <1>DisconnectAsync, <2>2 DEF DisconnectAsync
    <3>2. QED BY <3>1
  <2>3. QED BY <2>1, <2>2
<1>StoreThread. CASE StoreThread
  BY <1>StoreThread DEF StoreThread
<1>FinishDisconnect. CASE FinishDisconnect
  BY <1>FinishDisconnect DEF FinishDisconnect, SignalDisconnect, ReadAlready
<1>Send. ASSUME NEW null \in BOOLEAN, Send(null)
          PROVE  Writing'
  BY <1>Send DEF Send, FollowingId, Ids, DisconnectMsg, Queueable
<1>SendNoReply. CASE SendNoReply
  BY <1>SendNoReply DEF SendNoReply, SendPlain, Ids, DisconnectMsg, Queueable
<1>SendDisconnect. CASE SendDisconnect
  BY <1>SendDisconnect DEF SendDisconnect, SendPlain, Ids, DisconnectMsg, Queueable
<1>ConnectBegin. CASE ConnectBegin
  BY <1>ConnectBegin DEF ConnectBegin
<1>ConnectSelect. CASE ConnectSelect
  <2>1. sel' \in [read : BOOLEAN, write : BOOLEAN, bad : BOOLEAN, brk : BOOLEAN]
    <3>1. Readable(cnb) \in BOOLEAN
      BY DEF Readable, BreakerTypeOK, Breaker
    <3>2. QED BY <1>ConnectSelect, <3>1 DEF ConnectSelect, NoSelect
  <2>2. QED BY <1>ConnectSelect, <2>1 DEF ConnectSelect
<1>ConnectClear. ASSUME NEW l \in {"connect", "handshake", "set"}, ConnectClear(l)
                  PROVE  Writing'
  BY <1>ConnectClear DEF ConnectClear, NoSelect
<1>Handshake. ASSUME NEW r \in {"success", "kickout", "failed", "timeout"}, Handshake(r)
               PROVE  Writing'
  BY <1>Handshake DEF Handshake
<1>SetStatus. CASE SetStatus
  BY <1>SetStatus DEF SetStatus
<1>Select. ASSUME NEW r \in Report, Select(r)
            PROVE  Writing'
  BY <1>Select DEF Select, Report, NoSelect
<1>ArmPing. CASE ArmPing
  BY <1>ArmPing DEF ArmPing
<1>LookForMessage. CASE LookForMessage
  BY <1>LookForMessage DEF LookForMessage, NoSelect
<1>ClearBreaker. CASE ClearBreaker
  BY <1>ClearBreaker DEF ClearBreaker
<1>Check. CASE Check
  BY <1>Check DEF Check, NoSelect
<1>Write. ASSUME NEW ok \in BOOLEAN, Write(ok)
           PROVE  Writing'
  <2>1. Head(messageQueue) \in Queueable
    BY <1>Write DEF Write
  <2>2. /\ RequestTypeOK'
        /\ cur' \in Queueable /\ wire' \subseteq Ids /\ ret' = ret
    BY <1>Write, <2>1 DEF Write, Queueable
  <2>3. cpc' \in {"arm", "pop", "exit"}
    BY <1>Write DEF Write
  <2>4. sel' \in [read : BOOLEAN, write : BOOLEAN, bad : BOOLEAN, brk : BOOLEAN]
    BY <1>Write DEF Write, NoSelect
  <2>5. WriteHoldsHead'
    <3>1. CASE ok
      BY <1>Write, <3>1 DEF Write
    <3>2. CASE ~ok
      BY <1>Write, <3>2 DEF Write
    <3>3. QED BY <3>1, <3>2
  <2>6. QED BY <2>2, <2>3, <2>4, <2>5
<1>NothingToWrite. CASE NothingToWrite
  BY <1>NothingToWrite DEF NothingToWrite, NoSelect
<1>StartTimeout. CASE StartTimeout
  BY <1>StartTimeout DEF StartTimeout, Ids, DisconnectMsg, Queueable
<1>RecordTimeout. CASE RecordTimeout
  BY <1>RecordTimeout DEF RecordTimeout, Ids, DisconnectMsg, Queueable
<1>PopMessage. CASE PopMessage
  BY <1>PopMessage DEF PopMessage, Ids, DisconnectMsg, Queueable
<1>ReadReply. ASSUME NEW i \in Ids, ReadReply(i)
               PROVE  Writing'
  BY <1>ReadReply DEF ReadReply, Ids, DisconnectMsg, Queueable, NoSelect
<1>ReadPingResp. CASE ReadPingResp
  BY <1>ReadPingResp DEF ReadPingResp, NoSelect
<1>ReadKickout. CASE ReadKickout
  BY <1>ReadKickout DEF ReadKickout, RequestDisconnect, SignalDisconnect, NoSelect
<1>ReadError. CASE ReadError
  BY <1>ReadError DEF ReadError, NoSelect
<1>ReadOther. CASE ReadOther
  BY <1>ReadOther DEF ReadOther, NoSelect
<1>ReplyTimer. CASE ReplyTimer
  BY <1>ReplyTimer DEF ReplyTimer
<1>ReplyCallback. CASE ReplyCallback
  BY <1>ReplyCallback DEF ReplyCallback, Ids, DisconnectMsg, Queueable
<1>Heartbeat. ASSUME NEW ok \in BOOLEAN, Heartbeat(ok)
               PROVE  Writing'
  BY <1>Heartbeat DEF Heartbeat
<1>LeaveLoop. CASE LeaveLoop
  BY <1>LeaveLoop DEF LeaveLoop
<1>CloseSocket. CASE CloseSocket
  BY <1>CloseSocket DEF CloseSocket
<1>StartReconnect. CASE StartReconnect
  BY <1>StartReconnect DEF StartReconnect
<1>TimeoutRings. ASSUME NEW i \in Ids \cup {0}, TimeoutRings(i)
                  PROVE  Writing'
  BY <1>TimeoutRings DEF TimeoutRings
<1>TimeoutErase. CASE TimeoutErase
  BY <1>TimeoutErase DEF TimeoutErase
<1>TimeoutCallback. CASE TimeoutCallback
  BY <1>TimeoutCallback DEF TimeoutCallback
<1>TimeoutCheck. CASE TimeoutCheck
  BY <1>TimeoutCheck DEF TimeoutCheck
<1>TimeoutDisconnects. CASE TimeoutDisconnects
  BY <1>TimeoutDisconnects DEF TimeoutDisconnects, RequestDisconnect, SignalDisconnect
<1>PingRings. CASE PingRings
  BY <1>PingRings DEF PingRings
<1>PingBreaks. CASE PingBreaks
  BY <1>PingBreaks DEF PingBreaks
<1>ReconnectRings. CASE ReconnectRings
  BY <1>ReconnectRings DEF ReconnectRings
<1>Join. CASE Join
  BY <1>Join DEF Join
<1>CancelTimeouts. CASE CancelTimeouts
  BY <1>CancelTimeouts DEF CancelTimeouts, Ids, DisconnectMsg, Queueable
<1>LoseCallback. CASE LoseCallback
  BY <1>LoseCallback DEF LoseCallback
<1>RebuildBreakers. ASSUME NEW okRw \in BOOLEAN, NEW okConn \in BOOLEAN,
                            RebuildBreakers(okRw, okConn)
                     PROVE  Writing'
  BY <1>RebuildBreakers DEF RebuildBreakers
<1>ConnectAgain. CASE ConnectAgain
  BY <1>ConnectAgain DEF ConnectAgain
<1>MakeSureConnectedAgain. CASE MakeSureConnectedAgain
  <2>1. CASE StartThread
    <3>1. /\ messageQueue' = <<>> /\ cpc' = "start"
          /\ UNCHANGED <<nextId, callbacks, mute, timeoutMap, timers, ret, sel,
                         cur, wire>>
      BY <1>MakeSureConnectedAgain, <2>1 DEF MakeSureConnectedAgain, StartThread
    <3>2. QED BY <3>1
  <2>2. CASE ~StartThread
    BY <1>MakeSureConnectedAgain, <2>2 DEF MakeSureConnectedAgain
  <2>3. QED BY <2>1, <2>2
<1>stutter. CASE UNCHANGED vars
  BY <1>stutter
<1>QED. QED
  BY <1>stutter, <1>MakeSureConnected, <1>DisconnectAsync,
     <1>StoreThread, <1>FinishDisconnect, <1>Send, <1>SendNoReply,
     <1>SendDisconnect, <1>ConnectBegin, <1>ConnectSelect,
     <1>ConnectClear, <1>Handshake, <1>SetStatus, <1>Select, <1>ArmPing,
     <1>LookForMessage, <1>ClearBreaker, <1>Check, <1>Write,
     <1>NothingToWrite, <1>StartTimeout, <1>RecordTimeout, <1>PopMessage,
     <1>ReadReply, <1>ReadPingResp, <1>ReadKickout, <1>ReadError,
     <1>ReadOther, <1>ReplyTimer, <1>ReplyCallback, <1>Heartbeat,
     <1>LeaveLoop, <1>CloseSocket, <1>StartReconnect, <1>TimeoutRings,
     <1>TimeoutErase, <1>TimeoutCallback, <1>TimeoutCheck,
     <1>TimeoutDisconnects, <1>PingRings, <1>PingBreaks, <1>ReconnectRings,
     <1>Join, <1>CancelTimeouts, <1>LoseCallback, <1>RebuildBreakers,
     <1>ConnectAgain, <1>MakeSureConnectedAgain
  DEF Next, Caller, InsideSteps, ConnectSteps, SelectSteps, LoopSteps,
      TimeoutSteps, ReconnectSteps

\* A step keeps the type of the two breakers, and a byte in a pipe stays
\* marked.
LEMMA PipesStep ==
  ASSUME TypeOK, Pipes, [Next]_vars
  PROVE  Pipes'
<1> USE DEF TypeOK, BreakerTypeOK, ByteIsMarked, Pipes
<1>MakeSureConnected. CASE MakeSureConnected
  BY <1>MakeSureConnected, ClearFacts DEF MakeSureConnected, StartThread
<1>DisconnectAsync. ASSUME NEW again \in BOOLEAN, DisconnectAsync(again)
                     PROVE  Pipes'
  <2>1. CASE MakeSureConnected
    BY <2>1, <1>MakeSureConnected
  <2>2. CASE ~MakeSureConnected
    <3>1. /\ mutex = "free" /\ thread
          /\ disCode' = TRUE
          /\ mutex' = IF again THEN "again" ELSE "logout"
          /\ UNCHANGED <<status, thread, shouldReconnect, timeoutDisconnect, histVars,
                         breakerVars, requestVars, alarmVars, clientVars, queueVars>>
      BY <1>DisconnectAsync, <2>2 DEF DisconnectAsync
    <3>2. QED BY <3>1
  <2>3. QED BY <2>1, <2>2
<1>StoreThread. CASE StoreThread
  BY <1>StoreThread DEF StoreThread
<1>FinishDisconnect. CASE FinishDisconnect
  BY <1>FinishDisconnect, SignalFacts DEF FinishDisconnect, SignalDisconnect, ReadAlready, Signal
<1>Send. ASSUME NEW null \in BOOLEAN, Send(null)
          PROVE  Pipes'
  BY <1>Send, BreakFacts DEF Send, FollowingId
<1>SendNoReply. CASE SendNoReply
  BY <1>SendNoReply, BreakFacts DEF SendNoReply, SendPlain
<1>SendDisconnect. CASE SendDisconnect
  BY <1>SendDisconnect, BreakFacts DEF SendDisconnect, SendPlain
<1>ConnectBegin. CASE ConnectBegin
  BY <1>ConnectBegin DEF ConnectBegin
<1>ConnectSelect. CASE ConnectSelect
  BY <1>ConnectSelect DEF ConnectSelect
<1>ConnectClear. ASSUME NEW l \in {"connect", "handshake", "set"}, ConnectClear(l)
                  PROVE  Pipes'
  BY <1>ConnectClear, ClearFacts DEF ConnectClear
<1>Handshake. ASSUME NEW r \in {"success", "kickout", "failed", "timeout"}, Handshake(r)
               PROVE  Pipes'
  BY <1>Handshake DEF Handshake
<1>SetStatus. CASE SetStatus
  BY <1>SetStatus DEF SetStatus
<1>Select. ASSUME NEW r \in Report, Select(r)
            PROVE  Pipes'
  BY <1>Select DEF Select, Report
<1>ArmPing. CASE ArmPing
  BY <1>ArmPing DEF ArmPing
<1>LookForMessage. CASE LookForMessage
  BY <1>LookForMessage DEF LookForMessage
<1>ClearBreaker. CASE ClearBreaker
  BY <1>ClearBreaker, ClearFacts DEF ClearBreaker
<1>Check. CASE Check
  BY <1>Check DEF Check
<1>Write. ASSUME NEW ok \in BOOLEAN, Write(ok)
           PROVE  Pipes'
  BY <1>Write DEF Write
<1>NothingToWrite. CASE NothingToWrite
  BY <1>NothingToWrite DEF NothingToWrite
<1>StartTimeout. CASE StartTimeout
  BY <1>StartTimeout DEF StartTimeout
<1>RecordTimeout. CASE RecordTimeout
  BY <1>RecordTimeout DEF RecordTimeout
<1>PopMessage. CASE PopMessage
  BY <1>PopMessage DEF PopMessage
<1>ReadReply. ASSUME NEW i \in Ids, ReadReply(i)
               PROVE  Pipes'
  BY <1>ReadReply DEF ReadReply
<1>ReadPingResp. CASE ReadPingResp
  BY <1>ReadPingResp DEF ReadPingResp
<1>ReadKickout. CASE ReadKickout
  BY <1>ReadKickout, SignalFacts DEF ReadKickout, RequestDisconnect, SignalDisconnect, Signal
<1>ReadError. CASE ReadError
  BY <1>ReadError DEF ReadError
<1>ReadOther. CASE ReadOther
  BY <1>ReadOther DEF ReadOther
<1>ReplyTimer. CASE ReplyTimer
  BY <1>ReplyTimer DEF ReplyTimer
<1>ReplyCallback. CASE ReplyCallback
  BY <1>ReplyCallback DEF ReplyCallback
<1>Heartbeat. ASSUME NEW ok \in BOOLEAN, Heartbeat(ok)
               PROVE  Pipes'
  BY <1>Heartbeat DEF Heartbeat
<1>LeaveLoop. CASE LeaveLoop
  BY <1>LeaveLoop DEF LeaveLoop
<1>CloseSocket. CASE CloseSocket
  BY <1>CloseSocket DEF CloseSocket
<1>StartReconnect. CASE StartReconnect
  BY <1>StartReconnect DEF StartReconnect
<1>TimeoutRings. ASSUME NEW i \in Ids \cup {0}, TimeoutRings(i)
                  PROVE  Pipes'
  BY <1>TimeoutRings DEF TimeoutRings
<1>TimeoutErase. CASE TimeoutErase
  BY <1>TimeoutErase DEF TimeoutErase
<1>TimeoutCallback. CASE TimeoutCallback
  BY <1>TimeoutCallback DEF TimeoutCallback
<1>TimeoutCheck. CASE TimeoutCheck
  BY <1>TimeoutCheck DEF TimeoutCheck
<1>TimeoutDisconnects. CASE TimeoutDisconnects
  BY <1>TimeoutDisconnects, SignalFacts DEF TimeoutDisconnects, RequestDisconnect, SignalDisconnect, Signal
<1>PingRings. CASE PingRings
  BY <1>PingRings DEF PingRings
<1>PingBreaks. CASE PingBreaks
  BY <1>PingBreaks, BreakFacts DEF PingBreaks
<1>ReconnectRings. CASE ReconnectRings
  BY <1>ReconnectRings DEF ReconnectRings
<1>Join. CASE Join
  BY <1>Join DEF Join
<1>CancelTimeouts. CASE CancelTimeouts
  BY <1>CancelTimeouts DEF CancelTimeouts
<1>LoseCallback. CASE LoseCallback
  BY <1>LoseCallback DEF LoseCallback
<1>RebuildBreakers. ASSUME NEW okRw \in BOOLEAN, NEW okConn \in BOOLEAN,
                            RebuildBreakers(okRw, okConn)
                     PROVE  Pipes'
  BY <1>RebuildBreakers, ReCreateFacts DEF RebuildBreakers
<1>ConnectAgain. CASE ConnectAgain
  BY <1>ConnectAgain DEF ConnectAgain
<1>MakeSureConnectedAgain. CASE MakeSureConnectedAgain
  <2>1. CASE StartThread
    BY <1>MakeSureConnectedAgain, <2>1, ClearFacts DEF MakeSureConnectedAgain, StartThread
  <2>2. CASE ~StartThread
    BY <1>MakeSureConnectedAgain, <2>2 DEF MakeSureConnectedAgain
  <2>3. QED BY <2>1, <2>2
<1>stutter. CASE UNCHANGED vars
  BY <1>stutter
<1>QED. QED
  BY <1>stutter, <1>MakeSureConnected, <1>DisconnectAsync,
     <1>StoreThread, <1>FinishDisconnect, <1>Send, <1>SendNoReply,
     <1>SendDisconnect, <1>ConnectBegin, <1>ConnectSelect,
     <1>ConnectClear, <1>Handshake, <1>SetStatus, <1>Select, <1>ArmPing,
     <1>LookForMessage, <1>ClearBreaker, <1>Check, <1>Write,
     <1>NothingToWrite, <1>StartTimeout, <1>RecordTimeout, <1>PopMessage,
     <1>ReadReply, <1>ReadPingResp, <1>ReadKickout, <1>ReadError,
     <1>ReadOther, <1>ReplyTimer, <1>ReplyCallback, <1>Heartbeat,
     <1>LeaveLoop, <1>CloseSocket, <1>StartReconnect, <1>TimeoutRings,
     <1>TimeoutErase, <1>TimeoutCallback, <1>TimeoutCheck,
     <1>TimeoutDisconnects, <1>PingRings, <1>PingBreaks, <1>ReconnectRings,
     <1>Join, <1>CancelTimeouts, <1>LoseCallback, <1>RebuildBreakers,
     <1>ConnectAgain, <1>MakeSureConnectedAgain
  DEF Next, Caller, InsideSteps, ConnectSteps, SelectSteps, LoopSteps,
      TimeoutSteps, ReconnectSteps

\* The constructor and InitHostAndPort establish the invariant.
LEMMA InitClientInv == Init => ClientInv
<1> SUFFICES ASSUME Init PROVE ClientInv
  OBVIOUS
<1>1. Control
  BY DEF Init, Control, ConnTypeOK, AlarmTypeOK, QueueTypeOK, ThreadShape,
         LogoutShape
<1>2. Writing
  BY DEF Init, Writing, RequestTypeOK, ClientTypeOK, WriteHoldsHead, NoSelect,
         Ids, Queueable
<1>3. Pipes
  <2>1. PICK okRw, okConn \in BOOLEAN : rwb = NewBreaker(okRw) /\ cnb = NewBreaker(okConn)
    BY DEF Init
  <2>2. \A ok \in BOOLEAN : NewBreaker(ok) \in Breaker /\ Marked(NewBreaker(ok))
    BY DEF NewBreaker, Breaker, Marked
  <2>3. QED BY <2>1, <2>2 DEF Init, Pipes, BreakerTypeOK, ByteIsMarked
<1>4. QED BY <1>1, <1>2, <1>3 DEF ClientInv

\* A step keeps the first invariant, and starts no connection after a logout.
LEMMA ClientStep ==
  ASSUME ClientInv, [Next]_vars
  PROVE  ClientInv' /\ NoStartAfterLogout
<1>1. TypeOK /\ ThreadShape /\ LogoutShape /\ WriteHoldsHead /\ Pipes
  BY DEF ClientInv, Control, Writing, Pipes, TypeOK
<1>2. QED
  BY <1>1, ControlStep, WritingStep, PipesStep DEF ClientInv

(***************************************************************************)
(* The first invariant holds whatever callers, server and environment do.  *)
(***************************************************************************)
THEOREM ClientInvariant == Spec => []ClientInv
<1>1. Init => ClientInv
  BY InitClientInv
<1>2. ClientInv /\ [Next]_vars => ClientInv'
  BY ClientStep
<1>3. QED BY <1>1, <1>2, PTL DEF Spec

(***************************************************************************)
(* The state of the client keeps its type; in particular no pipe ever      *)
(* holds a second byte, so Break cannot block, and only requests with an   *)
(* identifier or SendNoReply ever get a timeout alarm.                     *)
(***************************************************************************)
THEOREM ClientTypeOKAlways == Spec => []TypeOK
<1>1. ClientInv => TypeOK
  BY DEF ClientInv, Control, Writing, Pipes, TypeOK
<1>2. QED BY <1>1, ClientInvariant, PTL

(***************************************************************************)
(* The message that __RunReadWrite writes with _mutex released stays at    *)
(* the head of _messageQueue until it is popped, for any number of callers *)
(* that send, connect and disconnect meanwhile (lines 535-585).            *)
(***************************************************************************)
THEOREM WriteHoldsHeadAlways == Spec => []WriteHoldsHead
<1>1. ClientInv => WriteHoldsHead
  BY DEF ClientInv, Writing
<1>2. QED BY <1>1, ClientInvariant, PTL

(***************************************************************************)
(* Once DisconnectAsync(code, false) has stored the flag, no connection    *)
(* begins until a caller asks for one or a request times out, wherever the *)
(* client thread and the reconnect alarm are, with _disCode (line 149) and *)
(* the flag (line 151) stored in two steps.  The store that comes after    *)
(* the alarm has read the old flag (line 84) is the one that is lost, and  *)
(* the wish of that call does not stand.                                   *)
(***************************************************************************)
THEOREM LogoutIsFinalAlways == Spec => LogoutIsFinal
<1>1. ClientInv /\ [Next]_vars
        => [cpc # "start" /\ cpc' = "start" => wish' # "logout"]_vars
  BY ClientStep DEF NoStartAfterLogout
<1>2. QED BY <1>1, ClientInvariant, PTL DEF Spec, LogoutIsFinal

-----------------------------------------------------------------------------
(***************************************************************************)
(* Signals: what Break says is in the pipe, and what the client thread     *)
(* must be woken for as well.                                              *)
(***************************************************************************)

\* Either no caller connects while __WaitDisconnect clears up, or pipe() does
\* not fail.
PipesOrTurns == "overlap" \notin Env \/ "pipefail" \notin Env

Signals ==
    /\ ClearingUpAlone /\ RebuildShape
    /\ Honest(rwb) /\ Honest(cnb)
    /\ PendingSignal

SignalInv == ClientInv /\ Signals

\* A step keeps the flags true, the breakers that wait to be rebuilt closed
\* and unmarked, and a signal in the pipe for everything the client thread
\* must be woken for: whoever sets _disCode, queues a message or lets an
\* alarm ring writes to the pipe, and the thread looks at all three after it
\* has cleared it.
LEMMA SignalsStep ==
  ASSUME TypeOK, ThreadShape, ByteIsMarked, Signals, [Next]_vars,
         PipesOrTurns
  PROVE  Signals'
<1> USE DEF TypeOK, ConnTypeOK, ClientTypeOK, AlarmTypeOK, QueueTypeOK,
            BreakerTypeOK, ByteIsMarked, ThreadShape, Signals,
            ClearingUpAlone, RebuildShape, PendingSignal, BeforeClear,
            InLoop
<1>MakeSureConnected. CASE MakeSureConnected
  BY <1>MakeSureConnected, ClearFacts DEF MakeSureConnected, StartThread
<1>DisconnectAsync. ASSUME NEW again \in BOOLEAN, DisconnectAsync(again)
                     PROVE  Signals'
  <2>1. CASE MakeSureConnected
    BY <2>1, <1>MakeSureConnected
  <2>2. CASE ~MakeSureConnected
    <3>1. /\ mutex = "free" /\ thread
          /\ disCode' = TRUE
          /\ mutex' = IF again THEN "again" ELSE "logout"
          /\ UNCHANGED <<status, thread, shouldReconnect, timeoutDisconnect, histVars,
                         breakerVars, requestVars, alarmVars, clientVars, queueVars>>
      BY <1>DisconnectAsync, <2>2 DEF DisconnectAsync
    <3>2. QED BY <3>1
  <2>3. QED BY <2>1, <2>2
<1>StoreThread. CASE StoreThread
  BY <1>StoreThread DEF StoreThread
<1>FinishDisconnect. CASE FinishDisconnect
  BY <1>FinishDisconnect, SignalFacts DEF FinishDisconnect, SignalDisconnect, ReadAlready, Signal
<1>Send. ASSUME NEW null \in BOOLEAN, Send(null)
          PROVE  Signals'
  BY <1>Send, BreakFacts DEF Send, FollowingId
<1>SendNoReply. CASE SendNoReply
  BY <1>SendNoReply, BreakFacts DEF SendNoReply, SendPlain
<1>SendDisconnect. CASE SendDisconnect
  BY <1>SendDisconnect, BreakFacts DEF SendDisconnect, SendPlain
<1>ConnectBegin. CASE ConnectBegin
  BY <1>ConnectBegin DEF ConnectBegin
<1>ConnectSelect. CASE ConnectSelect
  BY <1>ConnectSelect DEF ConnectSelect
<1>ConnectClear. ASSUME NEW l \in {"connect", "handshake", "set"}, ConnectClear(l)
                  PROVE  Signals'
  BY <1>ConnectClear, ClearFacts DEF ConnectClear
<1>Handshake. ASSUME NEW r \in {"success", "kickout", "failed", "timeout"}, Handshake(r)
               PROVE  Signals'
  BY <1>Handshake DEF Handshake
<1>SetStatus. CASE SetStatus
  BY <1>SetStatus DEF SetStatus
<1>Select. ASSUME NEW r \in Report, Select(r)
            PROVE  Signals'
  BY <1>Select DEF Select, Report
<1>ArmPing. CASE ArmPing
  BY <1>ArmPing DEF ArmPing
<1>LookForMessage. CASE LookForMessage
  <2>1. sel'.write = (messageQueue # <<>>)
    BY <1>LookForMessage DEF LookForMessage, NoSelect
  <2>2. QED BY <1>LookForMessage, <2>1 DEF LookForMessage
<1>ClearBreaker. CASE ClearBreaker
  BY <1>ClearBreaker, ClearFacts DEF ClearBreaker
<1>Check. CASE Check
  BY <1>Check DEF Check
<1>Write. ASSUME NEW ok \in BOOLEAN, Write(ok)
           PROVE  Signals'
  BY <1>Write DEF Write
<1>NothingToWrite. CASE NothingToWrite
  BY <1>NothingToWrite DEF NothingToWrite
<1>StartTimeout. CASE StartTimeout
  BY <1>StartTimeout DEF StartTimeout
<1>RecordTimeout. CASE RecordTimeout
  BY <1>RecordTimeout DEF RecordTimeout
<1>PopMessage. CASE PopMessage
  BY <1>PopMessage DEF PopMessage
<1>ReadReply. ASSUME NEW i \in Ids, ReadReply(i)
               PROVE  Signals'
  BY <1>ReadReply DEF ReadReply
<1>ReadPingResp. CASE ReadPingResp
  BY <1>ReadPingResp DEF ReadPingResp
<1>ReadKickout. CASE ReadKickout
  BY <1>ReadKickout, SignalFacts DEF ReadKickout, RequestDisconnect, SignalDisconnect, Signal
<1>ReadError. CASE ReadError
  BY <1>ReadError DEF ReadError
<1>ReadOther. CASE ReadOther
  BY <1>ReadOther DEF ReadOther
<1>ReplyTimer. CASE ReplyTimer
  BY <1>ReplyTimer DEF ReplyTimer
<1>ReplyCallback. CASE ReplyCallback
  BY <1>ReplyCallback DEF ReplyCallback
<1>Heartbeat. ASSUME NEW ok \in BOOLEAN, Heartbeat(ok)
               PROVE  Signals'
  BY <1>Heartbeat DEF Heartbeat
<1>LeaveLoop. CASE LeaveLoop
  BY <1>LeaveLoop DEF LeaveLoop
<1>CloseSocket. CASE CloseSocket
  BY <1>CloseSocket DEF CloseSocket
<1>StartReconnect. CASE StartReconnect
  BY <1>StartReconnect DEF StartReconnect
<1>TimeoutRings. ASSUME NEW i \in Ids \cup {0}, TimeoutRings(i)
                  PROVE  Signals'
  BY <1>TimeoutRings DEF TimeoutRings
<1>TimeoutErase. CASE TimeoutErase
  BY <1>TimeoutErase DEF TimeoutErase
<1>TimeoutCallback. CASE TimeoutCallback
  BY <1>TimeoutCallback DEF TimeoutCallback
<1>TimeoutCheck. CASE TimeoutCheck
  BY <1>TimeoutCheck DEF TimeoutCheck
<1>TimeoutDisconnects. CASE TimeoutDisconnects
  BY <1>TimeoutDisconnects, SignalFacts DEF TimeoutDisconnects, RequestDisconnect, SignalDisconnect, Signal
<1>PingRings. CASE PingRings
  BY <1>PingRings DEF PingRings
<1>PingBreaks. CASE PingBreaks
  BY <1>PingBreaks, BreakFacts DEF PingBreaks
<1>ReconnectRings. CASE ReconnectRings
  BY <1>ReconnectRings DEF ReconnectRings
<1>Join. CASE Join
  BY <1>Join DEF Join
<1>CancelTimeouts. CASE CancelTimeouts
  BY <1>CancelTimeouts DEF CancelTimeouts
<1>LoseCallback. CASE LoseCallback
  BY <1>LoseCallback DEF LoseCallback
<1>RebuildBreakers. ASSUME NEW okRw \in BOOLEAN, NEW okConn \in BOOLEAN,
                            RebuildBreakers(okRw, okConn)
                     PROVE  Signals'
  <2>1. /\ qpc = "lose" /\ qpc' = "again"
        /\ UNCHANGED <<mutex, newRw, newConn, cpc, disCode, ping, pingTimeout,
                       messageQueue, sel>>
    BY <1>RebuildBreakers DEF RebuildBreakers
  <2>2. CASE "pipefail" \notin Env
    <3>1. rwb' = rwb /\ cnb' = cnb
      BY <1>RebuildBreakers, <2>2 DEF RebuildBreakers
    <3>2. QED BY <2>1, <2>2, <3>1
  <2>3. CASE "pipefail" \in Env /\ "overlap" \notin Env
    <3>1. cpc = "none"
      BY <2>1, <2>3
    <3>2. Honest(rwb') /\ Honest(cnb')
      BY <1>RebuildBreakers, <2>1, ReCreateFacts DEF RebuildBreakers, Honest
    <3>3. QED BY <2>1, <2>3, <3>1, <3>2
  <2>4. QED BY <2>2, <2>3 DEF PipesOrTurns
<1>ConnectAgain. CASE ConnectAgain
  BY <1>ConnectAgain DEF ConnectAgain
<1>MakeSureConnectedAgain. CASE MakeSureConnectedAgain
  <2>1. CASE StartThread
    BY <1>MakeSureConnectedAgain, <2>1, ClearFacts DEF MakeSureConnectedAgain, StartThread
  <2>2. CASE ~StartThread
    BY <1>MakeSureConnectedAgain, <2>2 DEF MakeSureConnectedAgain
  <2>3. QED BY <2>1, <2>2
<1>stutter. CASE UNCHANGED vars
  BY <1>stutter
<1>QED. QED
  BY <1>stutter, <1>MakeSureConnected, <1>DisconnectAsync,
     <1>StoreThread, <1>FinishDisconnect, <1>Send, <1>SendNoReply,
     <1>SendDisconnect, <1>ConnectBegin, <1>ConnectSelect,
     <1>ConnectClear, <1>Handshake, <1>SetStatus, <1>Select, <1>ArmPing,
     <1>LookForMessage, <1>ClearBreaker, <1>Check, <1>Write,
     <1>NothingToWrite, <1>StartTimeout, <1>RecordTimeout, <1>PopMessage,
     <1>ReadReply, <1>ReadPingResp, <1>ReadKickout, <1>ReadError,
     <1>ReadOther, <1>ReplyTimer, <1>ReplyCallback, <1>Heartbeat,
     <1>LeaveLoop, <1>CloseSocket, <1>StartReconnect, <1>TimeoutRings,
     <1>TimeoutErase, <1>TimeoutCallback, <1>TimeoutCheck,
     <1>TimeoutDisconnects, <1>PingRings, <1>PingBreaks, <1>ReconnectRings,
     <1>Join, <1>CancelTimeouts, <1>LoseCallback, <1>RebuildBreakers,
     <1>ConnectAgain, <1>MakeSureConnectedAgain
  DEF Next, Caller, InsideSteps, ConnectSteps, SelectSteps, LoopSteps,
      TimeoutSteps, ReconnectSteps

\* Init establishes the second invariant: both pipes are empty and unmarked.
LEMMA InitSignals == Init => Signals
<1> SUFFICES ASSUME Init PROVE Signals
  OBVIOUS
<1>1. PICK okRw, okConn \in {TRUE, "pipefail" \notin Env} :
        rwb = NewBreaker(okRw) /\ cnb = NewBreaker(okConn)
  BY DEF Init
<1>2. QED
  BY <1>1 DEF Init, Signals, ClearingUpAlone, RebuildShape, Honest,
              PendingSignal, BeforeClear, InLoop, NewBreaker

(***************************************************************************)
(* The second invariant.                                                   *)
(***************************************************************************)
THEOREM SignalInvariant ==
  ASSUME PipesOrTurns
  PROVE  Spec => []SignalInv
<1>1. Init => SignalInv
  BY InitClientInv, InitSignals DEF SignalInv
<1>2. SignalInv /\ [Next]_vars => SignalInv'
  <2> SUFFICES ASSUME SignalInv, [Next]_vars PROVE SignalInv'
    OBVIOUS
  <2>1. TypeOK /\ ThreadShape /\ ByteIsMarked
    BY DEF SignalInv, ClientInv, Control, Writing, Pipes, TypeOK
  <2>2. QED
    BY <2>1, ClientStep, SignalsStep DEF SignalInv
<1>3. QED BY <1>1, <1>2, PTL DEF Spec

(***************************************************************************)
(* A breaker that is marked has its byte in the pipe, so that no Break     *)
(* returns at once and wakes nobody (socket_breaker.cpp, Break and Clear). *)
(***************************************************************************)
THEOREM SignalIsThereAlways ==
  ASSUME PipesOrTurns
  PROVE  Spec => []SignalIsThere
<1>1. SignalInv => SignalIsThere
  BY DEF SignalInv, Signals, Honest, SignalIsThere
<1>2. QED BY <1>1, SignalInvariant, PTL

(***************************************************************************)
(* The client thread never waits in select, with a pipe that could be      *)
(* created, while there is something it should have been woken for: a      *)
(* disconnection, a message or an alarm that has rung (lines 475-526).     *)
(***************************************************************************)
THEOREM ClientNoLostWakeup ==
  ASSUME PipesOrTurns
  PROVE  Spec => []NoLostWakeup
<1>1. SignalInv => NoLostWakeup
  BY DEF SignalInv, Signals, PendingSignal, NoLostWakeup, BeforeClear, InLoop
<1>2. QED BY <1>1, SignalInvariant, PTL

-----------------------------------------------------------------------------
(***************************************************************************)
(* Requests: the callback and the timeout of a request.                    *)
(***************************************************************************)

\* No thread is held up for the length of a request timeout.
Prompt == "stall" \notin Env

Requests ==
    /\ QueuedShape /\ CurrentShape
    /\ TimeoutHasCallback

RequestInv == ClientInv /\ Requests

\* A step keeps what is known of requests.  Send takes an identifier that is
\* in use nowhere, and until the message is written nobody else has it; the
\* alarm that is started is recorded before it can ring; a callback is taken
\* only after the entry of _timeoutAlarmMap, by the reply, by the timeout and
\* by __WaitDisconnect.
LEMMA RequestsStep ==
  ASSUME TypeOK, ThreadShape, WriteHoldsHead, Requests, [Next]_vars,
         Prompt
  PROVE  Requests'
<1> USE DEF TypeOK, RequestTypeOK, ClientTypeOK, QueueTypeOK, ThreadShape,
            ConnTypeOK, QueuedShape, CurrentShape,
            TimeoutHasCallback, Requests, Handled, Prompt
<1>MakeSureConnected. CASE MakeSureConnected
  BY <1>MakeSureConnected DEF MakeSureConnected, StartThread
<1>DisconnectAsync. ASSUME NEW again \in BOOLEAN, DisconnectAsync(again)
                     PROVE  Requests'
  <2>1. CASE MakeSureConnected
    BY <2>1, <1>MakeSureConnected
  <2>2. CASE ~MakeSureConnected
    <3>1. /\ mutex = "free" /\ thread
          /\ disCode' = TRUE
          /\ mutex' = IF again THEN "again" ELSE "logout"
          /\ UNCHANGED <<status, thread, shouldReconnect, timeoutDisconnect, histVars,
                         breakerVars, requestVars, alarmVars, clientVars, queueVars>>
      BY <1>DisconnectAsync, <2>2 DEF DisconnectAsync
    <3>2. QED BY <3>1
  <2>3. QED BY <2>1, <2>2
<1>StoreThread. CASE StoreThread
  BY <1>StoreThread DEF StoreThread
<1>FinishDisconnect. CASE FinishDisconnect
  BY <1>FinishDisconnect DEF FinishDisconnect, SignalDisconnect, ReadAlready
<1>Send. ASSUME NEW null \in BOOLEAN, Send(null)
          PROVE  Requests'
  <2>1. /\ messageQueue' = Append(messageQueue, nextId)
        /\ callbacks' = callbacks \cup {nextId}
        /\ UNCHANGED <<cpc, cur, timers, timeoutMap, wire, qpc, qid, qids>>
    BY <1>Send DEF Send
  <2>2. /\ Len(messageQueue') = Len(messageQueue) + 1
        /\ \A k \in 1..Len(messageQueue) : messageQueue'[k] = messageQueue[k]
        /\ messageQueue'[Len(messageQueue) + 1] = nextId
    BY <2>1
  <2>3. cpc # "none"
    BY <1>Send DEF Send, InLoop
  <2>4. \A k \in 1..Len(messageQueue) : messageQueue[k] # nextId
    <3>1. SUFFICES ASSUME NEW k \in 1..Len(messageQueue), messageQueue[k] = nextId PROVE FALSE
      OBVIOUS
    <3>2. CASE k > 1 \/ cpc \notin {"map", "pop"}
      BY <1>Send, <2>3, <3>1, <3>2 DEF Send, NextIdIsFree
    <3>3. CASE k = 1 /\ cpc \in {"map", "pop"}
      <4>1. cur = nextId
        BY <3>1, <3>3 DEF WriteHoldsHead
      <4>2. QED BY <1>Send, <3>3, <4>1 DEF Send, NextIdIsFree
    <3>4. QED BY <3>2, <3>3
  <2>5. /\ nextId \notin timers \cup timeoutMap \cup wire \cup qids
        /\ ~Handled(nextId)
        /\ cpc \in {"respTimer", "respCall"} => nextId # cur
    BY <1>Send DEF Send, NextIdIsFree
  <2>6. cpc \in {"map", "pop"} => messageQueue # <<>>
    BY DEF WriteHoldsHead
  <2>7. \A j, k \in 1..Len(messageQueue') :
          messageQueue'[j] \in Ids /\ j # k => messageQueue'[j] # messageQueue'[k]
    BY <2>1, <2>2, <2>3, <2>4
  <2>8. QueuedShape'
    BY <2>1, <2>2, <2>3, <2>4, <2>5, <2>6, <2>7 DEF WriteHoldsHead
  <2>9. CurrentShape' /\ TimeoutHasCallback'
    BY <1>Send DEF Send, NextIdIsFree
  <2>10. QED BY <2>8, <2>9
<1>SendNoReply. CASE SendNoReply
  <2>1. /\ messageQueue' = Append(messageQueue, 0)
        /\ UNCHANGED <<cpc, cur, callbacks, timers, timeoutMap, wire,
                       qpc, qid, qids>>
    BY <1>SendNoReply DEF SendNoReply, SendPlain
  <2>2. /\ Len(messageQueue') = Len(messageQueue) + 1
        /\ \A k \in 1..Len(messageQueue) : messageQueue'[k] = messageQueue[k]
        /\ messageQueue'[Len(messageQueue) + 1] = 0
    BY <2>1
  <2>3. \A k \in 1..Len(messageQueue') :
          messageQueue'[k] \in Ids =>
            k \in 1..Len(messageQueue) /\ messageQueue'[k] = messageQueue[k]
    BY <2>2 DEF Ids, DisconnectMsg
  <2>4. QueuedShape'
    BY <2>1, <2>2, <2>3
  <2>5. CurrentShape' /\ TimeoutHasCallback'
    BY <1>SendNoReply DEF SendNoReply, SendPlain
  <2>6. QED BY <2>4, <2>5
<1>SendDisconnect. CASE SendDisconnect
  <2>1. /\ messageQueue' = Append(messageQueue, DisconnectMsg)
        /\ UNCHANGED <<cpc, cur, callbacks, timers, timeoutMap, wire,
                       qpc, qid, qids>>
    BY <1>SendDisconnect DEF SendDisconnect, SendPlain
  <2>2. /\ Len(messageQueue') = Len(messageQueue) + 1
        /\ \A k \in 1..Len(messageQueue) : messageQueue'[k] = messageQueue[k]
        /\ messageQueue'[Len(messageQueue) + 1] = DisconnectMsg
    BY <2>1
  <2>3. \A k \in 1..Len(messageQueue') :
          messageQueue'[k] \in Ids =>
            k \in 1..Len(messageQueue) /\ messageQueue'[k] = messageQueue[k]
    BY <2>2 DEF Ids, DisconnectMsg
  <2>4. QueuedShape'
    BY <2>1, <2>2, <2>3
  <2>5. CurrentShape' /\ TimeoutHasCallback'
    BY <1>SendDisconnect DEF SendDisconnect, SendPlain
  <2>6. QED BY <2>4, <2>5
<1>ConnectBegin. CASE ConnectBegin
  BY <1>ConnectBegin DEF ConnectBegin
<1>ConnectSelect. CASE ConnectSelect
  BY <1>ConnectSelect DEF ConnectSelect
<1>ConnectClear. ASSUME NEW l \in {"connect", "handshake", "set"}, ConnectClear(l)
                  PROVE  Requests'
  BY <1>ConnectClear DEF ConnectClear
<1>Handshake. ASSUME NEW r \in {"success", "kickout", "failed", "timeout"}, Handshake(r)
               PROVE  Requests'
  BY <1>Handshake DEF Handshake
<1>SetStatus. CASE SetStatus
  BY <1>SetStatus DEF SetStatus
<1>Select. ASSUME NEW r \in Report, Select(r)
            PROVE  Requests'
  BY <1>Select DEF Select, Report
<1>ArmPing. CASE ArmPing
  BY <1>ArmPing DEF ArmPing
<1>LookForMessage. CASE LookForMessage
  BY <1>LookForMessage DEF LookForMessage
<1>ClearBreaker. CASE ClearBreaker
  BY <1>ClearBreaker DEF ClearBreaker
<1>Check. CASE Check
  BY <1>Check DEF Check
<1>Write. ASSUME NEW ok \in BOOLEAN, Write(ok)
           PROVE  Requests'
  <2>1. messageQueue # <<>> /\ Head(messageQueue) = messageQueue[1]
    BY <1>Write DEF Write
  <2>2. CurrentShape'
    BY <1>Write, <2>1 DEF Write
  <2>3. QueuedShape'
    BY <1>Write, <2>1 DEF Write
  <2>4. QED BY <1>Write, <2>2, <2>3 DEF Write
<1>NothingToWrite. CASE NothingToWrite
  BY <1>NothingToWrite DEF NothingToWrite
<1>StartTimeout. CASE StartTimeout
  <2>1. messageQueue # <<>> /\ messageQueue[1] = cur
    BY <1>StartTimeout DEF StartTimeout, WriteHoldsHead
  <2>2. cur \in Ids =>
          cur \in callbacks /\ cur \notin timeoutMap \cup qids /\ ~Handled(cur)
    BY <1>StartTimeout, <2>1 DEF StartTimeout
  <2>3. QueuedShape'
    BY <1>StartTimeout DEF StartTimeout
  <2>4. CurrentShape'
    BY <1>StartTimeout, <2>2 DEF StartTimeout
  <2>5. QED BY <1>StartTimeout, <2>3, <2>4 DEF StartTimeout
<1>RecordTimeout. CASE RecordTimeout
  <2>1. QueuedShape' /\ CurrentShape'
    BY <1>RecordTimeout DEF RecordTimeout
  <2>2. TimeoutHasCallback'
    BY <1>RecordTimeout DEF RecordTimeout, Queueable, Ids, DisconnectMsg
  <2>3. QED BY <2>1, <2>2
<1>PopMessage. CASE PopMessage
  BY <1>PopMessage DEF PopMessage
<1>ReadReply. ASSUME NEW i \in Ids, ReadReply(i)
               PROVE  Requests'
  BY <1>ReadReply DEF ReadReply
<1>ReadPingResp. CASE ReadPingResp
  BY <1>ReadPingResp DEF ReadPingResp
<1>ReadKickout. CASE ReadKickout
  BY <1>ReadKickout DEF ReadKickout, RequestDisconnect, SignalDisconnect
<1>ReadError. CASE ReadError
  BY <1>ReadError DEF ReadError
<1>ReadOther. CASE ReadOther
  BY <1>ReadOther DEF ReadOther
<1>ReplyTimer. CASE ReplyTimer
  BY <1>ReplyTimer DEF ReplyTimer
<1>ReplyCallback. CASE ReplyCallback
  BY <1>ReplyCallback DEF ReplyCallback
<1>Heartbeat. ASSUME NEW ok \in BOOLEAN, Heartbeat(ok)
               PROVE  Requests'
  BY <1>Heartbeat DEF Heartbeat
<1>LeaveLoop. CASE LeaveLoop
  BY <1>LeaveLoop DEF LeaveLoop
<1>CloseSocket. CASE CloseSocket
  BY <1>CloseSocket DEF CloseSocket
<1>StartReconnect. CASE StartReconnect
  BY <1>StartReconnect DEF StartReconnect
<1>TimeoutRings. ASSUME NEW i \in Ids \cup {0}, TimeoutRings(i)
                  PROVE  Requests'
  BY <1>TimeoutRings DEF TimeoutRings
<1>TimeoutErase. CASE TimeoutErase
  BY <1>TimeoutErase DEF TimeoutErase
<1>TimeoutCallback. CASE TimeoutCallback
  BY <1>TimeoutCallback DEF TimeoutCallback
<1>TimeoutCheck. CASE TimeoutCheck
  BY <1>TimeoutCheck DEF TimeoutCheck
<1>TimeoutDisconnects. CASE TimeoutDisconnects
  BY <1>TimeoutDisconnects DEF TimeoutDisconnects, RequestDisconnect, SignalDisconnect
<1>PingRings. CASE PingRings
  BY <1>PingRings DEF PingRings
<1>PingBreaks. CASE PingBreaks
  BY <1>PingBreaks DEF PingBreaks
<1>ReconnectRings. CASE ReconnectRings
  BY <1>ReconnectRings DEF ReconnectRings
<1>Join. CASE Join
  BY <1>Join DEF Join
<1>CancelTimeouts. CASE CancelTimeouts
  <2>1. QueuedShape'
    BY <1>CancelTimeouts DEF CancelTimeouts
  <2>2. CurrentShape' /\ TimeoutHasCallback'
    BY <1>CancelTimeouts DEF CancelTimeouts
  <2>3. QED BY <2>1, <2>2
<1>LoseCallback. CASE LoseCallback
  BY <1>LoseCallback DEF LoseCallback
<1>RebuildBreakers. ASSUME NEW okRw \in BOOLEAN, NEW okConn \in BOOLEAN,
                            RebuildBreakers(okRw, okConn)
                     PROVE  Requests'
  BY <1>RebuildBreakers DEF RebuildBreakers
<1>ConnectAgain. CASE ConnectAgain
  BY <1>ConnectAgain DEF ConnectAgain
<1>MakeSureConnectedAgain. CASE MakeSureConnectedAgain
  <2>1. CASE StartThread
    <3>1. /\ messageQueue' = <<>> /\ cpc' = "start"
          /\ qpc = "connect" /\ qpc' = "idle"
          /\ UNCHANGED <<callbacks, timeoutMap>>
      BY <1>MakeSureConnectedAgain, <2>1 DEF MakeSureConnectedAgain, StartThread
    <3>2. QED BY <3>1
  <2>2. CASE ~StartThread
    BY <1>MakeSureConnectedAgain, <2>2 DEF MakeSureConnectedAgain
  <2>3. QED BY <2>1, <2>2
<1>stutter. CASE UNCHANGED vars
  BY <1>stutter
<1>QED. QED
  BY <1>stutter, <1>MakeSureConnected, <1>DisconnectAsync,
     <1>StoreThread, <1>FinishDisconnect, <1>Send, <1>SendNoReply,
     <1>SendDisconnect, <1>ConnectBegin, <1>ConnectSelect,
     <1>ConnectClear, <1>Handshake, <1>SetStatus, <1>Select, <1>ArmPing,
     <1>LookForMessage, <1>ClearBreaker, <1>Check, <1>Write,
     <1>NothingToWrite, <1>StartTimeout, <1>RecordTimeout, <1>PopMessage,
     <1>ReadReply, <1>ReadPingResp, <1>ReadKickout, <1>ReadError,
     <1>ReadOther, <1>ReplyTimer, <1>ReplyCallback, <1>Heartbeat,
     <1>LeaveLoop, <1>CloseSocket, <1>StartReconnect, <1>TimeoutRings,
     <1>TimeoutErase, <1>TimeoutCallback, <1>TimeoutCheck,
     <1>TimeoutDisconnects, <1>PingRings, <1>PingBreaks, <1>ReconnectRings,
     <1>Join, <1>CancelTimeouts, <1>LoseCallback, <1>RebuildBreakers,
     <1>ConnectAgain, <1>MakeSureConnectedAgain
  DEF Next, Caller, InsideSteps, ConnectSteps, SelectSteps, LoopSteps,
      TimeoutSteps, ReconnectSteps

\* Init establishes the third invariant: there is no request yet.
LEMMA InitRequests == Init => Requests
BY DEF Init, Requests, QueuedShape, CurrentShape, TimeoutHasCallback

\* A step keeps the third invariant.
LEMMA RequestStep ==
  ASSUME RequestInv, [Next]_vars, Prompt
  PROVE  RequestInv'
<1>1. TypeOK /\ ThreadShape /\ WriteHoldsHead /\ Requests
  BY DEF RequestInv, ClientInv, Control, Writing, Pipes, TypeOK
<1>2. QED BY <1>1, ClientStep, RequestsStep DEF RequestInv

(***************************************************************************)
(* The third invariant.                                                    *)
(***************************************************************************)
THEOREM RequestInvariant ==
  ASSUME Prompt
  PROVE  Spec => []RequestInv
<1>1. Init => RequestInv
  BY InitClientInv, InitRequests DEF RequestInv
<1>2. RequestInv /\ [Next]_vars => RequestInv'
  BY RequestStep
<1>3. QED BY <1>1, <1>2, PTL DEF Spec

(***************************************************************************)
(* A request with a timeout alarm still has its entry in _callbackMap, for *)
(* any number of requests under way, replies, timeouts, lost connections   *)
(* and callers that connect while __WaitDisconnect clears up (line 190).   *)
(***************************************************************************)
THEOREM TimeoutHasCallbackAlways ==
  ASSUME Prompt
  PROVE  Spec => []TimeoutHasCallback
<1>1. RequestInv => TimeoutHasCallback
  BY DEF RequestInv, Requests
<1>2. QED BY <1>1, RequestInvariant, PTL


-----------------------------------------------------------------------------
(***************************************************************************)
(* Requests: who is in charge of one that was written.                     *)
(***************************************************************************)

\* A step hands on a request that somebody is in charge of, or takes its
\* callback, or is the early return of __WaitDisconnect.
LEMMA HandOver ==
  ASSUME TypeOK, ThreadShape, [Next]_vars,
         NEW i \in Ids, i \in callbacks, InCharge(i)
  PROVE  (i \in callbacks => InCharge(i) \/ i \in lost)'
<1> DEFINE Answered == i \in callbacks => InCharge(i) \/ i \in lost
<1> USE DEF TypeOK, RequestTypeOK, QueueTypeOK, ThreadShape, InCharge
<1>1. SUFFICES Answered'
  OBVIOUS
<1>MakeSureConnected. CASE MakeSureConnected
  BY <1>MakeSureConnected DEF MakeSureConnected, StartThread
<1>DisconnectAsync. ASSUME NEW again \in BOOLEAN, DisconnectAsync(again)
                     PROVE  Answered'
  <2>1. CASE MakeSureConnected
    BY <2>1, <1>MakeSureConnected
  <2>2. CASE ~MakeSureConnected
    <3>1. /\ mutex = "free" /\ thread
          /\ disCode' = TRUE
          /\ mutex' = IF again THEN "again" ELSE "logout"
          /\ UNCHANGED <<status, thread, shouldReconnect, timeoutDisconnect, histVars,
                         breakerVars, requestVars, alarmVars, clientVars, queueVars>>
      BY <1>DisconnectAsync, <2>2 DEF DisconnectAsync
    <3>2. QED BY <3>1
  <2>3. QED BY <2>1, <2>2
<1>StoreThread. CASE StoreThread
  BY <1>StoreThread DEF StoreThread
<1>FinishDisconnect. CASE FinishDisconnect
  BY <1>FinishDisconnect DEF FinishDisconnect, SignalDisconnect, ReadAlready
<1>Send. ASSUME NEW null \in BOOLEAN, Send(null)
          PROVE  Answered'
  BY <1>Send DEF Send
<1>SendNoReply. CASE SendNoReply
  BY <1>SendNoReply DEF SendNoReply, SendPlain
<1>SendDisconnect. CASE SendDisconnect
  BY <1>SendDisconnect DEF SendDisconnect, SendPlain
<1>ConnectBegin. CASE ConnectBegin
  BY <1>ConnectBegin DEF ConnectBegin
<1>ConnectSelect. CASE ConnectSelect
  BY <1>ConnectSelect DEF ConnectSelect
<1>ConnectClear. ASSUME NEW l \in {"connect", "handshake", "set"}, ConnectClear(l)
                  PROVE  Answered'
  BY <1>ConnectClear DEF ConnectClear
<1>Handshake. ASSUME NEW r \in {"success", "kickout", "failed", "timeout"}, Handshake(r)
               PROVE  Answered'
  BY <1>Handshake DEF Handshake
<1>SetStatus. CASE SetStatus
  BY <1>SetStatus DEF SetStatus
<1>Select. ASSUME NEW r \in Report, Select(r)
            PROVE  Answered'
  BY <1>Select DEF Select, Report
<1>ArmPing. CASE ArmPing
  BY <1>ArmPing DEF ArmPing
<1>LookForMessage. CASE LookForMessage
  BY <1>LookForMessage DEF LookForMessage
<1>ClearBreaker. CASE ClearBreaker
  BY <1>ClearBreaker DEF ClearBreaker
<1>Check. CASE Check
  BY <1>Check DEF Check
<1>Write. ASSUME NEW ok \in BOOLEAN, Write(ok)
           PROVE  Answered'
  BY <1>Write DEF Write
<1>NothingToWrite. CASE NothingToWrite
  BY <1>NothingToWrite DEF NothingToWrite
<1>StartTimeout. CASE StartTimeout
  BY <1>StartTimeout DEF StartTimeout
<1>RecordTimeout. CASE RecordTimeout
  BY <1>RecordTimeout DEF RecordTimeout
<1>PopMessage. CASE PopMessage
  BY <1>PopMessage DEF PopMessage
<1>ReadReply. ASSUME NEW k \in Ids, ReadReply(k)
               PROVE  Answered'
  BY <1>ReadReply DEF ReadReply
<1>ReadPingResp. CASE ReadPingResp
  BY <1>ReadPingResp DEF ReadPingResp
<1>ReadKickout. CASE ReadKickout
  BY <1>ReadKickout DEF ReadKickout, RequestDisconnect, SignalDisconnect
<1>ReadError. CASE ReadError
  BY <1>ReadError DEF ReadError
<1>ReadOther. CASE ReadOther
  BY <1>ReadOther DEF ReadOther
<1>ReplyTimer. CASE ReplyTimer
  BY <1>ReplyTimer DEF ReplyTimer
<1>ReplyCallback. CASE ReplyCallback
  BY <1>ReplyCallback DEF ReplyCallback
<1>Heartbeat. ASSUME NEW ok \in BOOLEAN, Heartbeat(ok)
               PROVE  Answered'
  BY <1>Heartbeat DEF Heartbeat
<1>LeaveLoop. CASE LeaveLoop
  BY <1>LeaveLoop DEF LeaveLoop
<1>CloseSocket. CASE CloseSocket
  BY <1>CloseSocket DEF CloseSocket
<1>StartReconnect. CASE StartReconnect
  BY <1>StartReconnect DEF StartReconnect
<1>TimeoutRings. ASSUME NEW k \in Ids \cup {0}, TimeoutRings(k)
                  PROVE  Answered'
  BY <1>TimeoutRings DEF TimeoutRings
<1>TimeoutErase. CASE TimeoutErase
  BY <1>TimeoutErase DEF TimeoutErase
<1>TimeoutCallback. CASE TimeoutCallback
  BY <1>TimeoutCallback DEF TimeoutCallback
<1>TimeoutCheck. CASE TimeoutCheck
  BY <1>TimeoutCheck DEF TimeoutCheck
<1>TimeoutDisconnects. CASE TimeoutDisconnects
  BY <1>TimeoutDisconnects DEF TimeoutDisconnects, RequestDisconnect, SignalDisconnect
<1>PingRings. CASE PingRings
  BY <1>PingRings DEF PingRings
<1>PingBreaks. CASE PingBreaks
  BY <1>PingBreaks DEF PingBreaks
<1>ReconnectRings. CASE ReconnectRings
  BY <1>ReconnectRings DEF ReconnectRings
<1>Join. CASE Join
  BY <1>Join DEF Join
<1>CancelTimeouts. CASE CancelTimeouts
  BY <1>CancelTimeouts DEF CancelTimeouts
<1>LoseCallback. CASE LoseCallback
  BY <1>LoseCallback DEF LoseCallback
<1>RebuildBreakers. ASSUME NEW okRw \in BOOLEAN, NEW okConn \in BOOLEAN,
                            RebuildBreakers(okRw, okConn)
                     PROVE  Answered'
  BY <1>RebuildBreakers DEF RebuildBreakers
<1>ConnectAgain. CASE ConnectAgain
  BY <1>ConnectAgain DEF ConnectAgain
<1>MakeSureConnectedAgain. CASE MakeSureConnectedAgain
  <2>1. UNCHANGED <<callbacks, timeoutMap>> /\ qpc = "connect"
    BY <1>MakeSureConnectedAgain DEF MakeSureConnectedAgain
  <2>2. cpc = "respCall" => UNCHANGED <<cpc, cur>>
    BY <1>MakeSureConnectedAgain DEF MakeSureConnectedAgain, StartThread
  <2>3. QED BY <2>1, <2>2
<1>stutter. CASE UNCHANGED vars
  BY <1>stutter
<1>QED. QED
  BY <1>stutter, <1>MakeSureConnected, <1>DisconnectAsync,
     <1>StoreThread, <1>FinishDisconnect, <1>Send, <1>SendNoReply,
     <1>SendDisconnect, <1>ConnectBegin, <1>ConnectSelect,
     <1>ConnectClear, <1>Handshake, <1>SetStatus, <1>Select, <1>ArmPing,
     <1>LookForMessage, <1>ClearBreaker, <1>Check, <1>Write,
     <1>NothingToWrite, <1>StartTimeout, <1>RecordTimeout, <1>PopMessage,
     <1>ReadReply, <1>ReadPingResp, <1>ReadKickout, <1>ReadError,
     <1>ReadOther, <1>ReplyTimer, <1>ReplyCallback, <1>Heartbeat,
     <1>LeaveLoop, <1>CloseSocket, <1>StartReconnect, <1>TimeoutRings,
     <1>TimeoutErase, <1>TimeoutCallback, <1>TimeoutCheck,
     <1>TimeoutDisconnects, <1>PingRings, <1>PingBreaks, <1>ReconnectRings,
     <1>Join, <1>CancelTimeouts, <1>LoseCallback, <1>RebuildBreakers,
     <1>ConnectAgain, <1>MakeSureConnectedAgain
  DEF Next, Caller, InsideSteps, ConnectSteps, SelectSteps, LoopSteps,
      TimeoutSteps, ReconnectSteps

(***************************************************************************)
(* A request that was written has somebody in charge of it until its       *)
(* callback is taken, whatever callers, server and environment do, a       *)
(* stalled thread and a caller that connects too early included; only the  *)
(* return in the middle of line 190's loop drops one.                      *)
(***************************************************************************)
THEOREM SomeoneAnswersAlways == Spec => SomeoneAnswers
<1>1. ClientInv => TypeOK /\ ThreadShape
  BY DEF ClientInv, Control, Writing, Pipes, TypeOK
<1>2. ClientInv /\ [Next]_vars
        => [\A i \in Ids :
              i \in callbacks /\ InCharge(i) =>
                  (i \in callbacks => InCharge(i) \/ i \in lost)']_vars
  BY <1>1, HandOver
<1>3. QED BY <1>2, ClientInvariant, PTL DEF Spec, SomeoneAnswers
=============================================================================
