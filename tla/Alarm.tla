------------------------------- MODULE Alarm --------------------------------
(***************************************************************************)
(* The alarms of the client, common/alarm.cpp, on top of the message       *)
(* queue they post to.  The callback of a message is the alarm it belongs  *)
(* to (the lambda that SetCallback builds captures this).                  *)
(*                                                                         *)
(* Start and Cancel hold the alarm's _mutex around their call of the       *)
(* queue, so each is two steps: the call, which other threads see at once, *)
(* and the assignments to _messageId and _status.  The callback takes the  *)
(* same _mutex, in the thread of the queue, after the queue has looked at  *)
(* the cancelled ids and before the inner callback runs.                   *)
(***************************************************************************)
EXTENDS MessageQueue

Alarms == Callbacks

VARIABLES
    hasCallback,  \* _callback # NULL
    messageId,    \* _messageId, 0 for none
    status,       \* _status
    busy,         \* what a holder of _mutex is in the middle of: "no",
                  \* "start" or "cancel"
    postedId,     \* what PostMessage returned to the Start in progress
    inner         \* the queue's thread is in _innerCallback

alarmVars == <<hasCallback, messageId, status, busy, postedId, inner>>
allVars == <<vars, alarmVars>>

AlarmInit ==
    /\ Init
    /\ hasCallback = [a \in Alarms |-> FALSE]
    /\ messageId = [a \in Alarms |-> 0]
    /\ status = [a \in Alarms |-> "init"]
    /\ busy = [a \in Alarms |-> "no"]
    /\ postedId = [a \in Alarms |-> 0]
    /\ inner = FALSE

-----------------------------------------------------------------------------
SetCallback(a) ==
    /\ hasCallback' = [hasCallback EXCEPT ![a] = TRUE]
    /\ UNCHANGED <<vars, messageId, status, busy, postedId, inner>>

\* Bound on the identifiers: an alarm keeps _messageId after it rang, and the
\* code counts on 2^32 - 2 posts not happening before it is used again.
NextIdIsForgotten ==
    /\ \A b \in Alarms : messageId[b] # nextId /\ postedId[b] # nextId
    /\ pc = "invoke" => running.id # nextId

\* Start that returns true: an alarm without callback, or already waiting,
\* makes Start return false and changes nothing.
StartPost(a, d) ==
    /\ busy[a] = "no"
    /\ hasCallback[a]
    /\ status[a] # "start"
    /\ NextIdIsForgotten
    /\ PostMessage(d, a)
    /\ postedId' = [postedId EXCEPT ![a] = nextId]
    /\ busy' = [busy EXCEPT ![a] = "start"]
    /\ UNCHANGED <<hasCallback, messageId, status, inner>>

StartReturn(a) ==
    /\ busy[a] = "start"
    /\ messageId' = [messageId EXCEPT ![a] = postedId[a]]
    /\ status' = [status EXCEPT ![a] = "start"]
    /\ busy' = [busy EXCEPT ![a] = "no"]
    /\ postedId' = [postedId EXCEPT ![a] = 0]
    /\ UNCHANGED <<vars, hasCallback, inner>>

CancelPost(a) ==
    /\ busy[a] = "no"
    /\ messageId[a] # 0
    /\ CancelMessage(messageId[a])
    /\ busy' = [busy EXCEPT ![a] = "cancel"]
    /\ UNCHANGED <<hasCallback, messageId, status, postedId, inner>>

CancelReturn(a) ==
    /\ busy[a] = "cancel"
    /\ messageId' = [messageId EXCEPT ![a] = 0]
    /\ status' = [status EXCEPT ![a] = "cancel"]
    /\ busy' = [busy EXCEPT ![a] = "no"]
    /\ UNCHANGED <<vars, hasCallback, postedId, inner>>

-----------------------------------------------------------------------------
\* Mutant: the callback does not take the alarm's _mutex.
CallbackEnterUnlocked ==
    /\ pc = "invoke"
    /\ ~inner
    /\ LET a == running.cb IN
          \/ /\ messageId[a] = 0
             /\ Return
             /\ UNCHANGED alarmVars
          \/ /\ messageId[a] # 0
             /\ status' = [status EXCEPT ![a] = "alarm"]
             /\ inner' = TRUE
             /\ UNCHANGED <<vars, hasCallback, messageId, busy, postedId>>

\* The lambda of SetCallback, up to the unlock.  A cancelled alarm returns.
CallbackEnter ==
    /\ pc = "invoke"
    /\ ~inner
    /\ LET a == running.cb IN
          /\ busy[a] = "no"
          /\ \/ /\ messageId[a] = 0
                /\ Return
                /\ UNCHANGED alarmVars
             \/ /\ messageId[a] # 0
                /\ status' = [status EXCEPT ![a] = "alarm"]
                /\ inner' = TRUE
                /\ UNCHANGED <<vars, hasCallback, messageId, busy, postedId>>

CallbackReturn ==
    /\ inner
    /\ Return
    /\ inner' = FALSE
    /\ UNCHANGED <<hasCallback, messageId, status, busy, postedId>>

QueueStep ==
    /\ Collect \/ Dispatch \/ EndDispatch \/ TimedWake \/ SpuriousWake \/ Tick
    /\ UNCHANGED alarmVars

-----------------------------------------------------------------------------
AlarmNext ==
    \/ \E a \in Alarms : \/ SetCallback(a)
                         \/ \E d \in Delays : StartPost(a, d)
                         \/ StartReturn(a)
                         \/ CancelPost(a)
                         \/ CancelReturn(a)
    \/ CallbackEnter
    \/ CallbackReturn
    \/ QueueStep

AlarmSpec == AlarmInit /\ [][AlarmNext]_allVars

\* The queue's thread keeps being scheduled and inner callbacks return; a
\* thread inside Start or Cancel leaves it; time passes.
AlarmFairness ==
    /\ WF_allVars((RunLoop /\ UNCHANGED alarmVars) \/ CallbackEnter \/ CallbackReturn)
    /\ WF_allVars(Tick /\ UNCHANGED alarmVars)
    /\ \A a \in Alarms : WF_allVars(StartReturn(a) \/ CancelReturn(a))

AlarmFairSpec == AlarmSpec /\ AlarmFairness

-----------------------------------------------------------------------------
AlarmTypeOK ==
    /\ TypeOK
    /\ hasCallback \in [Alarms -> BOOLEAN]
    /\ messageId \in [Alarms -> Ids \cup {0}]
    /\ status \in [Alarms -> {"init", "start", "alarm", "cancel"}]
    /\ busy \in [Alarms -> {"no", "start", "cancel"}]
    /\ postedId \in [Alarms -> Ids \cup {0}]
    /\ inner \in BOOLEAN

\* The message with identifier i of alarm a has yet to reach the callback.
OnItsWay(a, i) ==
    \/ \E m \in alive : m.id = i /\ m.cb = a
    \/ pc = "invoke" /\ ~inner /\ running.id = i /\ running.cb = a

(***************************************************************************)
(* IsWaiting() tells the truth: outside Start and Cancel, an alarm whose   *)
(* status is kStatusStart has its message under way, so that it will ring. *)
(* TcpClient relies on it to re-arm the heartbeat (tcp_client.cpp:475).    *)
(***************************************************************************)
WaitingHasMessage ==
    \A a \in Alarms :
        (busy[a] = "no" /\ status[a] = "start") => OnItsWay(a, messageId[a])

(***************************************************************************)
(* An alarm does not wait for ever: it rings or is cancelled.              *)
(***************************************************************************)
WaitingEnds == \A a \in Alarms : status[a] = "start" ~> status[a] # "start"

(***************************************************************************)
(* The inner callback runs on behalf of the Start in force, never for a    *)
(* message whose alarm was cancelled: alarm.cpp:27 and message_queue.cpp:72*)
(* say that a cancelled message is skipped.                                *)
(***************************************************************************)
NoStaleCallback ==
    [][(~inner /\ inner') => running.id = messageId[running.cb]]_allVars
-----------------------------------------------------------------------------
(***************************************************************************)
(* What makes WaitingHasMessage inductive; module AlarmProofs.             *)
(***************************************************************************)

\* Start has a posted message exactly while it is between its two steps, and
\* the inner callback runs inside a callback of the queue.
StartShape ==
    /\ \A a \in Alarms : busy[a] = "start" <=> postedId[a] # 0
    /\ \A a \in Alarms : busy[a] = "start" => OnItsWay(a, postedId[a])
    /\ inner => pc = "invoke"

\* No identifier belongs to two alarms, so that Cancel of one never takes the
\* message of another.
OwnIds ==
    /\ \A a, b \in Alarms : a # b /\ messageId[a] # 0 => messageId[a] # messageId[b]
    /\ \A a, b \in Alarms : a # b /\ postedId[a] # 0 => postedId[a] # postedId[b]
    /\ \A a, b \in Alarms : postedId[a] # 0 => postedId[a] # messageId[b]

\* The inductive invariant of AlarmProofs.
AlarmInv == IInv /\ AlarmTypeOK /\ StartShape /\ OwnIds /\ WaitingHasMessage
=============================================================================
