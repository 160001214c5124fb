---------------------------- MODULE AlarmProofs -----------------------------
(***************************************************************************)
(* Proofs about the alarms on top of the message queue, for any number of  *)
(* alarms, any delays and any number of threads that start and cancel      *)
(* them.  The queue is used through the invariant of MessageQueueProofs:   *)
(* every step of an alarm is a step of the queue or leaves it alone.       *)
(***************************************************************************)
EXTENDS Alarm, MessageQueueProofs

\* An alarm cancels only identifiers that the queue gave out, so all it does
\* to the queue are calls of its interface.
LEMMA AlarmStepIsQueueStep ==
  ASSUME AlarmTypeOK, [AlarmNext]_allVars
  PROVE  [Next]_vars
<1>1. ASSUME NEW a \in Alarms, NEW d \in Delays, StartPost(a, d) PROVE Next
  BY <1>1 DEF StartPost, Alarms, Next
<1>2. ASSUME NEW a \in Alarms, CancelPost(a) PROVE Next
  <2>1. messageId[a] \in Ids
    BY <1>2 DEF CancelPost, AlarmTypeOK
  <2>2. QED BY <1>2, <2>1 DEF CancelPost, Next
<1>3. ASSUME NEW a \in Alarms, SetCallback(a) \/ StartReturn(a) \/ CancelReturn(a)
      PROVE  UNCHANGED vars
  BY <1>3 DEF SetCallback, StartReturn, CancelReturn
<1>4. CASE CallbackEnter
  <2>1. Return \/ UNCHANGED vars
    BY <1>4 DEF CallbackEnter
  <2>2. QED BY <2>1 DEF Next, RunLoop
<1>5. CASE CallbackReturn
  BY <1>5 DEF CallbackReturn, Next, RunLoop
<1>6. CASE QueueStep
  BY <1>6 DEF QueueStep, Next, RunLoop
<1>7. CASE UNCHANGED allVars
  BY <1>7 DEF allVars
<1>8. QED BY <1>1, <1>2, <1>3, <1>4, <1>5, <1>6, <1>7 DEF AlarmNext

-----------------------------------------------------------------------------
\* The constructor leaves nothing on its way.
LEMMA InitAlarmInv == AlarmInit => AlarmInv
<1> SUFFICES ASSUME AlarmInit PROVE AlarmInv
  OBVIOUS
<1>1. IInv
  BY InitIInv DEF AlarmInit
<1>2. AlarmTypeOK
  BY <1>1 DEF AlarmInit, AlarmTypeOK, IInv
<1>3. StartShape /\ OwnIds /\ WaitingHasMessage
  BY DEF AlarmInit, StartShape, OwnIds, WaitingHasMessage
<1>4. QED BY <1>1, <1>2, <1>3 DEF AlarmInv

\* What is on its way has an identifier, which is never 0: the value that
\* says in an alarm that there is no message.
LEMMA OnItsWayIds ==
  ASSUME TypeOK, LoopShape, NEW a, NEW i, OnItsWay(a, i)
  PROVE  i \in Ids
BY DEF OnItsWay, TypeOK, LoopShape, Message

\* Start, up to the unlock of the queue: the new message is on its way, with
\* an identifier that no alarm has.
LEMMA StartPostKeeps ==
  ASSUME AlarmInv, IInv', NEW a \in Alarms, NEW d \in Delays, StartPost(a, d)
  PROVE  AlarmInv'
<1> USE DEF AlarmInv, IInv
<1>1. /\ postedId' = [postedId EXCEPT ![a] = nextId]
      /\ busy' = [busy EXCEPT ![a] = "start"]
      /\ busy[a] = "no"
      /\ UNCHANGED <<hasCallback, messageId, status, inner, running>>
      /\ pc = "invoke" <=> pc' = "invoke"
  BY DEF StartPost, PostMessage, TypeOK
<1>2. nextId \in Ids /\ \A b \in Alarms : messageId[b] # nextId /\ postedId[b] # nextId
  BY DEF StartPost, NextIdIsForgotten, TypeOK
<1>3. /\ alive \subseteq alive'
      /\ \E m \in alive' : m.id = nextId /\ m.cb = a
  BY QueueAssumption DEF StartPost, PostMessage, Alarms
<1>4. AlarmTypeOK'
  BY <1>1, <1>2 DEF AlarmTypeOK
<1>5. \A b, i : OnItsWay(b, i) => OnItsWay(b, i)'
  BY <1>1, <1>3 DEF OnItsWay
<1>6. OnItsWay(a, postedId[a])'
  BY <1>1, <1>3 DEF OnItsWay, AlarmTypeOK
<1>7. StartShape'
  BY <1>1, <1>2, <1>5, <1>6 DEF StartShape, AlarmTypeOK, Ids
<1>8. OwnIds'
  BY <1>1, <1>2 DEF OwnIds, AlarmTypeOK
<1>9. WaitingHasMessage'
  BY <1>1, <1>5 DEF WaitingHasMessage, AlarmTypeOK
<1>10. QED BY <1>4, <1>7, <1>8, <1>9

\* The end of Start: the alarm takes over the identifier of the message that
\* was posted for it.
LEMMA StartReturnKeeps ==
  ASSUME AlarmInv, NEW a \in Alarms, StartReturn(a)
  PROVE  AlarmInv'
<1> USE DEF AlarmInv
<1>1. /\ messageId' = [messageId EXCEPT ![a] = postedId[a]]
      /\ status' = [status EXCEPT ![a] = "start"]
      /\ busy' = [busy EXCEPT ![a] = "no"]
      /\ postedId' = [postedId EXCEPT ![a] = 0]
      /\ UNCHANGED <<hasCallback, inner>>
      /\ busy[a] = "start" /\ postedId[a] # 0
  BY DEF StartReturn, StartShape
<1>2. UNCHANGED vars
  BY DEF StartReturn
<1>3. IInv'
  BY <1>2, NextIInv
<1>4. AlarmTypeOK'
  BY <1>1, <1>3 DEF AlarmTypeOK, IInv
<1>5. \A b, i : OnItsWay(b, i) => OnItsWay(b, i)'
  BY <1>1, <1>2 DEF OnItsWay, vars, loopVars
<1>6. StartShape'
  BY <1>1, <1>2, <1>5 DEF StartShape, AlarmTypeOK, vars, loopVars
<1>7. OwnIds'
  BY <1>1 DEF OwnIds, AlarmTypeOK
<1>8. WaitingHasMessage'
  BY <1>1, <1>5 DEF WaitingHasMessage, StartShape, AlarmTypeOK
<1>9. QED BY <1>3, <1>4, <1>6, <1>7, <1>8

\* Cancel, up to the unlock of the queue: the message of this alarm is gone
\* and no other one is.
LEMMA CancelPostKeeps ==
  ASSUME AlarmInv, IInv', NEW a \in Alarms, CancelPost(a)
  PROVE  AlarmInv'
<1> USE DEF AlarmInv, IInv
<1>1. /\ busy' = [busy EXCEPT ![a] = "cancel"]
      /\ busy[a] = "no" /\ messageId[a] # 0
      /\ UNCHANGED <<hasCallback, messageId, status, postedId, inner, pc, running>>
      /\ alive' = {m \in alive : m.id # messageId[a]}
  BY DEF CancelPost, CancelMessage, loopVars
<1>2. AlarmTypeOK'
  BY <1>1 DEF AlarmTypeOK
<1>3. ASSUME NEW b, NEW i, i # messageId[a], OnItsWay(b, i) PROVE OnItsWay(b, i)'
  BY <1>1, <1>3 DEF OnItsWay
<1>4. StartShape'
  <2>1. \A b \in Alarms : busy'[b] = "start" <=> postedId'[b] # 0
    BY <1>1 DEF StartShape, AlarmTypeOK
  <2>2. ASSUME NEW b \in Alarms, busy'[b] = "start" PROVE OnItsWay(b, postedId[b])'
    <3>1. busy[b] = "start" /\ postedId[b] # messageId[a]
      BY <1>1, <2>2 DEF StartShape, OwnIds, AlarmTypeOK
    <3>2. QED BY <1>1, <1>3, <3>1 DEF StartShape
  <2>3. QED BY <1>1, <2>1, <2>2 DEF StartShape
<1>5. OwnIds'
  BY <1>1 DEF OwnIds
<1>6. WaitingHasMessage'
  <2>1. SUFFICES ASSUME NEW b \in Alarms, busy'[b] = "no", status'[b] = "start"
                 PROVE  OnItsWay(b, messageId[b])'
    BY DEF WaitingHasMessage
  <2>2. busy[b] = "no" /\ b # a /\ messageId[b] # messageId[a]
    BY <1>1, <2>1 DEF OwnIds, AlarmTypeOK
  <2>3. QED BY <1>1, <1>3, <2>1, <2>2 DEF WaitingHasMessage
<1>7. QED BY <1>2, <1>4, <1>5, <1>6

\* The end of Cancel: the alarm waits no longer.
LEMMA CancelReturnKeeps ==
  ASSUME AlarmInv, NEW a \in Alarms, CancelReturn(a)
  PROVE  AlarmInv'
<1> USE DEF AlarmInv
<1>1. /\ messageId' = [messageId EXCEPT ![a] = 0]
      /\ status' = [status EXCEPT ![a] = "cancel"]
      /\ busy' = [busy EXCEPT ![a] = "no"]
      /\ UNCHANGED <<hasCallback, postedId, inner>>
      /\ busy[a] = "cancel"
  BY DEF CancelReturn
<1>2. UNCHANGED vars
  BY DEF CancelReturn
<1>3. IInv'
  BY <1>2, NextIInv
<1>4. AlarmTypeOK'
  BY <1>1, <1>3 DEF AlarmTypeOK, IInv
<1>5. \A b, i : OnItsWay(b, i) => OnItsWay(b, i)'
  BY <1>1, <1>2 DEF OnItsWay, vars, loopVars
<1>6. StartShape'
  BY <1>1, <1>2, <1>5 DEF StartShape, AlarmTypeOK, vars, loopVars
<1>7. OwnIds'
  BY <1>1 DEF OwnIds, AlarmTypeOK
<1>8. WaitingHasMessage'
  BY <1>1, <1>5 DEF WaitingHasMessage, AlarmTypeOK
<1>9. QED BY <1>3, <1>4, <1>6, <1>7, <1>8

\* The callback takes the alarm's _mutex, so it finds the alarm outside Start
\* and Cancel; one that returns at once belongs to a cancelled alarm.
LEMMA CallbackKeeps ==
  ASSUME AlarmInv, IInv', CallbackEnter \/ CallbackReturn
  PROVE  AlarmInv'
<1> USE DEF AlarmInv, IInv
<1>1. pc = "invoke" /\ running \in Message
  BY DEF CallbackEnter, CallbackReturn, Return, LoopShape, TypeOK
<1>2. CASE CallbackReturn
  <2>1. /\ inner /\ ~inner' /\ pc' # "invoke" /\ alive' = alive
        /\ UNCHANGED <<hasCallback, messageId, status, busy, postedId>>
    BY <1>2 DEF CallbackReturn, Return
  <2>2. \A b, i : OnItsWay(b, i) => OnItsWay(b, i)'
    BY <2>1 DEF OnItsWay
  <2>3. AlarmTypeOK'
    BY <1>2, <2>1 DEF AlarmTypeOK, CallbackReturn
  <2>4. QED BY <2>1, <2>2, <2>3 DEF StartShape, OwnIds, WaitingHasMessage
<1>3. CASE CallbackEnter /\ messageId[running.cb] = 0
  <2>1. /\ busy[running.cb] = "no" /\ ~inner
        /\ pc' # "invoke" /\ alive' = alive /\ UNCHANGED alarmVars
    BY <1>3 DEF CallbackEnter, Return
  <2>2. \A b, i : b # running.cb /\ OnItsWay(b, i) => OnItsWay(b, i)'
    BY <2>1 DEF OnItsWay
  <2>3. AlarmTypeOK'
    BY <2>1 DEF AlarmTypeOK, alarmVars
  <2>4. StartShape' /\ OwnIds'
    BY <2>1, <2>2 DEF StartShape, OwnIds, alarmVars
  <2>5. WaitingHasMessage'
    <3>1. SUFFICES ASSUME NEW b \in Alarms, busy[b] = "no", status[b] = "start"
                   PROVE  OnItsWay(b, messageId[b])'
      BY <2>1 DEF WaitingHasMessage, alarmVars
    <3>2. OnItsWay(b, messageId[b])
      BY <3>1 DEF WaitingHasMessage
    <3>3. b # running.cb
      BY <1>3, <3>2, OnItsWayIds DEF Ids
    <3>4. QED BY <2>1, <2>2, <3>2, <3>3 DEF alarmVars
  <2>6. QED BY <2>3, <2>4, <2>5
<1>4. CASE CallbackEnter /\ messageId[running.cb] # 0
  <2>1. /\ busy[running.cb] = "no" /\ inner'
        /\ status' = [status EXCEPT ![running.cb] = "alarm"]
        /\ UNCHANGED <<vars, hasCallback, messageId, busy, postedId>>
    BY <1>4 DEF CallbackEnter
  <2>2. \A b, i : b # running.cb /\ OnItsWay(b, i) => OnItsWay(b, i)'
    BY <2>1 DEF OnItsWay, vars, loopVars
  <2>3. AlarmTypeOK'
    BY <2>1 DEF AlarmTypeOK
  <2>4. StartShape' /\ OwnIds'
    BY <1>1, <2>1, <2>2 DEF StartShape, OwnIds, vars, loopVars
  <2>5. WaitingHasMessage'
    BY <2>1, <2>2 DEF WaitingHasMessage, AlarmTypeOK
  <2>6. QED BY <2>3, <2>4, <2>5
<1>5. QED BY <1>2, <1>3, <1>4

\* The run loop hands a message from its list to callbackMap and from there to
\* the callback without losing it.
LEMMA QueueStepKeeps ==
  ASSUME AlarmInv, IInv', QueueStep
  PROVE  AlarmInv'
<1> USE DEF AlarmInv, IInv
<1>1. UNCHANGED alarmVars
  BY DEF QueueStep
<1>2. pc = "invoke" <=> running # NoMessage
  BY DEF LoopShape
<1>3. ASSUME NEW b, NEW i, OnItsWay(b, i) PROVE OnItsWay(b, i)'
  <2>1. CASE Dispatch
    <3>1. pc = "dispatch" /\ ~inner'
      BY <1>1, <2>1 DEF Dispatch, StartShape, alarmVars
    <3>2. PICK m \in batch :
            \/ UNCHANGED <<pc, running, alive>>
            \/ pc' = "invoke" /\ running' = m /\ alive' = alive \ {m}
      BY <2>1 DEF Dispatch
    <3>3. QED BY <1>1, <1>3, <3>1, <3>2 DEF OnItsWay, alarmVars
  <2>2. CASE Collect \/ EndDispatch \/ TimedWake \/ SpuriousWake
    BY <1>1, <1>3, <2>2 DEF OnItsWay, alarmVars, Collect, EndDispatch, TimedWake, SpuriousWake
  <2>3. CASE Tick
    BY <1>1, <1>3, <2>3 DEF OnItsWay, alarmVars, Tick, loopVars
  <2>4. QED BY <2>1, <2>2, <2>3 DEF QueueStep
<1>4. inner' => pc' = "invoke"
  <2>1. inner' => pc = "invoke"
    BY <1>1 DEF StartShape, alarmVars
  <2>2. QED
    BY <2>1 DEF QueueStep, Collect, Dispatch, EndDispatch, TimedWake, SpuriousWake, Tick, loopVars
<1>5. AlarmTypeOK'
  BY <1>1 DEF AlarmTypeOK, alarmVars
<1>6. StartShape'
  BY <1>1, <1>3, <1>4 DEF StartShape, alarmVars
<1>7. OwnIds'
  BY <1>1 DEF OwnIds, alarmVars
<1>8. WaitingHasMessage'
  BY <1>1, <1>3 DEF WaitingHasMessage, alarmVars
<1>9. QED BY <1>5, <1>6, <1>7, <1>8

\* Every step of the alarms and the queue keeps the invariant.
LEMMA AlarmStep ==
  ASSUME AlarmInv, [AlarmNext]_allVars
  PROVE  AlarmInv'
<1>1. IInv'
  BY AlarmStepIsQueueStep, NextIInv DEF AlarmInv
<1>2. ASSUME NEW a \in Alarms, SetCallback(a) PROVE AlarmInv'
  <2>1. /\ hasCallback' = [hasCallback EXCEPT ![a] = TRUE]
        /\ UNCHANGED <<vars, messageId, status, busy, postedId, inner>>
    BY <1>2 DEF SetCallback
  <2>2. \A b, i : OnItsWay(b, i)' <=> OnItsWay(b, i)
    BY <2>1 DEF OnItsWay, vars, loopVars
  <2>3. AlarmTypeOK'
    BY <1>1, <2>1 DEF AlarmInv, AlarmTypeOK, IInv
  <2>4. QED
    BY <1>1, <2>1, <2>2, <2>3
       DEF AlarmInv, StartShape, OwnIds, WaitingHasMessage, vars, loopVars
<1>3. CASE UNCHANGED allVars
  <2>1. \A b, i : OnItsWay(b, i)' <=> OnItsWay(b, i)
    BY <1>3 DEF OnItsWay, allVars, alarmVars, vars, loopVars
  <2>2. AlarmTypeOK'
    BY <1>1, <1>3 DEF AlarmInv, AlarmTypeOK, IInv, allVars, alarmVars
  <2>3. QED
    BY <1>1, <1>3, <2>1, <2>2
       DEF AlarmInv, StartShape, OwnIds, WaitingHasMessage, allVars, alarmVars,
           vars, loopVars
<1>4. QED
  BY <1>1, <1>2, <1>3, StartPostKeeps, StartReturnKeeps, CancelPostKeeps,
     CancelReturnKeeps, CallbackKeeps, QueueStepKeeps DEF AlarmNext

-----------------------------------------------------------------------------
(***************************************************************************)
(* The invariant holds for any number of alarms and threads (alarm.cpp on  *)
(* top of message_queue.cpp).                                              *)
(***************************************************************************)
THEOREM AlarmInvariant == AlarmSpec => []AlarmInv
<1>1. AlarmInit => AlarmInv
  BY InitAlarmInv
<1>2. AlarmInv /\ [AlarmNext]_allVars => AlarmInv'
  BY AlarmStep
<1>3. QED BY <1>1, <1>2, PTL DEF AlarmSpec

\* Alarms and queue keep their types: _messageId is 0 or an identifier that
\* the queue gave out.
THEOREM AlarmTypeOKAlways == AlarmSpec => []AlarmTypeOK
<1>1. AlarmInv => AlarmTypeOK
  BY DEF AlarmInv
<1>2. QED BY <1>1, AlarmInvariant, PTL

(***************************************************************************)
(* IsWaiting() tells the truth: outside Start and Cancel, an alarm whose   *)
(* status is kStatusStart has its message listed, collected or about to    *)
(* reach the callback, whatever other alarms are started and cancelled.    *)
(***************************************************************************)
THEOREM WaitingHasMessageAlways == AlarmSpec => []WaitingHasMessage
<1>1. AlarmInv => WaitingHasMessage
  BY DEF AlarmInv
<1>2. QED BY <1>1, AlarmInvariant, PTL

(***************************************************************************)
(* The alarms use the queue through its interface only, so what holds of   *)
(* the queue for any callers holds under the alarms.                       *)
(***************************************************************************)
THEOREM AlarmsUseTheQueue == AlarmSpec => Spec
<1>1. AlarmInit => Init
  BY DEF AlarmInit
<1>2. AlarmInv /\ [AlarmNext]_allVars => [Next]_vars
  BY AlarmStepIsQueueStep DEF AlarmInv
<1>3. QED BY <1>1, <1>2, AlarmInvariant, PTL DEF AlarmSpec, Spec

\* In particular the timer service is implemented under the alarms too: no
\* callback of an alarm is started after CancelMessage took its message, or
\* before its time.
THEOREM AlarmsRefineTimer == AlarmSpec => TimerSpec
BY AlarmsUseTheQueue, QueueRefinesTimer, PTL
=============================================================================
