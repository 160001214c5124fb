-------------------------- MODULE RequestTimeouts ---------------------------
(***************************************************************************)
(* The timeouts of requests during one connection after another: the       *)
(* alarms that __RunReadWrite takes from the object pool (object_pool.hpp) *)
(* and keeps in _timeoutAlarmMap, the replies and timeouts that end them,  *)
(* and the way back into the pool.  Module TcpClient gives every request   *)
(* an alarm of its own; here an alarm is an object that is used again.     *)
(*                                                                         *)
(* Start and Cancel of an alarm are one step each (module Alarm has their  *)
(* parts).  Every message carries, as history, the request it was posted   *)
(* for.  Time is left out: a message may ring at any moment, and a thread  *)
(* may be held up anywhere.                                                *)
(***************************************************************************)
EXTENDS Integers, SequencesExt

CONSTANTS
    Alarms,     \* the alarm objects; their number bounds what "new" creates
    NoAlarm,
    Ids,        \* the identifiers of requests that expect a reply
    MaxPosts,   \* bound on the messages in the queue of timers at a time
    NoReply     \* SendNoReply is used

ASSUME TimeoutsAssumption ==
    /\ NoAlarm \notin Alarms
    /\ Ids \subseteq Nat \ {0} /\ IsFiniteSet(Ids)
    /\ MaxPosts \in Nat
    /\ NoReply \in BOOLEAN

Keys == Ids \cup {0}
PostIds == 1..MaxPosts
Posting == [mid : PostIds, alarm : Alarms, owner : Keys]

VARIABLES
    user, status, mid,  \* _userData, _status and _messageId of each alarm
    made,               \* the alarms that exist
    pool,               \* _pool
    timeoutMap,         \* _timeoutAlarmMap
    callbacks,          \* the keys of _callbackMap
    posted,             \* the messages of alarms in the message queue
    cpc, hand, cid,     \* the client thread: place, alarmPtr, message written
    qpc, qmsg, qid,     \* the queue's thread: place, message, messageId
    raced,              \* history: the messages whose alarm a reply has given
                        \* back while the callback was entered and had not yet
                        \* read its request, and those that such a callback left
                        \* behind in turn
    replaced            \* history: those whose alarm went back uncancelled because
                        \* a request without reply took its place in the map

alarmVars == <<user, status, mid, posted>>
poolVars == <<made, pool, timeoutMap>>
clientVars == <<cpc, hand, cid>>
queueVars == <<qpc, qmsg, qid>>
histVars == <<raced, replaced>>
vars == <<alarmVars, poolVars, callbacks, clientVars, queueVars, histVars>>

Init ==
    /\ user = [a \in Alarms |-> 0]
    /\ status = [a \in Alarms |-> "init"]
    /\ mid = [a \in Alarms |-> 0]
    /\ made = {} /\ pool = <<>>
    /\ timeoutMap = [k \in Keys |-> NoAlarm]
    /\ callbacks = {} /\ posted = {}
    /\ cpc = "idle" /\ hand = NoAlarm /\ cid = 0
    /\ qpc = "idle" /\ qmsg = [mid |-> 0] /\ qid = 0
    /\ raced = {} /\ replaced = {}

-----------------------------------------------------------------------------
\* The queue's thread is inside a callback that has not yet read its request.
Entering == qpc \in {"enter", "user"}

\* The messages in the queue and the one whose callback is running.
Outstanding == posted \cup (IF qpc = "idle" THEN {} ELSE {qmsg})

\* ObjectPool::Get.
TakeAlarm(a) ==
    \/ /\ pool = <<>>
       /\ a \in Alarms \ made
       /\ made' = made \cup {a}
       /\ UNCHANGED pool
    \/ /\ pool # <<>>
       /\ a = Last(pool)
       /\ pool' = Front(pool)
       /\ UNCHANGED made

\* Bound on the identifiers: one is not used again while anything of the
\* request that had it is left (they are 16 bits wide in the code).
IdIsFree(k) ==
    k \in Ids =>
        /\ timeoutMap[k] = NoAlarm /\ k \notin callbacks
        /\ \A m \in posted \cup {qmsg} : m.mid # 0 => m.owner # k
        /\ qid # k

\* A SendReq has been written: take an alarm, tell it its request.
Written(k) ==
    /\ cpc = "idle"
    /\ k = 0 => NoReply
    /\ IdIsFree(k)
    /\ \E a \in Alarms :
          /\ TakeAlarm(a)
          /\ user' = [user EXCEPT ![a] = k]
          /\ hand' = a
    /\ callbacks' = callbacks \cup ({k} \cap Ids)
    /\ cid' = k
    /\ cpc' = "start"
    /\ UNCHANGED <<status, mid, posted, timeoutMap, queueVars, histVars>>

\* Mutant: Start refuses an alarm that has rung.
StartUnlessRung ==
    /\ cpc = "start"
    /\ \/ /\ status[hand] \in {"start", "alarm"}
          /\ UNCHANGED alarmVars
       \/ /\ status[hand] \notin {"start", "alarm"}
          /\ \E n \in PostIds :
                /\ \A m \in posted : m.mid # n
                /\ qmsg.mid # n
                /\ \A a \in Alarms : mid[a] # n
                /\ posted' = posted \cup {[mid |-> n, alarm |-> hand, owner |-> cid]}
                /\ mid' = [mid EXCEPT ![hand] = n]
          /\ status' = [status EXCEPT ![hand] = "start"]
          /\ UNCHANGED user
    /\ cpc' = "record"
    /\ UNCHANGED <<poolVars, callbacks, hand, cid, queueVars, histVars>>

\* Alarm::Start, which returns false for an alarm that is already waiting.
StartAlarm ==
    /\ cpc = "start"
    /\ \/ /\ status[hand] = "start"
          /\ UNCHANGED alarmVars
       \/ /\ status[hand] # "start"
          /\ \E n \in PostIds :
                /\ \A m \in posted : m.mid # n
                /\ qmsg.mid # n
                /\ \A a \in Alarms : mid[a] # n
                /\ posted' = posted \cup {[mid |-> n, alarm |-> hand, owner |-> cid]}
                /\ mid' = [mid EXCEPT ![hand] = n]
          /\ status' = [status EXCEPT ![hand] = "start"]
          /\ UNCHANGED user
    /\ cpc' = "record"
    /\ UNCHANGED <<poolVars, callbacks, hand, cid, queueVars, histVars>>

\* The assignment to the map; an alarm it replaces goes back to the pool.
RecordAlarm ==
    /\ cpc = "record"
    /\ timeoutMap' = [timeoutMap EXCEPT ![cid] = hand]
    /\ pool' = IF timeoutMap[cid] = NoAlarm THEN pool
               ELSE Append(pool, timeoutMap[cid])
    /\ replaced' = replaced \cup {m \in Outstanding : m.alarm = timeoutMap[cid]}
    /\ cpc' = "idle" /\ hand' = NoAlarm /\ cid' = 0
    /\ UNCHANGED <<alarmVars, made, callbacks, queueVars, raced>>

\* Mutant: an alarm is given back without being canceled.
CancelNothing(S) == S \subseteq Alarms /\ UNCHANGED alarmVars

\* Alarm::Cancel on each alarm of S; one that has no message is left alone.
CancelAlarms(S) ==
    LET C == {a \in S : mid[a] # 0} IN
    /\ posted' = {m \in posted : ~(m.alarm \in C /\ m.mid = mid[m.alarm])}
    /\ mid' = [a \in Alarms |-> IF a \in C THEN 0 ELSE mid[a]]
    /\ status' = [a \in Alarms |-> IF a \in C THEN "cancel" ELSE status[a]]
    /\ UNCHANGED user

\* __handleSendResp.  A reply that finds neither alarm nor callback any more
\* does nothing.
Reply(k) ==
    /\ cpc = "idle"
    /\ k \in callbacks \/ timeoutMap[k] # NoAlarm
    /\ callbacks' = callbacks \ {k}
    /\ \/ /\ timeoutMap[k] = NoAlarm
          /\ UNCHANGED <<alarmVars, pool, timeoutMap, raced>>
       \/ /\ timeoutMap[k] # NoAlarm
          /\ CancelAlarms({timeoutMap[k]})
          /\ timeoutMap' = [timeoutMap EXCEPT ![k] = NoAlarm]
          /\ pool' = Append(pool, timeoutMap[k])
          /\ raced' = (raced \ (posted \ posted'))
                        \cup {m \in Outstanding : Entering /\ m = qmsg /\ m.alarm = timeoutMap[k]}
    /\ replaced' = replaced \ (posted \ posted')
    /\ UNCHANGED <<made, clientVars, queueVars>>

\* __WaitDisconnect, in the queue's thread, when the client thread is over.
\* What it does to the callbacks is the subject of module TcpClient.
EndConnection ==
    LET K == {k \in Keys : timeoutMap[k] # NoAlarm}
    IN  /\ cpc = "idle" /\ qpc = "idle"
        /\ K # {}
        /\ CancelAlarms({timeoutMap[k] : k \in K})
        /\ timeoutMap' = [k \in Keys |-> NoAlarm]
        /\ \E inOrder \in SetToSeqs(K) :
              /\ \A i, j \in DOMAIN inOrder : i < j => inOrder[i] < inOrder[j]
              /\ pool' = pool \o [i \in DOMAIN inOrder |-> timeoutMap[inOrder[i]]]
        /\ callbacks' = {}
        /\ raced' = raced \cap posted' /\ replaced' = replaced \cap posted'
        /\ UNCHANGED <<made, clientVars, queueVars>>

-----------------------------------------------------------------------------
\* The queue commits to a message.
Rings(m) ==
    /\ qpc = "idle"
    /\ m \in posted
    /\ posted' = posted \ {m}
    /\ qmsg' = m
    /\ qpc' = "enter"
    /\ UNCHANGED <<user, status, mid, poolVars, callbacks, clientVars, qid, histVars>>

Leave ==
    /\ qpc' = "idle" /\ qmsg' = [mid |-> 0] /\ qid' = 0
    /\ raced' = raced \ {qmsg} /\ replaced' = replaced \ {qmsg}

\* The lambda of SetCallback.
Enter ==
    /\ qpc = "enter"
    /\ \/ /\ mid[qmsg.alarm] = 0
          /\ Leave
          /\ UNCHANGED status
       \/ /\ mid[qmsg.alarm] # 0
          /\ status' = [status EXCEPT ![qmsg.alarm] = "alarm"]
          /\ qpc' = "user"
          /\ UNCHANGED <<qmsg, qid, histVars>>
    /\ UNCHANGED <<user, mid, posted, poolVars, callbacks, clientVars>>

\* GetUserData, with no lock held.
ReadUser ==
    /\ qpc = "user"
    /\ qid' = user[qmsg.alarm]
    /\ qpc' = "erase"
    /\ UNCHANGED <<alarmVars, poolVars, callbacks, clientVars, qmsg, histVars>>

\* Mutant: that the map has no entry any more is not looked at.
EraseUnchecked ==
    /\ qpc = "erase"
    /\ timeoutMap' = [timeoutMap EXCEPT ![qid] = NoAlarm]
    /\ pool' = Append(pool, timeoutMap[qid])
    /\ qpc' = "call"
    /\ UNCHANGED <<alarmVars, made, callbacks, clientVars, qmsg, qid, histVars>>

\* Mutant: the alarm goes back to the pool and stays in the map.
EraseKeepsEntry ==
    /\ qpc = "erase"
    /\ pool' = IF timeoutMap[qid] = NoAlarm THEN pool
               ELSE Append(pool, timeoutMap[qid])
    /\ qpc' = "call"
    /\ UNCHANGED <<alarmVars, made, timeoutMap, callbacks, clientVars, qmsg, qid, histVars>>

\* The alarm whose callback is running goes back to the pool, uncancelled; or
\* another one does, if the request is not that callback's own, or has the key
\* that all requests without reply share.
EraseAlarm ==
    /\ qpc = "erase"
    /\ timeoutMap' = [timeoutMap EXCEPT ![qid] = NoAlarm]
    /\ pool' = IF timeoutMap[qid] = NoAlarm THEN pool
               ELSE Append(pool, timeoutMap[qid])
    /\ qpc' = "call"
    /\ LET left == {m \in posted : m.alarm = timeoutMap[qid]} IN
       \/ /\ qmsg \in raced
          /\ raced' = raced \cup left
          /\ UNCHANGED replaced
       \/ /\ qmsg \notin raced
          /\ qmsg \in replaced \/ timeoutMap[qid] # qmsg.alarm
          /\ replaced' = replaced \cup left
          /\ UNCHANGED raced
       \/ /\ qmsg \notin raced \cup replaced
          /\ timeoutMap[qid] = qmsg.alarm
          /\ UNCHANGED histVars
    /\ UNCHANGED <<alarmVars, made, callbacks, clientVars, qmsg, qid>>

CallTimeout ==
    /\ qpc = "call"
    /\ callbacks' = callbacks \ {qid}
    /\ Leave
    /\ UNCHANGED <<alarmVars, poolVars, clientVars>>

-----------------------------------------------------------------------------
Next ==
    \/ \E k \in Keys : Written(k)
    \/ StartAlarm \/ RecordAlarm
    \/ \E k \in Ids : Reply(k)
    \/ EndConnection
    \/ \E m \in posted : Rings(m)
    \/ Enter \/ ReadUser \/ EraseAlarm \/ CallTimeout

Spec == Init /\ [][Next]_vars

-----------------------------------------------------------------------------
TypeOK ==
    /\ user \in [Alarms -> Keys]
    /\ status \in [Alarms -> {"init", "start", "alarm", "cancel"}]
    /\ mid \in [Alarms -> PostIds \cup {0}]
    /\ made \subseteq Alarms /\ pool \in Seq(made)
    /\ timeoutMap \in [Keys -> made \cup {NoAlarm}]
    /\ callbacks \subseteq Ids
    /\ posted \subseteq Posting
    /\ cpc \in {"idle", "start", "record"}
    /\ hand \in made \cup {NoAlarm} /\ cid \in Keys
    /\ qpc \in {"idle", "enter", "user", "erase", "call"}
    /\ qmsg \in Posting \cup {[mid |-> 0]} /\ qid \in Keys
    /\ raced \subseteq Outstanding /\ replaced \subseteq Outstanding

(***************************************************************************)
(* An alarm has one owner: it is in the pool once, or in the map under one *)
(* key, or in the hand of the client thread (the unique_ptr of Get).       *)
(***************************************************************************)
OneOwner ==
    \A a \in made :
        Cardinality({i \in DOMAIN pool : pool[i] = a})
          + Cardinality({k \in Keys : timeoutMap[k] = a})
          + (IF hand = a THEN 1 ELSE 0) = 1

(***************************************************************************)
(* A request that is in the map and still waits for its callback has a     *)
(* message on its way that will end it, whatever has become of its alarm   *)
(* meanwhile, so that no written request waits for ever                    *)
(* (tcp_client.cpp:546-580).                                               *)
(***************************************************************************)
Coming(a, k) ==
    \/ \E m \in posted : m.alarm = a
    \/ qpc \in {"enter", "user"} /\ qmsg.alarm = a
    \/ qpc \in {"erase", "call"} /\ qid = k

RecordedWillRing ==
    \A k \in callbacks : timeoutMap[k] # NoAlarm => Coming(timeoutMap[k], k)

(***************************************************************************)
(* A request is timed out by the message posted for it, kSendReqTimeout    *)
(* after it was written (tcp_client.cpp:35), not by an older one, unless   *)
(* the alarm of the older one went back to the pool too early in one of    *)
(* two ways: a reply met its callback before GetUserData (line 551), or a  *)
(* request without reply took its place in the map (line 579).             *)
(***************************************************************************)
TimeoutIsItsOwn ==
    qpc \in {"erase", "call"} => qid = qmsg.owner \/ qmsg \in raced \cup replaced

(***************************************************************************)
(* The same, with only the first of the two ways excepted.                 *)
(***************************************************************************)
NoReplyIsHarmless ==
    qpc \in {"erase", "call"} => qid = qmsg.owner \/ qmsg \in raced

-----------------------------------------------------------------------------
(***************************************************************************)
(* What makes the properties inductive; module RequestTimeoutsProofs.      *)
(***************************************************************************)

\* Each thread holds something exactly while it is in the middle of it.
ThreadShape ==
    /\ cpc = "idle" => hand = NoAlarm
    /\ cpc # "idle" => hand # NoAlarm
    /\ qpc # "idle" => qmsg \in Posting

\* OneOwner, place by place.
Owned ==
    /\ \A i, j \in 1..Len(pool) : i # j => pool[i] # pool[j]
    /\ \A k, l \in Keys : k # l /\ timeoutMap[k] # NoAlarm => timeoutMap[k] # timeoutMap[l]
    /\ \A i \in 1..Len(pool) : pool[i] # hand /\ \A k \in Keys : timeoutMap[k] # pool[i]
    /\ hand # NoAlarm => \A k \in Keys : timeoutMap[k] # hand
    /\ \A a \in made :
          \/ hand = a
          \/ \E i \in 1..Len(pool) : pool[i] = a
          \/ \E k \in Keys : timeoutMap[k] = a

\* A message has an identifier of its own.
MessageShape ==
    /\ \A m, n \in posted : m.mid = n.mid => m = n
    /\ qpc # "idle" => \A m \in posted : m.mid # qmsg.mid

\* An alarm in use knows its request; in the map it has a message identifier.
UsedShape ==
    /\ \A k \in Keys : timeoutMap[k] # NoAlarm =>
          user[timeoutMap[k]] = k /\ mid[timeoutMap[k]] # 0
    /\ cpc # "idle" => user[hand] = cid
    /\ cpc = "record" => mid[hand] # 0

\* The messages whose alarm went back to the pool too early.
Stray == raced \cup replaced

\* The alarm of m is in the map under m's request, or about to be.
Placed(m) ==
    \/ timeoutMap[m.owner] = m.alarm
    \/ cpc = "record" /\ hand = m.alarm /\ cid = m.owner

\* Another message that is not stray waits for alarm a.
Awaited(a) == \E m \in posted \ Stray : m.alarm = a

\* A message that is not stray is the one its alarm knows of.
PostedShape ==
    \A m \in posted \ Stray : m.mid = mid[m.alarm] /\ Placed(m)

\* So is one whose callback is running, until a reply takes its request; what
\* is left then is an identifier that nobody uses.
RingingShape ==
    qpc # "idle" /\ qmsg \notin Stray =>
        /\ qpc \in {"enter", "user"} => Placed(qmsg) /\ ~Awaited(qmsg.alarm)
        /\ qpc \in {"erase", "call"} => qid = qmsg.owner
        /\ qpc = "erase" =>
              \/ Placed(qmsg) /\ ~Awaited(qmsg.alarm)
              \/ qid # 0 /\ timeoutMap[qid] = NoAlarm /\ (cpc # "idle" => cid # qid)

\* An alarm that is waiting has a message, its own or one it inherited.
WaitingShape ==
    \A a \in Alarms : status[a] = "start" =>
        /\ mid[a] # 0
        /\ \/ \E m \in posted : m.alarm = a
           \/ qpc = "enter" /\ qmsg.alarm = a

\* RecordedWillRing, for the request that is about to be recorded too.
RecordedShape ==
    /\ RecordedWillRing
    /\ cpc = "record" /\ cid \in callbacks => Coming(hand, cid)
=============================================================================
