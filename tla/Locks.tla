------------------------------- MODULE Locks --------------------------------
(***************************************************************************)
(* The mutexes of the client and the order in which its threads take them. *)
(* An operation is the sequence of its locks and unlocks as the code has   *)
(* them, with the steps at which one thread needs another: the client      *)
(* thread is started and joined, and user code is called, which may call   *)
(* the public interface again.  What the operations do between locks is    *)
(* the subject of the other modules; a branch that depends on it may go    *)
(* either way here, and one that only takes fewer mutexes than another is  *)
(* left out.                                                               *)
(*                                                                         *)
(* Callbacks of requests run in threads of their own, which are callers    *)
(* like any other.  std::mutex is not recursive: a thread that locks what  *)
(* it holds waits for itself.                                              *)
(***************************************************************************)
EXTENDS Sequences, FiniteSets

CONSTANT App    \* the threads of the application

Free == "free"

ASSUME AppAssumption == App \cap {"client", "queue", Free} = {}

\* The client thread and the thread of the message queue.
Threads == App \cup {"client", "queue"}

\* The mutexes by their names, those of objects by the object: a request's
\* alarm, the three alarms of the client, the message queue, the breakers.
Mutexes ==
    {"_mutex", "_mapMutex", "_timeoutMutex", "_objectPool", "requestAlarm",
     "_pingAlarm", "_pingTimeoutAlarm", "_reconnectAlarm", "SharedQueue",
     "_readWriteBreaker", "_connectBreaker", "_retBreaker"}

VARIABLES
    script,     \* what each thread has still to do of its operation
    owner,      \* the thread that holds each mutex
    life,       \* of the client thread: "none", "running", "ended"
    armed       \* _reconnectAlarm has been started

vars == <<script, owner, life, armed>>

-----------------------------------------------------------------------------
Step(what, of) == [do |-> what, of |-> of]

\* body with mutex l held.
With(l, body) == <<Step("lock", l)>> \o body \o <<Step("unlock", l)>>

Touch(l) == With(l, <<>>)

\* A call of user code, made by the thread itself.
User == <<Step("user", "none")>>

PostMessage == Touch("SharedQueue")
CancelMessage == Touch("SharedQueue")

AlarmStart(a) == With(a, PostMessage)
AlarmCancel(a) == With(a, CancelMessage)

\* Mutant: the callback of an alarm runs with the alarm's mutex held.
AlarmRingsLocked(a, callback) == With(a, callback)

AlarmRings(a, callback) == Touch(a) \o callback

MakeSureConnected ==
    {With("_mutex", Touch("_readWriteBreaker") \o Touch("_connectBreaker")
                      \o <<Step("start", "client")>>),
     Touch("_mutex")}

\* _mutex is unlocked before MakeSureConnected takes it.
DisconnectAsync ==
    {With("_mutex", Touch("_readWriteBreaker") \o Touch("_connectBreaker")),
     Touch("_mutex")}
      \cup {Touch("_mutex") \o s : s \in MakeSureConnected}

Send ==
    {With("_mutex", Touch("_mapMutex") \o Touch("_readWriteBreaker")),
     Touch("_mutex")}

SendNoReply == {With("_mutex", Touch("_readWriteBreaker")), Touch("_mutex")}

SendDisconnect == {With("_mutex", Touch("_readWriteBreaker")), Touch("_mutex")}

\* NetCore, the public interface.
Api ==
    MakeSureConnected \cup Send \cup SendNoReply
      \cup {s \o d : s \in SendDisconnect, d \in DisconnectAsync}

GetCallback == Touch("_mapMutex")

-----------------------------------------------------------------------------
(***************************************************************************)
(* The client thread.                                                      *)
(***************************************************************************)

\* User code is told the status, asked for addresses, asked for what to send
\* in the handshake, and told the status again.
RunConnect ==
    {User \o User \o Touch("_retBreaker") \o Touch("_connectBreaker")
        \o User \o User}

RunSelect ==
    {AlarmStart("_pingAlarm") \o Touch("_mutex") \o Touch("_readWriteBreaker")
        \o Touch("_mutex")}

RunWrite ==
    {Touch("_mutex") \o Touch("_objectPool") \o AlarmStart("requestAlarm")
        \o Touch("_timeoutMutex") \o Touch("_mutex")
        \o AlarmCancel("_pingAlarm") \o AlarmStart("_pingAlarm")}

HandleSendResp == {With("_timeoutMutex", AlarmCancel("requestAlarm")) \o GetCallback}

HandleDisconnect == {d \o User : d \in DisconnectAsync}

Heartbeat == {AlarmCancel("_pingTimeoutAlarm") \o AlarmStart("_pingTimeoutAlarm")}

RunEnds ==
    {AlarmCancel("_pingAlarm") \o AlarmCancel("_pingTimeoutAlarm") \o User
        \o With("_reconnectAlarm", PostMessage \o <<Step("arm", "none")>>)
        \o <<Step("exit", "none")>>}

ClientOperations ==
    RunConnect \cup RunSelect \cup RunWrite \cup HandleSendResp
      \cup HandleDisconnect \cup Heartbeat \cup RunEnds

-----------------------------------------------------------------------------
(***************************************************************************)
(* The thread of the message queue.                                        *)
(***************************************************************************)

\* Mutant: callbacks run under the queue's mutex.
DispatchLocked(callback) == With("SharedQueue", callback)

\* The queue's mutex is released before a callback is called.
Dispatch(callback) == Touch("SharedQueue") \o callback

PingRings ==
    {Dispatch(AlarmRings(a, Touch("_readWriteBreaker"))) :
        a \in {"_pingAlarm", "_pingTimeoutAlarm"}}

RequestRings ==
    {Dispatch(AlarmRings("requestAlarm",
        Touch("_timeoutMutex") \o GetCallback \o d)) :
            d \in DisconnectAsync \cup {<<>>}}

WaitDisconnect ==
    <<Step("join", "client")>>
      \o With("_timeoutMutex", AlarmCancel("requestAlarm")) \o GetCallback

ReconnectRings ==
    {Dispatch(AlarmRings("_reconnectAlarm", WaitDisconnect \o s)) :
        s \in MakeSureConnected \cup {<<>>}}

-----------------------------------------------------------------------------
Init ==
    /\ script = [t \in Threads |-> <<>>]
    /\ owner = [l \in Mutexes |-> Free]
    /\ life = "none"
    /\ armed = FALSE

Begin(t, operations) ==
    /\ script[t] = <<>>
    /\ \E s \in operations : script' = [script EXCEPT ![t] = s]

AppBegins(t) == Begin(t, Api) /\ UNCHANGED <<owner, life, armed>>

ClientBegins ==
    life = "running" /\ Begin("client", ClientOperations) /\ UNCHANGED <<owner, life, armed>>

QueueBegins ==
    \/ Begin("queue", PingRings \cup RequestRings) /\ UNCHANGED <<owner, life, armed>>
    \/ /\ armed /\ armed' = FALSE
       /\ Begin("queue", ReconnectRings)
       /\ UNCHANGED <<owner, life>>

At(t, what) == script[t] # <<>> /\ Head(script[t]).do = what

Object(t) == Head(script[t]).of

Proceed(t) == script' = [script EXCEPT ![t] = Tail(@)]

Lock(t) ==
    /\ At(t, "lock")
    /\ owner[Object(t)] = Free
    /\ owner' = [owner EXCEPT ![Object(t)] = t]
    /\ Proceed(t)
    /\ UNCHANGED <<life, armed>>

Unlock(t) ==
    /\ At(t, "unlock")
    /\ owner' = [owner EXCEPT ![Object(t)] = Free]
    /\ Proceed(t)
    /\ UNCHANGED <<life, armed>>

\* User code calls one operation of the public interface, or none.
CallUser(t) ==
    /\ At(t, "user")
    /\ \E s \in Api \cup {<<>>} : script' = [script EXCEPT ![t] = s \o Tail(@)]
    /\ UNCHANGED <<owner, life, armed>>

\* If there is a thread already nothing is started.
StartClient(t) ==
    /\ At(t, "start")
    /\ life' = IF life = "none" THEN "running" ELSE life
    /\ Proceed(t)
    /\ UNCHANGED <<owner, armed>>

ArmReconnect(t) ==
    /\ At(t, "arm")
    /\ armed' = TRUE
    /\ Proceed(t)
    /\ UNCHANGED <<owner, life>>

ExitClient(t) ==
    /\ At(t, "exit")
    /\ life' = "ended"
    /\ Proceed(t)
    /\ UNCHANGED <<owner, armed>>

JoinClient(t) ==
    /\ At(t, "join")
    /\ life = "ended"
    /\ life' = "none"
    /\ Proceed(t)
    /\ UNCHANGED <<owner, armed>>

Next ==
    \/ \E t \in App : AppBegins(t)
    \/ ClientBegins \/ QueueBegins
    \/ \E t \in Threads :
          \/ Lock(t) \/ Unlock(t) \/ CallUser(t)
          \/ StartClient(t) \/ ArmReconnect(t) \/ ExitClient(t) \/ JoinClient(t)

Spec == Init /\ [][Next]_vars

-----------------------------------------------------------------------------
\* Thread t cannot go on before thread u has.
WaitsFor(t, u) ==
    \/ At(t, "lock") /\ owner[Object(t)] = u
    \/ At(t, "join") /\ u = "client" /\ life = "running"

(***************************************************************************)
(* No threads ever wait for each other in a circle, and none for itself,   *)
(* whatever user code calls from a callback: alarms release their mutex    *)
(* before the callback ("else deadlock", alarm.cpp:30), the queue its own, *)
(* DisconnectAsync its own before connecting ("must unlock",               *)
(* tcp_client.cpp:143), and a caller is told asynchronously                *)
(* (tcp_client.cpp:215).                                                   *)
(***************************************************************************)
NoWaitCycle ==
    \A S \in SUBSET Threads :
        S # {} => \E t \in S : \A u \in S : ~WaitsFor(t, u)

(***************************************************************************)
(* Nobody asks for _mutex while holding another mutex (tcp_client.cpp:211, *)
(* "do not request _mutex while holding another lock, that is a            *)
(* deadlock"): neither the callers nor the threads that call               *)
(* DisconnectAsync and MakeSureConnected from callbacks of alarms.         *)
(***************************************************************************)
MutexIsFirst ==
    \A t \in Threads :
        At(t, "lock") /\ Object(t) = "_mutex" => \A l \in Mutexes : owner[l] # t
=============================================================================
