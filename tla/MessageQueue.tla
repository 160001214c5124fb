---------------------------- MODULE MessageQueue ----------------------------
(***************************************************************************)
(* The process-wide timer of the client, common/message_queue.cpp: a list  *)
(* of messages sorted by time, served by one detached thread (__RunLoop).  *)
(* PostMessage and CancelMessage run in any thread under _mutex and are    *)
(* one step each.  The run loop is cut where it releases _mutex: Collect   *)
(* (the locked block that takes the due messages off the list), one        *)
(* Dispatch per collected message (the locked look at the cancelled ids),  *)
(* the callback itself, and EndDispatch (the locked decision to wait).     *)
(*                                                                         *)
(* Time is a clock of TicksPerMs ticks per millisecond, because the code   *)
(* compares in truncated milliseconds times it keeps with the resolution   *)
(* of system_clock.                                                        *)
(***************************************************************************)
EXTENDS Integers, SequencesExt

CONSTANTS
    Callbacks,    \* the callbacks a message may carry
    NoCallback,   \* a null std::function
    Delays,       \* afterSec of PostMessage, in clock ticks
    TicksPerMs,   \* clock ticks in one millisecond
    IdLimit,      \* UINT32_MAX in the code
    MaxTime,      \* bound on the clock
    NoMessage     \* "no callback is being run"

ASSUME QueueAssumption ==
    /\ Delays \subseteq Nat
    /\ TicksPerMs \in Nat \ {0}
    /\ IdLimit \in Nat /\ IdLimit > 2
    /\ MaxTime \in Nat
    /\ NoCallback \notin Callbacks

Ids == 1..(IdLimit - 1)

Message == [id : Ids, when : 0..MaxTime, cb : Callbacks \cup {NoCallback}]

ASSUME NoMessageAssumption == NoMessage \notin Message

\* duration of the run loop when the list is empty: wait without a deadline.
\* A deadline is never 0, since it lies at least one millisecond ahead.
Forever == 0

VARIABLES
    now,        \* system_clock
    queue,      \* the list from _firstMessage on
    nextId,     \* _currentMsgId
    canceled,   \* the keys of _canceledMessageIds
    hasPost,    \* _hasPost
    pc,         \* where the run loop is: "top", "dispatch", "invoke", "wait"
    batch,      \* the entries of callbackMap not yet looked at
    running,    \* the message whose callback the loop is committed to calling
    wakeAt,     \* the deadline of wait_until, or Forever
    alive       \* history: the messages posted with a callback that were
                \* neither cancelled nor run since, as the callers see it

loopVars == <<pc, batch, running, wakeAt>>
vars == <<now, queue, nextId, canceled, hasPost, loopVars, alive>>

Elems == {queue[i] : i \in 1..Len(queue)}

\* Mutant: the times are compared with the resolution of the clock.
DueExactly(m) == m.when <= now

\* duration_cast to milliseconds truncates towards zero, so a message is due
\* from one tick less than a millisecond before its time on.
Due(m) == m.when - now < TicksPerMs

\* DURATION_TO_MS of the time left, back in clock ticks.
WholeMs(t) == TicksPerMs * (t \div TicksPerMs)

Init ==
    /\ now = 0
    /\ queue = <<>>
    /\ nextId = 1
    /\ canceled = {}
    /\ hasPost = FALSE
    /\ pc = "top"
    /\ batch = {}
    /\ running = NoMessage
    /\ wakeAt = Forever
    /\ alive = {}

-----------------------------------------------------------------------------
\* Bound on the identifiers: fewer than IdLimit - 1 messages are posted
\* during the life of one message (2^32 - 2 in the code).
NextIdIsFree == \A m \in Elems \cup batch : m.id # nextId

\* Mutant: every message goes to the head of the list.
InsertAtHead(m) == queue' = InsertAt(queue, 1, m)

\* The new message goes before the first one that is not earlier than it.
InsertByTime(m) ==
    \E p \in 1..(Len(queue) + 1) :
        /\ \A i \in 1..(p - 1) : queue[i].when < m.when
        /\ p <= Len(queue) => ~(queue[p].when < m.when)
        /\ queue' = InsertAt(queue, p, m)

\* Mutant: the identifier is not wrapped before UINT32_MAX.
NextIdUnwrapped(i) == i + 1

FollowingId(i) == IF i + 1 = IdLimit THEN 1 ELSE i + 1

PostMessage(d, c) ==
    /\ now + d <= MaxTime
    /\ NextIdIsFree
    /\ LET m == [id |-> nextId, when |-> now + d, cb |-> c]
       IN  /\ InsertByTime(m)
           /\ alive' = IF c = NoCallback THEN alive ELSE alive \cup {m}
    /\ nextId' = FollowingId(nextId)
    /\ hasPost' = TRUE
    /\ pc' = IF pc = "wait" THEN "top" ELSE pc       \* notify_all
    /\ UNCHANGED <<now, canceled, batch, running, wakeAt>>

\* Mutant: only a message that is still listed is marked as cancelled.
CancelListedOnly(i) ==
    /\ \/ \E p \in 1..Len(queue) :
             /\ queue[p].id = i
             /\ queue' = RemoveAt(queue, p)
             /\ canceled' = canceled \cup {i}
       \/ /\ \A m \in Elems : m.id # i
          /\ UNCHANGED <<queue, canceled>>
    /\ alive' = {m \in alive : m.id # i}
    /\ UNCHANGED <<now, nextId, hasPost, loopVars>>

\* The identifier is recorded even when the message is no longer listed: the
\* run loop may have collected it.
CancelMessage(i) ==
    /\ canceled' = canceled \cup {i}
    /\ \/ \E p \in 1..Len(queue) :
             /\ queue[p].id = i
             /\ \A j \in 1..(p - 1) : queue[j].id # i
             /\ queue' = RemoveAt(queue, p)
       \/ /\ \A m \in Elems : m.id # i
          /\ UNCHANGED queue
    /\ alive' = {m \in alive : m.id # i}
    /\ UNCHANGED <<now, nextId, hasPost, loopVars>>

-----------------------------------------------------------------------------
\* Mutant: the cancelled identifiers are kept from one round to the next.
CollectKeepsCanceled ==
    /\ pc = "top"
    /\ \E k \in 0..Len(queue) :
          /\ \A i \in 1..k : Due(queue[i])
          /\ k < Len(queue) => ~Due(queue[k + 1])
          /\ queue' = SubSeq(queue, k + 1, Len(queue))
          /\ batch' = {m \in {queue[i] : i \in 1..k} : m.cb # NoCallback}
          /\ wakeAt' = IF k = Len(queue) THEN Forever
                       ELSE now + WholeMs(queue[k + 1].when - now)
    /\ hasPost' = FALSE
    /\ pc' = "dispatch"
    /\ UNCHANGED <<now, nextId, canceled, running, alive>>

\* __RunLoop, from the lock at the top to the unlock before the callbacks.
Collect ==
    /\ pc = "top"
    /\ \E k \in 0..Len(queue) :
          /\ \A i \in 1..k : Due(queue[i])
          /\ k < Len(queue) => ~Due(queue[k + 1])
          /\ queue' = SubSeq(queue, k + 1, Len(queue))
          /\ batch' = {m \in {queue[i] : i \in 1..k} : m.cb # NoCallback}
          /\ LET duration == IF k = Len(queue) THEN 0
                             ELSE WholeMs(queue[k + 1].when - now)
             IN  wakeAt' = IF duration = 0 THEN Forever ELSE now + duration
    /\ canceled' = {}
    /\ hasPost' = FALSE
    /\ pc' = "dispatch"
    /\ UNCHANGED <<now, nextId, running, alive>>

\* One round of the loop over callbackMap, which is ordered by identifier.
Dispatch ==
    /\ pc = "dispatch"
    /\ \E m \in batch :
          /\ \A n \in batch : m.id <= n.id
          /\ batch' = batch \ {m}
          /\ \/ /\ m.id \in canceled
                /\ UNCHANGED <<pc, running, alive>>
             \/ /\ m.id \notin canceled
                /\ pc' = "invoke"
                /\ running' = m
                /\ alive' = alive \ {m}
    /\ UNCHANGED <<now, queue, nextId, canceled, hasPost, wakeAt>>

Return ==
    /\ pc = "invoke"
    /\ pc' = "dispatch"
    /\ running' = NoMessage
    /\ UNCHANGED <<now, queue, nextId, canceled, hasPost, batch, wakeAt, alive>>

\* Mutant: the flag for a notify nobody waited for is not looked at.
EndDispatchIgnoresPost ==
    /\ pc = "dispatch"
    /\ batch = {}
    /\ hasPost' = FALSE
    /\ pc' = "wait"
    /\ UNCHANGED <<now, queue, nextId, canceled, batch, running, wakeAt, alive>>

\* The lock after the callbacks: go round again if something was posted
\* while the lock was released, otherwise wait.
EndDispatch ==
    /\ pc = "dispatch"
    /\ batch = {}
    /\ hasPost' = FALSE
    /\ pc' = IF hasPost THEN "top" ELSE "wait"
    /\ UNCHANGED <<now, queue, nextId, canceled, batch, running, wakeAt, alive>>

TimedWake ==
    /\ pc = "wait"
    /\ wakeAt # Forever
    /\ now >= wakeAt
    /\ pc' = "top"
    /\ UNCHANGED <<now, queue, nextId, canceled, hasPost, batch, running, wakeAt, alive>>

SpuriousWake ==
    /\ pc = "wait"
    /\ pc' = "top"
    /\ UNCHANGED <<now, queue, nextId, canceled, hasPost, batch, running, wakeAt, alive>>

Tick ==
    /\ now < MaxTime
    /\ now' = now + 1
    /\ UNCHANGED <<queue, nextId, canceled, hasPost, loopVars, alive>>

-----------------------------------------------------------------------------
RunLoop == Collect \/ Dispatch \/ Return \/ EndDispatch \/ TimedWake

Next ==
    \/ \E d \in Delays, c \in Callbacks \cup {NoCallback} : PostMessage(d, c)
    \/ \E i \in Ids : CancelMessage(i)
    \/ RunLoop
    \/ SpuriousWake
    \/ Tick

Spec == Init /\ [][Next]_vars

\* The run loop's thread keeps being scheduled, its callbacks return, and
\* time passes.  A spurious wake-up is never relied upon.
FairSpec == Spec /\ WF_vars(RunLoop) /\ WF_vars(Tick)

-----------------------------------------------------------------------------
TypeOK ==
    /\ now \in 0..MaxTime
    /\ queue \in Seq(Message)
    /\ nextId \in Ids
    /\ canceled \subseteq Ids
    /\ hasPost \in BOOLEAN
    /\ pc \in {"top", "dispatch", "invoke", "wait"}
    /\ batch \subseteq Message
    /\ running \in Message \cup {NoMessage}
    /\ wakeAt \in Nat
    /\ alive \subseteq Message

(***************************************************************************)
(* The list is sorted by time (PostMessage, lines 110-133): __RunLoop only *)
(* ever looks at the head, so a message out of order would be late.        *)
(***************************************************************************)
Sorted == \A i, j \in 1..Len(queue) : i < j => queue[i].when <= queue[j].when

(***************************************************************************)
(* _hasPost makes up for a notify_all nobody was waiting for: once the     *)
(* loop has decided how long to wait, every listed message either was      *)
(* taken into account by its deadline or has set _hasPost.                 *)
(***************************************************************************)
NoLostWakeup ==
    (pc # "top" /\ ~hasPost) =>
        \A i \in 1..Len(queue) : wakeAt # Forever /\ wakeAt <= queue[i].when

\* Where a message that may still run is: listed, or collected and not
\* cancelled since.
Pending ==
    {m \in Elems : m.cb # NoCallback} \cup {m \in batch : m.id \notin canceled}

(***************************************************************************)
(* The list, callbackMap and _canceledMessageIds together say exactly      *)
(* which messages may still run: nothing posted is dropped by the run      *)
(* loop, and nothing cancelled is left behind (lines 42-54, 65, 153).      *)
(***************************************************************************)
AliveIsPending == alive = Pending

-----------------------------------------------------------------------------
\* A message is in one place only, so cancelling one never hits another.
UniqueIds ==
    /\ \A i, j \in 1..Len(queue) : i # j => queue[i].id # queue[j].id
    /\ \A i \in 1..Len(queue), m \in batch : queue[i].id # m.id
    /\ \A m, n \in batch : m.id = n.id => m = n

\* What the run loop holds at each point: callbackMap is used up before the
\* loop waits, and what is in it was due when it was collected.
LoopShape ==
    /\ pc \in {"top", "wait"} => batch = {}
    /\ pc = "wait" => ~hasPost
    /\ pc = "invoke" <=> running # NoMessage
    /\ \A m \in batch : m.cb # NoCallback /\ Due(m)

\* The inductive invariant of MessageQueueProofs.
IInv ==
    /\ TypeOK
    /\ Sorted
    /\ NoLostWakeup
    /\ AliveIsPending
    /\ UniqueIds
    /\ LoopShape

Timer == INSTANCE TimerService WITH pending <- alive

(***************************************************************************)
(* The queue implements the timer service: in particular a callback is     *)
(* never started after CancelMessage returned, nor before its time, and    *)
(* callbacks run one at a time (message_queue.cpp, lines 64-78).           *)
(***************************************************************************)
TimerSpec == Timer!Spec

(***************************************************************************)
(* Every message with a callback is run or cancelled: the run loop never   *)
(* sleeps through a message's time (lines 56-63 and 81-90).                *)
(***************************************************************************)
EveryTimerEnds == Timer!EveryTimerEnds
=============================================================================
