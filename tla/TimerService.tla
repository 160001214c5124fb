---------------------------- MODULE TimerService ----------------------------
(***************************************************************************)
(* What the message queue (common/message_queue.cpp) promises to the rest  *)
(* of the client, without its linked list, batches, flags and condition    *)
(* variable.  A timer is posted with a delay and an identifier; from then  *)
(* on it is pending until it is cancelled or the service commits to        *)
(* running its callback.  Callbacks are run one at a time, never earlier   *)
(* than one millisecond before their time, and never after a cancellation. *)
(***************************************************************************)
EXTENDS Naturals

CONSTANTS
    Callbacks,    \* the callbacks a timer may carry
    Ids,          \* the identifiers PostMessage hands out
    Delays,       \* the delays PostMessage is called with, in clock ticks
    TicksPerMs,   \* resolution of the clock: ticks in one millisecond
    MaxTime,      \* bound on the clock
    NoMessage     \* "no callback is being run"

VARIABLES
    now,          \* the clock
    pending,      \* the timers that may still run
    running       \* the timer whose callback the service is committed to

vars == <<now, pending, running>>

Timer == [id : Ids, when : 0..MaxTime, cb : Callbacks]

Init ==
    /\ now = 0
    /\ pending = {}
    /\ running = NoMessage

\* No two pending timers share an identifier.
Post ==
    \E d \in Delays, i \in Ids, c \in Callbacks :
        /\ now + d \in 0..MaxTime
        /\ \A t \in pending : t.id # i
        /\ pending' = pending \cup {[id |-> i, when |-> now + d, cb |-> c]}
        /\ UNCHANGED <<now, running>>

Cancel ==
    \E i \in Ids :
        /\ pending' = {t \in pending : t.id # i}
        /\ UNCHANGED <<now, running>>

\* A pending timer that is due, up to the resolution of one millisecond.
Fire ==
    \E t \in pending :
        /\ running = NoMessage
        /\ t.when < now + TicksPerMs
        /\ running' = t
        /\ pending' = pending \ {t}
        /\ UNCHANGED now

Return ==
    /\ running # NoMessage
    /\ running' = NoMessage
    /\ UNCHANGED <<now, pending>>

Tick ==
    /\ now < MaxTime
    /\ now' = now + 1
    /\ UNCHANGED <<pending, running>>

Next == Post \/ Cancel \/ Fire \/ Return \/ Tick

Spec == Init /\ [][Next]_vars

(***************************************************************************)
(* A pending timer does not stay pending for ever: it is run or cancelled. *)
(***************************************************************************)
EveryTimerEnds ==
    \A i \in Ids : (\E t \in pending : t.id = i) ~> (\A t \in pending : t.id # i)
=============================================================================
