---------------------------- MODULE LocksProofs -----------------------------
(***************************************************************************)
(* Proofs about Locks, for any number of application threads.              *)
(*                                                                         *)
(* The mutexes have ranks, and every thread asks only for a mutex of a     *)
(* higher rank than all it holds.  For what is left of a script this is    *)
(* said by Path: it leads from the mutexes held now to none at the end.    *)
(***************************************************************************)
EXTENDS Locks, SequenceTheorems, TLAPS

-----------------------------------------------------------------------------
Alarms == {"requestAlarm", "_pingAlarm", "_pingTimeoutAlarm", "_reconnectAlarm"}

\* _mutex and _timeoutMutex are taken first, alarms after them, and nothing
\* is asked for while one of the others is held.
Rank(l) == IF l \in {"_mutex", "_timeoutMutex"} THEN 1
           ELSE IF l \in Alarms THEN 2 ELSE 3

Kinds == {"lock", "unlock", "user", "start", "arm", "exit", "join"}
Steps == [do : Kinds, of : Mutexes \cup {"none", "client"}]

\* A thread that holds H may do e, and then holds K.  User code is called,
\* and the client thread is joined, with no mutex held; only those in J join.
Fits(e, H, K, J) ==
    \/ /\ e.do = "lock" /\ e.of \in Mutexes
       /\ \A k \in H : Rank(k) < Rank(e.of)
       /\ K = H \cup {e.of}
    \/ e.do = "unlock" /\ e.of \in H /\ K = H \ {e.of}
    \/ e.do \in {"start", "arm", "exit"} /\ K = H
    \/ e.do = "user" /\ H = {} /\ K = {}
    \/ e.do = "join" /\ J /\ H = {} /\ K = {}

\* Script s takes a thread that holds H to holding K, by steps that fit: h[i]
\* is what it holds before step i.
Path(s, H, K, J) ==
    /\ s \in Seq(Steps)
    /\ \E h \in [1..(Len(s) + 1) -> SUBSET Mutexes] :
          /\ h[1] = H /\ h[Len(s) + 1] = K
          /\ \A i \in 1..Len(s) : Fits(s[i], h[i], h[i + 1], J)

LEMMA EmptyPath ==
  ASSUME NEW H \in SUBSET Mutexes, NEW J
  PROVE  Path(<<>>, H, H, J)
<1> DEFINE h == [i \in 1..(Len(<<>>) + 1) |-> H]
<1>0. <<>> \in Seq(Steps) /\ Len(<<>>) = 0
  OBVIOUS
<1>1. /\ h \in [1..(Len(<<>>) + 1) -> SUBSET Mutexes]
      /\ h[1] = H /\ h[Len(<<>>) + 1] = H
      /\ \A i \in 1..Len(<<>>) : Fits(<<>>[i], h[i], h[i + 1], J)
  BY <1>0
<1>2. QED BY <1>0, <1>1 DEF Path

LEMMA PathOfNothing ==
  ASSUME NEW H, NEW K, NEW J, Path(<<>>, H, K, J)
  PROVE  H = K
BY DEF Path

LEMMA StepPath ==
  ASSUME NEW e \in Steps, NEW H \in SUBSET Mutexes, NEW K \in SUBSET Mutexes, NEW J,
         Fits(e, H, K, J)
  PROVE  Path(<<e>>, H, K, J)
<1> DEFINE h == [i \in 1..(Len(<<e>>) + 1) |-> IF i = 1 THEN H ELSE K]
<1>1. <<e>> \in Seq(Steps) /\ Len(<<e>>) = 1 /\ <<e>>[1] = e
  OBVIOUS
<1>2. /\ h \in [1..(Len(<<e>>) + 1) -> SUBSET Mutexes]
      /\ h[1] = H /\ h[2] = K
  BY <1>1
<1>3. \A i \in 1..Len(<<e>>) : Fits(<<e>>[i], h[i], h[i + 1], J)
  <2> HIDE DEF h
  <2> SUFFICES ASSUME NEW i \in 1..Len(<<e>>)
               PROVE  Fits(<<e>>[i], h[i], h[i + 1], J)
    OBVIOUS
  <2>1. i = 1 /\ i + 1 = 2
    BY <1>1
  <2>2. <<e>>[i] = e /\ h[i] = H /\ h[i + 1] = K
    BY <1>1, <1>2, <2>1
  <2>3. QED BY <2>2 DEF Fits
<1>4. h[Len(<<e>>) + 1] = K
  BY <1>1, <1>2
<1> HIDE DEF h
<1>5. QED BY <1>1, <1>2, <1>3, <1>4 DEF Path

\* One script after another.
LEMMA PathThen ==
  ASSUME NEW s, NEW r, NEW H, NEW M, NEW K, NEW J, Path(s, H, M, J), Path(r, M, K, J)
  PROVE  Path(s \o r, H, K, J)
<1>1. s \in Seq(Steps) /\ r \in Seq(Steps)
  BY DEF Path
<1>2. PICK f \in [1..(Len(s) + 1) -> SUBSET Mutexes] :
         /\ f[1] = H /\ f[Len(s) + 1] = M
         /\ \A i \in 1..Len(s) : Fits(s[i], f[i], f[i + 1], J)
  BY DEF Path
<1>3. PICK g \in [1..(Len(r) + 1) -> SUBSET Mutexes] :
         /\ g[1] = M /\ g[Len(r) + 1] = K
         /\ \A i \in 1..Len(r) : Fits(r[i], g[i], g[i + 1], J)
  BY DEF Path
<1> DEFINE t == s \o r
           h == [i \in 1..(Len(t) + 1) |-> IF i <= Len(s) THEN f[i] ELSE g[i - Len(s)]]
<1>4. /\ t \in Seq(Steps) /\ Len(t) = Len(s) + Len(r)
      /\ Len(s) \in Nat /\ Len(r) \in Nat
      /\ \A i \in 1..Len(t) : t[i] = IF i <= Len(s) THEN s[i] ELSE r[i - Len(s)]
  BY <1>1
<1> HIDE DEF t
<1>5. ASSUME NEW i \in 1..(Len(t) + 1) PROVE h[i] \in SUBSET Mutexes
  <2>1. h[i] = IF i <= Len(s) THEN f[i] ELSE g[i - Len(s)]
    OBVIOUS
  <2>2. CASE i <= Len(s)
    <3>1. i \in 1..(Len(s) + 1)
      BY <1>4, <2>2
    <3>2. QED BY <1>2, <2>1, <2>2, <3>1
  <2>3. CASE ~(i <= Len(s))
    <3>1. i - Len(s) \in 1..(Len(r) + 1)
      BY <1>4, <2>3
    <3>2. QED BY <1>3, <2>1, <2>3, <3>1
  <2>4. QED BY <2>2, <2>3
<1>6. \A i \in 1..(Len(s) + 1) : h[i] = f[i]
  BY <1>2, <1>3, <1>4
<1>7. \A i \in 1..(Len(r) + 1) : h[Len(s) + i] = g[i]
  BY <1>3, <1>4
<1>8. h[1] = H /\ h[Len(t) + 1] = K
  <2>1. h[1] = f[1]
    <3>1. 1 \in 1..(Len(s) + 1)
      BY <1>4
    <3>2. QED BY <1>6, <3>1
  <2>2. h[Len(s) + (Len(r) + 1)] = g[Len(r) + 1]
    BY <1>4, <1>7
  <2>3. Len(t) + 1 = Len(s) + (Len(r) + 1)
    BY <1>4
  <2>4. QED BY <1>2, <1>3, <2>1, <2>2, <2>3
<1>9. h \in [1..(Len(t) + 1) -> SUBSET Mutexes]
  BY <1>5
<1> HIDE DEF h
<1>10. ASSUME NEW i \in 1..Len(t) PROVE Fits(t[i], h[i], h[i + 1], J)
  <2>1. CASE i <= Len(s)
    <3>1. i \in 1..Len(s) /\ i \in 1..(Len(s) + 1) /\ i + 1 \in 1..(Len(s) + 1)
      BY <1>4, <2>1
    <3>2. t[i] = s[i] /\ h[i] = f[i] /\ h[i + 1] = f[i + 1]
      BY <1>4, <1>6, <2>1, <3>1
    <3>3. QED BY <1>2, <3>1, <3>2
  <2>2. CASE i > Len(s)
    <3> DEFINE j == i - Len(s)
    <3>1. /\ j \in 1..Len(r) /\ j \in 1..(Len(r) + 1) /\ j + 1 \in 1..(Len(r) + 1)
          /\ i = Len(s) + j /\ i + 1 = Len(s) + (j + 1)
      BY <1>4, <2>2
    <3>2. t[i] = r[j]
      BY <1>4, <2>2
    <3> HIDE DEF j
    <3>3. h[i] = g[j] /\ h[i + 1] = g[j + 1]
      BY <1>7, <3>1
    <3>4. QED BY <1>3, <3>1, <3>2, <3>3
  <2>3. QED BY <1>4, <2>1, <2>2
<1>11. Path(t, H, K, J)
  BY <1>4, <1>8, <1>9, <1>10 DEF Path
<1>12. QED BY <1>11 DEF t

\* What is left after one step.
LEMMA PathGoesOn ==
  ASSUME NEW s, NEW H, NEW K, NEW J, Path(s, H, K, J), s # <<>>
  PROVE  /\ Head(s) \in Steps
         /\ \E M \in SUBSET Mutexes : Fits(Head(s), H, M, J) /\ Path(Tail(s), M, K, J)
<1>1. s \in Seq(Steps)
  BY DEF Path
<1>2. /\ Len(s) \in Nat \ {0} /\ Tail(s) \in Seq(Steps) /\ Len(Tail(s)) = Len(s) - 1
      /\ Head(s) = s[1] /\ Head(s) \in Steps
      /\ \A i \in 1..(Len(s) - 1) : Tail(s)[i] = s[i + 1]
  BY <1>1, HeadTailProperties, EmptySeq
<1>3. PICK h \in [1..(Len(s) + 1) -> SUBSET Mutexes] :
         /\ h[1] = H /\ h[Len(s) + 1] = K
         /\ \A i \in 1..Len(s) : Fits(s[i], h[i], h[i + 1], J)
  BY DEF Path
<1> DEFINE r == Tail(s)
           g == [i \in 1..(Len(r) + 1) |-> h[i + 1]]
<1>4. \A i \in 1..(Len(r) + 1) : g[i] = h[i + 1] /\ h[i + 1] \in SUBSET Mutexes
  BY <1>2, <1>3
<1>5. g \in [1..(Len(r) + 1) -> SUBSET Mutexes]
  BY <1>4
<1>6. r \in Seq(Steps) /\ Len(r) = Len(s) - 1 /\ \A i \in 1..Len(r) : r[i] = s[i + 1]
  BY <1>2
<1> HIDE DEF g, r
<1>7. g[Len(r) + 1] = K /\ g[1] = h[2]
  BY <1>2, <1>3, <1>4, <1>6
<1>8. ASSUME NEW i \in 1..Len(r) PROVE Fits(r[i], g[i], g[i + 1], J)
  <2>1. i + 1 \in 1..Len(s) /\ i \in 1..(Len(r) + 1) /\ i + 1 \in 1..(Len(r) + 1)
    BY <1>2, <1>6
  <2>2. g[i] = h[i + 1] /\ g[i + 1] = h[(i + 1) + 1] /\ r[i] = s[i + 1]
    BY <1>4, <1>6, <2>1
  <2>3. QED BY <1>3, <2>1, <2>2
<1>9. Path(r, h[2], K, J)
  BY <1>5, <1>6, <1>7, <1>8 DEF Path
<1>10. h[2] \in SUBSET Mutexes /\ Fits(s[1], h[1], h[2], J)
  <2>1. 1 \in 1..Len(s) /\ 2 \in 1..(Len(s) + 1) /\ 1 + 1 = 2
    BY <1>2
  <2>2. Fits(s[1], h[1], h[1 + 1], J)
    BY <1>3, <2>1
  <2>3. QED BY <1>3, <2>1, <2>2
<1>11. QED BY <1>2, <1>3, <1>9, <1>10 DEF r

\* A script with mutex l held around it, if l ranks above what is held.
LEMMA WithPath ==
  ASSUME NEW l \in Mutexes, NEW body, NEW H \in SUBSET Mutexes, NEW J,
         \A k \in H : Rank(k) < Rank(l),
         Path(body, H \cup {l}, H \cup {l}, J)
  PROVE  Path(With(l, body), H, H, J)
<1>1. Step("lock", l) \in Steps /\ Step("unlock", l) \in Steps
  BY DEF Step, Steps, Kinds
<1>2. H \cup {l} \in SUBSET Mutexes /\ Rank(l) \in Nat
  BY DEF Rank
<1>3. l \notin H
  BY <1>2
<1>4. Fits(Step("lock", l), H, H \cup {l}, J)
  BY DEF Step, Fits
<1>5. Fits(Step("unlock", l), H \cup {l}, H, J)
  BY <1>3 DEF Step, Fits
<1>6. Path(<<Step("lock", l)>>, H, H \cup {l}, J) /\ Path(<<Step("unlock", l)>>, H \cup {l}, H, J)
  BY <1>1, <1>2, <1>4, <1>5, StepPath
<1>7. QED BY <1>6, PathThen DEF With

LEMMA TouchPath ==
  ASSUME NEW l \in Mutexes, NEW H \in SUBSET Mutexes, NEW J, \A k \in H : Rank(k) < Rank(l)
  PROVE  Path(Touch(l), H, H, J)
<1>1. Path(<<>>, H \cup {l}, H \cup {l}, J)
  BY EmptyPath
<1>2. QED BY <1>1, WithPath DEF Touch

-----------------------------------------------------------------------------
(***************************************************************************)
(* The operations.  Whole says that one begins and ends with no mutex      *)
(* held.                                                                   *)
(***************************************************************************)
Whole(s, J) == Path(s, {}, {}, J)

LEMMA WholeThen ==
  ASSUME NEW s, NEW r, NEW J, Whole(s, J), Whole(r, J)
  PROVE  Whole(s \o r, J)
BY PathThen DEF Whole

LEMMA WholeTouch ==
  ASSUME NEW l \in Mutexes, NEW J
  PROVE  Whole(Touch(l), J)
BY TouchPath DEF Whole

LEMMA WholeWith ==
  ASSUME NEW l \in Mutexes, NEW body, NEW J, Path(body, {l}, {l}, J)
  PROVE  Whole(With(l, body), J)
BY WithPath DEF Whole

LEMMA WholeStep ==
  ASSUME NEW J, NEW e \in Steps, e.do \in {"user", "exit"} \/ (e.do = "join" /\ J)
  PROVE  Whole(<<e>>, J)
<1>1. Fits(e, {}, {}, J)
  BY DEF Fits
<1>2. QED BY <1>1, StepPath DEF Whole

LEMMA WholeUser == ASSUME NEW J PROVE Whole(User, J) /\ Whole(<<>>, J)
<1>1. Step("user", "none") \in Steps /\ Step("user", "none").do = "user"
  BY DEF Step, Steps, Kinds
<1>2. QED BY <1>1, WholeStep, EmptyPath DEF User, Whole

\* With _mutex held each of the leaves may be taken.
LEMMA UnderMutex ==
  ASSUME NEW J, NEW l \in {"_mapMutex", "_readWriteBreaker", "_connectBreaker"}
  PROVE  Path(Touch(l), {"_mutex"}, {"_mutex"}, J)
<1>1. l \in Mutexes /\ {"_mutex"} \in SUBSET Mutexes /\ Rank("_mutex") < Rank(l)
  BY DEF Mutexes, Rank, Alarms
<1>2. QED BY <1>1, TouchPath

\* Start and Cancel of an alarm, alone and with _timeoutMutex held.
LEMMA AlarmPaths ==
  ASSUME NEW J, NEW a \in Alarms, NEW H \in SUBSET {"_timeoutMutex"}
  PROVE  Path(AlarmStart(a), H, H, J) /\ Path(AlarmCancel(a), H, H, J)
<1>1. a \in Mutexes /\ "SharedQueue" \in Mutexes /\ H \in SUBSET Mutexes
  BY DEF Mutexes, Alarms
<1>2. /\ \A k \in H : Rank(k) < Rank(a)
      /\ \A k \in H \cup {a} : Rank(k) < Rank("SharedQueue")
  BY DEF Rank, Alarms
<1>3. Path(Touch("SharedQueue"), H \cup {a}, H \cup {a}, J)
  BY <1>1, <1>2, TouchPath
<1>4. QED BY <1>1, <1>2, <1>3, WithPath DEF AlarmStart, AlarmCancel, PostMessage, CancelMessage

LEMMA WholeAlarms ==
  ASSUME NEW J, NEW a \in Alarms
  PROVE  Whole(AlarmStart(a), J) /\ Whole(AlarmCancel(a), J)
BY AlarmPaths DEF Whole

\* The public interface.
LEMMA ConnectWhole == ASSUME NEW J PROVE \A s \in MakeSureConnected : Whole(s, J)
<1> DEFINE body == Touch("_readWriteBreaker") \o Touch("_connectBreaker")
<1>1. Path(body, {"_mutex"}, {"_mutex"}, J)
  BY UnderMutex, PathThen
<1>2. Step("start", "client") \in Steps /\ Fits(Step("start", "client"), {"_mutex"}, {"_mutex"}, J)
  BY DEF Step, Steps, Kinds, Fits
<1>3. "_mutex" \in Mutexes
  BY DEF Mutexes
<1>4. Path(<<Step("start", "client")>>, {"_mutex"}, {"_mutex"}, J)
  BY <1>2, <1>3, StepPath
<1> HIDE DEF body
<1>5. Path(body \o <<Step("start", "client")>>, {"_mutex"}, {"_mutex"}, J)
  BY <1>1, <1>4, PathThen
<1>6. Whole(With("_mutex", body \o <<Step("start", "client")>>), J) /\ Whole(Touch("_mutex"), J)
  BY <1>3, <1>5, WholeWith, WholeTouch
<1>7. QED BY <1>6 DEF MakeSureConnected, body

LEMMA DisconnectWhole == ASSUME NEW J PROVE \A s \in DisconnectAsync : Whole(s, J)
<1>1. "_mutex" \in Mutexes
  BY DEF Mutexes
<1>2. Path(Touch("_readWriteBreaker") \o Touch("_connectBreaker"), {"_mutex"}, {"_mutex"}, J)
  BY UnderMutex, PathThen
<1>3. Whole(Touch("_mutex"), J)
  BY <1>1, WholeTouch
<1>4. Whole(With("_mutex", Touch("_readWriteBreaker") \o Touch("_connectBreaker")), J)
  BY <1>1, <1>2, WholeWith
<1>5. \A s \in MakeSureConnected : Whole(Touch("_mutex") \o s, J)
  BY <1>3, ConnectWhole, WholeThen
<1>6. QED BY <1>3, <1>4, <1>5 DEF DisconnectAsync

LEMMA SendsWhole ==
  ASSUME NEW J
  PROVE  \A s \in Send \cup SendNoReply \cup SendDisconnect : Whole(s, J)
<1>1. "_mutex" \in Mutexes
  BY DEF Mutexes
<1>2. /\ Path(Touch("_readWriteBreaker"), {"_mutex"}, {"_mutex"}, J)
      /\ Path(Touch("_mapMutex") \o Touch("_readWriteBreaker"), {"_mutex"}, {"_mutex"}, J)
  BY UnderMutex, PathThen
<1>3. Whole(Touch("_mutex"), J)
  BY <1>1, WholeTouch
<1>4. /\ Whole(With("_mutex", Touch("_readWriteBreaker")), J)
      /\ Whole(With("_mutex", Touch("_mapMutex") \o Touch("_readWriteBreaker")), J)
  BY <1>1, <1>2, WholeWith
<1>5. QED BY <1>3, <1>4 DEF Send, SendNoReply, SendDisconnect

LEMMA ApiWhole == ASSUME NEW J PROVE \A s \in Api \cup {<<>>} : Whole(s, J)
<1>1. \A s \in SendDisconnect : \A d \in DisconnectAsync : Whole(s \o d, J)
  BY SendsWhole, DisconnectWhole, WholeThen
<1>2. \A s \in MakeSureConnected \cup Send \cup SendNoReply \cup {<<>>} : Whole(s, J)
  BY SendsWhole, ConnectWhole, WholeUser
<1>3. ASSUME NEW s \in {q \o d : q \in SendDisconnect, d \in DisconnectAsync} PROVE Whole(s, J)
  <2>1. PICK q \in SendDisconnect, d \in DisconnectAsync : s = q \o d
    OBVIOUS
  <2>2. QED BY <1>1, <2>1
<1>4. QED BY <1>2, <1>3 DEF Api

\* The client thread.
LEMMA ResponseWhole ==
  ASSUME NEW J
  PROVE  Whole(With("_timeoutMutex", AlarmCancel("requestAlarm")) \o GetCallback, J)
<1>1. "_timeoutMutex" \in Mutexes /\ "_mapMutex" \in Mutexes /\ "requestAlarm" \in Alarms
  BY DEF Mutexes, Alarms
<1>2. Path(AlarmCancel("requestAlarm"), {"_timeoutMutex"}, {"_timeoutMutex"}, J)
  BY <1>1, AlarmPaths
<1>3. Whole(With("_timeoutMutex", AlarmCancel("requestAlarm")), J) /\ Whole(GetCallback, J)
  BY <1>1, <1>2, WholeWith, WholeTouch DEF GetCallback
<1>4. QED BY <1>3, WholeThen

LEMMA EndWhole == ASSUME NEW J PROVE \A s \in RunEnds : Whole(s, J)
<1> DEFINE A == {"_reconnectAlarm"}
           arm == <<Step("arm", "none")>>
           exit == <<Step("exit", "none")>>
           start == With("_reconnectAlarm", PostMessage \o arm)
           ping == AlarmCancel("_pingAlarm")
           pong == AlarmCancel("_pingTimeoutAlarm")
<1>1. /\ "_reconnectAlarm" \in Mutexes /\ "SharedQueue" \in Mutexes
      /\ "_pingAlarm" \in Alarms /\ "_pingTimeoutAlarm" \in Alarms
      /\ Rank("_reconnectAlarm") < Rank("SharedQueue")
  BY DEF Mutexes, Alarms, Rank
<1>2. /\ Step("arm", "none") \in Steps /\ Fits(Step("arm", "none"), A, A, J)
      /\ Step("exit", "none") \in Steps /\ Step("exit", "none").do = "exit"
  BY DEF Step, Steps, Kinds, Fits
<1>3. Path(PostMessage, A, A, J) /\ Path(arm, A, A, J)
  BY <1>1, <1>2, StepPath, TouchPath DEF PostMessage
<1>4. Whole(start, J)
  BY <1>1, <1>3, PathThen, WholeWith
<1>5. Whole(exit, J) /\ Whole(ping, J) /\ Whole(pong, J) /\ Whole(User, J)
  BY <1>1, <1>2, WholeStep, WholeAlarms, WholeUser
<1> HIDE DEF arm, exit, start, ping, pong
<1>6. Whole(ping \o pong \o User \o start \o exit, J)
  BY <1>4, <1>5, WholeThen
<1>7. QED BY <1>6 DEF RunEnds, arm, exit, start, ping, pong

LEMMA ClientWhole == ASSUME NEW J PROVE \A s \in ClientOperations : Whole(s, J)
<1>1. /\ {"_retBreaker", "_connectBreaker", "_mutex", "_readWriteBreaker", "_objectPool",
          "_timeoutMutex"} \subseteq Mutexes
      /\ {"_pingAlarm", "_pingTimeoutAlarm", "requestAlarm"} \subseteq Alarms
  BY DEF Mutexes, Alarms
<1>2. /\ Whole(Touch("_retBreaker"), J) /\ Whole(Touch("_connectBreaker"), J)
      /\ Whole(Touch("_mutex"), J) /\ Whole(Touch("_readWriteBreaker"), J)
      /\ Whole(Touch("_objectPool"), J) /\ Whole(Touch("_timeoutMutex"), J)
      /\ Whole(User, J)
  BY <1>1, WholeTouch, WholeUser
<1>3. /\ Whole(AlarmStart("_pingAlarm"), J) /\ Whole(AlarmCancel("_pingAlarm"), J)
      /\ Whole(AlarmStart("_pingTimeoutAlarm"), J) /\ Whole(AlarmCancel("_pingTimeoutAlarm"), J)
      /\ Whole(AlarmStart("requestAlarm"), J)
  BY <1>1, WholeAlarms
<1>4. \A s \in RunConnect : Whole(s, J)
  BY <1>2, WholeThen DEF RunConnect
<1>5. \A s \in RunSelect : Whole(s, J)
  BY <1>2, <1>3, WholeThen DEF RunSelect
<1>6. \A s \in RunWrite : Whole(s, J)
  BY <1>2, <1>3, WholeThen DEF RunWrite
<1>7. \A s \in HandleSendResp \cup Heartbeat : Whole(s, J)
  <2>1. Whole(AlarmCancel("_pingTimeoutAlarm") \o AlarmStart("_pingTimeoutAlarm"), J)
    BY <1>3, WholeThen
  <2>2. QED BY <2>1, ResponseWhole DEF HandleSendResp, Heartbeat
<1>8. \A s \in HandleDisconnect : Whole(s, J)
  <2>1. \A d \in DisconnectAsync : Whole(d \o User, J)
    BY <1>2, DisconnectWhole, WholeThen
  <2>2. QED BY <2>1 DEF HandleDisconnect
<1>9. QED BY <1>4, <1>5, <1>6, <1>7, <1>8, EndWhole DEF ClientOperations

\* The thread of the message queue: what it calls is called with no mutex
\* held.
LEMMA RingsWhole ==
  ASSUME NEW J, NEW a \in Alarms, NEW callback, Whole(callback, J)
  PROVE  Whole(Dispatch(AlarmRings(a, callback)), J)
<1>1. a \in Mutexes /\ "SharedQueue" \in Mutexes
  BY DEF Mutexes, Alarms
<1>2. Whole(Touch(a), J) /\ Whole(Touch("SharedQueue"), J)
  BY <1>1, WholeTouch
<1>3. QED BY <1>2, WholeThen DEF Dispatch, AlarmRings

LEMMA QueueWhole ==
  ASSUME NEW J, J
  PROVE  \A s \in PingRings \cup RequestRings \cup ReconnectRings : Whole(s, J)
<1>1. /\ {"_timeoutMutex", "_mapMutex", "_readWriteBreaker"} \subseteq Mutexes
      /\ {"_pingAlarm", "_pingTimeoutAlarm", "requestAlarm", "_reconnectAlarm"} \subseteq Alarms
  BY DEF Mutexes, Alarms
<1>2. /\ Whole(Touch("_timeoutMutex"), J) /\ Whole(GetCallback, J)
      /\ Whole(Touch("_readWriteBreaker"), J) /\ Whole(<<>>, J)
  BY <1>1, WholeTouch, WholeUser DEF GetCallback
<1>3. \A s \in PingRings : Whole(s, J)
  BY <1>1, <1>2, RingsWhole DEF PingRings
<1>4. \A s \in RequestRings : Whole(s, J)
  <2>1. ASSUME NEW d \in DisconnectAsync \cup {<<>>}
        PROVE  Whole(Touch("_timeoutMutex") \o GetCallback \o d, J)
    <3>1. Whole(d, J)
      BY <1>2, DisconnectWhole
    <3>2. QED BY <1>2, <3>1, WholeThen
  <2>2. QED BY <1>1, <2>1, RingsWhole DEF RequestRings
<1>5. Whole(WaitDisconnect, J)
  <2>1. Step("join", "client") \in Steps /\ Step("join", "client").do = "join"
    BY DEF Step, Steps, Kinds
  <2>2. Whole(<<Step("join", "client")>>, J)
    BY <2>1, WholeStep
  <2> DEFINE join == <<Step("join", "client")>>
             stop == With("_timeoutMutex", AlarmCancel("requestAlarm"))
  <2>3. Path(AlarmCancel("requestAlarm"), {"_timeoutMutex"}, {"_timeoutMutex"}, J)
    BY <1>1, AlarmPaths
  <2>4. Whole(stop, J)
    BY <1>1, <2>3, WholeWith
  <2> HIDE DEF join, stop
  <2>5. Whole(join \o stop \o GetCallback, J)
    BY <1>2, <2>2, <2>4, WholeThen DEF join
  <2>6. QED BY <2>5 DEF WaitDisconnect, join, stop
<1>6. \A s \in ReconnectRings : Whole(s, J)
  <2>1. ASSUME NEW r \in MakeSureConnected \cup {<<>>}
        PROVE  Whole(WaitDisconnect \o r, J)
    <3>1. Whole(r, J)
      BY <1>2, ConnectWhole
    <3>2. QED BY <1>5, <3>1, WholeThen
  <2>2. QED BY <1>1, <2>1, RingsWhole DEF ReconnectRings
<1>7. QED BY <1>3, <1>4, <1>6

-----------------------------------------------------------------------------
(***************************************************************************)
(* The inductive invariant.                                                *)
(***************************************************************************)
Held(t) == {l \in Mutexes : owner[l] = t}

\* Every thread is on a path from the mutexes it holds to none; only the
\* queue's thread joins.
OnPath(t) == Path(script[t], Held(t), {}, t = "queue")

LocksInv ==
    /\ owner \in [Mutexes -> Threads \cup {Free}]
    /\ script \in [Threads -> Seq(Steps)]
    /\ \A t \in Threads : OnPath(t)

LEMMA InitLocksInv == Init => LocksInv
<1> SUFFICES ASSUME Init PROVE LocksInv
  OBVIOUS
<1>1. Free \notin Threads
  BY AppAssumption DEF Threads, Free
<1>2. owner \in [Mutexes -> Threads \cup {Free}] /\ script \in [Threads -> Seq(Steps)]
  BY DEF Init
<1>3. ASSUME NEW t \in Threads PROVE OnPath(t)
  <2>1. Held(t) = {} /\ script[t] = <<>>
    BY <1>1 DEF Init, Held
  <2>2. QED BY <2>1, EmptyPath DEF OnPath
<1>4. QED BY <1>2, <1>3 DEF LocksInv

\* An operation is begun when nothing is held.
LEMMA BeginKeeps ==
  ASSUME LocksInv, NEW t \in Threads, NEW operations, Begin(t, operations),
         \A s \in operations : Whole(s, t = "queue"), UNCHANGED owner
  PROVE  LocksInv'
<1>1. PICK s \in operations : script[t] = <<>> /\ script' = [script EXCEPT ![t] = s]
  BY DEF Begin
<1>2. Path(s, {}, {}, t = "queue") /\ s \in Seq(Steps)
  BY <1>1 DEF Whole, Path
<1>3. Path(<<>>, Held(t), {}, t = "queue")
  BY <1>1 DEF LocksInv, OnPath
<1>4. Held(t) = {}
  BY <1>3, PathOfNothing
<1>5. \A u \in Threads : Held(u)' = Held(u)
  BY DEF Held
<1>6. script' \in [Threads -> Seq(Steps)] /\ script'[t] = s
  BY <1>1, <1>2 DEF LocksInv
<1>7. ASSUME NEW u \in Threads PROVE OnPath(u)'
  <2>1. CASE u = t
    BY <1>2, <1>4, <1>5, <1>6, <2>1 DEF OnPath
  <2>2. CASE u # t
    <3>1. script'[u] = script[u]
      BY <1>1, <2>2 DEF LocksInv
    <3>2. QED BY <1>5, <3>1 DEF LocksInv, OnPath
  <2>3. QED BY <2>1, <2>2
<1>8. QED BY <1>6, <1>7 DEF LocksInv

\* A thread at a step has a path behind it; what the step may be.
LEMMA AtStep ==
  ASSUME LocksInv, NEW t \in Threads, script[t] # <<>>
  PROVE  /\ Head(script[t]) \in Steps
         /\ \E M \in SUBSET Mutexes :
               /\ Fits(Head(script[t]), Held(t), M, t = "queue")
               /\ Path(Tail(script[t]), M, {}, t = "queue")
BY PathGoesOn DEF LocksInv, OnPath

\* A thread that goes on and holds what its step says is on its path again,
\* and the others are where they were.
LEMMA ProceedKeeps ==
  ASSUME LocksInv, NEW t \in Threads, NEW s, script' = [script EXCEPT ![t] = s],
         NEW M, Path(s, M, {}, t = "queue"), Held(t)' = M,
         owner' \in [Mutexes -> Threads \cup {Free}],
         \A u \in Threads : u # t => Held(u)' = Held(u)
  PROVE  LocksInv'
<1>1. s \in Seq(Steps)
  BY DEF Path
<1>2. script' \in [Threads -> Seq(Steps)] /\ script'[t] = s
  BY <1>1 DEF LocksInv
<1>3. ASSUME NEW u \in Threads PROVE OnPath(u)'
  <2>1. CASE u = t
    BY <1>2, <2>1 DEF OnPath
  <2>2. CASE u # t
    <3>1. script'[u] = script[u] /\ Held(u)' = Held(u)
      BY <2>2 DEF LocksInv
    <3>2. QED BY <3>1 DEF LocksInv, OnPath
  <2>3. QED BY <2>1, <2>2
<1>4. QED BY <1>2, <1>3 DEF LocksInv

LEMMA LockKeeps ==
  ASSUME LocksInv, NEW t \in Threads, Lock(t)
  PROVE  LocksInv'
<1> DEFINE e == Head(script[t])
<1>1. e.do = "lock" /\ script[t] # <<>> /\ owner[e.of] = Free
  BY DEF Lock, At, Object
<1>2. PICK M \in SUBSET Mutexes : /\ Fits(e, Held(t), M, t = "queue")
                                  /\ Path(Tail(script[t]), M, {}, t = "queue")
  BY <1>1, AtStep
<1>3. e.of \in Mutexes /\ M = Held(t) \cup {e.of}
  BY <1>1, <1>2 DEF Fits
<1>4. owner' = [owner EXCEPT ![e.of] = t] /\ script' = [script EXCEPT ![t] = Tail(script[t])]
  BY DEF Lock, Proceed, Object, LocksInv
<1> HIDE DEF e
<1>5. owner' \in [Mutexes -> Threads \cup {Free}]
  BY <1>3, <1>4 DEF LocksInv
<1>6. Held(t)' = M
  BY <1>3, <1>4 DEF Held, LocksInv
<1>7. \A u \in Threads : u # t => Held(u)' = Held(u)
  <2>1. Free \notin Threads
    BY AppAssumption DEF Threads, Free
  <2>2. QED BY <1>1, <1>3, <1>4, <2>1 DEF Held, LocksInv
<1>8. QED BY <1>2, <1>4, <1>5, <1>6, <1>7, ProceedKeeps

LEMMA UnlockKeeps ==
  ASSUME LocksInv, NEW t \in Threads, Unlock(t)
  PROVE  LocksInv'
<1> DEFINE e == Head(script[t])
<1>1. e.do = "unlock" /\ script[t] # <<>>
  BY DEF Unlock, At
<1>2. PICK M \in SUBSET Mutexes : /\ Fits(e, Held(t), M, t = "queue")
                                  /\ Path(Tail(script[t]), M, {}, t = "queue")
  BY <1>1, AtStep
<1>3. e.of \in Held(t) /\ M = Held(t) \ {e.of}
  BY <1>1, <1>2 DEF Fits
<1>4. owner' = [owner EXCEPT ![e.of] = Free] /\ script' = [script EXCEPT ![t] = Tail(script[t])]
  BY DEF Unlock, Proceed, Object, LocksInv
<1> HIDE DEF e
<1>5. owner' \in [Mutexes -> Threads \cup {Free}] /\ e.of \in Mutexes /\ owner[e.of] = t
  BY <1>3, <1>4 DEF LocksInv, Held
<1>6. Free \notin Threads
  BY AppAssumption DEF Threads, Free
<1>7. Held(t)' = M
  BY <1>3, <1>4, <1>5, <1>6 DEF Held, LocksInv
<1>8. \A u \in Threads : u # t => Held(u)' = Held(u)
  BY <1>4, <1>5, <1>6 DEF Held, LocksInv
<1>9. QED BY <1>2, <1>4, <1>5, <1>7, <1>8, ProceedKeeps

\* User code is called with no mutex held, so what it calls is whole.
LEMMA CallUserKeeps ==
  ASSUME LocksInv, NEW t \in Threads, CallUser(t)
  PROVE  LocksInv'
<1> DEFINE e == Head(script[t])
<1>1. e.do = "user" /\ script[t] # <<>> /\ UNCHANGED owner
  BY DEF CallUser, At
<1>2. PICK M \in SUBSET Mutexes : /\ Fits(e, Held(t), M, t = "queue")
                                  /\ Path(Tail(script[t]), M, {}, t = "queue")
  BY <1>1, AtStep
<1>3. M = {} /\ Held(t) = {}
  BY <1>1, <1>2 DEF Fits
<1>4. PICK s \in Api \cup {<<>>} : script' = [script EXCEPT ![t] = s \o Tail(script[t])]
  BY DEF CallUser, LocksInv
<1>5. Path(s, {}, {}, t = "queue")
  BY <1>4, ApiWhole DEF Whole
<1>6. Path(s \o Tail(script[t]), {}, {}, t = "queue")
  BY <1>2, <1>3, <1>5, PathThen
<1>7. /\ \A u \in Threads : Held(u)' = Held(u)
      /\ owner' \in [Mutexes -> Threads \cup {Free}]
  BY <1>1 DEF Held, LocksInv
<1>8. QED BY <1>3, <1>4, <1>6, <1>7, ProceedKeeps

\* The steps that concern the life of the client thread.
LEMMA OtherStepKeeps ==
  ASSUME LocksInv, NEW t \in Threads,
         StartClient(t) \/ ArmReconnect(t) \/ ExitClient(t) \/ JoinClient(t)
  PROVE  LocksInv'
<1> DEFINE e == Head(script[t])
<1>1. /\ e.do \in {"start", "arm", "exit", "join"} /\ script[t] # <<>> /\ UNCHANGED owner
      /\ script' = [script EXCEPT ![t] = Tail(script[t])]
  BY DEF StartClient, ArmReconnect, ExitClient, JoinClient, At, Proceed, LocksInv
<1>2. PICK M \in SUBSET Mutexes : /\ Fits(e, Held(t), M, t = "queue")
                                  /\ Path(Tail(script[t]), M, {}, t = "queue")
  BY <1>1, AtStep
<1>3. M = Held(t)
  BY <1>1, <1>2 DEF Fits
<1>4. /\ \A u \in Threads : Held(u)' = Held(u)
      /\ owner' \in [Mutexes -> Threads \cup {Free}]
  BY <1>1 DEF Held, LocksInv
<1>5. QED BY <1>1, <1>2, <1>3, <1>4, ProceedKeeps

LEMMA LocksStep ==
  ASSUME LocksInv, [Next]_vars
  PROVE  LocksInv'
<1>1. ASSUME NEW t \in App, AppBegins(t) PROVE LocksInv'
  <2>1. t \in Threads /\ Begin(t, Api) /\ UNCHANGED owner
    BY <1>1 DEF Threads, AppBegins
  <2>2. \A s \in Api : Whole(s, t = "queue")
    BY ApiWhole
  <2>3. QED BY <2>1, <2>2, BeginKeeps
<1>2. CASE ClientBegins
  <2>1. "client" \in Threads /\ Begin("client", ClientOperations) /\ UNCHANGED owner
    BY <1>2 DEF Threads, ClientBegins
  <2>2. \A s \in ClientOperations : Whole(s, "client" = "queue")
    BY ClientWhole
  <2>3. QED BY <2>1, <2>2, BeginKeeps
<1>3. CASE QueueBegins
  <2>1. "queue" \in Threads /\ UNCHANGED owner
    BY <1>3 DEF Threads, QueueBegins
  <2>2. Begin("queue", PingRings \cup RequestRings) \/ Begin("queue", ReconnectRings)
    BY <1>3 DEF QueueBegins
  <2>3. \A s \in PingRings \cup RequestRings \cup ReconnectRings : Whole(s, "queue" = "queue")
    BY QueueWhole
  <2>4. QED BY <2>1, <2>2, <2>3, BeginKeeps
<1>4. CASE UNCHANGED vars
  BY <1>4 DEF vars, LocksInv, OnPath, Held
<1>5. QED
  BY <1>1, <1>2, <1>3, <1>4, LockKeeps, UnlockKeeps, CallUserKeeps, OtherStepKeeps DEF Next

\* The invariant holds for any number of application threads, whatever user
\* code calls.
THEOREM LocksInvariant == Spec => []LocksInv
<1>1. Init => LocksInv
  BY InitLocksInv
<1>2. LocksInv /\ [Next]_vars => LocksInv'
  BY LocksStep
<1>3. QED BY <1>1, <1>2, PTL DEF Spec

-----------------------------------------------------------------------------
\* The rank of what a thread waits for; joining comes before every mutex.
WaitRank(t) == IF At(t, "lock") THEN Rank(Object(t)) ELSE 0

\* Along a chain of waiting threads the rank rises.
LEMMA RankRises ==
  ASSUME LocksInv, NEW t \in Threads, NEW u \in Threads, NEW v \in Threads,
         WaitsFor(t, u), WaitsFor(u, v)
  PROVE  WaitRank(t) < WaitRank(u)
<1> DEFINE e == Head(script[u])
<1>1. script[u] # <<>> /\ e.do \in {"lock", "join"}
  BY DEF WaitsFor, At
<1>2. PICK M \in SUBSET Mutexes : Fits(e, Held(u), M, u = "queue")
  BY <1>1, AtStep
<1>3. e.do = "lock" => /\ WaitRank(u) = Rank(e.of)
                       /\ \A k \in Held(u) : Rank(k) < Rank(e.of)
  BY <1>1, <1>2 DEF WaitRank, At, Object, Fits
<1>4. e.do = "join" => u = "queue" /\ Held(u) = {}
  BY <1>1, <1>2 DEF Fits
<1>5. CASE At(t, "lock") /\ owner[Object(t)] = u
  <2>1. script[t] # <<>> /\ Head(script[t]).do = "lock"
    BY <1>5 DEF At
  <2>2. PICK K \in SUBSET Mutexes : Fits(Head(script[t]), Held(t), K, t = "queue")
    BY <2>1, AtStep
  <2>3. Object(t) \in Mutexes
    BY <2>1, <2>2 DEF Fits, Object
  <2>4. Object(t) \in Held(u) /\ WaitRank(t) = Rank(Object(t))
    BY <1>5, <2>3 DEF Held, WaitRank
  <2>5. e.do = "lock"
    BY <1>1, <1>4, <2>4
  <2>6. QED BY <1>3, <2>4, <2>5
<1>6. CASE At(t, "join") /\ u = "client"
  <2>1. e.do = "lock"
    BY <1>1, <1>4, <1>6
  <2>2. WaitRank(t) = 0
    BY <1>6 DEF WaitRank, At
  <2>3. Rank(e.of) > 0
    BY DEF Rank
  <2>4. QED BY <1>3, <2>1, <2>2, <2>3
<1>7. QED BY <1>5, <1>6 DEF WaitsFor

(***************************************************************************)
(* No threads wait for each other in a circle, for any number of           *)
(* application threads: a chain of threads of which each waits for the     *)
(* next would rise through four ranks, and there are three (alarm.cpp:30,  *)
(* tcp_client.cpp:143, 173, 215).                                          *)
(***************************************************************************)
THEOREM NoWaitCycleAlways == Spec => []NoWaitCycle
<1>1. LocksInv => NoWaitCycle
  <2> SUFFICES ASSUME LocksInv, NEW S \in SUBSET Threads, S # {},
                      \A t \in S : \E u \in S : WaitsFor(t, u)
               PROVE  FALSE
    BY DEF NoWaitCycle
  <2>1. \A t \in S : \E u \in S : WaitsFor(t, u) /\ WaitRank(t) < WaitRank(u)
    BY RankRises
  <2>2. \A t \in S : WaitRank(t) \in 0..3
    BY DEF WaitRank, Rank
  <2>3. PICK t0 \in S : TRUE
    OBVIOUS
  <2>4. PICK t1 \in S : WaitRank(t0) < WaitRank(t1)
    BY <2>1
  <2>5. PICK t2 \in S : WaitRank(t1) < WaitRank(t2)
    BY <2>1
  <2>6. PICK t3 \in S : WaitRank(t2) < WaitRank(t3)
    BY <2>1
  <2>7. PICK t4 \in S : WaitRank(t3) < WaitRank(t4)
    BY <2>1
  <2>8. QED BY <2>2, <2>4, <2>5, <2>6, <2>7
<1>2. QED BY <1>1, LocksInvariant, PTL

(***************************************************************************)
(* _mutex is only asked for by a thread that holds nothing, whatever user  *)
(* code calls from the client's callbacks (tcp_client.cpp:211).            *)
(***************************************************************************)
THEOREM MutexIsFirstAlways == Spec => []MutexIsFirst
<1>1. LocksInv => MutexIsFirst
  <2> SUFFICES ASSUME LocksInv, NEW t \in Threads, At(t, "lock"), Object(t) = "_mutex",
                      NEW l \in Mutexes
               PROVE  owner[l] # t
    BY DEF MutexIsFirst
  <2>1. script[t] # <<>> /\ Head(script[t]).do = "lock" /\ Head(script[t]).of = "_mutex"
    BY DEF At, Object
  <2>2. PICK M \in SUBSET Mutexes : Fits(Head(script[t]), Held(t), M, t = "queue")
    BY <2>1, AtStep
  <2>3. \A k \in Held(t) : Rank(k) < Rank("_mutex")
    BY <2>1, <2>2 DEF Fits
  <2>4. ~(Rank(l) < Rank("_mutex"))
    BY DEF Rank
  <2>5. l \notin Held(t)
    BY <2>3, <2>4
  <2>6. QED BY <2>5 DEF Held
<1>2. QED BY <1>1, LocksInvariant, PTL
=============================================================================
