----------------------- MODULE RequestTimeoutsProofs ------------------------
(***************************************************************************)
(* Proofs about RequestTimeouts, for any number of alarms, of identifiers  *)
(* and of messages in the queue of timers.                                 *)
(*                                                                         *)
(* Three inductive invariants, each with the one before in it and none     *)
(* with an assumption about the use of SendNoReply or about the speed of   *)
(* the threads:                                                            *)
(*   OwnerInv  the types, and the one place where each alarm is;           *)
(*   WaitInv   an alarm that waits, or that a request waits for, has a     *)
(*             message on its way;                                         *)
(*   RingInv   which message belongs to which request, for the messages    *)
(*             whose alarm did not go back to the pool too early.          *)
(***************************************************************************)
EXTENDS RequestTimeouts, FiniteSetTheorems, SequenceTheorems, TLAPS

-----------------------------------------------------------------------------
(***************************************************************************)
(* The sequences that the pool goes through.                               *)
(***************************************************************************)

\* Get takes the last one.
LEMMA FrontLast ==
  ASSUME NEW S, NEW s \in Seq(S), s # <<>>
  PROVE  /\ Len(s) \in Nat \ {0} /\ Last(s) = s[Len(s)] /\ Last(s) \in S
         /\ Front(s) \in Seq(S) /\ Len(Front(s)) = Len(s) - 1
         /\ \A i \in 1..(Len(s) - 1) : Front(s)[i] = s[i]
<1>1. Len(s) \in Nat \ {0} /\ s[Len(s)] \in S
  BY EmptySeq, ElementOfSeq, LenProperties
<1>2. \A i \in 1..(Len(s) - 1) : s[i] \in S
  BY <1>1, ElementOfSeq
<1>3. /\ SubSeq(s, 1, Len(s) - 1) \in Seq(S)
      /\ Len(SubSeq(s, 1, Len(s) - 1)) = Len(s) - 1
      /\ \A i \in 1..(Len(s) - 1) : SubSeq(s, 1, Len(s) - 1)[i] = s[i]
  <2> DEFINE m == Len(s) - 1
  <2>1. m \in Nat /\ 1 \in Int /\ \A i \in 1..m : s[i] \in S
    BY <1>1, <1>2
  <2> HIDE DEF m
  <2>2. /\ SubSeq(s, 1, m) \in Seq(S)
        /\ Len(SubSeq(s, 1, m)) = IF 1 <= m THEN m - 1 + 1 ELSE 0
        /\ \A i \in 1..(m - 1 + 1) : SubSeq(s, 1, m)[i] = s[1 + i - 1]
    BY <2>1, SubSeqProperties
  <2>3. Len(SubSeq(s, 1, m)) = m /\ \A i \in 1..m : SubSeq(s, 1, m)[i] = s[i]
    BY <2>1, <2>2
  <2>4. QED BY <2>2, <2>3 DEF m
<1>4. QED BY <1>1, <1>3 DEF Front, Last

\* The destructors of a map go through its keys in order, every key once.
LEMMA AllInOrder ==
  ASSUME NEW K, IsFiniteSet(K), NEW f \in SetToSeqs(K)
  PROVE  /\ f \in Seq(K) /\ Len(f) \in Nat /\ DOMAIN f = 1..Len(f)
         /\ \A i, j \in 1..Len(f) : i # j => f[i] # f[j]
         /\ \A k \in K : \E i \in 1..Len(f) : f[i] = k
<1> DEFINE n == Cardinality(K)
<1>1. n \in Nat
  BY FS_CardinalityType
<1>2. f \in [1..n -> K] /\ \A i, j \in 1..n : i # j => f[i] # f[j]
  BY DEF SetToSeqs
<1>3. f \in Injection(1..n, K)
  BY <1>2 DEF Injection, IsInjective
<1>4. IsFiniteSet(1..n) /\ Cardinality(1..n) = n
  BY <1>1, FS_Interval
<1>5. f \in Surjection(1..n, K)
  BY <1>3, <1>4, FS_Injection
<1>6. \A k \in K : \E i \in 1..n : f[i] = k
  BY <1>5 DEF Surjection
<1>7. f \in Seq(K) /\ Len(f) = n /\ DOMAIN f = 1..n
  BY <1>1, <1>2
<1>8. QED BY <1>1, <1>2, <1>6, <1>7

-----------------------------------------------------------------------------
(***************************************************************************)
(* Who has an alarm.                                                       *)
(***************************************************************************)
OwnerInv == TypeOK /\ ThreadShape /\ Owned

\* An alarm handed out is new or was in the pool, and nobody else has it.
LEMMA TakeKeepsOwned ==
  ASSUME OwnerInv, hand = NoAlarm, UNCHANGED timeoutMap,
         NEW a \in Alarms, TakeAlarm(a), hand' = a
  PROVE  /\ made' \subseteq Alarms /\ made \subseteq made' /\ a \in made'
         /\ pool' \in Seq(made') /\ Owned'
<1> USE DEF OwnerInv, TypeOK
<1>1. CASE pool = <<>> /\ a \in Alarms \ made /\ made' = made \cup {a} /\ UNCHANGED pool
  <2>1. pool' \in Seq(made')
    BY <1>1, SeqMonotonic
  <2>2. Owned'
    BY TimeoutsAssumption, <1>1, EmptySeq DEF Owned
  <2>3. QED BY <1>1, <2>1, <2>2
<1>2. CASE pool # <<>> /\ a = Last(pool) /\ pool' = Front(pool) /\ UNCHANGED made
  <2> DEFINE n == Len(pool)
  <2>1. n \in Nat \ {0} /\ a = pool[n] /\ a \in made /\ pool' \in Seq(made)
        /\ Len(pool') = n - 1 /\ \A i \in 1..(n - 1) : pool'[i] = pool[i]
    BY <1>2, FrontLast
  <2> HIDE DEF n
  <2>2. (\A i, j \in 1..n : i # j => pool[i] # pool[j])
        /\ (\A i \in 1..n : \A k \in Keys : timeoutMap[k] # pool[i])
    BY DEF Owned, n
  <2>3. \A b \in made : b = a \/ (\E i \in 1..(n - 1) : pool[i] = b)
                             \/ (\E k \in Keys : timeoutMap[k] = b)
    BY TimeoutsAssumption, <2>1 DEF Owned, n
  <2>4. made' = made /\ timeoutMap' = timeoutMap /\ hand' = a
    BY <1>2
  <2>5. \A k, l \in Keys : k # l /\ timeoutMap[k] # NoAlarm => timeoutMap[k] # timeoutMap[l]
    BY DEF Owned
  <2> HIDE DEF OwnerInv, TypeOK
  <2>6. \A i, j \in 1..(n - 1) : i # j => pool'[i] # pool'[j]
    BY <2>1, <2>2
  <2>7. \A i \in 1..(n - 1) : pool'[i] # a /\ \A k \in Keys : timeoutMap[k] # pool'[i]
    BY <2>1, <2>2
  <2>8. \A k \in Keys : timeoutMap[k] # a
    BY <2>1, <2>2
  <2>9. \A b \in made : \/ a = b
                        \/ \E i \in 1..(n - 1) : pool'[i] = b
                        \/ \E k \in Keys : timeoutMap[k] = b
    BY <2>1, <2>3
  <2>10. Len(pool') = n - 1
    BY <2>1
  <2>11. Owned'
    BY <2>4, <2>5, <2>6, <2>7, <2>8, <2>9, <2>10 DEF Owned
  <2>12. QED BY <1>2, <2>1, <2>11 DEF OwnerInv, TypeOK
<1>3. QED BY <1>1, <1>2 DEF TakeAlarm

\* An alarm that leaves the map goes to the pool.
LEMMA ReturnKeepsOwned ==
  ASSUME OwnerInv, NEW k \in Keys, timeoutMap[k] # NoAlarm,
         timeoutMap' = [timeoutMap EXCEPT ![k] = NoAlarm],
         pool' = Append(pool, timeoutMap[k]),
         UNCHANGED <<made, hand>>
  PROVE  timeoutMap' \in [Keys -> made \cup {NoAlarm}] /\ pool' \in Seq(made) /\ Owned'
<1> USE DEF OwnerInv, TypeOK
<1> DEFINE n == Len(pool)
           b == timeoutMap[k]
<1>1. b \in made /\ n \in Nat /\ pool' \in Seq(made) /\ Len(pool') = n + 1
      /\ pool'[n + 1] = b /\ \A i \in 1..n : pool'[i] = pool[i] /\ pool[i] \in made
  BY AppendProperties, ElementOfSeq
<1>2. timeoutMap' \in [Keys -> made \cup {NoAlarm}] /\ timeoutMap'[k] = NoAlarm
      /\ \A l \in Keys : l # k => timeoutMap'[l] = timeoutMap[l]
  OBVIOUS
<1>3. NoAlarm \notin made
  BY TimeoutsAssumption
<1>4. /\ \A i, j \in 1..n : i # j => pool[i] # pool[j]
      /\ \A i \in 1..n : pool[i] # b /\ pool[i] # hand
      /\ \A i \in 1..n : \A l \in Keys : timeoutMap[l] # pool[i]
      /\ b # hand
      /\ \A l, m \in Keys : l # m /\ timeoutMap[l] # NoAlarm => timeoutMap[l] # timeoutMap[m]
      /\ hand # NoAlarm => \A l \in Keys : timeoutMap[l] # hand
      /\ \A a \in made : \/ hand = a
                         \/ \E i \in 1..n : pool[i] = a
                         \/ \E l \in Keys : timeoutMap[l] = a
  <2> HIDE DEF OwnerInv, TypeOK
  <2>1. Owned
    BY DEF OwnerInv
  <2>2. b # hand
    BY <2>1 DEF Owned
  <2>3. \A i \in 1..n : pool[i] # b /\ pool[i] # hand
    BY <2>1 DEF Owned
  <2>4. QED BY <2>1, <2>2, <2>3 DEF Owned
<1> HIDE DEF n, b, OwnerInv, TypeOK
<1>5. \A i, j \in 1..(n + 1) : i # j => pool'[i] # pool'[j]
  BY <1>1, <1>4
<1>6. \A l, m \in Keys : l # m /\ timeoutMap'[l] # NoAlarm => timeoutMap'[l] # timeoutMap'[m]
  BY <1>2, <1>4
<1>7. \A i \in 1..(n + 1) : pool'[i] # hand' /\ \A l \in Keys : timeoutMap'[l] # pool'[i]
  BY <1>1, <1>2, <1>3, <1>4 DEF b
<1>8. hand' # NoAlarm => \A l \in Keys : timeoutMap'[l] # hand'
  BY <1>2, <1>4
<1>9. \A a \in made' : \/ hand' = a
                       \/ \E i \in 1..(n + 1) : pool'[i] = a
                       \/ \E l \in Keys : timeoutMap'[l] = a
  <2>0. made' = made /\ hand' = hand
    OBVIOUS
  <2> SUFFICES ASSUME NEW a \in made, hand # a
               PROVE  \/ \E i \in 1..(n + 1) : pool'[i] = a
                      \/ \E l \in Keys : timeoutMap'[l] = a
    BY <2>0
  <2>1. CASE \E i \in 1..n : pool[i] = a
    BY <1>1, <2>1
  <2>2. CASE a = b
    BY <1>1, <2>2
  <2>3. CASE a # b /\ \E l \in Keys : timeoutMap[l] = a
    BY <1>2, <2>3 DEF b
  <2>4. QED BY <1>4, <2>1, <2>2, <2>3
<1>10. QED
  <2>1. Len(pool') = n + 1
    BY <1>1
  <2>2. Owned'
    BY <2>1, <1>5, <1>6, <1>7, <1>8, <1>9 DEF Owned
  <2>3. QED BY <1>1, <1>2, <2>2

\* The alarm in the hand goes into the map; the code expects no entry there,
\* and one that is there goes to the pool.
LEMMA RecordKeepsOwned ==
  ASSUME OwnerInv, hand # NoAlarm, cid \in Keys,
         timeoutMap' = [timeoutMap EXCEPT ![cid] = hand],
         pool' = IF timeoutMap[cid] = NoAlarm THEN pool ELSE Append(pool, timeoutMap[cid]),
         hand' = NoAlarm, UNCHANGED made
  PROVE  timeoutMap' \in [Keys -> made \cup {NoAlarm}] /\ pool' \in Seq(made) /\ Owned'
<1> USE DEF OwnerInv, TypeOK
<1> DEFINE n == Len(pool)
           p == Len(pool')
           b == timeoutMap[cid]
<1>1. /\ n \in Nat /\ pool' \in Seq(made) /\ p \in Nat
      /\ \A i \in 1..n : pool'[i] = pool[i] /\ pool[i] \in made
      /\ p = n \/ (b # NoAlarm /\ p = n + 1 /\ pool'[p] = b)
      /\ b # NoAlarm => b \in made /\ p = n + 1 /\ pool'[p] = b
  BY AppendProperties, ElementOfSeq
<1>2. timeoutMap' \in [Keys -> made \cup {NoAlarm}] /\ timeoutMap'[cid] = hand
      /\ \A l \in Keys : l # cid => timeoutMap'[l] = timeoutMap[l]
  OBVIOUS
<1>3. NoAlarm \notin made
  BY TimeoutsAssumption
<1>4. /\ \A i, j \in 1..n : i # j => pool[i] # pool[j]
      /\ \A i \in 1..n : pool[i] # b /\ pool[i] # hand
      /\ \A i \in 1..n : \A l \in Keys : timeoutMap[l] # pool[i]
      /\ b # hand
      /\ \A l, m \in Keys : l # m /\ timeoutMap[l] # NoAlarm => timeoutMap[l] # timeoutMap[m]
      /\ \A l \in Keys : timeoutMap[l] # hand
      /\ \A a \in made : \/ hand = a
                         \/ \E i \in 1..n : pool[i] = a
                         \/ \E l \in Keys : timeoutMap[l] = a
  <2> HIDE DEF OwnerInv, TypeOK
  <2>1. Owned
    BY DEF OwnerInv
  <2>2. b # hand
    BY <2>1 DEF Owned
  <2>3. \A i \in 1..n : pool[i] # b /\ pool[i] # hand
    BY <2>1 DEF Owned
  <2>4. QED BY <2>1, <2>2, <2>3 DEF Owned
<1> HIDE DEF n, b, p, OwnerInv, TypeOK
<1>5. \A i, j \in 1..p : i # j => pool'[i] # pool'[j]
  BY <1>1, <1>4
<1>6. \A l, m \in Keys : l # m /\ timeoutMap'[l] # NoAlarm => timeoutMap'[l] # timeoutMap'[m]
  BY <1>2, <1>4
<1>7. \A i \in 1..p : pool'[i] # hand' /\ \A l \in Keys : timeoutMap'[l] # pool'[i]
  BY <1>1, <1>2, <1>3, <1>4 DEF b
<1>8. \A a \in made' : \/ hand' = a
                       \/ \E i \in 1..p : pool'[i] = a
                       \/ \E l \in Keys : timeoutMap'[l] = a
  <2>0. made' = made
    OBVIOUS
  <2> SUFFICES ASSUME NEW a \in made
               PROVE  \/ \E i \in 1..p : pool'[i] = a
                      \/ \E l \in Keys : timeoutMap'[l] = a
    BY <2>0
  <2>1. CASE \E i \in 1..n : pool[i] = a
    <3>1. 1..n \subseteq 1..p
      BY <1>1
    <3>2. QED BY <1>1, <2>1, <3>1
  <2>2. CASE a = b
    <3>1. b # NoAlarm
      BY <1>3, <2>2
    <3>2. p = n + 1 /\ n \in Nat /\ pool'[p] = a
      BY <1>1, <2>2, <3>1
    <3>3. p \in 1..p
      BY <3>2
    <3>4. QED BY <3>2, <3>3
  <2>3. CASE a # b /\ \E l \in Keys : timeoutMap[l] = a
    BY <1>2, <2>3 DEF b
  <2>4. CASE a = hand
    BY <1>2, <2>4
  <2>5. QED BY <1>4, <2>1, <2>2, <2>3, <2>4
<1>9. QED
  <2>1. Owned'
    BY <1>5, <1>6, <1>7, <1>8 DEF Owned, p
  <2>2. QED BY <1>1, <1>2, <2>1

\* __WaitDisconnect empties the map into the pool.
LEMMA EndKeepsOwned ==
  ASSUME OwnerInv, hand = NoAlarm, EndConnection
  PROVE  timeoutMap' \in [Keys -> made \cup {NoAlarm}] /\ pool' \in Seq(made) /\ Owned'
<1> USE DEF OwnerInv, TypeOK
<1> DEFINE K == {k \in Keys : timeoutMap[k] # NoAlarm}
           n == Len(pool)
<1>1. PICK f \in SetToSeqs(K) :
        pool' = pool \o [i \in DOMAIN f |-> timeoutMap[f[i]]]
  BY DEF EndConnection
<1>2. IsFiniteSet(Keys)
  BY TimeoutsAssumption, FS_AddElement DEF Keys
<1>3. IsFiniteSet(K)
  BY <1>2, FS_Subset
<1> DEFINE q == Len(f)
           g == [i \in DOMAIN f |-> timeoutMap[f[i]]]
<1>4. /\ f \in Seq(K) /\ q \in Nat /\ DOMAIN f = 1..q
      /\ \A i, j \in 1..q : i # j => f[i] # f[j]
      /\ \A k \in K : \E i \in 1..q : f[i] = k
  <2> HIDE DEF K
  <2>1. QED BY <1>3, AllInOrder
<1>5. \A i \in 1..q : f[i] \in K /\ timeoutMap[f[i]] \in made
  BY <1>4, ElementOfSeq
<1>6. g \in Seq(made) /\ Len(g) = q /\ \A i \in 1..q : g[i] = timeoutMap[f[i]]
  BY <1>4, <1>5
<1>7. /\ n \in Nat /\ pool' \in Seq(made) /\ Len(pool') = n + q
      /\ \A i \in 1..n : pool'[i] = pool[i] /\ pool[i] \in made
      /\ \A i \in 1..q : pool'[n + i] = timeoutMap[f[i]]
  <2> HIDE DEF g
  <2>1. pool' = pool \o g /\ n \in Nat
    BY <1>1, LenProperties DEF g
  <2>2. pool' \in Seq(made) /\ Len(pool') = n + q
    <3> HIDE DEF q, n
    <3>1. pool \in Seq(made) /\ g \in Seq(made)
      BY <1>6
    <3> HIDE DEF OwnerInv, TypeOK
    <3>2. pool \o g \in Seq(made) /\ Len(pool \o g) = Len(pool) + Len(g)
      BY <3>1, ConcatProperties
    <3>3. QED BY <2>1, <3>2, <1>6 DEF n
  <2>3. \A i \in 1..n : pool'[i] = pool[i] /\ pool[i] \in made
    BY <2>1, <2>2, <1>4, <1>6, ConcatProperties, ElementOfSeq
  <2>4. \A i \in 1..q : pool'[n + i] = g[i]
    BY <2>1, <2>2, <1>4, <1>6, ConcatProperties
  <2>5. QED BY <2>1, <2>2, <2>3, <2>4, <1>6
<1>8. timeoutMap' = [k \in Keys |-> NoAlarm] /\ UNCHANGED <<made, hand>>
  BY DEF EndConnection, clientVars
<1>9. NoAlarm \notin made
  BY TimeoutsAssumption
<1>10. /\ \A i, j \in 1..n : i # j => pool[i] # pool[j]
       /\ \A i \in 1..n : \A l \in Keys : timeoutMap[l] # pool[i]
       /\ \A l, m \in Keys : l # m /\ timeoutMap[l] # NoAlarm => timeoutMap[l] # timeoutMap[m]
       /\ \A a \in made : \/ \E i \in 1..n : pool[i] = a
                          \/ \E l \in K : timeoutMap[l] = a
  BY <1>9 DEF Owned
<1>11. \A i \in 1..q : f[i] \in Keys /\ timeoutMap[f[i]] # NoAlarm
  BY <1>5
<1> HIDE DEF n, q, g, K, OwnerInv, TypeOK
<1>12. \A i \in 1..(n + q) : \/ i \in 1..n
                             \/ (i - n) \in 1..q /\ pool'[i] = timeoutMap[f[i - n]]
  <2> TAKE i \in 1..(n + q)
  <2>1. n \in Nat /\ q \in Nat
    BY <1>4, <1>7
  <2>2. i \in 1..n \/ ((i - n) \in 1..q /\ n + (i - n) = i)
    BY <2>1
  <2>3. QED BY <2>2, <1>7
<1>13. \A i, j \in 1..(n + q) : i # j => pool'[i] # pool'[j]
  <2> SUFFICES ASSUME NEW i \in 1..(n + q), NEW j \in 1..(n + q), i # j
               PROVE  pool'[i] # pool'[j]
    OBVIOUS
  <2>1. CASE i \in 1..n /\ j \in 1..n
    BY <2>1, <1>7, <1>10
  <2>2. CASE i \in 1..n /\ j \notin 1..n
    BY <2>2, <1>7, <1>10, <1>11, <1>12
  <2>3. CASE i \notin 1..n /\ j \in 1..n
    BY <2>3, <1>7, <1>10, <1>11, <1>12
  <2>4. CASE i \notin 1..n /\ j \notin 1..n
    <3>1. i - n # j - n
      BY <1>7, <1>4
    <3>2. (i - n) \in 1..q /\ (j - n) \in 1..q /\ f[i - n] # f[j - n]
      BY <3>1, <2>4, <1>12, <1>4
    <3>3. QED BY <3>2, <2>4, <1>12, <1>10, <1>11
  <2>5. QED BY <2>1, <2>2, <2>3, <2>4
<1>14. \A i \in 1..(n + q) : pool'[i] # NoAlarm
  BY <1>7, <1>9, <1>11, <1>12
<1>15. \A a \in made : \E i \in 1..(n + q) : pool'[i] = a
  <2> TAKE a \in made
  <2>1. CASE \E i \in 1..n : pool[i] = a
    BY <2>1, <1>4, <1>7
  <2>2. CASE \E l \in K : timeoutMap[l] = a
    <3>1. PICK i \in 1..q : timeoutMap[f[i]] = a
      BY <2>2, <1>4
    <3>2. n + i \in 1..(n + q) /\ pool'[n + i] = a
      BY <3>1, <1>4, <1>7
    <3>3. QED BY <3>2
  <2>3. QED BY <2>1, <2>2, <1>10
<1>16. Len(pool') = n + q
  BY <1>7
<1>17. Owned'
  BY <1>8, <1>13, <1>14, <1>15, <1>16 DEF Owned
<1>18. QED BY <1>7, <1>8, <1>17

-----------------------------------------------------------------------------
\* Alarm::Cancel keeps the types.
LEMMA CancelTypes ==
  ASSUME TypeOK, NEW S, CancelAlarms(S)
  PROVE  /\ user' \in [Alarms -> Keys]
         /\ status' \in [Alarms -> {"init", "start", "alarm", "cancel"}]
         /\ mid' \in [Alarms -> PostIds \cup {0}]
         /\ posted' \subseteq Posting
BY DEF TypeOK, CancelAlarms

LEMMA InitOwnerInv == Init => OwnerInv
<1> SUFFICES ASSUME Init PROVE OwnerInv
  OBVIOUS
<1>1. TypeOK
  BY TimeoutsAssumption, EmptySeq DEF Init, TypeOK, Keys
<1>2. ThreadShape
  BY DEF Init, ThreadShape
<1>3. Owned
  BY EmptySeq DEF Init, Owned
<1>4. QED BY <1>1, <1>2, <1>3 DEF OwnerInv

\* The histories speak of messages that exist.
LEMMA HistoryStep ==
  ASSUME TypeOK, [Next]_vars
  PROVE  raced' \subseteq Outstanding' /\ replaced' \subseteq Outstanding'
<1>H. raced \subseteq Outstanding /\ replaced \subseteq Outstanding
  BY DEF TypeOK
<1>1. ASSUME NEW k \in Keys, Written(k)
      PROVE  raced' \subseteq Outstanding' /\ replaced' \subseteq Outstanding'
  BY <1>1, <1>H DEF Written, queueVars, histVars, Outstanding
<1>2. CASE StartAlarm
  <2>1. posted \subseteq posted' /\ UNCHANGED <<qpc, qmsg, raced, replaced>>
    BY <1>2 DEF StartAlarm, queueVars, histVars, alarmVars
  <2>2. QED BY <2>1, <1>H DEF Outstanding
<1>3. CASE RecordAlarm
  BY <1>3, <1>H DEF RecordAlarm, queueVars, alarmVars, Outstanding
<1>4. ASSUME NEW k \in Ids, Reply(k)
      PROVE  raced' \subseteq Outstanding' /\ replaced' \subseteq Outstanding'
  <2>1. posted' \subseteq posted /\ UNCHANGED <<qpc, qmsg>>
    BY <1>4 DEF Reply, CancelAlarms, alarmVars, queueVars
  <2>2. replaced' = replaced \ (posted \ posted')
    BY <1>4 DEF Reply
  <2>3. \/ raced' = raced /\ posted' = posted
        \/ raced' = (raced \ (posted \ posted'))
              \cup {m \in Outstanding : Entering /\ m = qmsg /\ m.alarm = timeoutMap[k]}
    BY <1>4 DEF Reply, alarmVars
  <2>4. \A m \in Outstanding : Entering /\ m = qmsg => m \in Outstanding'
    BY <2>1 DEF Outstanding, Entering
  <2>5. Outstanding \ (posted \ posted') \subseteq Outstanding'
    BY <2>1 DEF Outstanding
  <2>6. posted' = posted => Outstanding' = Outstanding
    BY <2>1 DEF Outstanding
  <2>7. QED BY <1>H, <2>2, <2>3, <2>4, <2>5, <2>6
<1>5. CASE EndConnection
  BY <1>5 DEF EndConnection, Outstanding
<1>6. ASSUME NEW m \in posted, Rings(m)
      PROVE  raced' \subseteq Outstanding' /\ replaced' \subseteq Outstanding'
  BY <1>6, <1>H DEF Rings, histVars, Outstanding
<1>7. CASE Enter
  BY <1>7, <1>H DEF Enter, Leave, histVars, Outstanding
<1>8. CASE ReadUser
  BY <1>8, <1>H DEF ReadUser, alarmVars, histVars, Outstanding
<1>9. CASE EraseAlarm
  BY <1>9, <1>H DEF EraseAlarm, alarmVars, histVars, Outstanding
<1>10. CASE CallTimeout
  BY <1>10, <1>H DEF CallTimeout, Leave, alarmVars, Outstanding
<1>11. CASE UNCHANGED vars
  BY <1>11, <1>H DEF vars, alarmVars, queueVars, histVars, Outstanding
<1>12. QED
  BY <1>1, <1>2, <1>3, <1>4, <1>5, <1>6, <1>7, <1>8, <1>9, <1>10, <1>11 DEF Next

\* The types and the owners do not depend on what the threads find: no step
\* duplicates or drops an alarm.
LEMMA OwnerStep ==
  ASSUME OwnerInv, [Next]_vars
  PROVE  OwnerInv'
<1> USE DEF OwnerInv
<1>H. raced' \subseteq Outstanding' /\ replaced' \subseteq Outstanding'
  BY HistoryStep
<1>1. ASSUME NEW k \in Keys, Written(k) PROVE OwnerInv'
  <2>1. PICK a \in Alarms : TakeAlarm(a) /\ user' = [user EXCEPT ![a] = k] /\ hand' = a
    BY <1>1 DEF Written
  <2>2. cpc = "idle" /\ cpc' = "start" /\ cid' = k /\ hand = NoAlarm /\ UNCHANGED timeoutMap
        /\ callbacks' = callbacks \cup ({k} \cap Ids)
        /\ UNCHANGED <<status, mid, posted, qpc, qmsg, qid>>
    BY <1>1 DEF Written, ThreadShape, queueVars
  <2>3. made' \subseteq Alarms /\ made \subseteq made' /\ a \in made'
        /\ pool' \in Seq(made') /\ Owned'
    BY <2>1, <2>2, TakeKeepsOwned
  <2>4. a # NoAlarm
    BY TimeoutsAssumption
  <2>5. TypeOK'
    BY <1>H, <2>1, <2>2, <2>3 DEF TypeOK
  <2>6. ThreadShape'
    BY <2>1, <2>2, <2>4 DEF ThreadShape
  <2>7. QED BY <2>3, <2>5, <2>6
<1>2. CASE StartAlarm
  <2>1. cpc = "start" /\ cpc' = "record" /\ hand # NoAlarm
        /\ UNCHANGED <<made, pool, timeoutMap, callbacks, hand, cid, qpc, qmsg, qid, user>>
    BY <1>2 DEF StartAlarm, ThreadShape, poolVars, queueVars, alarmVars
  <2>2. hand \in Alarms /\ cid \in Keys
    BY <2>1 DEF TypeOK
  <2>3. /\ status' \in [Alarms -> {"init", "start", "alarm", "cancel"}]
        /\ mid' \in [Alarms -> PostIds \cup {0}]
        /\ posted' \subseteq Posting
    <3>1. CASE UNCHANGED alarmVars
      BY <3>1 DEF TypeOK, alarmVars
    <3>2. ASSUME NEW n \in PostIds,
                 posted' = posted \cup {[mid |-> n, alarm |-> hand, owner |-> cid]},
                 mid' = [mid EXCEPT ![hand] = n],
                 status' = [status EXCEPT ![hand] = "start"]
          PROVE  /\ status' \in [Alarms -> {"init", "start", "alarm", "cancel"}]
                 /\ mid' \in [Alarms -> PostIds \cup {0}]
                 /\ posted' \subseteq Posting
      BY <3>2, <2>2 DEF TypeOK, Posting
    <3>3. QED BY <1>2, <3>1, <3>2 DEF StartAlarm
  <2>4. QED BY <1>H, <2>1, <2>3 DEF TypeOK, ThreadShape, Owned
<1>3. CASE RecordAlarm
  <2>1. cpc = "record" /\ hand # NoAlarm /\ cid \in Keys
    BY <1>3 DEF RecordAlarm, ThreadShape, TypeOK
  <2>2. timeoutMap' \in [Keys -> made \cup {NoAlarm}] /\ pool' \in Seq(made) /\ Owned'
    BY <1>3, <2>1, RecordKeepsOwned DEF RecordAlarm
  <2>3. TypeOK'
    BY <1>H, <1>3, <2>2 DEF RecordAlarm, TypeOK, alarmVars, queueVars, Keys
  <2>4. ThreadShape'
    BY <1>3 DEF RecordAlarm, ThreadShape, queueVars
  <2>5. QED BY <2>2, <2>3, <2>4
<1>4. ASSUME NEW k \in Ids, Reply(k) PROVE OwnerInv'
  <2>1. callbacks' \subseteq Ids /\ UNCHANGED <<made, cpc, hand, cid, qpc, qmsg, qid>>
    BY <1>4 DEF Reply, TypeOK, clientVars, queueVars
  <2>2. ThreadShape'
    BY <2>1 DEF ThreadShape
  <2>3. CASE timeoutMap[k] = NoAlarm
    <3>1. UNCHANGED <<user, status, mid, posted, pool, timeoutMap>>
      BY <1>4, <2>3 DEF Reply, alarmVars
    <3>2. QED BY <1>H, <2>1, <2>2, <3>1 DEF TypeOK, Owned
  <2>4. CASE timeoutMap[k] # NoAlarm
    <3>1. CancelAlarms({timeoutMap[k]})
          /\ timeoutMap' = [timeoutMap EXCEPT ![k] = NoAlarm]
          /\ pool' = Append(pool, timeoutMap[k])
      BY <1>4, <2>4 DEF Reply
    <3>2. timeoutMap' \in [Keys -> made \cup {NoAlarm}] /\ pool' \in Seq(made) /\ Owned'
      BY <2>1, <2>4, <3>1, ReturnKeepsOwned DEF Keys
    <3>3. TypeOK'
      BY <1>H, <2>1, <3>1, <3>2, CancelTypes DEF TypeOK
    <3>4. QED BY <2>2, <3>2, <3>3
  <2>5. QED BY <2>3, <2>4
<1>5. CASE EndConnection
  <2>1. cpc = "idle" /\ hand = NoAlarm /\ callbacks' = {}
        /\ UNCHANGED <<made, cpc, hand, cid, qpc, qmsg, qid>>
    BY <1>5 DEF EndConnection, ThreadShape, clientVars, queueVars
  <2>2. timeoutMap' \in [Keys -> made \cup {NoAlarm}] /\ pool' \in Seq(made) /\ Owned'
    BY <1>5, <2>1, EndKeepsOwned
  <2>3. PICK S : CancelAlarms(S)
    BY <1>5 DEF EndConnection
  <2>4. TypeOK'
    BY <1>H, <2>1, <2>2, <2>3, CancelTypes DEF TypeOK
  <2>5. QED BY <2>1, <2>2, <2>4 DEF ThreadShape
<1>6. ASSUME NEW m \in posted, Rings(m) PROVE OwnerInv'
  BY <1>H, <1>6 DEF Rings, TypeOK, ThreadShape, Owned, poolVars, clientVars
<1>7. CASE Enter
  <2>1. qmsg \in Posting /\ 0 \in Keys
    BY <1>7 DEF Enter, ThreadShape, Keys
  <2>2. UNCHANGED <<user, mid, posted, made, pool, timeoutMap, callbacks, cpc, hand, cid>>
    BY <1>7 DEF Enter, poolVars, clientVars
  <2>3. status' \in [Alarms -> {"init", "start", "alarm", "cancel"}]
    BY <1>7, <2>1 DEF Enter, TypeOK, Posting
  <2>4. \/ qpc' = "idle" /\ qmsg' = [mid |-> 0] /\ qid' = 0
        \/ qpc' = "user" /\ UNCHANGED <<qmsg, qid>>
    BY <1>7 DEF Enter, Leave
  <2>5. QED BY <1>H, <2>1, <2>2, <2>3, <2>4 DEF TypeOK, ThreadShape, Owned
<1>8. CASE ReadUser
  <2>1. qmsg \in Posting
    BY <1>8 DEF ReadUser, ThreadShape
  <2>2. user[qmsg.alarm] \in Keys
    BY <2>1 DEF TypeOK, Posting
  <2>3. QED BY <1>H, <1>8, <2>1, <2>2 DEF ReadUser, TypeOK, ThreadShape, Owned, alarmVars, poolVars, clientVars
<1>9. CASE EraseAlarm
  <2>1. qmsg \in Posting /\ qid \in Keys
    BY <1>9 DEF EraseAlarm, ThreadShape, TypeOK
  <2>2. qpc' = "call" /\ UNCHANGED <<user, status, mid, posted, made, callbacks, cpc, hand, cid, qmsg, qid>>
    BY <1>9 DEF EraseAlarm, alarmVars, clientVars
  <2>3. timeoutMap' \in [Keys -> made \cup {NoAlarm}] /\ pool' \in Seq(made) /\ Owned'
    <3>1. CASE timeoutMap[qid] = NoAlarm
      <4>1. timeoutMap' = timeoutMap /\ pool' = pool
        BY <1>9, <2>1, <3>1 DEF EraseAlarm, TypeOK
      <4>2. QED BY <4>1, <2>2 DEF TypeOK, Owned
    <3>2. CASE timeoutMap[qid] # NoAlarm
      BY <1>9, <2>1, <2>2, <3>2, ReturnKeepsOwned DEF EraseAlarm
    <3>3. QED BY <3>1, <3>2
  <2>4. QED BY <1>H, <2>1, <2>2, <2>3 DEF TypeOK, ThreadShape
<1>10. CASE CallTimeout
  BY <1>H, <1>10 DEF CallTimeout, Leave, TypeOK, ThreadShape, Owned, alarmVars, poolVars, clientVars, Keys
<1>11. CASE UNCHANGED vars
  BY <1>H, <1>11 DEF vars, TypeOK, ThreadShape, Owned, alarmVars, poolVars, clientVars, queueVars
<1>12. QED
  BY <1>1, <1>2, <1>3, <1>4, <1>5, <1>6, <1>7, <1>8, <1>9, <1>10, <1>11 DEF Next

\* Owned says of every alarm that it is in one place; counting agrees.
LEMMA OwnedCounts == TypeOK /\ Owned => OneOwner
<1> SUFFICES ASSUME TypeOK, Owned, NEW a \in made
             PROVE  Cardinality({i \in DOMAIN pool : pool[i] = a})
                      + Cardinality({k \in Keys : timeoutMap[k] = a})
                      + (IF hand = a THEN 1 ELSE 0) = 1
  BY DEF OneOwner
<1> DEFINE P == {i \in DOMAIN pool : pool[i] = a}
           T == {k \in Keys : timeoutMap[k] = a}
<1>1. DOMAIN pool = 1..Len(pool) /\ a # NoAlarm
  BY TimeoutsAssumption, LenProperties DEF TypeOK
<1>2. CASE hand = a
  <2>1. P = {} /\ T = {}
    BY <1>1, <1>2 DEF Owned
  <2> HIDE DEF P, T
  <2>2. QED BY <2>1, <1>2, FS_EmptySet DEF P, T
<1>3. CASE hand # a /\ \E i \in 1..Len(pool) : pool[i] = a
  <2>1. PICK i \in 1..Len(pool) : pool[i] = a
    BY <1>3
  <2>2. P = {i} /\ T = {}
    BY <1>1, <2>1 DEF Owned
  <2> HIDE DEF P, T
  <2>3. Cardinality(P) = 1 /\ Cardinality(T) = 0
    BY <2>2, FS_EmptySet, FS_Singleton
  <2>4. QED BY <2>3, <1>3 DEF P, T
<1>4. CASE hand # a /\ \E k \in Keys : timeoutMap[k] = a
  <2>1. PICK k \in Keys : timeoutMap[k] = a
    BY <1>4
  <2>2. P = {} /\ T = {k}
    BY <1>1, <2>1 DEF Owned
  <2> HIDE DEF P, T
  <2>3. Cardinality(P) = 0 /\ Cardinality(T) = 1
    BY <2>2, FS_EmptySet, FS_Singleton
  <2>4. QED BY <2>3, <1>4 DEF P, T
<1>5. QED BY <1>2, <1>3, <1>4 DEF Owned

\* Whatever the threads and the peer do, the objects of the pool keep their
\* types and their owners.
THEOREM OwnerInvariant == Spec => []OwnerInv
<1>1. Init => OwnerInv
  BY InitOwnerInv
<1>2. OwnerInv /\ [Next]_vars => OwnerInv'
  BY OwnerStep
<1>3. QED BY <1>1, <1>2, PTL DEF Spec

\* The types of the request timeouts hold always.
THEOREM TimeoutsTypeOKAlways == Spec => []TypeOK
<1>1. OwnerInv => TypeOK
  BY DEF OwnerInv
<1>2. QED BY <1>1, OwnerInvariant, PTL

\* An alarm is in the pool once, or in the map under one key, or in the
\* client thread's hand.
THEOREM OneOwnerAlways == Spec => []OneOwner
<1>1. OwnerInv => OneOwner
  BY OwnedCounts DEF OwnerInv
<1>2. QED BY <1>1, OwnerInvariant, PTL

-----------------------------------------------------------------------------
(***************************************************************************)
(* That a message is on its way.                                           *)
(***************************************************************************)
WaitInv == OwnerInv /\ UsedShape /\ WaitingShape /\ RecordedShape

\* The fields of a message in the queue; its identifier is never the 0 that
\* says in an alarm that there is no message.
LEMMA PostingFields ==
  ASSUME NEW m \in Posting
  PROVE  m.mid \in PostIds /\ m.mid # 0 /\ m.alarm \in Alarms /\ m.owner \in Keys
BY TimeoutsAssumption DEF Posting, PostIds

LEMMA InitWaitInv == Init => WaitInv
<1> SUFFICES ASSUME Init PROVE WaitInv
  OBVIOUS
<1>1. OwnerInv
  BY InitOwnerInv
<1>2. UsedShape /\ WaitingShape
  BY DEF Init, UsedShape, WaitingShape
<1>3. RecordedShape
  BY DEF Init, RecordedShape, RecordedWillRing
<1>4. QED BY <1>1, <1>2, <1>3 DEF WaitInv

\* The steps that write a request.
LEMMA WritingWaits ==
  ASSUME WaitInv, OwnerInv',
         \/ \E k \in Keys : Written(k)
         \/ StartAlarm \/ RecordAlarm
  PROVE  UsedShape' /\ WaitingShape' /\ RecordedShape'
<1>O. TypeOK /\ ThreadShape /\ Owned /\ Owned'
  BY DEF WaitInv, OwnerInv
<1>P. UsedShape /\ WaitingShape /\ RecordedShape
  BY DEF WaitInv
<1>A. /\ \A k \in Keys : timeoutMap[k] # NoAlarm => timeoutMap[k] \in Alarms
      /\ NoAlarm \notin Alarms /\ cid \in Keys /\ Ids \subseteq Keys /\ callbacks \subseteq Ids
  BY <1>O, TimeoutsAssumption DEF TypeOK, Keys
<1>1. ASSUME NEW k \in Keys, Written(k)
      PROVE  UsedShape' /\ WaitingShape' /\ RecordedShape'
  <2>1. PICK a \in Alarms : user' = [user EXCEPT ![a] = k] /\ hand' = a
    BY <1>1 DEF Written
  <2>2. cpc' = "start" /\ cid' = k /\ UNCHANGED <<status, mid, posted, timeoutMap, qpc, qmsg, qid>>
        /\ callbacks' = callbacks \cup ({k} \cap Ids)
    BY <1>1 DEF Written, queueVars
  <2>3. \A l \in Keys : timeoutMap[l] # a
    BY <1>O, <1>A, <2>1, <2>2 DEF Owned
  <2>4. user'[a] = k /\ \A b \in Alarms : b # a => user'[b] = user[b]
    BY <1>O, <2>1 DEF TypeOK
  <2>5. UsedShape'
    BY <1>P, <1>A, <2>1, <2>2, <2>3, <2>4 DEF UsedShape
  <2>6. WaitingShape'
    BY <1>P, <2>2 DEF WaitingShape
  <2>7. k \in Ids => timeoutMap[k] = NoAlarm
    BY <1>1 DEF Written, IdIsFree
  <2>8. RecordedShape'
    BY <1>P, <2>2, <2>7 DEF RecordedShape, RecordedWillRing, Coming
  <2>9. QED BY <2>5, <2>6, <2>8
<1>2. CASE StartAlarm
  <2>1. cpc = "start" /\ cpc' = "record" /\ hand \in Alarms
        /\ UNCHANGED <<timeoutMap, callbacks, hand, cid, qpc, qmsg, qid, user>>
    BY <1>2, <1>O DEF StartAlarm, ThreadShape, TypeOK, poolVars, queueVars, alarmVars
  <2>2. /\ mid'[hand] # 0 /\ posted \subseteq posted'
        /\ \A b \in Alarms : b # hand => mid'[b] = mid[b] /\ status'[b] = status[b]
        /\ (\E m \in posted' : m.alarm = hand) \/ (qpc = "enter" /\ qmsg.alarm = hand)
    <3>1. CASE status[hand] = "start" /\ UNCHANGED alarmVars
      BY <1>P, <2>1, <3>1 DEF WaitingShape, alarmVars
    <3>2. ASSUME NEW n \in PostIds,
                 posted' = posted \cup {[mid |-> n, alarm |-> hand, owner |-> cid]},
                 mid' = [mid EXCEPT ![hand] = n],
                 status' = [status EXCEPT ![hand] = "start"]
          PROVE  /\ mid'[hand] # 0 /\ posted \subseteq posted'
                 /\ \A b \in Alarms : b # hand => mid'[b] = mid[b] /\ status'[b] = status[b]
                 /\ \E m \in posted' : m.alarm = hand
      <4>1. n # 0
        BY TimeoutsAssumption DEF PostIds
      <4>2. mid'[hand] = n /\ \A b \in Alarms : b # hand => mid'[b] = mid[b] /\ status'[b] = status[b]
        BY <1>O, <2>1, <3>2 DEF TypeOK
      <4>3. \E m \in posted' : m.alarm = hand
        <5> DEFINE new == [mid |-> n, alarm |-> hand, owner |-> cid]
        <5>1. new \in posted' /\ new.alarm = hand
          BY <3>2
        <5>2. QED BY <5>1
      <4>4. posted \subseteq posted'
        BY <3>2
      <4>5. QED BY <4>1, <4>2, <4>3, <4>4
    <3>3. QED BY <1>2, <3>1, <3>2 DEF StartAlarm
  <2>3. \A l \in Keys : timeoutMap[l] # hand
    BY <1>O, <1>A, <2>1 DEF Owned
  <2>4. UsedShape'
    BY <1>P, <1>A, <2>1, <2>2, <2>3 DEF UsedShape
  <2>5. WaitingShape'
    BY <1>P, <2>1, <2>2 DEF WaitingShape
  <2>6. RecordedWillRing'
    BY <1>P, <2>1, <2>2 DEF RecordedShape, RecordedWillRing, Coming
  <2>7. Coming(hand, cid)'
    BY <2>1, <2>2 DEF Coming
  <2>8. QED BY <2>1, <2>4, <2>5, <2>6, <2>7 DEF RecordedShape
<1>3. CASE RecordAlarm
  <2>1. cpc = "record" /\ cpc' = "idle" /\ hand \in Alarms
        /\ UNCHANGED <<user, status, mid, posted, callbacks, qpc, qmsg, qid>>
    BY <1>3, <1>O DEF RecordAlarm, ThreadShape, TypeOK, alarmVars, queueVars
  <2>2. timeoutMap'[cid] = hand /\ \A l \in Keys : l # cid => timeoutMap'[l] = timeoutMap[l]
    BY <1>3, <1>O, <1>A DEF RecordAlarm, TypeOK
  <2>3. UsedShape'
    BY <1>P, <1>A, <2>1, <2>2 DEF UsedShape
  <2>4. WaitingShape'
    BY <1>P, <2>1 DEF WaitingShape
  <2>5. RecordedShape'
    BY <1>P, <1>A, <2>1, <2>2 DEF RecordedShape, RecordedWillRing, Coming
  <2>6. QED BY <2>3, <2>4, <2>5
<1>4. QED BY <1>1, <1>2, <1>3

\* A canceled alarm loses its message identifier and no other alarm loses a
\* message by that.
LEMMA CancelFacts ==
  ASSUME TypeOK, WaitingShape, NEW S \in SUBSET Alarms, CancelAlarms(S)
  PROVE  /\ user' = user /\ posted' \subseteq posted
         /\ \A a \in S : mid'[a] = 0 /\ status'[a] # "start"
         /\ \A a \in Alarms \ S : mid'[a] = mid[a] /\ status'[a] = status[a]
         /\ \A m \in posted : m.alarm \notin S => m \in posted'
         /\ \A m \in posted : m.alarm \in S /\ m.mid = mid[m.alarm] => m \notin posted'
<1>1. \A m \in posted : m.mid # 0 /\ m.alarm \in Alarms
  BY PostingFields DEF TypeOK
<1>2. user' = user /\ posted' \subseteq posted
  BY DEF CancelAlarms
<1>3. \A a \in S : mid'[a] = 0 /\ status'[a] # "start"
  BY DEF CancelAlarms, WaitingShape
<1>4. \A a \in Alarms \ S : mid'[a] = mid[a] /\ status'[a] = status[a]
  BY DEF CancelAlarms
<1>5. \A m \in posted : m.alarm \notin S => m \in posted'
  BY DEF CancelAlarms
<1>6. \A m \in posted : m.alarm \in S /\ m.mid = mid[m.alarm] => m \notin posted'
  BY <1>1 DEF CancelAlarms
<1>7. QED BY <1>2, <1>3, <1>4, <1>5, <1>6

\* A reply, and the end of a connection.
LEMMA GivingBackWaits ==
  ASSUME WaitInv, (\E k \in Ids : Reply(k)) \/ EndConnection
  PROVE  UsedShape' /\ WaitingShape' /\ RecordedShape'
<1>O. TypeOK /\ ThreadShape /\ Owned
  BY DEF WaitInv, OwnerInv
<1>P. UsedShape /\ WaitingShape /\ RecordedShape
  BY DEF WaitInv
<1>A. /\ \A k \in Keys : timeoutMap[k] # NoAlarm => timeoutMap[k] \in Alarms
      /\ NoAlarm \notin Alarms /\ Ids \subseteq Keys /\ callbacks \subseteq Ids
  BY <1>O, TimeoutsAssumption DEF TypeOK, Keys
<1>1. ASSUME NEW k \in Ids, Reply(k)
      PROVE  UsedShape' /\ WaitingShape' /\ RecordedShape'
  <2>1. cpc = "idle" /\ callbacks' = callbacks \ {k} /\ k \in Keys
        /\ UNCHANGED <<cpc, hand, cid, qpc, qmsg, qid>>
    BY <1>1, <1>A DEF Reply, clientVars, queueVars
  <2>2. CASE timeoutMap[k] = NoAlarm
    <3>1. UNCHANGED <<user, status, mid, posted, timeoutMap>>
      BY <1>1, <2>2 DEF Reply, alarmVars
    <3>2. UsedShape' /\ WaitingShape'
      BY <1>P, <2>1, <3>1 DEF UsedShape, WaitingShape
    <3>3. RecordedShape'
      BY <1>P, <2>1, <3>1 DEF RecordedShape, RecordedWillRing, Coming
    <3>4. QED BY <3>2, <3>3
  <2>3. CASE timeoutMap[k] # NoAlarm
    <3> DEFINE b == timeoutMap[k]
    <3>1. b \in Alarms /\ CancelAlarms({b})
          /\ timeoutMap' = [timeoutMap EXCEPT ![k] = NoAlarm]
      BY <1>1, <1>A, <2>1, <2>3 DEF Reply
    <3>2. timeoutMap'[k] = NoAlarm /\ \A l \in Keys : l # k => timeoutMap'[l] = timeoutMap[l]
      BY <1>O, <2>1, <3>1 DEF TypeOK
    <3>3. \A l \in Keys : l # k => timeoutMap[l] # b
      BY <1>O, <2>1, <2>3 DEF Owned
    <3> HIDE DEF b
    <3>4. /\ user' = user /\ posted' \subseteq posted /\ status'[b] # "start"
          /\ \A a \in Alarms : a # b => mid'[a] = mid[a] /\ status'[a] = status[a]
          /\ \A m \in posted : m.alarm # b => m \in posted'
      BY <1>O, <1>P, <3>1, CancelFacts
    <3>5. UsedShape'
      BY <1>P, <1>A, <2>1, <3>2, <3>3, <3>4 DEF UsedShape
    <3>6. WaitingShape'
      BY <1>P, <2>1, <3>4 DEF WaitingShape
    <3>7. RecordedShape'
      BY <1>P, <1>A, <2>1, <3>2, <3>3, <3>4 DEF RecordedShape, RecordedWillRing, Coming
    <3>8. QED BY <3>5, <3>6, <3>7
  <2>4. QED BY <2>2, <2>3
<1>2. CASE EndConnection
  <2> DEFINE S == {timeoutMap[k] : k \in {k \in Keys : timeoutMap[k] # NoAlarm}}
  <2>1. CancelAlarms(S) /\ cpc = "idle" /\ cpc' = "idle" /\ qpc' = qpc /\ qmsg' = qmsg
        /\ timeoutMap' = [k \in Keys |-> NoAlarm] /\ callbacks' = {}
    BY <1>2 DEF EndConnection, clientVars, queueVars
  <2>2. S \subseteq Alarms
    BY <1>A
  <2> HIDE DEF S
  <2>3. /\ \A a \in S : status'[a] # "start"
        /\ \A a \in Alarms \ S : mid'[a] = mid[a] /\ status'[a] = status[a]
        /\ \A m \in posted : m.alarm \notin S => m \in posted'
    BY <1>O, <1>P, <2>1, <2>2, CancelFacts
  <2>4. WaitingShape'
    BY <1>P, <2>1, <2>3 DEF WaitingShape
  <2>5. UsedShape' /\ RecordedShape'
    BY <2>1 DEF UsedShape, RecordedShape, RecordedWillRing
  <2>6. QED BY <2>4, <2>5
<1>3. QED BY <1>1, <1>2

\* The steps of the queue's thread: the message of a request that waits does
\* not get lost between the queue and the callback.
LEMMA RingingWaits ==
  ASSUME WaitInv,
         \/ \E m \in posted : Rings(m)
         \/ Enter \/ ReadUser \/ EraseAlarm \/ CallTimeout
  PROVE  UsedShape' /\ WaitingShape' /\ RecordedShape'
<1>O. TypeOK /\ ThreadShape /\ Owned
  BY DEF WaitInv, OwnerInv
<1>P. UsedShape /\ WaitingShape /\ RecordedShape
  BY DEF WaitInv
<1>A. /\ \A k \in Keys : timeoutMap[k] # NoAlarm => timeoutMap[k] \in Alarms
      /\ Ids \subseteq Keys /\ callbacks \subseteq Ids /\ qid \in Keys /\ cid \in Keys
  BY <1>O DEF TypeOK, Keys
<1>Q. qpc # "idle" => qmsg.alarm \in Alarms
  BY <1>O, PostingFields DEF ThreadShape
<1>1. ASSUME NEW m \in posted, Rings(m)
      PROVE  UsedShape' /\ WaitingShape' /\ RecordedShape'
  <2>1. qpc = "idle" /\ qpc' = "enter" /\ qmsg' = m /\ posted' = posted \ {m}
        /\ UNCHANGED <<user, status, mid, timeoutMap, callbacks, cpc, hand, cid>>
    BY <1>1 DEF Rings, poolVars, clientVars
  <2>2. \A a : (\E n \in posted : n.alarm = a) =>
               (\E n \in posted' : n.alarm = a) \/ (qpc' = "enter" /\ qmsg'.alarm = a)
    BY <2>1
  <2>3. UsedShape' /\ WaitingShape'
    BY <1>P, <2>1, <2>2 DEF UsedShape, WaitingShape
  <2>4. RecordedShape'
    BY <1>P, <2>1, <2>2 DEF RecordedShape, RecordedWillRing, Coming
  <2>5. QED BY <2>3, <2>4
<1>2. CASE Enter
  <2>1. qpc = "enter" /\ UNCHANGED <<user, mid, posted, timeoutMap, callbacks, cpc, hand, cid>>
    BY <1>2 DEF Enter, poolVars, clientVars
  <2>2. UsedShape'
    BY <1>P, <2>1 DEF UsedShape
  <2>3. CASE mid[qmsg.alarm] = 0
    <3>1. qpc' = "idle" /\ UNCHANGED status
      BY <1>2, <2>3 DEF Enter, Leave
    <3>2. WaitingShape'
      BY <1>P, <2>1, <2>3, <3>1 DEF WaitingShape
    <3>3. \A k \in Keys : timeoutMap[k] # NoAlarm => timeoutMap[k] # qmsg.alarm
      BY <1>P, <2>3 DEF UsedShape
    <3>4. cpc = "record" => hand # qmsg.alarm
      BY <1>P, <2>3 DEF UsedShape
    <3>5. RecordedShape'
      BY <1>P, <1>A, <2>1, <3>1, <3>3, <3>4 DEF RecordedShape, RecordedWillRing, Coming
    <3>6. QED BY <2>2, <3>2, <3>5
  <2>4. CASE mid[qmsg.alarm] # 0
    <3>1. qpc' = "user" /\ qmsg' = qmsg /\ status' = [status EXCEPT ![qmsg.alarm] = "alarm"]
      BY <1>2, <2>4 DEF Enter
    <3>2. status'[qmsg.alarm] # "start" /\ \A a \in Alarms : a # qmsg.alarm => status'[a] = status[a]
      BY <1>O, <1>Q, <2>1, <3>1 DEF TypeOK
    <3>3. WaitingShape'
      BY <1>P, <2>1, <3>1, <3>2 DEF WaitingShape
    <3>4. RecordedShape'
      BY <1>P, <2>1, <3>1 DEF RecordedShape, RecordedWillRing, Coming
    <3>5. QED BY <2>2, <3>3, <3>4
  <2>5. QED BY <2>3, <2>4
<1>3. CASE ReadUser
  <2>1. qpc = "user" /\ qpc' = "erase" /\ qid' = user[qmsg.alarm]
        /\ UNCHANGED <<user, status, mid, posted, timeoutMap, callbacks, cpc, hand, cid, qmsg>>
    BY <1>3 DEF ReadUser, alarmVars, poolVars, clientVars
  <2>2. UsedShape' /\ WaitingShape'
    BY <1>P, <2>1 DEF UsedShape, WaitingShape
  <2>3. RecordedShape'
    BY <1>P, <1>A, <2>1 DEF RecordedShape, RecordedWillRing, Coming, UsedShape
  <2>4. QED BY <2>2, <2>3
<1>4. CASE EraseAlarm
  <2>1. qpc = "erase" /\ qpc' = "call"
        /\ UNCHANGED <<user, status, mid, posted, callbacks, cpc, hand, cid, qmsg, qid>>
    BY <1>4 DEF EraseAlarm, alarmVars, clientVars
  <2>2. timeoutMap'[qid] = NoAlarm /\ \A l \in Keys : l # qid => timeoutMap'[l] = timeoutMap[l]
    BY <1>4, <1>O, <1>A DEF EraseAlarm, TypeOK
  <2>3. UsedShape' /\ WaitingShape'
    BY <1>P, <2>1, <2>2 DEF UsedShape, WaitingShape
  <2>4. RecordedShape'
    BY <1>P, <1>A, <2>1, <2>2 DEF RecordedShape, RecordedWillRing, Coming
  <2>5. QED BY <2>3, <2>4
<1>5. CASE CallTimeout
  <2>1. qpc = "call" /\ qpc' = "idle" /\ callbacks' = callbacks \ {qid}
        /\ UNCHANGED <<user, status, mid, posted, timeoutMap, cpc, hand, cid>>
    BY <1>5 DEF CallTimeout, Leave, alarmVars, poolVars, clientVars
  <2>2. UsedShape' /\ WaitingShape'
    BY <1>P, <2>1 DEF UsedShape, WaitingShape
  <2>3. RecordedShape'
    BY <1>P, <2>1 DEF RecordedShape, RecordedWillRing, Coming
  <2>4. QED BY <2>2, <2>3
<1>6. QED BY <1>1, <1>2, <1>3, <1>4, <1>5

LEMMA WaitStep ==
  ASSUME WaitInv, [Next]_vars
  PROVE  WaitInv'
<1>1. OwnerInv'
  BY OwnerStep DEF WaitInv
<1>2. CASE UNCHANGED vars
  <2>1. UsedShape' /\ WaitingShape'
    BY <1>2 DEF WaitInv, vars, alarmVars, poolVars, clientVars, queueVars, UsedShape, WaitingShape
  <2>2. RecordedShape'
    BY <1>2 DEF WaitInv, vars, alarmVars, poolVars, clientVars, queueVars,
                RecordedShape, RecordedWillRing, Coming
  <2>3. QED BY <1>1, <2>1, <2>2 DEF WaitInv
<1>3. CASE Next
  <2>1. UsedShape' /\ WaitingShape' /\ RecordedShape'
    BY <1>1, <1>3, WritingWaits, GivingBackWaits, RingingWaits DEF Next
  <2>2. QED BY <1>1, <2>1 DEF WaitInv
<1>4. QED BY <1>2, <1>3

\* The invariant that ties waiting requests and waiting alarms to messages is
\* kept by every step.
THEOREM WaitInvariant == Spec => []WaitInv
<1>1. Init => WaitInv
  BY InitWaitInv
<1>2. WaitInv /\ [Next]_vars => WaitInv'
  BY WaitStep
<1>3. QED BY <1>1, <1>2, PTL DEF Spec

\* Every request in _timeoutAlarmMap whose callback has not been taken has a
\* message on its way that ends it, also when its alarm went back to the pool
\* too early and was handed out again.
THEOREM RecordedWillRingAlways == Spec => []RecordedWillRing
<1>1. WaitInv => RecordedWillRing
  BY DEF WaitInv, RecordedShape
<1>2. QED BY <1>1, WaitInvariant, PTL

-----------------------------------------------------------------------------
(***************************************************************************)
(* Which message ends which request.                                       *)
(***************************************************************************)
RingInv == WaitInv /\ MessageShape /\ PostedShape /\ RingingShape

\* What the types say about the messages, and that the one whose callback is
\* running is no longer in the queue.
LEMMA MessageFacts ==
  ASSUME RingInv
  PROVE  /\ NoAlarm \notin Alarms
         /\ \A m \in posted : m.alarm \in Alarms /\ m.owner \in Keys /\ m \in Outstanding
         /\ qpc # "idle" => /\ qmsg.alarm \in Alarms /\ qmsg.owner \in Keys
                            /\ qmsg \in Outstanding /\ qmsg \notin posted
<1>1. TypeOK /\ ThreadShape /\ MessageShape
  BY DEF RingInv, WaitInv, OwnerInv
<1>2. \A m \in posted : m.alarm \in Alarms /\ m.owner \in Keys
  BY <1>1, PostingFields DEF TypeOK
<1>3. qpc # "idle" => qmsg.alarm \in Alarms /\ qmsg.owner \in Keys /\ qmsg \notin posted
  BY <1>1, PostingFields DEF ThreadShape, MessageShape
<1>4. QED BY <1>2, <1>3, TimeoutsAssumption DEF Outstanding

LEMMA InitRingInv == Init => RingInv
BY InitWaitInv DEF Init, RingInv, MessageShape, PostedShape, RingingShape

\* The steps that write a request, whatever the callback under way has read.
LEMMA WritingRings ==
  ASSUME RingInv, WaitInv',
         \/ \E k \in Keys : Written(k)
         \/ StartAlarm \/ RecordAlarm
  PROVE  MessageShape' /\ PostedShape' /\ RingingShape'
<1>O. TypeOK /\ ThreadShape /\ Owned
  BY DEF RingInv, WaitInv, OwnerInv
<1>P. MessageShape /\ PostedShape /\ RingingShape
  BY DEF RingInv
<1>F. /\ NoAlarm \notin Alarms
      /\ \A m \in posted : m.alarm \in Alarms /\ m.owner \in Keys /\ m \in Outstanding
      /\ qpc # "idle" => /\ qmsg.alarm \in Alarms /\ qmsg.owner \in Keys
                         /\ qmsg \in Outstanding /\ qmsg \notin posted
  BY MessageFacts
<1>1. ASSUME NEW k \in Keys, Written(k)
      PROVE  MessageShape' /\ PostedShape' /\ RingingShape'
  <2>1. cpc = "idle" /\ cpc' = "start" /\ cid' = k /\ IdIsFree(k)
        /\ UNCHANGED <<mid, posted, timeoutMap, qpc, qmsg, qid, raced, replaced>>
    BY <1>1 DEF Written, queueVars, histVars
  <2>2. \A m : Placed(m) => Placed(m)'
    BY <2>1 DEF Placed
  <2>3. Stray' = Stray /\ \A a : Awaited(a)' => Awaited(a)
    BY <2>1 DEF Stray, Awaited
  <2>4. qid # 0 => k # qid
    BY <2>1, <1>1 DEF IdIsFree, Keys
  <2>5. MessageShape' /\ PostedShape'
    BY <1>P, <2>1, <2>2, <2>3 DEF MessageShape, PostedShape
  <2>6. RingingShape'
    BY <1>P, <2>1, <2>2, <2>3, <2>4 DEF RingingShape
  <2>7. QED BY <2>5, <2>6
<1>2. CASE StartAlarm
  <2>1. cpc = "start" /\ cpc' = "record" /\ hand \in Alarms /\ hand # NoAlarm /\ cid \in Keys
        /\ UNCHANGED <<timeoutMap, hand, cid, qpc, qmsg, qid, raced, replaced>>
    BY <1>2, <1>O, <1>F DEF StartAlarm, ThreadShape, TypeOK, poolVars, queueVars, histVars
  <2>2. \A m : Placed(m) => Placed(m)' /\ timeoutMap[m.owner] = m.alarm
    BY <2>1 DEF Placed
  <2>3. \A m \in Posting : Placed(m) => m.alarm # hand
    <3> TAKE m \in Posting
    <3>1. m.owner \in Keys
      BY PostingFields
    <3>2. QED BY <1>O, <2>1, <2>2, <3>1 DEF Owned
  <2>4. Stray' = Stray
    BY <2>1 DEF Stray
  <2>5. posted \subseteq Posting /\ (qpc # "idle" => qmsg \in Posting)
    BY <1>O DEF TypeOK, ThreadShape
  <2>6. CASE UNCHANGED alarmVars
    <3>1. \A a : Awaited(a)' => Awaited(a)
      BY <2>4, <2>6 DEF Awaited, alarmVars
    <3>2. MessageShape' /\ PostedShape'
      BY <1>P, <2>1, <2>2, <2>4, <2>6 DEF MessageShape, PostedShape, alarmVars
    <3>3. RingingShape'
      BY <1>P, <2>1, <2>2, <2>4, <2>6, <3>1 DEF RingingShape
    <3>4. QED BY <3>2, <3>3
  <2>7. ASSUME NEW n \in PostIds, \A m \in posted : m.mid # n, qmsg.mid # n,
               posted' = posted \cup {[mid |-> n, alarm |-> hand, owner |-> cid]},
               mid' = [mid EXCEPT ![hand] = n]
        PROVE  MessageShape' /\ PostedShape' /\ RingingShape'
    <3> DEFINE new == [mid |-> n, alarm |-> hand, owner |-> cid]
    <3>1. new.mid = n /\ new.alarm = hand /\ new.owner = cid /\ posted' = posted \cup {new}
      BY <2>7
    <3>2. mid'[hand] = n /\ \A b \in Alarms : b # hand => mid'[b] = mid[b]
      BY <1>O, <2>1, <2>7 DEF TypeOK
    <3> HIDE DEF new
    <3>3. MessageShape'
      BY <1>P, <2>1, <2>7, <3>1 DEF MessageShape
    <3>4. PostedShape'
      <4> SUFFICES ASSUME NEW m \in posted', m \notin Stray'
                   PROVE  m.mid = mid'[m.alarm] /\ Placed(m)'
        BY DEF PostedShape
      <4>1. CASE m = new
        BY <2>1, <3>1, <3>2, <4>1 DEF Placed
      <4>2. CASE m \in posted
        <5>1. m.mid = mid[m.alarm] /\ Placed(m)
          BY <1>P, <2>4, <4>2 DEF PostedShape
        <5>2. m.alarm # hand /\ m.alarm \in Alarms
          BY <1>F, <2>3, <2>5, <4>2, <5>1
        <5>3. QED BY <2>2, <3>2, <5>1, <5>2
      <4>3. QED BY <3>1, <4>1, <4>2
    <3>5. qpc # "idle" /\ Placed(qmsg) /\ ~Awaited(qmsg.alarm) => ~Awaited(qmsg.alarm)'
      BY <2>1, <2>3, <2>4, <2>5, <3>1 DEF Awaited
    <3>6. RingingShape'
      BY <1>P, <2>1, <2>2, <2>4, <3>5 DEF RingingShape
    <3>7. QED BY <3>3, <3>4, <3>6
  <2>8. QED BY <1>2, <2>6, <2>7 DEF StartAlarm
<1>3. CASE RecordAlarm
  <2>1. cpc = "record" /\ cpc' = "idle" /\ cid \in Keys
        /\ UNCHANGED <<mid, posted, qpc, qmsg, qid>>
    BY <1>3, <1>O DEF RecordAlarm, TypeOK, alarmVars, queueVars
  <2>2. timeoutMap'[cid] = hand /\ \A l \in Keys : l # cid => timeoutMap'[l] = timeoutMap[l]
    BY <1>3, <1>O, <2>1 DEF RecordAlarm, TypeOK
  <2>3. Stray' = Stray \cup {m \in Outstanding : m.alarm = timeoutMap[cid]}
    BY <1>3 DEF RecordAlarm, Stray
  <2>4. \A m \in Outstanding : m \notin Stray' /\ m.owner \in Keys /\ Placed(m) => Placed(m)'
    BY <2>1, <2>2, <2>3 DEF Placed
  <2>5. \A a : Awaited(a)' => Awaited(a)
    BY <2>1, <2>3 DEF Awaited
  <2>6. MessageShape' /\ PostedShape'
    BY <1>P, <1>F, <2>1, <2>3, <2>4 DEF MessageShape, PostedShape
  <2>7. RingingShape'
    <3> SUFFICES ASSUME qpc # "idle", qmsg \notin Stray'
                 PROVE  /\ qpc \in {"enter", "user"} => Placed(qmsg)' /\ ~Awaited(qmsg.alarm)'
                        /\ qpc \in {"erase", "call"} => qid = qmsg.owner
                        /\ qpc = "erase" =>
                              \/ Placed(qmsg)' /\ ~Awaited(qmsg.alarm)'
                              \/ qid # 0 /\ timeoutMap'[qid] = NoAlarm
      BY <2>1 DEF RingingShape, Placed, Awaited
    <3>1. qmsg \notin Stray /\ (Placed(qmsg) => Placed(qmsg)') /\ qid \in Keys
      BY <1>O, <1>F, <2>1, <2>3, <2>4 DEF TypeOK
    <3>2. cid # qid => timeoutMap'[qid] = timeoutMap[qid]
      BY <2>2, <3>1
    <3>3. QED BY <1>P, <2>1, <2>5, <3>1, <3>2 DEF RingingShape
  <2>8. QED BY <2>6, <2>7
<1>4. QED BY <1>1, <1>2, <1>3

\* A reply, and the end of a connection.
LEMMA GivingBackRings ==
  ASSUME RingInv, (\E k \in Ids : Reply(k)) \/ EndConnection
  PROVE  MessageShape' /\ PostedShape' /\ RingingShape'
<1>O. TypeOK /\ ThreadShape /\ Owned /\ WaitingShape
  BY DEF RingInv, WaitInv, OwnerInv
<1>P. MessageShape /\ PostedShape /\ RingingShape
  BY DEF RingInv
<1>F. /\ NoAlarm \notin Alarms
      /\ \A m \in posted : m.alarm \in Alarms /\ m.owner \in Keys /\ m \in Outstanding
      /\ qpc # "idle" => /\ qmsg.alarm \in Alarms /\ qmsg.owner \in Keys
                         /\ qmsg \in Outstanding /\ qmsg \notin posted
  BY MessageFacts
<1>1. ASSUME NEW k \in Ids, Reply(k)
      PROVE  MessageShape' /\ PostedShape' /\ RingingShape'
  <2>1. cpc = "idle" /\ k \in Keys /\ k # 0 /\ UNCHANGED <<cpc, hand, cid, qpc, qmsg, qid>>
    BY <1>1, TimeoutsAssumption DEF Reply, clientVars, queueVars, Keys
  <2>2. CASE timeoutMap[k] = NoAlarm
    <3>1. UNCHANGED <<mid, posted, timeoutMap, raced>> /\ replaced' = replaced \ (posted \ posted')
      BY <1>1, <2>2 DEF Reply, alarmVars
    <3>2. UNCHANGED <<mid, posted, timeoutMap, raced, replaced>>
      BY <3>1
    <3>3. MessageShape' /\ PostedShape'
      BY <1>P, <2>1, <3>2 DEF MessageShape, PostedShape, Placed, Stray
    <3>4. RingingShape'
      BY <1>P, <2>1, <3>2 DEF RingingShape, Placed, Awaited, Stray
    <3>5. QED BY <3>3, <3>4
  <2>3. CASE timeoutMap[k] # NoAlarm
    <3> DEFINE b == timeoutMap[k]
    <3>1. b \in Alarms /\ CancelAlarms({b})
          /\ timeoutMap' = [timeoutMap EXCEPT ![k] = NoAlarm]
      BY <1>1, <1>O, <2>1, <2>3 DEF Reply, TypeOK
    <3>2. timeoutMap'[k] = NoAlarm /\ \A l \in Keys : l # k => timeoutMap'[l] = timeoutMap[l]
      BY <1>O, <2>1, <3>1 DEF TypeOK
    <3>3. /\ raced' = (raced \ (posted \ posted'))
                \cup {m \in Outstanding : Entering /\ m = qmsg /\ m.alarm = b}
          /\ replaced' = replaced \ (posted \ posted')
      BY <1>1, <2>3 DEF Reply
    <3>P. \A m : Placed(m) <=> timeoutMap[m.owner] = m.alarm
      BY <2>1 DEF Placed
    <3>Q. \A m : m.alarm # b /\ m.owner \in Keys /\ Placed(m) => Placed(m)'
      <4> SUFFICES ASSUME NEW m, m.alarm # b, m.owner \in Keys, timeoutMap[m.owner] = m.alarm
                   PROVE  timeoutMap'[m.owner] = m.alarm
        BY <3>P DEF Placed
      <4>1. QED BY <3>2
    <3> HIDE DEF b
    <3>4. /\ posted' \subseteq posted
          /\ \A a \in Alarms : a # b => mid'[a] = mid[a]
          /\ \A m \in posted : m.alarm = b /\ m.mid = mid[m.alarm] => m \notin posted'
      BY <1>O, <3>1, CancelFacts
    <3>5. \A m \in Outstanding : m \notin posted \ posted' /\ m \in Stray => m \in Stray'
      BY <3>3 DEF Stray
    <3>6. \A m \in posted' \ Stray' : m \in posted \ Stray /\ m.alarm # b
      BY <1>F, <1>P, <3>4, <3>5 DEF PostedShape
    <3>7. \A a : Awaited(a)' => Awaited(a)
      BY <3>6 DEF Awaited
    <3>8. MessageShape'
      BY <1>P, <2>1, <3>4 DEF MessageShape
    <3>9. PostedShape'
      <4> SUFFICES ASSUME NEW m \in posted' \ Stray'
                   PROVE  m.mid = mid'[m.alarm] /\ Placed(m)'
        BY DEF PostedShape
      <4>1. m \in posted \ Stray /\ m.alarm # b /\ m.alarm \in Alarms /\ m.owner \in Keys
        BY <1>F, <3>6
      <4>2. m.mid = mid[m.alarm] /\ Placed(m)
        BY <1>P, <4>1 DEF PostedShape
      <4>3. QED BY <3>Q, <3>4, <4>1, <4>2
    <3>10. RingingShape'
      <4> SUFFICES ASSUME qpc # "idle", qmsg \notin Stray'
                   PROVE  /\ qpc \in {"enter", "user"} => Placed(qmsg)' /\ ~Awaited(qmsg.alarm)'
                          /\ qpc \in {"erase", "call"} => qid = qmsg.owner
                          /\ qpc = "erase" =>
                                \/ Placed(qmsg)' /\ ~Awaited(qmsg.alarm)'
                                \/ qid # 0 /\ timeoutMap'[qid] = NoAlarm
        BY <2>1 DEF RingingShape, Placed, Awaited
      <4>1. qmsg \notin Stray /\ qmsg.alarm \in Alarms /\ qmsg.owner \in Keys /\ qid \in Keys
        BY <1>O, <1>F, <3>5 DEF TypeOK
      <4>2. qpc \in {"enter", "user"} => qmsg.alarm # b
        BY <1>F, <3>3 DEF Stray, Entering
      <4>3. qpc \in {"enter", "user"} => Placed(qmsg)' /\ ~Awaited(qmsg.alarm)'
        BY <1>P, <2>1, <3>Q, <3>7, <4>1, <4>2 DEF RingingShape
      <4>4. qpc \in {"erase", "call"} => qid = qmsg.owner
        BY <1>P, <4>1 DEF RingingShape
      <4>5. ASSUME qpc = "erase"
            PROVE  \/ Placed(qmsg)' /\ ~Awaited(qmsg.alarm)'
                   \/ qid # 0 /\ timeoutMap'[qid] = NoAlarm
        <5>1. CASE qid = k
          BY <2>1, <3>2, <5>1
        <5>2. CASE qid # k /\ timeoutMap[qid] = NoAlarm /\ qid # 0
          BY <3>2, <4>1, <5>2
        <5>3. CASE qid # k /\ Placed(qmsg) /\ ~Awaited(qmsg.alarm)
          <6>1. timeoutMap'[qmsg.owner] = qmsg.alarm
            BY <3>P, <3>2, <4>1, <4>4, <4>5, <5>3
          <6>2. QED BY <2>1, <3>7, <5>3, <6>1 DEF Placed
        <5>4. QED BY <1>P, <4>1, <4>5, <5>1, <5>2, <5>3 DEF RingingShape
      <4>6. QED BY <4>3, <4>4, <4>5
    <3>11. QED BY <3>8, <3>9, <3>10
  <2>4. QED BY <2>2, <2>3
<1>2. CASE EndConnection
  <2> DEFINE S == {timeoutMap[k] : k \in {k \in Keys : timeoutMap[k] # NoAlarm}}
  <2>1. CancelAlarms(S) /\ cpc = "idle" /\ qpc' = "idle"
        /\ raced' = raced \cap posted' /\ replaced' = replaced \cap posted'
    BY <1>2 DEF EndConnection, queueVars
  <2>2. S \subseteq Alarms
    BY <1>O DEF TypeOK
  <2>3. \A m \in posted \ Stray : m.alarm \in S /\ m.mid = mid[m.alarm]
    BY <1>P, <1>F, <2>1 DEF PostedShape, Placed
  <2> HIDE DEF S
  <2>4. /\ posted' \subseteq posted
        /\ \A m \in posted : m.alarm \in S /\ m.mid = mid[m.alarm] => m \notin posted'
    BY <1>O, <2>1, <2>2, CancelFacts
  <2>5. posted' \ Stray' = {}
    BY <2>1, <2>3, <2>4 DEF Stray
  <2>6. MessageShape' /\ PostedShape' /\ RingingShape'
    BY <1>P, <2>1, <2>4, <2>5 DEF MessageShape, PostedShape, RingingShape
  <2>7. QED BY <2>6
<1>3. QED BY <1>1, <1>2

\* The steps of the queue's thread.
LEMMA RingingRings ==
  ASSUME RingInv,
         \/ \E m \in posted : Rings(m)
         \/ Enter \/ ReadUser \/ EraseAlarm \/ CallTimeout
  PROVE  MessageShape' /\ PostedShape' /\ RingingShape'
<1>O. TypeOK /\ ThreadShape /\ Owned /\ UsedShape
  BY DEF RingInv, WaitInv, OwnerInv
<1>P. MessageShape /\ PostedShape /\ RingingShape
  BY DEF RingInv
<1>F. /\ NoAlarm \notin Alarms
      /\ \A m \in posted : m.alarm \in Alarms /\ m.owner \in Keys /\ m \in Outstanding
      /\ qpc # "idle" => /\ qmsg.alarm \in Alarms /\ qmsg.owner \in Keys
                         /\ qmsg \in Outstanding /\ qmsg \notin posted
  BY MessageFacts
<1>L. ASSUME qpc # "idle", Leave, UNCHANGED <<mid, posted, timeoutMap, cpc, hand, cid>>
      PROVE  MessageShape' /\ PostedShape' /\ RingingShape'
  <2>1. posted' \ Stray' = posted \ Stray /\ qpc' = "idle"
    BY <1>L, <1>F DEF Leave, Stray
  <2>2. \A m : Placed(m) => Placed(m)'
    BY <1>L DEF Placed
  <2>3. MessageShape' /\ PostedShape' /\ RingingShape'
    BY <1>P, <1>L, <2>1, <2>2 DEF MessageShape, PostedShape, RingingShape
  <2>4. QED BY <2>3
<1>1. ASSUME NEW m \in posted, Rings(m)
      PROVE  MessageShape' /\ PostedShape' /\ RingingShape'
  <2>1. qpc' = "enter" /\ qmsg' = m /\ posted' = posted \ {m}
        /\ UNCHANGED <<mid, timeoutMap, cpc, hand, cid, raced, replaced>>
    BY <1>1 DEF Rings, poolVars, clientVars, histVars
  <2>2. Stray' = Stray /\ \A n : Placed(n) => Placed(n)'
    BY <2>1 DEF Stray, Placed
  <2>3. MessageShape'
    BY <1>P, <2>1 DEF MessageShape
  <2>4. PostedShape'
    BY <1>P, <2>1, <2>2 DEF PostedShape
  <2>5. m \notin Stray => Placed(m)' /\ ~Awaited(m.alarm)'
    <3> SUFFICES ASSUME m \notin Stray, NEW n \in posted \ Stray, n # m, n.alarm = m.alarm
                 PROVE  FALSE
      BY <1>P, <2>1, <2>2 DEF PostedShape, Awaited
    <3>1. n.mid = m.mid
      BY <1>P DEF PostedShape
    <3>2. QED BY <1>P, <3>1 DEF MessageShape
  <2>6. RingingShape'
    <3>1. Placed(qmsg)' = Placed(m)' /\ Awaited(qmsg.alarm)' = Awaited(m.alarm)'
      BY <2>1 DEF Placed, Awaited
    <3>2. QED BY <2>1, <2>2, <2>5, <3>1 DEF RingingShape
  <2>7. QED BY <2>3, <2>4, <2>6
<1>2. CASE Enter
  <2>1. qpc = "enter" /\ UNCHANGED <<mid, posted, timeoutMap, cpc, hand, cid>>
    BY <1>2 DEF Enter, poolVars, clientVars
  <2>2. CASE Leave
    BY <1>L, <2>1, <2>2
  <2>3. CASE qpc' = "user" /\ UNCHANGED <<qmsg, qid, histVars>>
    <3>1. MessageShape' /\ PostedShape'
      BY <1>P, <2>1, <2>3 DEF MessageShape, PostedShape, Placed, Stray, histVars
    <3>2. RingingShape'
      BY <1>P, <2>1, <2>3 DEF RingingShape, Placed, Awaited, Stray, histVars
    <3>3. QED BY <3>1, <3>2
  <2>4. QED BY <1>2, <2>2, <2>3 DEF Enter
<1>3. CASE ReadUser
  <2>1. qpc = "user" /\ qpc' = "erase" /\ qid' = user[qmsg.alarm]
        /\ UNCHANGED <<mid, posted, timeoutMap, cpc, hand, cid, qmsg, raced, replaced>>
    BY <1>3 DEF ReadUser, alarmVars, poolVars, clientVars, histVars
  <2>2. Placed(qmsg) => user[qmsg.alarm] = qmsg.owner
    BY <1>O, <1>F, <2>1 DEF Placed, UsedShape
  <2>3. MessageShape' /\ PostedShape'
    BY <1>P, <2>1 DEF MessageShape, PostedShape, Placed, Stray
  <2>4. Stray' = Stray /\ (Placed(qmsg) => Placed(qmsg)')
        /\ (Awaited(qmsg.alarm)' => Awaited(qmsg.alarm))
    BY <2>1 DEF Stray, Placed, Awaited
  <2>5. RingingShape'
    BY <1>P, <2>1, <2>2, <2>4 DEF RingingShape
  <2>6. QED BY <2>3, <2>5
<1>4. CASE EraseAlarm
  <2> DEFINE left == {m \in posted : m.alarm = timeoutMap[qid]}
  <2>1. qpc = "erase" /\ qpc' = "call" /\ UNCHANGED <<mid, posted, cpc, hand, cid, qmsg, qid>>
    BY <1>4 DEF EraseAlarm, alarmVars, clientVars
  <2>2. qid \in Keys /\ \A l \in Keys : l # qid => timeoutMap'[l] = timeoutMap[l]
    BY <1>4, <1>O DEF EraseAlarm, TypeOK
  <2>3. Stray \subseteq Stray' /\ (left \subseteq Stray' \/ (qmsg \notin Stray /\ timeoutMap[qid] = qmsg.alarm))
    BY <1>4 DEF EraseAlarm, Stray, histVars
  <2>4. \A m \in left : m \in Stray'
    <3> SUFFICES ASSUME NEW m \in left, m \notin Stray, qmsg \notin Stray, timeoutMap[qid] = qmsg.alarm
                 PROVE  FALSE
      BY <2>3
    <3>1. Awaited(qmsg.alarm)
      BY DEF Awaited
    <3>2. timeoutMap[qid] # NoAlarm
      BY <1>F, <2>1
    <3>3. QED BY <1>P, <2>1, <3>1, <3>2 DEF RingingShape
  <2>5. MessageShape'
    BY <1>P, <2>1 DEF MessageShape
  <2>6. PostedShape'
    <3> SUFFICES ASSUME NEW m \in posted \ Stray'
                 PROVE  m.mid = mid[m.alarm] /\ Placed(m)'
      BY <2>1 DEF PostedShape
    <3>1. m \notin Stray /\ m \notin left /\ m.owner \in Keys
      BY <1>F, <2>3, <2>4
    <3>2. m.mid = mid[m.alarm] /\ Placed(m)
      BY <1>P, <3>1 DEF PostedShape
    <3>3. QED BY <2>1, <2>2, <3>1, <3>2 DEF Placed
  <2>7. RingingShape'
    BY <1>P, <2>1, <2>3 DEF RingingShape
  <2>8. QED BY <2>5, <2>6, <2>7
<1>5. CASE CallTimeout
  BY <1>5, <1>L DEF CallTimeout, alarmVars, poolVars, clientVars
<1>6. QED BY <1>1, <1>2, <1>3, <1>4, <1>5

LEMMA RingStep ==
  ASSUME RingInv, [Next]_vars
  PROVE  RingInv'
<1>1. WaitInv'
  BY WaitStep DEF RingInv
<1>2. CASE UNCHANGED vars
  <2>1. MessageShape' /\ PostedShape'
    BY <1>2 DEF RingInv, vars, alarmVars, poolVars, clientVars, queueVars, histVars,
                MessageShape, PostedShape, Placed, Stray
  <2>2. RingingShape'
    BY <1>2 DEF RingInv, vars, alarmVars, poolVars, clientVars, queueVars, histVars,
                RingingShape, Placed, Awaited, Stray
  <2>3. QED BY <1>1, <2>1, <2>2 DEF RingInv
<1>3. CASE Next
  <2>1. MessageShape' /\ PostedShape' /\ RingingShape'
    BY <1>1, <1>3, WritingRings, GivingBackRings, RingingRings DEF Next
  <2>2. QED BY <1>1, <2>1 DEF RingInv
<1>4. QED BY <1>2, <1>3

\* The invariant that ties messages, alarms and requests together is kept by
\* every step: a message is the one its alarm knows of, and the alarm is in
\* the map under the request the message was posted for, unless the alarm
\* went back to the pool too early.
THEOREM RingInvariant == Spec => []RingInv
<1>1. Init => RingInv
  BY InitRingInv
<1>2. RingInv /\ [Next]_vars => RingInv'
  BY RingStep
<1>3. QED BY <1>1, <1>2, PTL DEF Spec

\* The timeout that a request sees is the one started for it, unless a reply
\* met the callback before it read its request, or a request without reply
\* replaced a running alarm.
THEOREM TimeoutIsItsOwnAlways == Spec => []TimeoutIsItsOwn
<1>1. RingInv => TimeoutIsItsOwn
  BY DEF RingInv, RingingShape, TimeoutIsItsOwn, Stray
<1>2. QED BY <1>1, RingInvariant, PTL
=============================================================================
