------------------------- MODULE MessageQueueProofs -------------------------
(***************************************************************************)
(* Proofs about the message queue, for every set of callbacks and delays,  *)
(* every clock resolution and every bound on time and identifiers.         *)
(***************************************************************************)
EXTENDS MessageQueue, SequenceTheorems, TLAPS

-----------------------------------------------------------------------------
(***************************************************************************)
(* Lists: where the elements are after an insertion, a removal, a cut.     *)
(***************************************************************************)

\* Inserting one element (PostMessage) shifts the tail by one place.
LEMMA InsertAtElements ==
  ASSUME NEW S, NEW s \in Seq(S), NEW e \in S, NEW p \in 1..(Len(s) + 1)
  PROVE  /\ InsertAt(s, p, e) \in Seq(S)
         /\ Len(InsertAt(s, p, e)) = Len(s) + 1
         /\ \A i \in 1..(p - 1) : InsertAt(s, p, e)[i] = s[i]
         /\ InsertAt(s, p, e)[p] = e
         /\ \A i \in (p + 1)..(Len(s) + 1) : InsertAt(s, p, e)[i] = s[i - 1]
<1> DEFINE a == SubSeq(s, 1, p - 1)
           b == SubSeq(s, p, Len(s))
           t == a \o <<e>>
<1>1. /\ a \in Seq(S) /\ Len(a) = p - 1
      /\ \A i \in 1..(p - 1) : a[i] = s[i]
  <2>1. \A i \in 1..(p - 1) : s[i] \in S
    BY ElementOfSeq
  <2>2. 1 \in 1..(Len(s) + 1) /\ p - 1 \in (1 - 1)..Len(s)
    BY LenProperties
  <2> QED BY <2>1, <2>2, LenProperties, SubSeqProperties
<1>2. /\ b \in Seq(S) /\ Len(b) = Len(s) - p + 1
      /\ \A i \in 1..(Len(s) - p + 1) : b[i] = s[p + i - 1]
  <2>1. \A i \in p..Len(s) : s[i] \in S
    BY ElementOfSeq
  <2> QED BY <2>1, LenProperties, SubSeqProperties
<1>3. /\ t \in Seq(S) /\ Len(t) = p
      /\ \A i \in 1..p : t[i] = IF i < p THEN s[i] ELSE e
  <2>1. <<e>> \in Seq(S) /\ Len(<<e>>) = 1 /\ <<e>>[1] = e
    OBVIOUS
  <2> HIDE DEF a
  <2> QED BY <1>1, <2>1, LenProperties, ConcatProperties
<1>4. InsertAt(s, p, e) = t \o b
  BY DEF InsertAt
<1> HIDE DEF t, b
<1>5. Len(t) + Len(b) = Len(s) + 1
  BY <1>2, <1>3, LenProperties
<1>6. /\ t \o b \in Seq(S) /\ Len(t \o b) = Len(t) + Len(b)
      /\ \A i \in 1..(Len(t) + Len(b)) :
            (t \o b)[i] = IF i <= Len(t) THEN t[i] ELSE b[i - Len(t)]
  BY <1>2, <1>3, ConcatProperties
<1> QED BY <1>2, <1>3, <1>4, <1>5, <1>6, LenProperties

\* Removing one element (CancelMessage) shifts the tail back by one place.
LEMMA RemoveAtElements ==
  ASSUME NEW S, NEW s \in Seq(S), NEW p \in 1..Len(s)
  PROVE  /\ RemoveAt(s, p) \in Seq(S)
         /\ Len(RemoveAt(s, p)) = Len(s) - 1
         /\ \A i \in 1..(p - 1) : RemoveAt(s, p)[i] = s[i]
         /\ \A i \in p..(Len(s) - 1) : RemoveAt(s, p)[i] = s[i + 1]
<1> DEFINE a == SubSeq(s, 1, p - 1)
           b == SubSeq(s, p + 1, Len(s))
<1>1. /\ a \in Seq(S) /\ Len(a) = p - 1
      /\ \A i \in 1..(p - 1) : a[i] = s[i]
  <2>1. \A i \in 1..(p - 1) : s[i] \in S
    BY ElementOfSeq
  <2> QED BY <2>1, LenProperties, SubSeqProperties
<1>2. /\ b \in Seq(S) /\ Len(b) = Len(s) - p
      /\ \A i \in 1..(Len(s) - p) : b[i] = s[p + i]
  <2>1. \A i \in (p + 1)..Len(s) : s[i] \in S
    BY ElementOfSeq
  <2> QED BY <2>1, LenProperties, SubSeqProperties
<1>3. RemoveAt(s, p) = a \o b
  BY DEF RemoveAt
<1> HIDE DEF a, b
<1>4. Len(a) + Len(b) = Len(s) - 1
  BY <1>1, <1>2, LenProperties
<1>5. /\ a \o b \in Seq(S) /\ Len(a \o b) = Len(a) + Len(b)
      /\ \A i \in 1..(Len(a) + Len(b)) :
            (a \o b)[i] = IF i <= Len(a) THEN a[i] ELSE b[i - Len(a)]
  BY <1>1, <1>2, ConcatProperties
<1> QED BY <1>1, <1>2, <1>3, <1>4, <1>5, LenProperties

\* Cutting off the first k elements (Collect).
LEMMA SuffixElements ==
  ASSUME NEW S, NEW s \in Seq(S), NEW k \in 0..Len(s)
  PROVE  /\ SubSeq(s, k + 1, Len(s)) \in Seq(S)
         /\ Len(SubSeq(s, k + 1, Len(s))) = Len(s) - k
         /\ \A i \in 1..(Len(s) - k) : SubSeq(s, k + 1, Len(s))[i] = s[k + i]
<1>1. \A i \in (k + 1)..Len(s) : s[i] \in S
  BY ElementOfSeq
<1> QED BY <1>1, LenProperties, SubSeqProperties

-----------------------------------------------------------------------------
(***************************************************************************)
(* Invariance, one lemma per action.                                       *)
(***************************************************************************)

\* The constructor leaves an empty list and a loop that has not started.
LEMMA InitIInv == Init => IInv
<1> USE QueueAssumption, NoMessageAssumption
<1> SUFFICES ASSUME Init PROVE IInv
  OBVIOUS
<1>1. Len(queue) = 0 /\ Elems = {}
  BY DEF Init, Elems
<1>2. TypeOK
  <2>1. queue \in Seq(Message)
    BY DEF Init
  <2>2. now \in 0..MaxTime /\ nextId \in Ids /\ wakeAt \in Nat
    BY DEF Init, Ids, Forever
  <2> QED BY <2>1, <2>2 DEF Init, TypeOK
<1>3. Sorted /\ NoLostWakeup /\ UniqueIds /\ LoopShape
  BY <1>1 DEF Init, Sorted, NoLostWakeup, UniqueIds, LoopShape
<1>4. AliveIsPending
  BY <1>1 DEF Init, AliveIsPending, Pending
<1> QED BY <1>2, <1>3, <1>4 DEF IInv

\* PostMessage keeps the list sorted and its identifiers distinct.
LEMMA PostIInv ==
  ASSUME IInv, NEW d \in Delays, NEW c \in Callbacks \cup {NoCallback},
         PostMessage(d, c)
  PROVE  IInv'
<1> USE QueueAssumption
<1> DEFINE m == [id |-> nextId, when |-> now + d, cb |-> c]
<1>1. m \in Message
  BY DEF IInv, TypeOK, PostMessage, Message
<1>2. PICK p \in 1..(Len(queue) + 1) :
         /\ \A i \in 1..(p - 1) : queue[i].when < m.when
         /\ p <= Len(queue) => ~(queue[p].when < m.when)
         /\ queue' = InsertAt(queue, p, m)
  BY DEF PostMessage, InsertByTime
<1>3. /\ queue \in Seq(Message)
      /\ Len(queue) \in Nat
      /\ \A i \in 1..Len(queue) : queue[i] \in Message
  BY ElementOfSeq, LenProperties DEF IInv, TypeOK
<1> HIDE DEF m
<1>4. /\ queue' \in Seq(Message)
      /\ Len(queue') = Len(queue) + 1
      /\ \A i \in 1..(p - 1) : queue'[i] = queue[i]
      /\ queue'[p] = m
      /\ \A i \in (p + 1)..(Len(queue) + 1) : queue'[i] = queue[i - 1]
  <2>1. queue' = InsertAt(queue, p, m)
    BY <1>2
  <2>2. p \in 1..(Len(queue) + 1)
    BY <1>2
  <2>3. /\ InsertAt(queue, p, m) \in Seq(Message)
        /\ Len(InsertAt(queue, p, m)) = Len(queue) + 1
        /\ \A i \in 1..(p - 1) : InsertAt(queue, p, m)[i] = queue[i]
        /\ InsertAt(queue, p, m)[p] = m
        /\ \A i \in (p + 1)..(Len(queue) + 1) : InsertAt(queue, p, m)[i] = queue[i - 1]
    <3>1. queue \in Seq(Message)
      BY <1>3
    <3>2. \A s \in Seq(Message), e \in Message : \A k \in 1..(Len(s) + 1) :
             /\ InsertAt(s, k, e) \in Seq(Message)
             /\ Len(InsertAt(s, k, e)) = Len(s) + 1
             /\ \A i \in 1..(k - 1) : InsertAt(s, k, e)[i] = s[i]
             /\ InsertAt(s, k, e)[k] = e
             /\ \A i \in (k + 1)..(Len(s) + 1) : InsertAt(s, k, e)[i] = s[i - 1]
      BY InsertAtElements, SMTT(60)
    <3> QED BY ONLY <1>1, <2>2, <3>1, <3>2
  <2> QED BY ONLY <2>1, <2>3
<1>5. Elems' = Elems \cup {m}
  <2>1. \A i \in 1..Len(queue') : queue'[i] \in Elems \cup {m}
    BY <1>3, <1>4 DEF Elems
  <2>2. m \in Elems'
    BY <1>3, <1>4 DEF Elems
  <2>3. ASSUME NEW i \in 1..Len(queue) PROVE queue[i] \in Elems'
    <3>1. CASE i < p
      BY <1>3, <1>4, <3>1 DEF Elems
    <3>2. CASE ~(i < p)
      <4>1. i + 1 \in 1..Len(queue') /\ queue'[i + 1] = queue[i]
        BY <1>3, <1>4, <3>2
      <4> QED BY <4>1 DEF Elems
    <3> QED BY <3>1, <3>2
  <2> QED BY <2>1, <2>2, <2>3 DEF Elems
<1>6. TypeOK'
  <2>1. nextId' \in Ids
    BY DEF IInv, TypeOK, PostMessage, Ids, FollowingId
  <2>2. alive' \subseteq Message
    BY <1>1 DEF IInv, TypeOK, PostMessage, m
  <2> QED BY <1>4, <2>1, <2>2 DEF IInv, TypeOK, PostMessage
<1>7. Sorted'
  <2> SUFFICES ASSUME NEW i \in 1..Len(queue'), NEW j \in 1..Len(queue'), i < j
               PROVE  queue'[i].when <= queue'[j].when
    BY DEF Sorted
  <2>0. m.when \in Int /\ \A n \in 1..Len(queue) : queue[n].when \in Int
    BY <1>1, <1>3 DEF Message
  <2>1. \A n \in 1..Len(queue), l \in 1..Len(queue) :
           n < l => queue[n].when <= queue[l].when
    BY DEF IInv, Sorted
  <2>2. \A n \in p..Len(queue) : m.when <= queue[n].when
    <3> SUFFICES ASSUME NEW n \in p..Len(queue) PROVE m.when <= queue[n].when
      OBVIOUS
    <3>1. m.when <= queue[p].when /\ p \in 1..Len(queue) /\ n \in 1..Len(queue)
      BY <1>2, <1>3, <2>0
    <3> QED BY <2>0, <2>1, <3>1
  <2> HIDE DEF Sorted
  <2>3. CASE j < p
    <3>1. i \in 1..(p - 1) /\ j \in 1..(p - 1) /\ i \in 1..Len(queue) /\ j \in 1..Len(queue)
      BY <1>3, <2>3
    <3> QED BY ONLY <1>4, <2>1, <3>1, i < j
  <2>4. CASE j = p
    <3>1. i \in 1..(p - 1) /\ i \in 1..Len(queue)
      BY <1>3, <2>4
    <3> QED BY <1>2, <1>4, <2>0, <2>4, <3>1
  <2>5. CASE j > p
    <3>0. /\ j \in (p + 1)..(Len(queue) + 1)
          /\ j - 1 \in p..Len(queue) /\ j - 1 \in 1..Len(queue)
          /\ queue'[j] = queue[j - 1]
      BY <1>3, <1>4, <2>5
    <3>1. CASE i < p
      <4>1. i \in 1..(p - 1) /\ i \in 1..Len(queue) /\ i < j - 1
        BY <1>3, <2>5, <3>1
      <4> QED BY ONLY <1>4, <2>1, <3>0, <4>1
    <3>2. CASE i = p
      BY <1>4, <2>2, <3>0, <3>2
    <3>3. CASE i > p
      <4>1. i \in (p + 1)..(Len(queue) + 1) /\ i - 1 \in 1..Len(queue) /\ i - 1 < j - 1
        BY <1>3, <1>4, <3>3
      <4> QED BY ONLY <1>4, <2>1, <3>0, <4>1
    <3> QED BY <1>4, <3>1, <3>2, <3>3
  <2> QED BY <1>4, <2>3, <2>4, <2>5
<1>8. NoLostWakeup'
  BY DEF PostMessage, NoLostWakeup
<1>9. AliveIsPending'
  <2>1. alive' = IF c = NoCallback THEN alive ELSE alive \cup {m}
    BY DEF PostMessage, m
  <2>2. m.cb = c
    BY DEF m
  <2>3. alive = Pending /\ batch' = batch /\ canceled' = canceled
    BY DEF IInv, AliveIsPending, PostMessage
  <2> QED BY <1>5, <2>1, <2>2, <2>3 DEF AliveIsPending, Pending
<1>10. UniqueIds'
  <2>1. m.id = nextId
    BY DEF m
  <2>2. \A i \in 1..Len(queue) : queue[i].id # m.id
    BY <2>1 DEF PostMessage, NextIdIsFree, Elems
  <2>3. \A n \in batch : n.id # m.id
    BY <2>1 DEF PostMessage, NextIdIsFree
  <2>4. batch' = batch
    BY DEF PostMessage
  <2>5. UniqueIds
    BY DEF IInv
  <2>6. \A i \in 1..Len(queue') :
           \/ i = p /\ queue'[i] = m
           \/ i < p /\ i \in 1..Len(queue) /\ queue'[i] = queue[i]
           \/ i > p /\ i - 1 \in 1..Len(queue) /\ queue'[i] = queue[i - 1]
    <3> SUFFICES ASSUME NEW i \in 1..Len(queue')
                 PROVE  \/ i = p /\ queue'[i] = m
                        \/ i < p /\ i \in 1..Len(queue) /\ queue'[i] = queue[i]
                        \/ i > p /\ i - 1 \in 1..Len(queue) /\ queue'[i] = queue[i - 1]
      OBVIOUS
    <3>1. p \in 1..(Len(queue) + 1) /\ i \in 1..(Len(queue) + 1) /\ Len(queue) \in Nat
      BY <1>2, <1>3, <1>4
    <3>2. CASE i = p
      BY ONLY <1>4, <3>2
    <3>3. CASE i < p
      <4>1. i \in 1..(p - 1) /\ i \in 1..Len(queue)
        BY ONLY <3>1, <3>3
      <4> QED BY ONLY <1>4, <3>3, <4>1
    <3>4. CASE i > p
      <4>1. i \in (p + 1)..(Len(queue) + 1) /\ i - 1 \in 1..Len(queue)
        BY ONLY <3>1, <3>4
      <4> QED BY ONLY <1>4, <3>4, <4>1
    <3> QED BY ONLY <3>1, <3>2, <3>3, <3>4
  <2>7. \A i, j \in 1..Len(queue') : i # j => queue'[i].id # queue'[j].id
    <3> SUFFICES ASSUME NEW i \in 1..Len(queue'), NEW j \in 1..Len(queue'), i # j
                 PROVE  queue'[i].id # queue'[j].id
      OBVIOUS
    <3>1. \A k, l \in 1..Len(queue) : k # l => queue[k].id # queue[l].id
      BY <2>5 DEF UniqueIds
    <3>2. p \in Int /\ i \in Int /\ j \in Int /\ i # j
      BY <1>4
    <3>3. \/ i = p /\ queue'[i] = m
          \/ i < p /\ i \in 1..Len(queue) /\ queue'[i] = queue[i]
          \/ i > p /\ i - 1 \in 1..Len(queue) /\ queue'[i] = queue[i - 1]
      BY ONLY <2>6, i \in 1..Len(queue')
    <3>4. \/ j = p /\ queue'[j] = m
          \/ j < p /\ j \in 1..Len(queue) /\ queue'[j] = queue[j]
          \/ j > p /\ j - 1 \in 1..Len(queue) /\ queue'[j] = queue[j - 1]
      BY ONLY <2>6, j \in 1..Len(queue')
    <3>5. CASE i = p
      BY <2>2, <3>2, <3>3, <3>4, <3>5
    <3>6. CASE i < p
      <4>1. i \in 1..Len(queue) /\ queue'[i] = queue[i]
        BY <3>2, <3>3, <3>6
      <4> QED BY <2>2, <3>1, <3>2, <3>4, <3>6, <4>1
    <3>7. CASE i > p
      <4>1. i - 1 \in 1..Len(queue) /\ queue'[i] = queue[i - 1]
        BY <3>2, <3>3, <3>7
      <4> QED BY <2>2, <3>1, <3>2, <3>4, <3>7, <4>1
    <3> QED BY <3>2, <3>5, <3>6, <3>7
  <2>8. \A i \in 1..Len(queue'), n \in batch' : queue'[i].id # n.id
    <3>1. \A i \in 1..Len(queue), n \in batch : queue[i].id # n.id
      BY <2>5 DEF UniqueIds
    <3> QED BY ONLY <2>3, <2>4, <2>6, <3>1
  <2> QED BY <2>4, <2>5, <2>7, <2>8 DEF UniqueIds
<1>11. LoopShape'
  BY DEF IInv, TypeOK, LoopShape, PostMessage, Due
<1> QED BY <1>6, <1>7, <1>8, <1>9, <1>10, <1>11 DEF IInv

\* CancelMessage removes at most one message, and the record of the
\* identifier covers the message the run loop may have collected.
LEMMA CancelIInv ==
  ASSUME IInv, NEW x \in Ids, CancelMessage(x)
  PROVE  IInv'
<1>1. /\ queue \in Seq(Message)
      /\ Len(queue) \in Nat
      /\ \A i \in 1..Len(queue) : queue[i] \in Message
  BY ElementOfSeq, LenProperties DEF IInv, TypeOK
<1>2. /\ now' = now /\ nextId' = nextId /\ hasPost' = hasPost /\ pc' = pc
      /\ batch' = batch /\ running' = running /\ wakeAt' = wakeAt
      /\ canceled' = canceled \cup {x}
      /\ alive' = {m \in alive : m.id # x}
  BY DEF CancelMessage, loopVars
\* What both disjuncts have in common: the new list is a part of the old
\* one, in the same order, without the messages called x.
<1>3. /\ queue' \in Seq(Message)
      /\ \A i, j \in 1..Len(queue') : i < j =>
            \E k, l \in 1..Len(queue) :
               k < l /\ queue'[i] = queue[k] /\ queue'[j] = queue[l]
      /\ Elems' = {m \in Elems : m.id # x}
  <2>1. CASE \E p \in 1..Len(queue) :
                /\ queue[p].id = x
                /\ \A j \in 1..(p - 1) : queue[j].id # x
                /\ queue' = RemoveAt(queue, p)
    <3>1. PICK p \in 1..Len(queue) : queue[p].id = x /\ queue' = RemoveAt(queue, p)
      BY <2>1
    <3>2. /\ RemoveAt(queue, p) \in Seq(Message)
          /\ Len(RemoveAt(queue, p)) = Len(queue) - 1
          /\ \A i \in 1..(p - 1) : RemoveAt(queue, p)[i] = queue[i]
          /\ \A i \in p..(Len(queue) - 1) : RemoveAt(queue, p)[i] = queue[i + 1]
      <4>1. p \in 1..Len(queue)
        OBVIOUS
      <4> QED BY ONLY <1>1, <4>1, RemoveAtElements
    <3>3. \A i \in 1..Len(queue') :
             \/ i < p /\ i \in 1..Len(queue) /\ queue'[i] = queue[i]
             \/ i >= p /\ i + 1 \in 1..Len(queue) /\ queue'[i] = queue[i + 1]
      BY <1>1, <3>1, <3>2
    <3>4. ASSUME NEW i \in 1..Len(queue'), NEW j \in 1..Len(queue'), i < j
          PROVE  \E k, l \in 1..Len(queue) :
                    k < l /\ queue'[i] = queue[k] /\ queue'[j] = queue[l]
      <4>1. i \in Int /\ j \in Int /\ p \in Int /\ i < j
        BY <1>1, <3>4
      <4>2. \/ i < p /\ i \in 1..Len(queue) /\ queue'[i] = queue[i]
            \/ i >= p /\ i + 1 \in 1..Len(queue) /\ queue'[i] = queue[i + 1]
        BY <3>3
      <4>3. \/ j < p /\ j \in 1..Len(queue) /\ queue'[j] = queue[j]
            \/ j >= p /\ j + 1 \in 1..Len(queue) /\ queue'[j] = queue[j + 1]
        BY <3>3
      <4>4. CASE j < p
        BY <4>1, <4>2, <4>3, <4>4
      <4>5. CASE j >= p /\ i < p
        BY <4>1, <4>2, <4>3, <4>5
      <4>6. CASE j >= p /\ i >= p
        BY <4>1, <4>2, <4>3, <4>6
      <4> QED BY <4>1, <4>4, <4>5, <4>6
    <3>5. \A i, j \in 1..Len(queue) : i # j => queue[i].id # queue[j].id
      BY DEF IInv, UniqueIds
    <3>6. ASSUME NEW i \in 1..Len(queue')
          PROVE  queue'[i] \in {m \in Elems : m.id # x}
      <4>1. p \in Int /\ i \in Int /\ Len(queue) \in Int
        BY <1>1, <3>1, <3>2
      <4>2. CASE i < p
        <5>1. i \in 1..Len(queue) /\ queue'[i] = queue[i] /\ i # p
          BY <3>3, <4>1, <4>2
        <5> QED BY <3>1, <3>5, <5>1 DEF Elems
      <4>3. CASE i >= p
        <5>1. i + 1 \in 1..Len(queue) /\ queue'[i] = queue[i + 1] /\ i + 1 # p
          BY <3>3, <4>1, <4>3
        <5> QED BY <3>1, <3>5, <5>1 DEF Elems
      <4> QED BY <4>1, <4>2, <4>3
    <3>7. ASSUME NEW i \in 1..Len(queue), queue[i].id # x
          PROVE  queue[i] \in Elems'
      <4>1. CASE i < p
        <5>1. i \in 1..Len(queue') /\ queue'[i] = queue[i]
          BY <1>1, <3>1, <3>2, <4>1
        <5> QED BY <5>1 DEF Elems
      <4>2. CASE i > p
        <5>1. i - 1 \in 1..Len(queue') /\ queue'[i - 1] = queue[i]
          BY <1>1, <3>1, <3>2, <4>2
        <5> QED BY <5>1 DEF Elems
      <4>3. i # p
        BY <3>1, <3>7
      <4> QED BY <1>1, <4>1, <4>2, <4>3
    <3>8. Elems' = {m \in Elems : m.id # x}
      BY <3>6, <3>7 DEF Elems
    <3> QED BY <3>1, <3>2, <3>4, <3>8
  <2>2. CASE (\A m \in Elems : m.id # x) /\ queue' = queue
    <3>1. Elems' = Elems
      BY <2>2 DEF Elems
    <3> QED BY <1>1, <2>2, <3>1
  <2> QED BY <2>1, <2>2 DEF CancelMessage
<1>4. TypeOK'
  <2>1. alive' \subseteq Message
    BY <1>2 DEF IInv, TypeOK
  <2> QED BY <1>2, <1>3, <2>1 DEF IInv, TypeOK
<1>5. Sorted'
  BY <1>3 DEF IInv, Sorted
<1>6. \A m \in Elems' : m \in Elems
  BY <1>3
<1>7. NoLostWakeup'
  BY <1>2, <1>6 DEF IInv, NoLostWakeup, Elems
<1>8. AliveIsPending'
  BY <1>2, <1>3 DEF IInv, AliveIsPending, Pending
<1>9. UniqueIds'
  <2>1. \A i, j \in 1..Len(queue') : i < j => queue'[i].id # queue'[j].id
    <3>1. \A i, j \in 1..Len(queue) : i # j => queue[i].id # queue[j].id
      BY DEF IInv, UniqueIds
    <3> SUFFICES ASSUME NEW i \in 1..Len(queue'), NEW j \in 1..Len(queue'), i < j
                 PROVE  queue'[i].id # queue'[j].id
      OBVIOUS
    <3>2. PICK k \in 1..Len(queue), l \in 1..Len(queue) :
             k < l /\ queue'[i] = queue[k] /\ queue'[j] = queue[l]
      BY <1>3
    <3>3. k # l
      BY <1>1, <3>2
    <3> QED BY <3>1, <3>2, <3>3
  <2>2. Len(queue') \in Nat
    BY <1>3, LenProperties
  <2>3. \A i, j \in 1..Len(queue') : i # j => queue'[i].id # queue'[j].id
    BY <2>1, <2>2
  <2>4. \A i \in 1..Len(queue'), n \in batch' : queue'[i].id # n.id
    BY <1>2, <1>6 DEF IInv, UniqueIds, Elems
  <2> QED BY <1>2, <2>3, <2>4 DEF IInv, UniqueIds
<1>10. LoopShape'
  BY <1>2 DEF IInv, LoopShape, Due
<1> QED BY <1>4, <1>5, <1>7, <1>8, <1>9, <1>10 DEF IInv

\* Collect moves the due messages from the list to callbackMap, and its
\* deadline is at or before the first message left.
LEMMA CollectIInv ==
  ASSUME IInv, Collect
  PROVE  IInv'
<1> USE QueueAssumption
<1>1. /\ queue \in Seq(Message)
      /\ Len(queue) \in Nat
      /\ \A i \in 1..Len(queue) : queue[i] \in Message /\ queue[i].when \in Nat
      /\ now \in Nat
  <2>1. queue \in Seq(Message) /\ now \in Nat
    BY DEF IInv, TypeOK
  <2>2. Len(queue) \in Nat /\ \A i \in 1..Len(queue) : queue[i] \in Message
    BY <2>1, ElementOfSeq, LenProperties
  <2>3. \A m \in Message : m.when \in Nat
    BY DEF Message
  <2> QED BY <2>1, <2>2, <2>3
<1> DEFINE duration(k) == IF k = Len(queue) THEN 0
                          ELSE WholeMs(queue[k + 1].when - now)
<1>2. PICK k \in 0..Len(queue) :
         /\ \A i \in 1..k : Due(queue[i])
         /\ k < Len(queue) => ~Due(queue[k + 1])
         /\ queue' = SubSeq(queue, k + 1, Len(queue))
         /\ batch' = {m \in {queue[i] : i \in 1..k} : m.cb # NoCallback}
         /\ wakeAt' = IF duration(k) = 0 THEN Forever ELSE now + duration(k)
  BY DEF Collect
<1>3. /\ now' = now /\ nextId' = nextId /\ running' = running /\ alive' = alive
      /\ canceled' = {} /\ hasPost' = FALSE /\ pc' = "dispatch"
      /\ pc = "top" /\ batch = {}
  BY DEF Collect, IInv, LoopShape
<1>4. /\ SubSeq(queue, k + 1, Len(queue)) \in Seq(Message)
      /\ Len(SubSeq(queue, k + 1, Len(queue))) = Len(queue) - k
      /\ \A i \in 1..(Len(queue) - k) :
            SubSeq(queue, k + 1, Len(queue))[i] = queue[k + i]
  <2>1. k \in 0..Len(queue)
    OBVIOUS
  <2> QED BY ONLY <1>1, <2>1, SuffixElements
<1>5. /\ queue' \in Seq(Message) /\ Len(queue') \in Nat
      /\ \A i \in 1..Len(queue') : k + i \in 1..Len(queue) /\ queue'[i] = queue[k + i]
      /\ \A i \in (k + 1)..Len(queue) : i - k \in 1..Len(queue') /\ queue'[i - k] = queue[i]
  BY <1>1, <1>2, <1>4
<1>6. k < Len(queue) => /\ duration(k) \in Nat /\ duration(k) # 0
                        /\ now + duration(k) <= queue[k + 1].when
  <2> SUFFICES ASSUME k < Len(queue)
               PROVE  /\ duration(k) \in Nat /\ duration(k) # 0
                      /\ now + duration(k) <= queue[k + 1].when
    OBVIOUS
  <2> DEFINE t == queue[k + 1].when - now
             q == t \div TicksPerMs
  <2>1. k + 1 \in 1..Len(queue) /\ t \in Int /\ t >= TicksPerMs
    BY <1>1, <1>2 DEF Due
  <2>2. duration(k) = TicksPerMs * q
    BY <1>1 DEF WholeMs
  <2> HIDE DEF t
  <2>3. q \in Int /\ TicksPerMs * q <= t /\ t < TicksPerMs * q + TicksPerMs
    BY <2>1
  <2>4. TicksPerMs * q > 0 /\ TicksPerMs * q \in Int
    BY <2>1, <2>3
  <2> HIDE DEF q, duration
  <2>5. duration(k) \in Int /\ duration(k) > 0 /\ duration(k) <= t
    BY <2>2, <2>3, <2>4
  <2> QED BY <1>1, <2>1, <2>5 DEF t
<1> HIDE DEF duration
<1>7. wakeAt' \in Nat
  <2>1. CASE k = Len(queue)
    BY <1>2, <2>1 DEF duration, Forever
  <2>2. CASE k < Len(queue)
    BY <1>1, <1>2, <1>6, <2>2
  <2> QED BY <1>1, <2>1, <2>2
<1>8. batch' = {m \in {queue[i] : i \in 1..k} : m.cb # NoCallback}
  BY <1>2
<1>9. \A i \in 1..k : i \in 1..Len(queue)
  BY <1>1
<1>10. TypeOK'
  <2>1. batch' \subseteq Message
    BY <1>1, <1>8, <1>9
  <2> QED BY <1>3, <1>5, <1>7, <2>1 DEF IInv, TypeOK
<1>11. Sorted'
  <2> SUFFICES ASSUME NEW i \in 1..Len(queue'), NEW j \in 1..Len(queue'), i < j
               PROVE  queue'[i].when <= queue'[j].when
    BY DEF Sorted
  <2>1. k + i \in 1..Len(queue) /\ k + j \in 1..Len(queue) /\ k + i < k + j
    BY <1>5
  <2>2. \A a, b \in 1..Len(queue) : a < b => queue[a].when <= queue[b].when
    BY DEF IInv, Sorted
  <2> QED BY <1>5, <2>1, <2>2
<1>12. NoLostWakeup'
  <2> SUFFICES ASSUME NEW i \in 1..Len(queue')
               PROVE  wakeAt' # Forever /\ wakeAt' <= queue'[i].when
    BY DEF NoLostWakeup
  <2>1. k + i \in 1..Len(queue) /\ k + 1 \in 1..Len(queue) /\ k < Len(queue)
    BY <1>1, <1>5
  <2>2. queue[k + 1].when <= queue[k + i].when
    <3>1. CASE i = 1
      BY <1>1, <2>1, <3>1
    <3>2. CASE i > 1
      <4>1. k + 1 < k + i
        BY <1>5, <3>2
      <4> QED BY <2>1, <4>1 DEF IInv, Sorted
    <3> QED BY <1>5, <3>1, <3>2
  <2>3. wakeAt' = now + duration(k) /\ wakeAt' # 0 /\ wakeAt' <= queue[k + 1].when
    BY <1>1, <1>2, <1>6, <2>1
  <2>4. queue'[i] = queue[k + i]
    BY <1>5
  <2>5. queue[k + 1].when \in Nat /\ queue[k + i].when \in Nat
    BY <1>1, <2>1
  <2> QED BY <1>7, <2>2, <2>3, <2>4, <2>5 DEF Forever
<1>13. Elems = {queue[i] : i \in 1..k} \cup Elems'
  <2>1. \A i \in 1..Len(queue) : i \in 1..k \/ i \in (k + 1)..Len(queue)
    BY <1>1
  <2>2. \A i \in (k + 1)..Len(queue) : queue[i] \in Elems'
    BY <1>5 DEF Elems
  <2>3. \A i \in 1..Len(queue') : queue'[i] \in Elems
    BY <1>5 DEF Elems
  <2> QED BY <1>9, <2>1, <2>2, <2>3 DEF Elems
<1>14. AliveIsPending'
  <2>1. alive' = {m \in Elems : m.cb # NoCallback}
    BY <1>3 DEF IInv, AliveIsPending, Pending
  <2>2. Pending' = {m \in Elems' : m.cb # NoCallback} \cup batch'
    BY <1>3 DEF Pending
  <2> QED BY <1>8, <1>13, <2>1, <2>2 DEF AliveIsPending
<1>15. UniqueIds'
  <2>1. \A i, j \in 1..Len(queue) : i # j => queue[i].id # queue[j].id
    BY DEF IInv, UniqueIds
  <2>2. \A i, j \in 1..Len(queue') : i # j => queue'[i].id # queue'[j].id
    <3> SUFFICES ASSUME NEW i \in 1..Len(queue'), NEW j \in 1..Len(queue'), i # j
                 PROVE  queue'[i].id # queue'[j].id
      OBVIOUS
    <3>1. k + i \in 1..Len(queue) /\ k + j \in 1..Len(queue) /\ k + i # k + j
      BY <1>5
    <3>2. queue'[i] = queue[k + i] /\ queue'[j] = queue[k + j]
      BY <1>5
    <3>3. queue[k + i].id # queue[k + j].id
      BY <2>1, <3>1
    <3> QED BY <3>2, <3>3
  <2>3. \A i \in 1..Len(queue'), m \in batch' : queue'[i].id # m.id
    <3> SUFFICES ASSUME NEW i \in 1..Len(queue'), NEW l \in 1..k
                 PROVE  queue'[i].id # queue[l].id
      BY <1>8
    <3>1. k + i \in 1..Len(queue) /\ l \in 1..Len(queue) /\ k + i # l
      BY <1>5, <1>9
    <3> QED BY <1>5, <2>1, <3>1
  <2>4. \A m, n \in batch' : m.id = n.id => m = n
    <3> SUFFICES ASSUME NEW i \in 1..k, NEW j \in 1..k, queue[i].id = queue[j].id
                 PROVE  queue[i] = queue[j]
      BY <1>8
    <3> QED BY <1>9, <2>1
  <2> QED BY <2>2, <2>3, <2>4 DEF UniqueIds
<1>16. LoopShape'
  <2>1. \A m \in batch' : m.cb # NoCallback /\ Due(m)
    BY <1>2, <1>8
  <2>2. \A m \in batch' : Due(m)'
    BY <1>3, <2>1 DEF Due
  <2> QED BY <1>3, <2>1, <2>2 DEF IInv, LoopShape, Due
<1> QED BY <1>10, <1>11, <1>12, <1>14, <1>15, <1>16 DEF IInv

\* Dispatch takes one message out of callbackMap, run or skipped.
LEMMA DispatchIInv ==
  ASSUME IInv, Dispatch
  PROVE  IInv'
<1>1. PICK m \in batch :
         /\ batch' = batch \ {m}
         /\ \/ m.id \in canceled /\ pc' = pc /\ running' = running /\ alive' = alive
            \/ m.id \notin canceled /\ pc' = "invoke" /\ running' = m
               /\ alive' = alive \ {m}
  BY DEF Dispatch
<1>2. /\ now' = now /\ queue' = queue /\ nextId' = nextId /\ canceled' = canceled
      /\ hasPost' = hasPost /\ wakeAt' = wakeAt /\ pc = "dispatch"
  BY DEF Dispatch
<1>3. m \in Message /\ m # NoMessage
  BY NoMessageAssumption DEF IInv, TypeOK
<1>4. TypeOK'
  BY <1>1, <1>2, <1>3 DEF IInv, TypeOK
<1>5. Sorted' /\ NoLostWakeup'
  BY <1>1, <1>2 DEF IInv, Sorted, NoLostWakeup
<1>6. Elems' = Elems /\ m \notin Elems
  BY <1>2 DEF IInv, UniqueIds, Elems
<1>7. AliveIsPending'
  <2>1. CASE m.id \in canceled
    BY <1>1, <1>2, <1>6, <2>1 DEF IInv, AliveIsPending, Pending
  <2>2. CASE m.id \notin canceled
    BY <1>1, <1>2, <1>6, <2>2 DEF IInv, AliveIsPending, Pending
  <2> QED BY <2>1, <2>2
<1>8. UniqueIds'
  BY <1>1, <1>2 DEF IInv, UniqueIds
<1>9. LoopShape'
  BY <1>1, <1>2, <1>3 DEF IInv, LoopShape, Due
<1> QED BY <1>4, <1>5, <1>7, <1>8, <1>9 DEF IInv

\* The remaining steps of the run loop, and the clock, leave the list alone.
LEMMA QuietIInv ==
  ASSUME IInv, Return \/ EndDispatch \/ TimedWake \/ SpuriousWake \/ Tick \/ UNCHANGED vars
  PROVE  IInv'
<1> USE QueueAssumption DEF vars, loopVars
<1>1. /\ queue' = queue /\ nextId' = nextId /\ canceled' = canceled
      /\ batch' = batch /\ wakeAt' = wakeAt /\ alive' = alive
  BY DEF Return, EndDispatch, TimedWake, SpuriousWake, Tick
<1>2. TypeOK'
  <2>1. now' \in 0..MaxTime
    BY DEF IInv, TypeOK, Return, EndDispatch, TimedWake, SpuriousWake, Tick
  <2>2. hasPost' \in BOOLEAN
    BY DEF IInv, TypeOK, Return, EndDispatch, TimedWake, SpuriousWake, Tick
  <2>3. pc' \in {"top", "dispatch", "invoke", "wait"}
    BY DEF IInv, TypeOK, Return, EndDispatch, TimedWake, SpuriousWake, Tick
  <2>4. running' \in Message \cup {NoMessage}
    BY DEF IInv, TypeOK, Return, EndDispatch, TimedWake, SpuriousWake, Tick
  <2> QED BY <1>1, <2>1, <2>2, <2>3, <2>4 DEF IInv, TypeOK
<1>3. Sorted' /\ UniqueIds'
  BY <1>1 DEF IInv, Sorted, UniqueIds
<1>4. AliveIsPending'
  BY <1>1 DEF IInv, AliveIsPending, Pending, Elems
<1>5. NoLostWakeup'
  BY <1>1 DEF IInv, TypeOK, NoLostWakeup, Return, EndDispatch, TimedWake, SpuriousWake, Tick
<1>6. \A m \in batch' : m.cb # NoCallback /\ Due(m)'
  <2>1. now' = now \/ now' = now + 1
    BY DEF Return, EndDispatch, TimedWake, SpuriousWake, Tick
  <2>2. \A m \in batch : m.cb # NoCallback /\ Due(m) /\ m.when \in Int
    BY DEF IInv, TypeOK, LoopShape, Message
  <2>3. now \in Int
    BY DEF IInv, TypeOK
  <2> QED BY <1>1, <2>1, <2>2, <2>3 DEF Due
<1>7. LoopShape'
  BY <1>1, <1>6 DEF IInv, LoopShape, Due, Return, EndDispatch, TimedWake, SpuriousWake, Tick
<1> QED BY <1>2, <1>3, <1>4, <1>5, <1>7 DEF IInv

\* Every step of the queue keeps the invariant.
LEMMA NextIInv ==
  ASSUME IInv, [Next]_vars
  PROVE  IInv'
<1>1. ASSUME NEW d \in Delays, NEW c \in Callbacks \cup {NoCallback}, PostMessage(d, c)
      PROVE  IInv'
  BY <1>1, PostIInv
<1>2. ASSUME NEW i \in Ids, CancelMessage(i) PROVE IInv'
  BY <1>2, CancelIInv
<1>3. CASE Collect
  BY <1>3, CollectIInv
<1>4. CASE Dispatch
  BY <1>4, DispatchIInv
<1>5. CASE Return \/ EndDispatch \/ TimedWake \/ SpuriousWake \/ Tick \/ UNCHANGED vars
  BY <1>5, QuietIInv
<1> QED BY <1>1, <1>2, <1>3, <1>4, <1>5 DEF Next, RunLoop

(***************************************************************************)
(* The run loop never sleeps through a message, the list stays sorted, and *)
(* the messages that may still run are exactly the ones posted and neither *)
(* cancelled nor run (message_queue.cpp).                                  *)
(***************************************************************************)
THEOREM QueueInvariant == Spec => []IInv
<1>1. Init => IInv
  BY InitIInv
<1>2. IInv /\ [Next]_vars => IInv'
  BY NextIInv
<1> QED BY <1>1, <1>2, PTL DEF Spec

\* The state of the queue keeps its type: every identifier is one of Ids, so
\* the counter skips 0 and UINT32_MAX, and no message is later than the clock
\* can tell.
THEOREM QueueTypeOKAlways == Spec => []TypeOK
<1>1. IInv => TypeOK
  BY DEF IInv
<1> QED BY <1>1, QueueInvariant, PTL

\* The list is sorted by time in every reachable state.
THEOREM SortedAlways == Spec => []Sorted
<1>1. IInv => Sorted
  BY DEF IInv
<1> QED BY <1>1, QueueInvariant, PTL

\* No wake-up of the run loop is ever lost.
THEOREM NoLostWakeupAlways == Spec => []NoLostWakeup
<1>1. IInv => NoLostWakeup
  BY DEF IInv
<1> QED BY <1>1, QueueInvariant, PTL

\* The messages that may still run are the ones in the list and the ones
\* that were collected and have not been cancelled since.
THEOREM AliveIsPendingAlways == Spec => []AliveIsPending
<1>1. IInv => AliveIsPending
  BY DEF IInv
<1> QED BY <1>1, QueueInvariant, PTL

-----------------------------------------------------------------------------
(***************************************************************************)
(* The queue implements the timer service: every step of the queue is a    *)
(* step of the service or leaves it unchanged.                             *)
(***************************************************************************)
LEMMA StepRefines ==
  ASSUME IInv, [Next]_vars
  PROVE  [Timer!Next]_(Timer!vars)
<1> USE QueueAssumption
<1>1. ASSUME NEW d \in Delays, NEW c \in Callbacks \cup {NoCallback}, PostMessage(d, c)
      PROVE  [Timer!Next]_(Timer!vars)
  <2>1. CASE c = NoCallback
    BY <1>1, <2>1 DEF PostMessage, Timer!vars
  <2>2. CASE c # NoCallback
    <3>1. \A t \in alive : t.id # nextId
      BY <1>1 DEF PostMessage, NextIdIsFree, IInv, AliveIsPending, Pending
    <3>2. c \in Callbacks /\ nextId \in Ids /\ now + d \in 0..MaxTime
      BY <1>1, <2>2 DEF PostMessage, IInv, TypeOK
    <3>3. alive' = alive \cup {[id |-> nextId, when |-> now + d, cb |-> c]}
      BY <1>1, <2>2 DEF PostMessage
    <3>4. now' = now /\ running' = running
      BY <1>1 DEF PostMessage
    <3>5. Timer!Post
      BY <3>1, <3>2, <3>3, <3>4 DEF Timer!Post
    <3> QED BY <3>5 DEF Timer!Next
  <2> QED BY <2>1, <2>2
<1>2. ASSUME NEW i \in Ids, CancelMessage(i) PROVE [Timer!Next]_(Timer!vars)
  <2>1. Timer!Cancel
    BY <1>2 DEF CancelMessage, loopVars, Timer!Cancel
  <2> QED BY <2>1 DEF Timer!Next
<1>3. CASE Dispatch
  <2>1. PICK m \in batch :
           \/ m.id \in canceled /\ running' = running /\ alive' = alive
           \/ m.id \notin canceled /\ running' = m /\ alive' = alive \ {m}
    BY <1>3 DEF Dispatch
  <2>2. now' = now /\ running = NoMessage
    BY <1>3 DEF Dispatch, IInv, LoopShape
  <2>3. CASE m.id \in canceled
    BY <2>1, <2>2, <2>3 DEF Timer!vars
  <2>4. CASE m.id \notin canceled
    <3>1. m \in alive
      BY <2>4 DEF IInv, AliveIsPending, Pending
    <3>2. m.when < now + TicksPerMs
      <4>1. m.when - now < TicksPerMs
        BY DEF IInv, LoopShape, Due
      <4>2. m.when \in Int /\ now \in Int
        BY DEF IInv, TypeOK, Message
      <4> QED BY <4>1, <4>2
    <3>3. Timer!Fire
      BY <2>1, <2>2, <2>4, <3>1, <3>2 DEF Timer!Fire
    <3> QED BY <3>3 DEF Timer!Next
  <2> QED BY <2>3, <2>4
<1>4. CASE Return
  <2>1. Timer!Return
    BY <1>4 DEF Return, IInv, LoopShape, Timer!Return
  <2> QED BY <2>1 DEF Timer!Next
<1>5. CASE Tick
  <2>1. Timer!Tick
    BY <1>5 DEF Tick, loopVars, Timer!Tick
  <2> QED BY <2>1 DEF Timer!Next
<1>6. CASE Collect \/ EndDispatch \/ TimedWake \/ SpuriousWake \/ UNCHANGED vars
  BY <1>6 DEF Collect, EndDispatch, TimedWake, SpuriousWake, vars, loopVars, Timer!vars
<1> QED BY <1>1, <1>2, <1>3, <1>4, <1>5, <1>6 DEF Next, RunLoop

\* The message queue implements the timer service of module TimerService: a
\* callback runs once, not before its time, and never after CancelMessage.
THEOREM QueueRefinesTimer == Spec => TimerSpec
<1>1. Init => Timer!Init
  BY DEF Init, Timer!Init
<1>2. IInv /\ [Next]_vars => [Timer!Next]_(Timer!vars)
  BY StepRefines
<1> QED BY <1>1, <1>2, QueueInvariant, PTL DEF Spec, TimerSpec, Timer!Spec
=============================================================================
