-------------------------- MODULE EstablishProofs ---------------------------
(***************************************************************************)
(* Proofs about the way from a host to a socket: the race of attempts for  *)
(* any number of addresses, attempts at a time, time limits and ticks, and *)
(* the resolver for any number of calls and addresses.                     *)
(***************************************************************************)
EXTENDS Establish, SocketProofs, FiniteSetTheorems, SequenceTheorems,
        WellFoundedInduction, TLAPS

-----------------------------------------------------------------------------
(***************************************************************************)
(* Least and greatest elements.                                            *)
(***************************************************************************)
LEMMA LeastNatural ==
  ASSUME NEW S \in SUBSET Nat, S # {}
  PROVE  \E x \in S : \A y \in S : x <= y
<1>1. PICK x \in S : \A y \in S : <<y, x>> \notin OpToRel(<, Nat)
  BY NatLessThanWellFounded, WFMin
<1>2. \A y \in S : ~(y < x)
  BY <1>1 DEF OpToRel
<1>3. QED BY <1>2

LEMMA MinOf ==
  ASSUME NEW S \in SUBSET Int, S # {}, NEW b \in Int, \A x \in S : b <= x
  PROVE  Min(S) \in S /\ \A y \in S : Min(S) <= y
<1> DEFINE T == {x - b : x \in S}
<1>0. \A x \in S : x - b \in Nat
  OBVIOUS
<1>1. T \in SUBSET Nat /\ T # {}
  BY <1>0, Zenon
<1>2. PICK t \in T : \A y \in T : t <= y
  BY <1>1, LeastNatural
<1>3. PICK x \in S : t = x - b
  OBVIOUS
<1>4. \A y \in S : x <= y
  BY <1>2, <1>3
<1>5. QED BY <1>4 DEF Min

LEMMA MaxOf ==
  ASSUME NEW S \in SUBSET Int, S # {}, NEW b \in Int, \A x \in S : x <= b
  PROVE  Max(S) \in S /\ \A y \in S : Max(S) >= y
<1> DEFINE T == {b - x : x \in S}
<1>0. \A x \in S : b - x \in Nat
  OBVIOUS
<1>1. T \in SUBSET Nat /\ T # {}
  BY <1>0, Zenon
<1>2. PICK t \in T : \A y \in T : t <= y
  BY <1>1, LeastNatural
<1>3. PICK x \in S : t = b - x
  OBVIOUS
<1>4. \A y \in S : x >= y
  BY <1>2, <1>3
<1>5. QED BY <1>4 DEF Max

LEMMA MinOfTwo ==
  ASSUME NEW x \in Int, NEW y \in Int
  PROVE  Min({x, y}) = IF x <= y THEN x ELSE y
<1>1. x <= y => \A z \in {x, y} : x <= z
  OBVIOUS
<1>2. ~(x <= y) => \A z \in {x, y} : y <= z
  OBVIOUS
<1>3. QED BY <1>1, <1>2 DEF Min

LEMMA MaxOfTwo ==
  ASSUME NEW x \in Int, NEW y \in Int
  PROVE  Max({x, y}) = IF x >= y THEN x ELSE y
<1>1. x >= y => \A z \in {x, y} : x >= z
  OBVIOUS
<1>2. ~(x >= y) => \A z \in {x, y} : y >= z
  OBVIOUS
<1>3. QED BY <1>1, <1>2 DEF Max

\* A wait is never longer than asked for.
LEMMA WholeSecondsShorter ==
  ASSUME NEW t \in Int
  PROVE  /\ WholeSeconds(t) \in Nat
         /\ WholeSeconds(t) > 0 => WholeSeconds(t) <= t
         /\ t > 0 => WholeSeconds(t) <= t
<1> DEFINE m == Max({0, t})
           q == m \div Second
<1>1. m = IF 0 >= t THEN 0 ELSE t
  BY MaxOfTwo
<1>2. Second \in Nat \ {0}
  BY ConnectAssumption
<1>3. m \in Nat
  BY <1>1
<1> HIDE DEF m
<1>4. q \in Nat /\ Second * q <= m
  BY <1>2, <1>3
<1> HIDE DEF q
<1>5. Second * q \in Nat /\ q * Second = Second * q
  BY <1>2, <1>4
<1>6. WholeSeconds(t) = Second * q
  BY <1>5 DEF WholeSeconds, m, q
<1>7. QED BY <1>1, <1>3, <1>4, <1>5, <1>6

\* ipIndex runs through the addresses.
LEMMA Remainder ==
  ASSUME NEW x \in Nat, NEW n \in Nat \ {0}
  PROVE  /\ x % n \in 0..(n - 1) /\ x % n <= x
         /\ x < n => x % n = x
<1>1. x % n \in 0..(n - 1)
  OBVIOUS
<1>2. x < n => x % n = x
  OBVIOUS
<1>3. QED BY <1>1, <1>2

-----------------------------------------------------------------------------
(***************************************************************************)
(* The race.                                                               *)
(***************************************************************************)
RaceInv ==
    /\ TypeOK /\ StartedInOrder /\ SocketShape /\ EndShape /\ ErrorShape
    /\ AgeShape /\ EventShape /\ NotTooMany

LEMMA InitRaceInv == Init => RaceInv
<1> SUFFICES ASSUME Init PROVE RaceInv
  OBVIOUS
<1>1. N \in Nat \ {0} /\ MaxConnect \in Nat /\ Timeout \in Nat \ {0} /\ Interval \in Nat
  BY ConnectAssumption
<1>2. TypeOK
  <2>1. NoEvents \in Events
    BY DEF Events, Outcomes, NoEvents, Nothing
  <2>2. age \in [Index -> 0..AgeBound] /\ since \in 0..Interval
    BY <1>1 DEF Init, AgeBound
  <2>3. status \in [Index -> Statuses \ {"connected"}]
    BY DEF Init, Statuses
  <2>4. fd \in [Index -> {"none", "open", "lost", "closed", "returned"}]
    BY DEF Init
  <2>5. index \in 0..N /\ wait \in 0..Timeout /\ result \in 0..N /\ events = NoEvents
    BY <1>1 DEF Init
  <2>6. /\ backend \in Backends /\ pc \in {"pre", "select", "after", "finish", "done"}
        /\ tls \in BOOLEAN /\ lastError \in BOOLEAN /\ stopped \in BOOLEAN
        /\ errors \subseteq Index
    BY DEF Init
  <2>7. QED BY <2>1, <2>2, <2>3, <2>4, <2>5, <2>6 DEF TypeOK
<1>3. StartedInOrder /\ SocketShape /\ EndShape /\ ErrorShape
  BY <1>1 DEF Init, StartedInOrder, SocketShape, EndShape, ErrorShape, Index
<1>4. AgeShape
  BY <1>1 DEF Init, AgeShape
<1>5. EventShape
  BY DEF Init, EventShape, NoEvents, Nothing
<1>6. NotTooMany
  <2>1. Running = {}
    BY DEF Init, Running
  <2>2. QED BY <2>1, <1>1, FS_EmptySet DEF NotTooMany
<1>7. QED BY <1>2, <1>3, <1>4, <1>5, <1>6 DEF RaceInv

\* Fewer sockets are as good as those there were.
LEMMA FewerRunning ==
  ASSUME TypeOK, NotTooMany, Running' \subseteq Running
  PROVE  NotTooMany'
<1>1. IsFiniteSet(Index) /\ Running \subseteq Index
  BY ConnectAssumption, FS_Interval DEF Index, Running
<1>2. IsFiniteSet(Running)
  BY <1>1, FS_Subset
<1>3. IsFiniteSet(Running') /\ Cardinality(Running') <= Cardinality(Running)
  BY <1>2, FS_Subset
<1>4. Cardinality(Running) \in Nat /\ Cardinality(Running') \in Nat /\ MaxConnect \in Nat
  BY <1>2, <1>3, FS_CardinalityType, ConnectAssumption
<1>5. QED BY <1>3, <1>4 DEF NotTooMany

\* What a round does to each connector before select.
LEMMA PreSelectEach ==
  ASSUME RaceInv, PreSelect, NEW i \in Index
  PROVE  /\ index \in 0..N /\ index' \in 0..N /\ index' \in {index, index + 1}
         /\ i > index' => status'[i] = "start" /\ fd'[i] = "none" /\ status[i] = "start"
         /\ i <= index => /\ fd'[i] = fd[i] /\ status[i] # "start"
                          /\ \/ status'[i] = status[i]
                             \/ status[i] = "startSSL" /\ status'[i] \in {"sslConnecting", "error"}
         /\ i <= index' /\ i > index =>
               /\ status[i] = "start" /\ i = index + 1
               /\ index < N /\ Cardinality(Running) < MaxConnect
               /\ \/ status'[i] = "connecting" /\ fd'[i] = "open"
                  \/ status'[i] = "error" /\ fd'[i] \in {"none", "lost"}
<1>1. N \in Nat /\ i \in Nat /\ i > 0 /\ i <= N /\ index \in 0..N
  BY ConnectAssumption DEF RaceInv, TypeOK, Index
<1>2. index' = (IF MayStart /\ NextConnTimeout <= 0 THEN index + 1 ELSE index)
  BY DEF PreSelect
<1>3. index' \in 0..N /\ index' \in {index, index + 1}
      /\ (index' # index => index < N /\ Cardinality(Running) < MaxConnect)
  BY <1>1, <1>2 DEF MayStart
<1>4. /\ i <= index => status[i] # "start"
      /\ i > index => status[i] = "start" /\ fd[i] = "none"
  BY DEF RaceInv, StartedInOrder, PreSelect
<1>5. /\ i <= index' => status'[i] \in Prepared(status[i])
      /\ ~(i <= index') => status'[i] \in {status[i]}
  BY DEF PreSelect
<1>6. PICK f \in [Index -> {"none", "lost"}] :
         fd' = [j \in Index |->
                    IF status[j] # "start" \/ status'[j] = "start" THEN fd[j]
                    ELSE IF status'[j] = "connecting" THEN "open" ELSE f[j]]
  BY DEF PreSelect
<1>7. fd'[i] = IF status[i] # "start" \/ status'[i] = "start" THEN fd[i]
               ELSE IF status'[i] = "connecting" THEN "open" ELSE f[i]
  BY <1>6
<1>8. CASE i > index'
  <2>1. i > index /\ ~(i <= index') /\ ~(i <= index)
    BY <1>1, <1>3, <1>8
  <2>2. status'[i] = "start" /\ fd'[i] = "none" /\ status[i] = "start"
    BY <1>4, <1>5, <1>7, <2>1
  <2>3. QED BY <1>1, <1>3, <2>1, <2>2
<1>9. CASE i <= index
  <2>1. i <= index' /\ ~(i > index) /\ ~(i > index')
    BY <1>1, <1>3, <1>9
  <2>2. status'[i] \in Prepared(status[i]) /\ status[i] # "start"
    BY <1>4, <1>5, <1>9, <2>1
  <2>3. \/ status'[i] = status[i]
        \/ status[i] = "startSSL" /\ status'[i] \in {"sslConnecting", "error"}
    BY <2>2 DEF Prepared, PreSSLSelect
  <2>4. QED BY <1>1, <1>3, <1>7, <2>1, <2>2, <2>3
<1>10. CASE i <= index' /\ i > index
  <2>1. i = index + 1 /\ index < N /\ Cardinality(Running) < MaxConnect /\ ~(i > index') /\ ~(i <= index)
    BY <1>1, <1>3, <1>10
  <2>2. status[i] = "start" /\ status'[i] \in {"connecting", "error"}
    BY <1>4, <1>5, <1>10 DEF Prepared, PreConnectSelect
  <2>3. QED BY <1>1, <1>3, <1>7, <2>1, <2>2
<1>11. QED
  <2>1. i > index' \/ i <= index \/ (i <= index' /\ i > index)
    BY <1>1, <1>3
  <2>2. QED BY <2>1, <1>8, <1>9, <1>10

\* The wait that a round ends in: no longer than the time limit, and than
\* what is left to any attempt under way.
LEMMA PreSelectWait ==
  ASSUME RaceInv, PreSelect
  PROVE  /\ wait' \in 0..Timeout
         /\ \A i \in Index : status'[i] \in Timed /\ wait' > 0 => age[i] + wait' <= Timeout
<1> DEFINE limit == IF MayStart /\ NextConnTimeout > 0
                    THEN Min({Timeout, NextConnTimeout}) ELSE Timeout
           S == {limit} \cup Limits(status')
           t == Min(S)
<1>1. Timeout \in Nat \ {0} /\ Interval \in Nat /\ ErrorInterval \in Nat /\ N \in Nat
  BY ConnectAssumption
<1>2. NextConnTimeout \in Int
  BY <1>1 DEF NextConnTimeout, RaceInv, TypeOK
<1>3. limit \in Int /\ 1 <= limit /\ limit <= Timeout
  BY <1>1, <1>2, MinOfTwo
<1>4. index' \in 0..N
  <2>1. index \in 0..N /\ N \in Nat \ {0}
    BY ConnectAssumption DEF RaceInv, TypeOK
  <2>2. 1 \in Index
    BY <2>1 DEF Index
  <2>3. QED BY <2>2, PreSelectEach
<1>5. \A i \in 1..index' : i \in Index /\ age[i] \in 0..(Timeout + 2)
  BY <1>1, <1>4 DEF RaceInv, TypeOK, Index, AgeBound
<1>6. \A x \in Limits(status') : x \in Int /\ -2 <= x
  BY <1>1, <1>5 DEF Limits
<1> HIDE DEF limit
<1>7. S \in SUBSET Int /\ S # {} /\ \A x \in S : -2 <= x
  BY <1>3, <1>6
<1>8. t \in S /\ t \in Int /\ \A y \in S : t <= y
  <2> HIDE DEF S
  <2>1. -2 \in Int
    OBVIOUS
  <2>2. t \in S /\ \A y \in S : t <= y
    BY <1>7, <2>1, MinOf
  <2>3. QED BY <1>7, <2>2
<1>9. wait' = WholeSeconds(t)
  BY DEF PreSelect, limit
<1> HIDE DEF t
<1>10. t <= Timeout
  BY <1>1, <1>3, <1>8
<1>11. wait' \in Nat /\ (wait' > 0 => wait' <= t)
  BY <1>8, <1>9, WholeSecondsShorter
<1>12. ASSUME NEW i \in Index, status'[i] \in Timed, wait' > 0
       PROVE  age[i] + wait' <= Timeout
  <2>1. i <= index' /\ i \in 1..index'
    <3>1. i \in Nat /\ i > 0
      BY DEF Index
    <3>2. ~(i > index')
      BY <1>12, PreSelectEach DEF Timed
    <3>3. QED BY <3>1, <3>2, <1>4
  <2>2. Timeout - age[i] \in S
    BY <1>12, <2>1 DEF Limits
  <2>3. t <= Timeout - age[i] /\ age[i] \in Nat
    <3> HIDE DEF S
    <3>1. t <= Timeout - age[i]
      BY <1>8, <2>2
    <3>2. age[i] \in Nat
      BY <1>5, <2>1
    <3>3. QED BY <3>1, <3>2
  <2>4. QED BY <1>1, <1>8, <1>11, <1>12, <2>3
<1>13. QED BY <1>1, <1>8, <1>10, <1>11, <1>12

LEMMA PreSelectKeeps ==
  ASSUME RaceInv, PreSelect
  PROVE  RaceInv'
<1>1. N \in Nat \ {0} /\ MaxConnect \in Nat \ {0} /\ Timeout \in Nat \ {0} /\ Interval \in Nat
  BY ConnectAssumption
<1>2. pc = "pre" /\ pc' = "select" /\ UNCHANGED <<backend, tls, age, events, result, stopped, errors>>
  BY DEF PreSelect
<1>3. 1 \in Index /\ \A i \in Index : i \in Nat
  BY <1>1 DEF Index
<1>4. index' \in 0..N
  BY <1>3, PreSelectEach
<1>5. \A i \in Index :
         /\ i > index' => status'[i] = "start" /\ fd'[i] = "none" /\ status[i] = "start"
         /\ i <= index => /\ fd'[i] = fd[i] /\ status[i] # "start"
                          /\ \/ status'[i] = status[i]
                             \/ status[i] = "startSSL" /\ status'[i] \in {"sslConnecting", "error"}
         /\ i <= index' /\ i > index =>
               /\ status[i] = "start"
               /\ \/ status'[i] = "connecting" /\ fd'[i] = "open"
                  \/ status'[i] = "error" /\ fd'[i] \in {"none", "lost"}
  BY PreSelectEach
<1>6. \A i \in Index : i > index' \/ i <= index \/ (i <= index' /\ i > index)
  BY <1>3, <1>4 DEF RaceInv, TypeOK
<1>7. TypeOK'
  <2>1. since' \in 0..Interval /\ lastError' \in BOOLEAN
    BY <1>1 DEF PreSelect, RaceInv, TypeOK
  <2>2. wait' \in 0..Timeout
    BY PreSelectWait
  <2>3. status' \in [Index -> Statuses \ {"connected"}]
    <3>1. status' \in [Index -> Statuses] /\ \A i \in Index : status[i] # "connected"
      BY DEF PreSelect, RaceInv, TypeOK
    <3>2. \A i \in Index : status'[i] # "connected"
      BY <1>5, <1>6, <3>1
    <3>3. QED BY <3>1, <3>2
  <2>4. fd' \in [Index -> {"none", "open", "lost", "closed", "returned"}]
    BY DEF PreSelect, RaceInv, TypeOK
  <2>5. QED BY <1>2, <1>4, <2>1, <2>2, <2>3, <2>4 DEF RaceInv, TypeOK
<1>8. StartedInOrder'
  <2> SUFFICES ASSUME NEW i \in Index
               PROVE  /\ i <= index' => status'[i] # "start"
                      /\ i > index' => fd'[i] = "none" /\ status'[i] = "start"
    BY DEF StartedInOrder
  <2>1. i \in Nat /\ index' \in Nat /\ index \in Nat
    BY <1>3, <1>4 DEF RaceInv, TypeOK
  <2>2. QED BY <1>5, <1>6, <2>1
<1>9. SocketShape'
  <2> SUFFICES ASSUME NEW i \in Index
               PROVE  /\ status'[i] \in {"connecting", "startSSL", "sslConnecting"} => fd'[i] = "open"
                      /\ status'[i] \in {"start", "null"} => fd'[i] # "open"
                      /\ fd'[i] = "returned" <=> i = result
    BY <1>2 DEF SocketShape
  <2>1. /\ status[i] \in {"connecting", "startSSL", "sslConnecting"} => fd[i] = "open"
        /\ status[i] \in {"start", "null"} => fd[i] # "open"
        /\ fd[i] = "returned" <=> i = result
        /\ i > index => fd[i] = "none"
    BY DEF RaceInv, SocketShape, StartedInOrder
  <2>2. i > index' => i > index
    BY <1>3, <1>4, PreSelectEach
  <2>3. QED BY <1>5, <1>6, <2>1, <2>2
<1>10. EndShape' /\ ErrorShape'
  <2>1. EndShape'
    BY <1>2 DEF RaceInv, EndShape
  <2>2. \A i \in Index : status'[i] = "null" => status[i] = "null"
    BY <1>5, <1>6
  <2>3. QED BY <1>2, <2>1, <2>2 DEF RaceInv, ErrorShape
<1>11. AgeShape'
  <2> SUFFICES ASSUME NEW i \in Index
               PROVE  /\ age[i] <= Timeout + 1
                      /\ status'[i] = "start" => age[i] = 0
                      /\ status'[i] = "startSSL" => age[i] <= Timeout
                      /\ status'[i] = "connecting" => age[i] < Timeout
                      /\ status'[i] = "sslConnecting" => age[i] <= Timeout
                      /\ status'[i] \in Timed /\ wait' > 0 => age[i] + wait' <= Timeout
    BY <1>2 DEF AgeShape
  <2>1. /\ age[i] <= Timeout + 1
        /\ status[i] = "start" => age[i] = 0
        /\ status[i] = "startSSL" => age[i] <= Timeout
        /\ status[i] = "connecting" => age[i] < Timeout
        /\ status[i] = "sslConnecting" => age[i] < Timeout
    BY <1>2 DEF RaceInv, AgeShape
  <2>2. age[i] \in Nat
    BY <1>1 DEF RaceInv, TypeOK, AgeBound
  <2>3. status'[i] \in Timed /\ wait' > 0 => age[i] + wait' <= Timeout
    BY PreSelectWait
  <2>4. QED BY <1>1, <1>5, <1>6, <2>1, <2>2, <2>3
<1>12. EventShape'
  BY <1>2 DEF RaceInv, EventShape
<1>13. NotTooMany'
  <2>1. CASE index' = index
    <3>1. \A i \in Index : fd'[i] = "open" => fd[i] = "open"
      BY <1>5, <1>6, <2>1, <1>3
    <3>2. Running' \subseteq Running
      BY <3>1 DEF Running
    <3>3. QED BY <3>2, FewerRunning DEF RaceInv
  <2>2. CASE index' # index
    <3>1. index' = index + 1 /\ index < N /\ Cardinality(Running) < MaxConnect /\ index \in Nat
      <4>1. index \in 0..N /\ index' \in {index, index + 1}
        BY <1>3, PreSelectEach
      <4>2. index + 1 \in Index /\ index' = index + 1
        BY <4>1, <1>1, <1>4, <2>2 DEF Index
      <4>3. index < N /\ Cardinality(Running) < MaxConnect
        BY <4>1, <4>2, PreSelectEach
      <4>4. QED BY <4>1, <4>2, <4>3
    <3>2. \A i \in Index : fd'[i] = "open" => fd[i] = "open" \/ i = index + 1
      BY <1>3, <1>5, <1>6, <3>1
    <3>3. Running' \subseteq Running \cup {index + 1}
      BY <3>2 DEF Running
    <3>4. IsFiniteSet(Index) /\ Running \subseteq Index
      BY <1>1, FS_Interval DEF Index, Running
    <3>5. IsFiniteSet(Running)
      BY <3>4, FS_Subset
    <3> DEFINE R == Running
               R1 == Running'
               U == Running \cup {index + 1}
    <3>6. IsFiniteSet(U) /\ Cardinality(U) <= Cardinality(R) + 1
      <4>1. Cardinality(R) \in Nat
        BY <3>5, FS_CardinalityType
      <4>2. QED BY <3>5, <4>1, FS_AddElement
    <3>7. IsFiniteSet(R1) /\ Cardinality(R1) <= Cardinality(U)
      BY <3>3, <3>6, FS_Subset
    <3>8. Cardinality(R) \in Nat /\ Cardinality(R1) \in Nat /\ Cardinality(U) \in Nat
      BY <3>5, <3>6, <3>7, FS_CardinalityType
    <3>9. Cardinality(R1) <= MaxConnect
      <4> HIDE DEF R, R1, U
      <4>1. Cardinality(R) < MaxConnect
        BY <3>1 DEF R
      <4>2. QED BY <1>1, <3>6, <3>7, <3>8, <4>1
    <3>10. QED BY <3>9 DEF NotTooMany
  <2>3. QED BY <2>1, <2>2
<1>14. QED BY <1>7, <1>8, <1>9, <1>10, <1>11, <1>12, <1>13 DEF RaceInv

\* A connector that finds its socket ready looks at one that had not failed:
\* SocketProofs shows that a failure is an exception with both back
\* ends, and the exception is tested first.
LEMMA ReadyHasNotFailed ==
  ASSUME NEW b, NEW st, NEW o, <<b, st, o>> \in Sights, o.seen = "ready"
  PROVE  ~o.failed
<1>1. PICK k \in Situations :
        <<b, st, o>> = <<k.backend, k.status,
             [seen |-> Seen(k.status, k.report), failed |-> "failed" \in k.facts]>>
  BY DEF Sights
<1>2. o.seen = Seen(k.status, k.report) /\ o.failed = ("failed" \in k.facts)
  BY <1>1
<1>3. PICK asked \in Asked(k.status) : k.report \in Reports(k.backend, asked, k.facts)
  BY DEF Situations
<1>4. k.backend \in Backends /\ k.status \in Timed /\ k.facts \subseteq Facts \ {"closed"}
  BY DEF Situations
<1>5. asked \in SUBSET Asks /\ asked \cap {"read", "write"} # {}
  BY <1>3, <1>4 DEF Asked, Asks, Timed
<1>6. SUFFICES ASSUME "failed" \in k.facts PROVE FALSE
  BY <1>2
<1>7. k.report.exception
  BY <1>3, <1>4, <1>5, <1>6, FailureIsSeen
<1>8. Seen(k.status, k.report) = "bad"
  BY <1>7 DEF Seen
<1>9. QED BY <1>2, <1>8

LEMMA SelectKeeps ==
  ASSUME RaceInv, SelectReturns
  PROVE  RaceInv'
<1>1. N \in Nat \ {0} /\ Timeout \in Nat \ {0} /\ Interval \in Nat
  BY ConnectAssumption
<1>2. PICK e \in Snapshots, d \in 0..Timeout : Select(d, e)
  BY DEF SelectReturns
<1>3. pc = "select" /\ pc' = "after" /\ events' = e
      /\ UNCHANGED <<backend, tls, status, fd, lastError, index, wait, result, stopped, errors>>
  BY <1>2 DEF Select
<1>4. d \in Nat /\ (wait = 0 => d <= 1) /\ (wait # 0 => d <= wait)
  BY <1>2 DEF Select
<1>5. wait \in Nat /\ since \in 0..Interval /\ age \in [Index -> 0..AgeBound] /\ AgeBound = Timeout + 2
  BY DEF RaceInv, TypeOK, AgeBound
<1>6. \A i \in Index :
         age'[i] = IF status[i] \in Timed
                   THEN (IF age[i] + d <= AgeBound THEN age[i] + d ELSE AgeBound) ELSE age[i]
  <2> TAKE i \in Index
  <2>1. age'[i] = IF status[i] \in Timed THEN Min({age[i] + d, AgeBound}) ELSE age[i]
    BY <1>2 DEF Select
  <2>2. age[i] + d \in Int /\ AgeBound \in Int
    BY <1>1, <1>4, <1>5
  <2>3. Min({age[i] + d, AgeBound}) = IF age[i] + d <= AgeBound THEN age[i] + d ELSE AgeBound
    BY <2>2, MinOfTwo
  <2>4. QED BY <2>1, <2>3
<1>7. TypeOK'
  <2>1. since' \in 0..Interval
    <3>1. since' = Min({since + d, Interval}) /\ since + d \in Nat
      BY <1>1, <1>2, <1>4, <1>5 DEF Select
    <3>2. Min({since + d, Interval}) = IF since + d <= Interval THEN since + d ELSE Interval
      BY <1>1, <3>1, MinOfTwo
    <3>3. QED BY <1>1, <3>1, <3>2
  <2>2. age' \in [Index -> 0..AgeBound]
    <3>1. \A i \in Index : age'[i] \in 0..AgeBound
      BY <1>1, <1>4, <1>5, <1>6
    <3>2. age' = [i \in Index |-> age'[i]]
      BY <1>2 DEF Select
    <3>3. QED BY <3>1, <3>2
  <2>3. e \in Events
    BY DEF Snapshots
  <2>4. QED BY <1>3, <2>1, <2>2, <2>3 DEF RaceInv, TypeOK
<1>8. StartedInOrder' /\ SocketShape' /\ EndShape' /\ ErrorShape'
  BY <1>3 DEF RaceInv, StartedInOrder, SocketShape, EndShape, ErrorShape
<1>9. AgeShape'
  <2> SUFFICES ASSUME NEW i \in Index
               PROVE  /\ age'[i] <= Timeout + 1
                      /\ status[i] = "start" => age'[i] = 0
                      /\ status[i] = "startSSL" => age'[i] <= Timeout
                      /\ status[i] = "connecting" => age'[i] <= Timeout
    BY <1>3 DEF AgeShape
  <2>1. /\ age[i] <= Timeout + 1
        /\ status[i] = "start" => age[i] = 0
        /\ status[i] = "startSSL" => age[i] <= Timeout
        /\ status[i] = "connecting" => age[i] < Timeout
        /\ status[i] = "sslConnecting" => age[i] <= Timeout
        /\ status[i] \in Timed /\ wait > 0 => age[i] + wait <= Timeout
    BY <1>3 DEF RaceInv, AgeShape
  <2>2. age[i] \in Nat
    BY <1>1, <1>5
  <2>3. CASE status[i] \notin Timed
    BY <1>6, <2>1, <2>3 DEF Timed
  <2>4. CASE status[i] \in Timed
    <3>1. age[i] + d <= Timeout + 1 /\ (status[i] = "connecting" => age[i] + d <= Timeout)
      BY <1>1, <1>4, <1>5, <2>1, <2>2, <2>4 DEF Timed
    <3>2. age'[i] = age[i] + d
      BY <1>1, <1>4, <1>5, <1>6, <2>2, <2>4, <3>1
    <3>3. QED BY <2>4, <3>1, <3>2 DEF Timed
  <2>5. QED BY <2>3, <2>4
<1>10. EventShape'
  <2> SUFFICES ASSUME NEW i \in Index, e[i].seen = "ready" PROVE ~e[i].failed
    BY <1>3 DEF EventShape
  <2>1. e[i] # Nothing
    BY DEF Nothing
  <2>2. <<backend, status[i], e[i]>> \in Sights
    BY <2>1 DEF Snapshots
  <2>3. QED BY <2>2, ReadyHasNotFailed
<1>11. NotTooMany'
  BY <1>3 DEF RaceInv, NotTooMany, Running
<1>12. QED BY <1>7, <1>8, <1>9, <1>10, <1>11 DEF RaceInv

\* The breaker, and the end of the race.
LEMMA EndsKeep ==
  ASSUME RaceInv, SelectStops \/ Finish
  PROVE  RaceInv'
<1>1. N \in Nat \ {0} /\ Timeout \in Nat \ {0} /\ Interval \in Nat
  BY ConnectAssumption
<1>2. CASE SelectStops
  <2>1. pc = "select" /\ pc' = "finish" /\ stopped' = TRUE
        /\ UNCHANGED <<backend, tls, status, fd, age, since, lastError, index, wait, events, result, errors>>
    BY <1>2 DEF SelectStops
  <2>2. TypeOK'
    BY <2>1 DEF RaceInv, TypeOK
  <2>3. StartedInOrder' /\ SocketShape' /\ EndShape' /\ ErrorShape'
    BY <2>1 DEF RaceInv, StartedInOrder, SocketShape, EndShape, ErrorShape
  <2>4. AgeShape' /\ EventShape'
    BY <2>1 DEF RaceInv, AgeShape, EventShape
  <2>5. NotTooMany'
    BY <2>1 DEF RaceInv, NotTooMany, Running
  <2>6. QED BY <2>2, <2>3, <2>4, <2>5 DEF RaceInv
<1>3. CASE Finish
  <2>1. pc = "finish" /\ pc' = "done"
        /\ UNCHANGED <<backend, tls, since, lastError, index, wait, events, result, stopped, errors>>
    BY <1>3 DEF Finish
  <2>2. \A i \in Index :
           /\ status'[i] = "null" /\ age'[i] = 0
           /\ fd'[i] = IF status[i] # "null" /\ fd[i] = "open" THEN "closed" ELSE fd[i]
    BY <1>3 DEF Finish
  <2>3. TypeOK'
    <3>1. status' \in [Index -> Statuses \ {"connected"}]
      BY <1>3 DEF Finish, Statuses
    <3>2. fd' \in [Index -> {"none", "open", "lost", "closed", "returned"}]
      BY <1>3 DEF Finish, RaceInv, TypeOK
    <3>3. age' \in [Index -> 0..AgeBound]
      BY <1>1, <1>3 DEF Finish, AgeBound
    <3>4. QED BY <2>1, <3>1, <3>2, <3>3 DEF RaceInv, TypeOK
  <2>4. StartedInOrder'
    BY <2>1, <2>2 DEF RaceInv, StartedInOrder
  <2>5. SocketShape'
    BY <2>1, <2>2 DEF RaceInv, SocketShape
  <2>6. EndShape' /\ ErrorShape'
    BY <2>1, <2>2 DEF RaceInv, EndShape, ErrorShape
  <2>7. AgeShape'
    BY <1>1, <2>1, <2>2 DEF AgeShape, Timed
  <2>8. EventShape'
    BY <2>1 DEF RaceInv, EventShape
  <2>9. NotTooMany'
    <3>1. Running' \subseteq Running
      BY <2>2 DEF Running
    <3>2. QED BY <3>1, FewerRunning DEF RaceInv
  <2>10. QED BY <2>3, <2>4, <2>5, <2>6, <2>7, <2>8, <2>9 DEF RaceInv
<1>4. QED BY <1>2, <1>3

\* What the look at the connectors does to each of them.
LEMMA AfterSelectEach ==
  ASSUME RaceInv, AfterSelect
  PROVE  /\ result = 0 /\ result' \in 0..index /\ index \in 0..N
         /\ errors \subseteq errors' /\ errors' \subseteq Index
         /\ result' # 0 => /\ status[result'] \in Timed
                           /\ events[result'].seen = "ready"
         /\ \A i \in Index :
              \/ i # result' /\ status'[i] = status[i] /\ fd'[i] = fd[i]
                 /\ (i <= index => result' # 0)
              \/ i <= index /\ i # result' /\ status'[i] = "null" /\ status[i] # "start"
                 /\ fd'[i] = (IF fd[i] = "open" THEN "closed" ELSE fd[i])
                 /\ i \in errors'
              \/ i <= index /\ i = result' /\ status'[i] = "null" /\ fd'[i] = "returned"
              \/ i <= index /\ i # result' /\ fd'[i] = fd[i]
                 /\ status'[i] = status[i] /\ (status[i] \in Timed => age[i] < Timeout)
              \/ i <= index /\ i # result' /\ fd'[i] = fd[i]
                 /\ status[i] = "connecting" /\ status'[i] = "startSSL"
<1>1. N \in Nat \ {0} /\ Timeout \in Nat \ {0} /\ index \in 0..N
  BY ConnectAssumption DEF RaceInv, TypeOK
<1>2. PICK s \in [1..index -> Statuses] :
          LET winners == {i \in 1..index : s[i] = "connected"}
              seen == {i \in 1..index : \A w \in winners : i <= w}
              failed == {i \in seen : s[i] = "error"}
          IN
          /\ \A i \in 1..index : s[i] \in Looked(i)
          /\ result' = IF winners = {} THEN 0 ELSE Min(winners)
          /\ status' = [i \in Index |->
                 IF i \notin seen THEN status[i]
                 ELSE IF s[i] \in {"error", "connected"} THEN "null" ELSE s[i]]
          /\ fd' = [i \in Index |->
                 IF i \in failed /\ fd[i] = "open" THEN "closed"
                 ELSE IF i = result' THEN "returned" ELSE fd[i]]
          /\ lastError' = (lastError \/ failed # {})
          /\ errors' = errors \cup failed
  BY DEF AfterSelect
<1> DEFINE winners == {i \in 1..index : s[i] = "connected"}
           seen == {i \in 1..index : \A w \in winners : i <= w}
           failed == {i \in seen : s[i] = "error"}
<1>3. result = 0 /\ pc = "after"
  BY DEF RaceInv, EndShape, AfterSelect
<1>4. errors' = errors \cup failed /\ failed \subseteq 1..index /\ 1..index \subseteq Index
  BY <1>1, <1>2 DEF Index
<1>5. winners # {} => result' \in winners /\ \A w \in winners : result' <= w
  <2> SUFFICES ASSUME winners # {}
               PROVE  result' \in winners /\ \A w \in winners : result' <= w
    OBVIOUS
  <2>1. winners \in SUBSET Int /\ \A w \in winners : 1 <= w
    BY <1>1
  <2>2. result' = Min(winners)
    BY <1>2
  <2> HIDE DEF winners
  <2>3. QED BY <2>1, <2>2, MinOf
<1>6. winners = {} => result' = 0
  BY <1>2
<1>7. \A i \in 1..index : s[i] \in Looked(i)
  BY <1>2
<1>8. \A i \in Index :
         /\ status'[i] = IF i \notin seen THEN status[i]
                         ELSE IF s[i] \in {"error", "connected"} THEN "null" ELSE s[i]
         /\ fd'[i] = IF i \in failed /\ fd[i] = "open" THEN "closed"
                     ELSE IF i = result' THEN "returned" ELSE fd[i]
  BY <1>2
<1>9. \A i \in 1..index :
         /\ i \in Index
         /\ status[i] # "start" /\ status[i] # "connected"
         /\ s[i] = "connected" => status[i] \in Timed /\ events[i].seen = "ready"
         /\ s[i] \notin {"error", "connected"} =>
               \/ s[i] = status[i] /\ (status[i] \in Timed => age[i] < Timeout)
               \/ status[i] = "connecting" /\ s[i] = "startSSL"
  <2> TAKE i \in 1..index
  <2>1. i \in Index /\ i <= index
    BY <1>1 DEF Index
  <2>2. status[i] # "start" /\ status[i] # "connected"
    BY <2>1 DEF RaceInv, StartedInOrder, TypeOK
  <2>3. age[i] \in Int
    BY <1>1, <2>1 DEF RaceInv, TypeOK, AgeBound
  <2>4. CASE status[i] = "connecting"
    <3>1. s[i] \in AfterConnectSelect(i)
      BY <1>7, <2>4 DEF Looked
    <3>2. CASE events[i].seen = "bad"
      BY <3>1, <3>2, <2>1, <2>2 DEF AfterConnectSelect
    <3>3. CASE events[i].seen = "ready"
      BY <3>1, <3>3, <2>1, <2>2, <2>4 DEF AfterConnectSelect, Blocking, Timed
    <3>4. CASE events[i].seen \notin {"bad", "ready"}
      <4>1. s[i] \in Silent(i)
        BY <3>1, <3>4 DEF AfterConnectSelect
      <4>2. s[i] = "error" \/ (s[i] = status[i] /\ ~(age[i] >= Timeout))
        BY <4>1 DEF Silent
      <4>3. QED BY <4>2, <2>1, <2>2, <2>3, <2>4, <1>1
    <3>5. QED BY <3>2, <3>3, <3>4
  <2>5. CASE status[i] = "sslConnecting"
    <3>1. s[i] \in AfterSSLSelect(i)
      BY <1>7, <2>5 DEF Looked
    <3>2. CASE events[i].seen = "bad"
      BY <3>1, <3>2, <2>1, <2>2 DEF AfterSSLSelect
    <3>3. CASE events[i].seen = "ready"
      BY <3>1, <3>3, <2>1, <2>2, <2>5 DEF AfterSSLSelect, Blocking, Timed
    <3>4. CASE events[i].seen \notin {"bad", "ready"}
      <4>1. s[i] \in Silent(i)
        BY <3>1, <3>4 DEF AfterSSLSelect
      <4>2. s[i] = "error" \/ (s[i] = status[i] /\ ~(age[i] >= Timeout))
        BY <4>1 DEF Silent
      <4>3. QED BY <4>2, <2>1, <2>2, <2>3, <2>5, <1>1
    <3>5. QED BY <3>2, <3>3, <3>4
  <2>6. CASE status[i] \notin {"connecting", "sslConnecting"}
    <3>1. s[i] = status[i]
      BY <1>7, <2>6 DEF Looked
    <3>2. QED BY <3>1, <2>1, <2>2, <2>6 DEF Timed
  <2>7. QED BY <2>4, <2>5, <2>6
<1>10. \A i \in 1..index : i \notin seen => winners # {} /\ i # result'
  <2> SUFFICES ASSUME NEW i \in 1..index, i \notin seen
               PROVE  winners # {} /\ i # result'
    OBVIOUS
  <2>1. PICK w \in winners : ~(i <= w)
    OBVIOUS
  <2>2. QED BY <2>1, <1>5
<1>11. winners # {} => result' \in 1..index /\ s[result'] = "connected"
  BY <1>5
<1>12. \A i \in seen : i \in 1..index /\ (s[i] = "connected" => i = result')
  <2> SUFFICES ASSUME NEW i \in seen, s[i] = "connected" PROVE i = result'
    OBVIOUS
  <2>1. i \in winners /\ result' \in winners /\ i <= result' /\ result' <= i
    BY <1>5
  <2>2. i \in Int /\ result' \in Int
    BY <1>1, <2>1
  <2>3. QED BY <2>1, <2>2
<1>13. \A i \in Index : i \notin 1..index => i \notin seen /\ ~(i <= index) /\ i # result'
  BY <1>1, <1>6, <1>11 DEF Index
<1>14. \A i : i \in failed <=> i \in seen /\ s[i] = "error"
  OBVIOUS
<1> HIDE DEF winners, seen, failed
<1>15. result' \in 0..index
  BY <1>1, <1>6, <1>11
<1>16. result' # 0 => status[result'] \in Timed /\ events[result'].seen = "ready"
  BY <1>6, <1>9, <1>11
<1>17. ASSUME NEW i \in Index
       PROVE  \/ i # result' /\ status'[i] = status[i] /\ fd'[i] = fd[i]
                 /\ (i <= index => result' # 0)
              \/ i <= index /\ i # result' /\ status'[i] = "null" /\ status[i] # "start"
                 /\ fd'[i] = (IF fd[i] = "open" THEN "closed" ELSE fd[i])
                 /\ i \in errors'
              \/ i <= index /\ i = result' /\ status'[i] = "null" /\ fd'[i] = "returned"
              \/ i <= index /\ i # result' /\ fd'[i] = fd[i]
                 /\ status'[i] = status[i] /\ (status[i] \in Timed => age[i] < Timeout)
              \/ i <= index /\ i # result' /\ fd'[i] = fd[i]
                 /\ status[i] = "connecting" /\ status'[i] = "startSSL"
  <2>1. CASE i \notin 1..index
    BY <1>8, <1>13, <1>14, <2>1
  <2>2. CASE i \in 1..index /\ i \notin seen
    <3>1. result' # 0 /\ i # result'
      BY <1>1, <1>10, <1>11, <2>2
    <3>2. QED BY <1>8, <1>14, <2>2, <3>1
  <2>3. CASE i \in seen /\ s[i] = "error"
    <3>1. i # result' /\ i <= index /\ i \in 1..index
      <4>1. i \in 1..index /\ i \in Nat /\ i > 0
        BY <1>1, <1>12, <2>3
      <4>2. i # result'
        BY <1>6, <1>11, <2>3, <4>1
      <4>3. QED BY <1>1, <4>1, <4>2
    <3>2. i \in errors'
      BY <1>4, <1>14, <2>3
    <3>3. QED BY <1>8, <1>9, <1>14, <2>3, <3>1, <3>2
  <2>4. CASE i \in seen /\ s[i] = "connected"
    <3>1. i = result' /\ i <= index
      BY <1>1, <1>12, <2>4
    <3>2. QED BY <1>8, <1>14, <2>4, <3>1
  <2>5. CASE i \in seen /\ s[i] \notin {"error", "connected"}
    <3>1. i # result' /\ i <= index /\ i \in 1..index
      <4>1. i \in 1..index /\ i \in Nat /\ i > 0
        BY <1>1, <1>12, <2>5
      <4>2. i # result'
        BY <1>6, <1>11, <2>5, <4>1
      <4>3. QED BY <1>1, <4>1, <4>2
    <3>2. status'[i] = s[i] /\ fd'[i] = fd[i]
      BY <1>8, <1>14, <2>5, <3>1
    <3>3. QED BY <1>9, <2>5, <3>1, <3>2
  <2>6. QED BY <2>1, <2>2, <2>3, <2>4, <2>5
<1>18. errors \subseteq errors' /\ errors' \subseteq Index
  BY <1>4 DEF RaceInv, TypeOK
<1>19. QED BY <1>1, <1>3, <1>15, <1>16, <1>17, <1>18

LEMMA AfterSelectKeeps ==
  ASSUME RaceInv, AfterSelect
  PROVE  RaceInv'
<1>1. N \in Nat \ {0} /\ Timeout \in Nat \ {0} /\ N \in Index
  BY ConnectAssumption DEF Index
<1>2. pc = "after" /\ UNCHANGED <<backend, tls, since, index, stopped>>
      /\ events' = NoEvents /\ wait' = 0
      /\ pc' = (IF AllInvalid(status') \/ result' # 0 THEN "finish" ELSE "pre")
  BY DEF AfterSelect
<1>3. result = 0 /\ result' \in 0..index /\ index \in 0..N
      /\ errors \subseteq errors' /\ errors' \subseteq Index
  BY AfterSelectEach
<1>4. \A i \in Index :
         \/ i # result' /\ status'[i] = status[i] /\ fd'[i] = fd[i]
            /\ (i <= index => result' # 0)
         \/ i <= index /\ i # result' /\ status'[i] = "null" /\ status[i] # "start"
            /\ fd'[i] = (IF fd[i] = "open" THEN "closed" ELSE fd[i])
            /\ i \in errors'
         \/ i <= index /\ i = result' /\ status'[i] = "null" /\ fd'[i] = "returned"
         \/ i <= index /\ i # result' /\ fd'[i] = fd[i]
            /\ status'[i] = status[i] /\ (status[i] \in Timed => age[i] < Timeout)
         \/ i <= index /\ i # result' /\ fd'[i] = fd[i]
            /\ status[i] = "connecting" /\ status'[i] = "startSSL"
  BY AfterSelectEach
<1>5. \A i \in Index : i \in Nat /\ i # 0 /\ i # result
  BY <1>3 DEF Index
<1>6. \A i \in Index : age'[i] = IF status'[i] = "null" THEN 0 ELSE age[i]
  BY DEF AfterSelect
<1>7. TypeOK'
  <2>1. status' \in [Index -> Statuses \ {"connected"}]
    <3>1. \A i \in Index : status'[i] \in Statuses \ {"connected"}
      BY <1>4 DEF RaceInv, TypeOK, Statuses
    <3>2. status' = [i \in Index |-> status'[i]]
      BY DEF AfterSelect
    <3>3. QED BY <3>1, <3>2
  <2>2. fd' \in [Index -> {"none", "open", "lost", "closed", "returned"}]
    BY DEF AfterSelect, RaceInv, TypeOK
  <2>3. age' \in [Index -> 0..AgeBound]
    BY <1>1 DEF AfterSelect, RaceInv, TypeOK, AgeBound
  <2>4. lastError' \in BOOLEAN
    BY DEF AfterSelect
  <2>5. NoEvents \in Events
    BY DEF Events, Outcomes, NoEvents, Nothing
  <2>6. result' \in 0..N /\ 0 \in 0..Timeout
    BY <1>1, <1>3
  <2>7. QED BY <1>2, <1>3, <2>1, <2>2, <2>3, <2>4, <2>5, <2>6 DEF RaceInv, TypeOK
<1>8. StartedInOrder'
  <2> SUFFICES ASSUME NEW i \in Index
               PROVE  /\ i <= index => status'[i] # "start"
                      /\ i > index => fd'[i] = "none" /\ status'[i] = "start"
    BY <1>2 DEF StartedInOrder
  <2>1. /\ i <= index => status[i] # "start"
        /\ i > index => fd[i] = "none" /\ status[i] = "start"
    BY <1>2 DEF RaceInv, StartedInOrder
  <2>2. i <= index \/ i > index
    BY <1>3, <1>5
  <2>3. i > index => ~(i <= index)
    BY <1>3, <1>5
  <2>4. QED BY <1>4, <2>1, <2>2, <2>3
<1>9. SocketShape'
  <2> SUFFICES ASSUME NEW i \in Index
               PROVE  /\ status'[i] \in {"connecting", "startSSL", "sslConnecting"} => fd'[i] = "open"
                      /\ status'[i] \in {"start", "null"} => fd'[i] # "open"
                      /\ fd'[i] = "returned" <=> i = result'
    BY DEF SocketShape
  <2>1. /\ status[i] \in {"connecting", "startSSL", "sslConnecting"} => fd[i] = "open"
        /\ status[i] \in {"start", "null"} => fd[i] # "open"
        /\ fd[i] # "returned"
    BY <1>5 DEF RaceInv, SocketShape
  <2>2. QED BY <1>4, <2>1
<1>E. ErrorShape'
  <2> SUFFICES ASSUME NEW i \in Index, status'[i] = "null" PROVE i \in errors' \cup {result'}
    BY DEF ErrorShape
  <2>1. status[i] = "null" => i \in errors'
    BY <1>2, <1>3, <1>5 DEF RaceInv, ErrorShape
  <2>2. QED BY <1>4, <2>1
<1>10. EndShape'
  <2>1. result' # 0 => pc' = "finish"
    BY <1>2
  <2>2. pc' # "done"
    BY <1>2
  <2>3. ASSUME pc' = "finish", result' = 0
        PROVE  index = N /\ errors' = Index /\ \A i \in Index : status'[i] = "null"
    <3>1. \A i \in Index : status'[i] = "null"
      BY <1>2, <2>3 DEF AllInvalid
    <3>2. ~(N > index)
      BY <1>1, <1>8, <3>1, <1>2, <2>2 DEF StartedInOrder
    <3>3. errors' = Index
      BY <1>E, <1>3, <1>5, <2>2, <2>3, <3>1 DEF ErrorShape
    <3>4. QED BY <1>1, <1>3, <3>1, <3>2, <3>3
  <2>4. QED BY <1>2, <2>1, <2>2, <2>3 DEF EndShape
<1>11. AgeShape'
  <2> SUFFICES ASSUME NEW i \in Index
               PROVE  /\ age'[i] <= Timeout + 1
                      /\ status'[i] = "start" => age'[i] = 0
                      /\ status'[i] = "startSSL" => age'[i] <= Timeout
                      /\ status'[i] \in Timed /\ pc' = "pre" => age'[i] < Timeout
    BY <1>2 DEF AgeShape, Timed
  <2>1. /\ age[i] <= Timeout + 1
        /\ status[i] = "start" => age[i] = 0
        /\ status[i] = "startSSL" => age[i] <= Timeout
        /\ status[i] = "connecting" => age[i] <= Timeout
    BY <1>2 DEF RaceInv, AgeShape
  <2>2. age[i] \in Nat
    BY <1>1 DEF RaceInv, TypeOK, AgeBound
  <2>3. CASE status'[i] = "null"
    BY <1>1, <1>6, <2>3 DEF Timed
  <2>4. CASE status'[i] # "null"
    <3>1. age'[i] = age[i]
      BY <1>6, <2>4
    <3>2. status'[i] = "start" => status[i] = "start"
      BY <1>4
    <3>3. status'[i] = "startSSL" => status[i] \in {"startSSL", "connecting"}
      BY <1>4
    <3>4. status'[i] \in Timed /\ pc' = "pre" => age[i] < Timeout
      <4> SUFFICES ASSUME status'[i] \in Timed, pc' = "pre" PROVE age[i] < Timeout
        OBVIOUS
      <4>1. result' = 0
        BY <1>2
      <4>2. i <= index
        <5>1. i > index => status'[i] = "start"
          BY <1>2, <1>8 DEF StartedInOrder
        <5>2. QED BY <5>1, <1>3, <1>5 DEF Timed
      <4>3. QED BY <1>4, <2>4, <4>1, <4>2 DEF Timed
    <3>5. QED BY <2>1, <2>2, <3>1, <3>2, <3>3, <3>4
  <2>5. QED BY <2>3, <2>4
<1>12. EventShape'
  BY <1>2 DEF EventShape, NoEvents, Nothing
<1>13. NotTooMany'
  <2>1. \A i \in Index : fd'[i] = "open" => fd[i] = "open"
    BY <1>4
  <2>2. Running' \subseteq Running
    BY <2>1 DEF Running
  <2>3. QED BY <2>2, FewerRunning DEF RaceInv
<1>14. QED BY <1>7, <1>8, <1>9, <1>10, <1>E, <1>11, <1>12, <1>13 DEF RaceInv

LEMMA RaceStep ==
  ASSUME RaceInv, [Next]_vars
  PROVE  RaceInv'
<1>1. CASE UNCHANGED vars
  <2>1. TypeOK' /\ StartedInOrder' /\ SocketShape' /\ EndShape' /\ ErrorShape'
    BY <1>1 DEF vars, RaceInv, TypeOK, StartedInOrder, SocketShape, EndShape, ErrorShape
  <2>2. AgeShape' /\ EventShape' /\ NotTooMany'
    BY <1>1 DEF vars, RaceInv, AgeShape, EventShape, NotTooMany, Running
  <2>3. QED BY <2>1, <2>2 DEF RaceInv
<1>2. QED
  BY <1>1, PreSelectKeeps, SelectKeeps, AfterSelectKeeps, EndsKeep DEF Next, RaceSteps

\* A step of the race that names a winner names one whose socket was ready.
LEMMA WinnerWasReady ==
  ASSUME RaceInv, [Next]_vars
  PROVE  [\A i \in Index : (result # i /\ result' = i) => ~events[i].failed]_vars
<1> SUFFICES ASSUME Next, NEW i \in Index, result # i, result' = i
             PROVE  ~events[i].failed
  OBVIOUS
<1>1. CASE AfterSelect
  <2>1. i # 0
    BY DEF Index
  <2>2. events[i].seen = "ready"
    BY <1>1, <2>1, AfterSelectEach
  <2>3. QED BY <2>2 DEF RaceInv, EventShape
<1>2. CASE PreSelect \/ SelectReturns \/ Finish \/ SelectStops
  BY <1>2 DEF PreSelect, SelectReturns, Select, Finish, SelectStops
<1>3. QED BY <1>1, <1>2 DEF Next, RaceSteps

-----------------------------------------------------------------------------
(***************************************************************************)
(* The resolver.                                                           *)
(***************************************************************************)
DnsInv ==
    DnsTypeOK /\ CallShape /\ InTurn /\ BreakerTold /\ CacheShape /\ AnswerShape

\* Addresses that queries find, and those that a call may return.
Found == Calls \X (1..MaxIps)
Returned == ((Calls \cup {Http}) \X (1..MaxIps)) \cup {BackupIp}

\* The answer of a query, and how it grows.
LEMMA AnswerFacts ==
  ASSUME NEW c, NEW n \in Nat
  PROVE  /\ Answer(c, n) \in Seq({c} \X (1..n)) /\ Len(Answer(c, n)) = n
         /\ Answer(c, n) = <<>> <=> n = 0
         /\ Append(Answer(c, n), <<c, n + 1>>) = Answer(c, n + 1)
<1>1. \A i \in 1..n : <<c, i>> \in {c} \X (1..n)
  OBVIOUS
<1>2. Answer(c, n) \in Seq({c} \X (1..n)) /\ Len(Answer(c, n)) = n
  BY <1>1 DEF Answer
<1>3. Answer(c, n) = <<>> <=> n = 0
  BY <1>2, EmptySeq
<1>4. Append(Answer(c, n), <<c, n + 1>>) = Answer(c, n + 1)
  BY DEF Answer
<1>5. QED BY <1>2, <1>3, <1>4

LEMMA InitDnsInv == DnsInit => DnsInv
<1> SUFFICES ASSUME DnsInit PROVE DnsInv
  OBVIOUS
<1>1. MaxCalls \in Nat \ {0} /\ MaxIps \in Nat \ {0} /\ PipeFails \in BOOLEAN
  BY DnsAssumption
<1>2. PICK ok \in BOOLEAN : retb = NewBreaker(ok)
  BY <1>1 DEF DnsInit
<1>3. retb \in Breaker /\ Marked(retb) /\ ~retb.broken /\ ~Readable(retb)
  BY <1>2, NewBreakerFacts
<1>4. DnsTypeOK
  <2>1. call \in 0..MaxCalls /\ found \in [Calls -> 0..MaxIps] /\ left \in [Calls -> 0..MaxIps]
    BY <1>1 DEF DnsInit
  <2>2. cacheIps \in Seq(Calls \X (1..MaxIps))
        /\ ips \in Seq(((Calls \cup {Http}) \X (1..MaxIps)) \cup {BackupIp})
    BY EmptySeq DEF DnsInit
  <2>3. QED BY <1>3, <2>1, <2>2 DEF DnsInit, DnsTypeOK
<1>5. CallShape
  BY <1>3 DEF DnsInit, CallShape
<1>6. InTurn /\ BreakerTold
  BY <1>3 DEF DnsInit, InTurn, BreakerTold, UnderWay
<1>7. CacheShape /\ AnswerShape
  BY DEF DnsInit, CacheShape, AnswerShape
<1>8. QED BY <1>4, <1>5, <1>6, <1>7 DEF DnsInv

\* A new call.
LEMMA GetHostByNameKeeps ==
  ASSUME DnsInv, NEW n \in 0..MaxIps, GetHostByName(n)
  PROVE  DnsInv'
<1>1. MaxCalls \in Nat \ {0} /\ MaxIps \in Nat \ {0}
  BY DnsAssumption
<1>2. call \in 0..MaxCalls /\ call < MaxCalls /\ call' = call + 1 /\ selRet' = "none"
      /\ ips' = Answer(Http, n) /\ dpc' = (IF n = 0 THEN "clear" ELSE "answered")
      /\ UNCHANGED <<retb, cacheIps, query, found, left, crossed>>
  BY DEF GetHostByName, DnsInv, DnsTypeOK
<1>3. n \in Nat /\ call' \in Calls /\ call' \in 0..MaxCalls
  BY <1>1, <1>2 DEF Calls
<1>4. Answer(Http, n) \in Seq(Returned)
  <2>1. {Http} \X (1..n) \subseteq Returned
    BY <1>1 DEF Returned
  <2>2. QED BY <1>3, <2>1, AnswerFacts, SeqMonotonic
<1>5. DnsTypeOK'
  BY <1>2, <1>3, <1>4 DEF DnsInv, DnsTypeOK, Returned
<1>6. query[call'] = "none"
  BY <1>2, <1>3 DEF DnsInv, CallShape
<1>7. CallShape'
  <2>1. \A c \in Calls : query[c] # "none" => c <= call'
    BY <1>2 DEF DnsInv, CallShape, Calls
  <2>2. n # 0 => Answer(Http, n) # <<>>
    BY <1>3, AnswerFacts
  <2>3. QED BY <1>2, <1>6, <2>1, <2>2 DEF DnsInv, CallShape
<1>8. InTurn' /\ BreakerTold'
  BY <1>2 DEF DnsInv, InTurn, BreakerTold, UnderWay
<1>9. CacheShape' /\ AnswerShape'
  BY <1>2 DEF DnsInv, CacheShape, AnswerShape
<1>10. QED BY <1>5, <1>7, <1>8, <1>9 DEF DnsInv

\* The caller and the breaker of its query.
LEMMA CallerKeeps ==
  ASSUME DnsInv, ClearRet \/ CloseRet \/ (\E ok \in BOOLEAN : RecreateRet(ok))
  PROVE  DnsInv'
<1>1. retb \in Breaker /\ Marked(retb)
  BY DEF DnsInv, DnsTypeOK, CallShape
<1>2. CASE ClearRet
  <2>1. dpc = "clear" /\ retb' = Clear(retb) /\ dpc' = (IF Readable(retb) THEN "start" ELSE "close")
        /\ crossed' = (crossed \/ UnderWay # {})
        /\ UNCHANGED <<call, cacheIps, query, found, left, selRet, ips>>
    BY <1>2 DEF ClearRet, ClearSucceeds, Readable
  <2>2. retb' \in Breaker /\ Marked(retb') /\ ~Readable(retb') /\ (retb'.broken => retb.broken)
        /\ (Honest(retb) => Honest(retb'))
    BY <1>1, <2>1, ClearFacts
  <2>3. DnsTypeOK' /\ CallShape'
    BY <2>1, <2>2 DEF DnsInv, DnsTypeOK, CallShape
  <2>4. ~crossed' => ~crossed /\ UnderWay = {} /\ UnderWay' = {}
    BY <2>1 DEF UnderWay
  <2>5. InTurn'
    BY <2>1, <2>4 DEF InTurn
  <2>6. BreakerTold'
    BY <2>1, <2>2, <2>4 DEF DnsInv, BreakerTold, Honest
  <2>7. CacheShape' /\ AnswerShape'
    BY <2>1, <2>4 DEF DnsInv, CacheShape, AnswerShape
  <2>8. QED BY <2>3, <2>5, <2>6, <2>7 DEF DnsInv
<1>3. CASE CloseRet
  <2>1. dpc = "close" /\ retb' = Close(retb) /\ dpc' = "recreate"
        /\ UNCHANGED <<call, cacheIps, query, found, left, selRet, ips, crossed>>
    BY <1>3 DEF CloseRet
  <2>2. retb' \in Breaker /\ Marked(retb') /\ retb'.broken = retb.broken
    BY <1>1, <2>1, CloseFacts
  <2>3. DnsTypeOK' /\ CallShape'
    BY <2>1, <2>2 DEF DnsInv, DnsTypeOK, CallShape
  <2>4. InTurn' /\ BreakerTold'
    BY <2>1, <2>2 DEF DnsInv, InTurn, BreakerTold, UnderWay
  <2>5. CacheShape' /\ AnswerShape'
    BY <2>1 DEF DnsInv, CacheShape, AnswerShape
  <2>6. QED BY <2>3, <2>4, <2>5 DEF DnsInv
<1>4. ASSUME NEW ok \in BOOLEAN, RecreateRet(ok) PROVE DnsInv'
  <2>1. dpc = "recreate" /\ retb' = ReCreate(retb, ok) /\ dpc' = "start"
        /\ UNCHANGED <<call, cacheIps, query, found, left, selRet, ips, crossed>>
    BY <1>4 DEF RecreateRet
  <2>2. retb' \in Breaker /\ Marked(retb') /\ retb'.broken = retb.broken /\ ~Readable(retb')
    BY <1>1, <2>1, ReCreateFacts
  <2>3. DnsTypeOK' /\ CallShape'
    BY <2>1, <2>2 DEF DnsInv, DnsTypeOK, CallShape
  <2>4. InTurn' /\ BreakerTold'
    BY <2>1, <2>2 DEF DnsInv, InTurn, BreakerTold, UnderWay
  <2>5. CacheShape' /\ AnswerShape'
    BY <2>1 DEF DnsInv, CacheShape, AnswerShape
  <2>6. QED BY <2>3, <2>4, <2>5 DEF DnsInv
<1>5. QED BY <1>2, <1>3, <1>4

\* The query begins, and the caller waits for it.
LEMMA WaitKeeps ==
  ASSUME DnsInv,
         \/ StartQuery \/ CopyIps
         \/ \E w \in {"signal", "timeout", "break", "error"} : SelectRet(w)
  PROVE  DnsInv'
<1>1. MaxCalls \in Nat \ {0} /\ MaxIps \in Nat \ {0}
  BY DnsAssumption
<1>2. dpc # "idle" => call \in Calls
  BY <1>1 DEF DnsInv, DnsTypeOK, CallShape, Calls
<1>3. CASE StartQuery
  <2>1. dpc = "start" /\ dpc' = "select" /\ query' = [query EXCEPT ![call] = "lookup"]
        /\ UNCHANGED <<call, retb, cacheIps, found, left, selRet, ips, crossed>>
    BY <1>3 DEF StartQuery
  <2>2. query \in [Calls -> {"none", "lookup", "fill", "ended"}] /\ call \in Calls
    BY <1>2, <2>1 DEF DnsInv, DnsTypeOK
  <2>3. query'[call] = "lookup" /\ \A c \in Calls : c # call => query'[c] = query[c]
    BY <2>1, <2>2
  <2>4. DnsTypeOK'
    BY <2>1, <2>2 DEF DnsInv, DnsTypeOK
  <2>5. query[call] = "none" /\ \A c \in Calls : query[c] # "none" => c <= call
    BY <2>1 DEF DnsInv, CallShape
  <2>6. CallShape'
    <3>1. \A c \in Calls : c \in Int
      BY DEF Calls
    <3>2. \A c \in Calls :
            /\ query'[c] # "none" => c <= call
            /\ query'[c] \in {"none", "lookup"} => found[c] = 0 /\ left[c] = 0
            /\ query'[c] = "ended" => left[c] = 0
            /\ left[c] <= found[c]
      BY <2>1, <2>2, <2>3, <2>5, <3>1 DEF DnsInv, CallShape
    <3>3. QED BY <2>1, <2>3, <3>2 DEF DnsInv, CallShape
  <2>7. InTurn'
    <3> SUFFICES ASSUME ~crossed
                 PROVE  /\ \A c, d \in Calls : c \in UnderWay' /\ d > c => query'[d] = "none"
                        /\ UnderWay' \subseteq {call}
      BY <2>1 DEF InTurn
    <3>1. UnderWay = {}
      BY <2>1 DEF DnsInv, InTurn
    <3>2. UnderWay' \subseteq {call}
      BY <2>3, <3>1 DEF UnderWay
    <3>3. ASSUME NEW d \in Calls, d > call PROVE query'[d] = "none"
      <4>1. d \in Int /\ call \in Int
        BY <2>2 DEF Calls
      <4>2. d # call /\ ~(d <= call)
        BY <3>3, <4>1
      <4>3. QED BY <2>3, <2>5, <4>2
    <3>4. QED BY <3>2, <3>3
  <2>8. BreakerTold'
    BY <2>1, <2>3 DEF DnsInv, BreakerTold
  <2>9. CacheShape' /\ AnswerShape'
    BY <2>1 DEF DnsInv, CacheShape, AnswerShape
  <2>10. QED BY <2>4, <2>6, <2>7, <2>8, <2>9 DEF DnsInv
<1>4. ASSUME NEW w \in {"signal", "timeout", "break", "error"}, SelectRet(w) PROVE DnsInv'
  <2>1. dpc = "select" /\ dpc' = (IF w = "break" THEN "stopped" ELSE "copy") /\ selRet' = w
        /\ (w = "signal" => Readable(retb))
        /\ UNCHANGED <<call, retb, cacheIps, query, found, left, ips, crossed>>
    BY <1>4 DEF SelectRet
  <2>2. DnsTypeOK' /\ CallShape'
    BY <2>1 DEF DnsInv, DnsTypeOK, CallShape
  <2>3. InTurn' /\ BreakerTold'
    BY <2>1 DEF DnsInv, InTurn, BreakerTold, UnderWay
  <2>4. CacheShape' /\ AnswerShape'
    BY <2>1 DEF DnsInv, CacheShape, AnswerShape
  <2>5. QED BY <2>2, <2>3, <2>4 DEF DnsInv
<1>5. CASE CopyIps
  <2>1. dpc = "copy" /\ dpc' = "answered"
        /\ ips' = (IF cacheIps = <<>> THEN <<BackupIp>> ELSE cacheIps)
        /\ UNCHANGED <<call, retb, cacheIps, query, found, left, selRet, crossed>>
    BY <1>5 DEF CopyIps
  <2>2. ips' \in Seq(Returned)
    <3>1. cacheIps \in Seq(Found) /\ Found \subseteq Returned
      BY DEF DnsInv, DnsTypeOK, Found, Returned
    <3>2. cacheIps \in Seq(Returned)
      BY <3>1, SeqMonotonic
    <3>3. BackupIp \in Returned
      BY DEF Returned
    <3>4. <<BackupIp>> \in Seq(Returned)
      BY <3>3
    <3>5. QED BY <2>1, <3>2, <3>4
  <2>3. ips' # <<>>
    BY <2>1
  <2>4. DnsTypeOK' /\ CallShape'
    BY <2>1, <2>2, <2>3 DEF DnsInv, DnsTypeOK, CallShape, Returned
  <2>5. InTurn' /\ BreakerTold'
    BY <2>1 DEF DnsInv, InTurn, BreakerTold, UnderWay
  <2>6. CacheShape'
    BY <2>1 DEF DnsInv, CacheShape
  <2>7. AnswerShape'
    <3> SUFFICES ASSUME selRet = "signal", ~crossed PROVE UnderWay' = {}
      BY <2>1 DEF AnswerShape
    <3>1. query[call] = "ended" /\ UnderWay \subseteq {call}
      BY <2>1 DEF DnsInv, InTurn, BreakerTold
    <3>2. QED BY <2>1, <3>1 DEF UnderWay
  <2>8. QED BY <2>4, <2>5, <2>6, <2>7 DEF DnsInv
<1>6. QED BY <1>3, <1>4, <1>5

\* The thread of a query.
LEMMA QueryKeeps ==
  ASSUME DnsInv, NEW c \in Calls,
         (\E n \in 0..MaxIps : Lookup(c, n)) \/ StoreIp(c) \/ BreakRet(c)
  PROVE  DnsInv'
<1>1. MaxCalls \in Nat \ {0} /\ MaxIps \in Nat \ {0} /\ \A d \in Calls : d \in Int
  BY DnsAssumption DEF Calls
<1>2. /\ query \in [Calls -> {"none", "lookup", "fill", "ended"}]
      /\ found \in [Calls -> 0..MaxIps] /\ left \in [Calls -> 0..MaxIps]
      /\ cacheIps \in Seq(Found) /\ retb \in Breaker /\ Marked(retb)
  BY DEF DnsInv, DnsTypeOK, CallShape, Found
<1>3. \A d \in Calls : /\ query[d] # "none" => d <= call
                       /\ query[d] \in {"none", "lookup"} => found[d] = 0 /\ left[d] = 0
                       /\ query[d] = "ended" => left[d] = 0
                       /\ left[d] <= found[d]
  BY DEF DnsInv, CallShape
<1>4. c \in UnderWay
  BY DEF Lookup, StoreIp, BreakRet, UnderWay
<1>5. ~crossed => \A d \in Calls : d > c => query[d] = "none" /\ found[d] = 0
  BY <1>3, <1>4 DEF DnsInv, InTurn
<1>6. ASSUME NEW n \in 0..MaxIps, Lookup(c, n) PROVE DnsInv'
  <2>1. query[c] = "lookup" /\ query' = [query EXCEPT ![c] = "fill"]
        /\ found' = [found EXCEPT ![c] = n] /\ left' = [left EXCEPT ![c] = n]
        /\ cacheIps' = (IF n = 0 THEN cacheIps ELSE <<>>)
        /\ UNCHANGED <<dpc, call, retb, selRet, ips, crossed>>
    BY <1>6 DEF Lookup
  <2>2. /\ query'[c] = "fill" /\ found'[c] = n /\ left'[c] = n
        /\ \A d \in Calls : d # c => query'[d] = query[d] /\ found'[d] = found[d] /\ left'[d] = left[d]
    BY <1>2, <2>1
  <2>3. DnsTypeOK'
    <3>1. cacheIps' \in Seq(Found)
      BY <1>2, <2>1, EmptySeq
    <3>2. QED BY <1>2, <2>1, <3>1 DEF DnsInv, DnsTypeOK, Found
  <2>4. UnderWay' = UnderWay
    BY <2>1, <2>2 DEF UnderWay
  <2>5. CallShape'
    <3>1. \A d \in Calls : /\ query'[d] # "none" => d <= call
                           /\ query'[d] \in {"none", "lookup"} => found'[d] = 0 /\ left'[d] = 0
                           /\ query'[d] = "ended" => left'[d] = 0
                           /\ left'[d] <= found'[d]
      BY <1>1, <1>3, <2>1, <2>2
    <3>2. \A d \in Calls : (query'[d] = "none") = (query[d] = "none")
      BY <2>1, <2>2
    <3>3. dpc # "idle" => call \in Calls
      BY <1>1 DEF DnsInv, DnsTypeOK, CallShape, Calls
    <3>4. QED BY <2>1, <3>1, <3>2, <3>3 DEF DnsInv, CallShape
  <2>6. InTurn'
    <3>1. \A d \in Calls : query'[d] = "none" <=> query[d] = "none"
      BY <2>1, <2>2
    <3>2. QED BY <2>1, <2>4, <3>1 DEF DnsInv, InTurn
  <2>7. BreakerTold'
    <3>1. \A d \in Calls : query'[d] = "ended" <=> query[d] = "ended"
      BY <2>1, <2>2
    <3>2. dpc # "idle" => call \in Calls
      BY <1>1 DEF DnsInv, DnsTypeOK, CallShape, Calls
    <3>3. QED BY <2>1, <3>1, <3>2 DEF DnsInv, BreakerTold
  <2>8. CacheShape'
    <3>1. CASE n = 0
      <4>1. found[c] = 0 /\ left[c] = 0
        BY <1>3, <2>1
      <4>2. \A d \in Calls : found'[d] = found[d] /\ left'[d] = left[d]
        BY <2>2, <3>1, <4>1
      <4>3. QED BY <2>1, <3>1, <4>2 DEF DnsInv, CacheShape
    <3>2. CASE n # 0
      <4> SUFFICES ASSUME ~crossed, NEW d \in Calls, found'[d] > 0,
                          \A e \in Calls : e > d => found'[e] = 0
                   PROVE  cacheIps' = Answer(d, found'[d] - left'[d])
        BY <2>1, <2>2, <3>2 DEF CacheShape
      <4>1. d = c
        <5>1. ~(c > d)
          BY <2>2, <3>2
        <5>2. ~(d > c)
          BY <1>1, <1>5, <2>2
        <5>3. QED BY <1>1, <5>1, <5>2
      <4>2. found'[d] - left'[d] = 0
        BY <2>2, <4>1, <1>1
      <4>3. Answer(d, 0) = <<>>
        BY AnswerFacts
      <4>4. QED BY <2>1, <3>2, <4>2, <4>3
    <3>3. QED BY <3>1, <3>2
  <2>9. AnswerShape'
    BY <1>4, <2>1, <2>4 DEF DnsInv, AnswerShape
  <2>10. QED BY <2>3, <2>5, <2>6, <2>7, <2>8, <2>9 DEF DnsInv
<1>7. CASE StoreIp(c)
  <2>1. query[c] = "fill" /\ left[c] > 0 /\ left' = [left EXCEPT ![c] = left[c] - 1]
        /\ cacheIps' = Append(cacheIps, <<c, found[c] - left[c] + 1>>)
        /\ UNCHANGED <<dpc, call, retb, query, found, selRet, ips, crossed>>
    BY <1>7 DEF StoreIp
  <2> DEFINE k == found[c] - left[c]
  <2>2. k \in Nat /\ k + 1 \in 1..MaxIps /\ left[c] - 1 \in 0..MaxIps
        /\ found[c] > 0 /\ found[c] \in Nat /\ left[c] \in Nat
    BY <1>1, <1>2, <1>3, <2>1
  <2>3. left'[c] = left[c] - 1 /\ \A d \in Calls : d # c => left'[d] = left[d]
    BY <1>2, <2>1
  <2>4. DnsTypeOK'
    <3>1. <<c, k + 1>> \in Found
      BY <2>2 DEF Found
    <3>2. cacheIps' \in Seq(Found)
      BY <1>2, <2>1, <3>1, AppendProperties
    <3>3. left' \in [Calls -> 0..MaxIps]
      BY <1>2, <2>1, <2>2
    <3>4. QED BY <2>1, <3>2, <3>3 DEF DnsInv, DnsTypeOK, Found
  <2>5. CallShape'
    <3>1. \A d \in Calls : /\ query[d] \in {"none", "lookup"} => left'[d] = 0
                           /\ query[d] = "ended" => left'[d] = 0
                           /\ left'[d] <= found[d]
      BY <1>3, <2>1, <2>2, <2>3
    <3>2. QED BY <2>1, <3>1 DEF DnsInv, CallShape
  <2>6. InTurn' /\ BreakerTold' /\ UnderWay' = UnderWay
    BY <2>1 DEF DnsInv, InTurn, BreakerTold, UnderWay
  <2>7. CacheShape'
    <3>0. found' = found /\ crossed' = crossed /\ found[c] # 0
      BY <2>1, <2>2
    <3> SUFFICES ASSUME ~crossed, NEW d \in Calls, found[d] > 0,
                        \A e \in Calls : e > d => found[e] = 0
                 PROVE  cacheIps' = Answer(d, found[d] - left'[d])
      BY <3>0 DEF CacheShape
    <3>1. d = c
      <4>1. ~(c > d)
        BY <2>2
      <4>2. ~(d > c)
        BY <1>1, <1>5
      <4>3. QED BY <1>1, <4>1, <4>2
    <3>2. cacheIps = Answer(c, k)
      BY <2>2, <3>1 DEF DnsInv, CacheShape
    <3>3. found[d] - left'[d] = k + 1
      BY <2>2, <2>3, <3>1
    <3> HIDE DEF k
    <3>4. cacheIps' = Append(Answer(c, k), <<c, k + 1>>)
      BY <2>1, <3>2 DEF k
    <3>5. QED BY <2>2, <3>1, <3>3, <3>4, AnswerFacts
  <2>8. AnswerShape'
    BY <1>4, <2>1, <2>6 DEF DnsInv, AnswerShape
  <2>9. QED BY <2>4, <2>5, <2>6, <2>7, <2>8 DEF DnsInv
<1>8. CASE BreakRet(c)
  <2>1. query[c] = "fill" /\ left[c] = 0 /\ retb' = Break(retb)
        /\ query' = [query EXCEPT ![c] = "ended"]
        /\ UNCHANGED <<dpc, call, cacheIps, found, left, selRet, ips, crossed>>
    BY <1>8 DEF BreakRet
  <2>2. query'[c] = "ended" /\ \A d \in Calls : d # c => query'[d] = query[d]
    BY <1>2, <2>1
  <2>3. /\ retb' \in Breaker /\ Marked(retb') /\ retb'.open = retb.open
        /\ Honest(retb) => Honest(retb') /\ (retb.open => Readable(retb'))
    BY <1>2, <2>1, BreakFacts
  <2>4. DnsTypeOK'
    BY <1>2, <2>1, <2>3 DEF DnsInv, DnsTypeOK
  <2>5. UnderWay' \subseteq UnderWay
    BY <2>2 DEF UnderWay
  <2>6. dpc # "idle" => call \in Calls
    BY <1>1 DEF DnsInv, DnsTypeOK, CallShape, Calls
  <2>7. \A d \in Calls : query'[d] = "none" <=> query[d] = "none"
    BY <2>1, <2>2
  <2>8. CallShape'
    <3>1. \A d \in Calls : /\ query'[d] # "none" => d <= call
                           /\ query'[d] \in {"none", "lookup"} => found[d] = 0 /\ left[d] = 0
                           /\ query'[d] = "ended" => left[d] = 0
                           /\ left[d] <= found[d]
      BY <1>3, <2>1, <2>2
    <3>2. QED BY <2>1, <2>3, <2>6, <2>7, <3>1 DEF DnsInv, CallShape
  <2>9. InTurn'
    BY <2>1, <2>5, <2>7 DEF DnsInv, InTurn
  <2>10. BreakerTold'
    <3> SUFFICES ASSUME ~crossed
                 PROVE  /\ retb'.broken => Readable(retb')
                        /\ dpc \in {"close", "recreate"} => ~retb'.broken
                        /\ dpc = "start" => ~Readable(retb')
                        /\ dpc = "select" => IF query'[call] = "ended" THEN retb'.open => Readable(retb')
                                             ELSE ~Readable(retb')
                        /\ dpc = "copy" /\ selRet = "signal" => query'[call] = "ended"
      BY <2>1 DEF BreakerTold
    <3>1. Honest(retb') /\ (retb.open => Readable(retb'))
      BY <2>3 DEF DnsInv, BreakerTold, Honest
    <3>2. dpc \notin {"close", "recreate", "start"}
      BY <1>4 DEF DnsInv, InTurn
    <3>3. dpc = "select" => c = call
      BY <1>4 DEF DnsInv, InTurn
    <3>4. dpc = "copy" /\ selRet = "signal" => query'[call] = "ended"
      BY <2>2, <2>6 DEF DnsInv, BreakerTold
    <3>5. QED BY <2>2, <2>3, <3>1, <3>2, <3>3, <3>4 DEF Honest
  <2>11. CacheShape'
    BY <2>1 DEF DnsInv, CacheShape
  <2>12. AnswerShape'
    BY <1>4, <2>1 DEF DnsInv, AnswerShape
  <2>13. QED BY <2>4, <2>8, <2>9, <2>10, <2>11, <2>12 DEF DnsInv
<1>9. QED BY <1>6, <1>7, <1>8

LEMMA DnsStep ==
  ASSUME DnsInv, DnsNext
  PROVE  DnsInv'
BY GetHostByNameKeeps, CallerKeeps, WaitKeeps, QueryKeeps DEF DnsNext, CallerSteps, SelectEnds

\* What _cacheIps holds when no query is running is the latest answer.
LEMMA LatestAnswer == DnsInv => SignalledAnswer
<1> SUFFICES ASSUME DnsInv, dpc = "answered", selRet = "signal", ~crossed
             PROVE  LET known == {c \in 1..call : found[c] > 0} IN
                    ips = IF known = {} THEN <<BackupIp>>
                          ELSE LET c == Max(known) IN Answer(c, found[c])
  BY DEF SignalledAnswer
<1> DEFINE known == {c \in 1..call : found[c] > 0}
<1>1. MaxCalls \in Nat \ {0} /\ call \in 0..MaxCalls
  BY DnsAssumption DEF DnsInv, DnsTypeOK
<1>2. 1..call \subseteq Calls /\ \A c \in Calls : c \in Int /\ found[c] \in Nat /\ left[c] \in Nat
  BY <1>1 DEF DnsInv, DnsTypeOK, Calls
<1>3. \A c \in Calls : /\ query[c] # "none" => c <= call
                       /\ query[c] = "none" => found[c] = 0
                       /\ query[c] \in {"none", "ended"} => left[c] = 0
  BY DEF DnsInv, CallShape
<1>4. UnderWay = {} /\ ips = IF cacheIps = <<>> THEN <<BackupIp>> ELSE cacheIps
  BY DEF DnsInv, AnswerShape
<1>5. \A c \in Calls : left[c] = 0
  BY <1>3, <1>4 DEF UnderWay
<1>6. \A c \in Calls : c \notin known => found[c] = 0
  <2> SUFFICES ASSUME NEW c \in Calls, found[c] # 0 PROVE c \in known
    OBVIOUS
  <2>1. c <= call /\ c \in 1..call
    BY <1>1, <1>2, <1>3 DEF Calls
  <2>2. QED BY <1>2, <2>1
<1>7. CASE known = {}
  <2>1. \A c \in Calls : found[c] = 0
    BY <1>6, <1>7
  <2>2. cacheIps = <<>>
    BY <2>1 DEF DnsInv, CacheShape
  <2>3. QED BY <1>4, <1>7, <2>2
<1>8. CASE known # {}
  <2> DEFINE m == Max(known)
  <2>1. known \in SUBSET Int /\ \A x \in known : x <= call
    BY <1>1
  <2>2. m \in known /\ \A y \in known : m >= y
    <3> HIDE DEF known
    <3>1. call \in Int
      BY <1>1
    <3>2. QED BY <1>8, <2>1, <3>1, MaxOf
  <2> HIDE DEF m
  <2>3. m \in Calls /\ found[m] > 0 /\ found[m] \in Nat /\ left[m] = 0
    BY <1>2, <1>5, <2>2
  <2>4. \A d \in Calls : d > m => found[d] = 0
    <3> SUFFICES ASSUME NEW d \in Calls, d > m PROVE d \notin known
      BY <1>6
    <3>1. d \in Int /\ m \in Int
      BY <1>2, <2>3
    <3>2. QED BY <2>2, <3>1
  <2>5. cacheIps = Answer(m, found[m] - left[m])
    BY <2>3, <2>4 DEF DnsInv, CacheShape
  <2>6. found[m] - left[m] = found[m]
    BY <2>3
  <2>7. Answer(m, found[m]) # <<>>
    <3> HIDE DEF known
    <3>1. found[m] \in Nat /\ found[m] # 0
      BY <2>3
    <3>2. QED BY <3>1, AnswerFacts
  <2>8. ips = Answer(m, found[m])
    BY <1>4, <2>5, <2>6, <2>7
  <2>9. QED BY <1>8, <2>8 DEF m
<1>9. QED BY <1>7, <1>8

-----------------------------------------------------------------------------
(***************************************************************************)
(* From a host to a socket.                                                *)
(***************************************************************************)
EstablishInv == RaceInv /\ DnsInv /\ EstablishTypeOK /\ AddressShape

LEMMA InitEstablishInv == EstablishInit => EstablishInv
<1> SUFFICES ASSUME EstablishInit PROVE EstablishInv
  OBVIOUS
<1>1. RaceInv /\ DnsInv
  BY InitRaceInv, InitDnsInv DEF EstablishInit
<1>2. ~Racing /\ ipNum \in 0..N
  BY ConnectAssumption DEF EstablishInit, Racing
<1>3. QED BY <1>1, <1>2 DEF EstablishInv, EstablishTypeOK, AddressShape, RaceInv, DnsInv

\* The race begins with addresses, and each has its connector.
LEMMA StartRaceKeeps ==
  ASSUME EstablishInv, StartRace
  PROVE  EstablishInv'
<1>1. N \in Nat \ {0} /\ MaxCalls \in Nat \ {0} /\ MaxIps \in Nat \ {0}
  BY ConnectAssumption, DnsAssumption
<1> DEFINE n == Len(ips)
<1>2. n \in Nat \ {0}
  <2>1. ips # <<>> /\ ips \in Seq(Returned)
    BY DEF StartRace, EstablishInv, DnsInv, CallShape, DnsTypeOK, Returned
  <2>2. QED BY <2>1, EmptySeq, LenProperties
<1>3. addrs' = [i \in Index |-> ((i - 1) % n) + 1] /\ ipNum' = Min({n, N}) /\ UNCHANGED vars
  BY DEF StartRace, Addresses
<1> HIDE DEF n
<1>4. ipNum' = IF n <= N THEN n ELSE N
  BY <1>1, <1>2, <1>3, MinOfTwo
<1>5. \A i \in Index : /\ addrs'[i] = ((i - 1) % n) + 1
                       /\ addrs'[i] \in 1..ipNum'
                       /\ i <= ipNum' => addrs'[i] = i
  <2> TAKE i \in Index
  <2>1. i - 1 \in Nat /\ i <= N /\ i \in Nat
    BY <1>1 DEF Index
  <2>2. addrs'[i] = ((i - 1) % n) + 1
    BY <1>3
  <2>3. (i - 1) % n \in 0..(n - 1) /\ (i - 1) % n <= i - 1 /\ (i - 1 < n => (i - 1) % n = i - 1)
    BY <1>2, <2>1, Remainder
  <2> DEFINE r == (i - 1) % n
  <2> HIDE DEF r
  <2>4. r \in 0..(n - 1) /\ r <= i - 1 /\ (i - 1 < n => r = i - 1) /\ addrs'[i] = r + 1
    BY <2>2, <2>3 DEF r
  <2>5. addrs'[i] \in 1..ipNum' /\ (i <= ipNum' => addrs'[i] = i)
    BY <1>1, <1>2, <1>4, <2>1, <2>4
  <2>6. QED BY <2>2, <2>5
<1>6. ipNum' \in 1..N
  BY <1>1, <1>2, <1>4
<1>7. RaceInv'
  BY <1>3, RaceStep DEF EstablishInv
<1>8. DnsInv'
  <2>1. dpc' = "idle" /\ call' = MaxCalls /\ selRet' = "none" /\ ips' = <<>>
        /\ retb' = NewBreaker(TRUE) /\ cacheIps' = <<>> /\ crossed' = FALSE
        /\ query' = [c \in Calls |-> "none"]
        /\ found' = [c \in Calls |-> 0] /\ left' = [c \in Calls |-> 0]
    BY DEF StartRace
  <2>2. retb' \in Breaker /\ Marked(retb') /\ ~retb'.broken
    BY <2>1, NewBreakerFacts
  <2>3. DnsTypeOK'
    <3>1. call' \in 0..MaxCalls /\ found' \in [Calls -> 0..MaxIps] /\ left' \in [Calls -> 0..MaxIps]
      BY <1>1, <2>1
    <3>2. cacheIps' \in Seq(Calls \X (1..MaxIps))
          /\ ips' \in Seq(((Calls \cup {Http}) \X (1..MaxIps)) \cup {BackupIp})
      BY <2>1, EmptySeq
    <3>3. QED BY <2>1, <2>2, <3>1, <3>2 DEF DnsTypeOK
  <2>4. CallShape'
    <3>1. \A c \in Calls : query'[c] = "none" /\ found'[c] = 0 /\ left'[c] = 0
      BY <2>1
    <3>2. \A c \in Calls :
             /\ query'[c] # "none" => c <= call'
             /\ query'[c] \in {"none", "lookup"} => found'[c] = 0 /\ left'[c] = 0
             /\ query'[c] = "ended" => left'[c] = 0
             /\ left'[c] <= found'[c]
      BY <3>1
    <3>3. dpc' = "idle" /\ Marked(retb')
      BY <2>1, <2>2
    <3>4. QED BY <3>2, <3>3 DEF CallShape
  <2>5. InTurn' /\ BreakerTold'
    BY <2>1, <2>2 DEF InTurn, BreakerTold, UnderWay
  <2>6. CacheShape' /\ AnswerShape'
    BY <2>1 DEF CacheShape, AnswerShape
  <2>7. QED BY <2>3, <2>4, <2>5, <2>6 DEF DnsInv
<1>9. addrs' \in [Index -> 1..ipNum']
  <2>1. addrs' = [i \in Index |-> addrs'[i]]
    BY <1>3
  <2>2. QED BY <1>5, <2>1
<1>10. EstablishTypeOK'
  BY <1>6, <1>7, <1>8, <1>9 DEF EstablishTypeOK, RaceInv, DnsInv
<1>11. AddressShape'
  <2>1. \A p \in 1..ipNum' : p \in Index /\ p <= ipNum'
    BY <1>1, <1>6 DEF Index
  <2>2. QED BY <1>5, <2>1 DEF AddressShape
<1>12. QED BY <1>7, <1>8, <1>10, <1>11 DEF EstablishInv

LEMMA EstablishStep ==
  ASSUME EstablishInv, [EstablishNext]_establishVars
  PROVE  EstablishInv'
<1>1. CASE Resolve
  <2>1. DnsNext /\ UNCHANGED <<vars, addrs, ipNum>>
    BY <1>1 DEF Resolve
  <2>2. RaceInv' /\ DnsInv'
    BY <2>1, RaceStep, DnsStep DEF EstablishInv
  <2>3. QED BY <2>1, <2>2 DEF EstablishInv, EstablishTypeOK, AddressShape, Racing, RaceInv, DnsInv
<1>2. CASE StartRace
  BY <1>2, StartRaceKeeps
<1>3. CASE Race \/ UNCHANGED establishVars
  <2>1. [Next]_vars /\ UNCHANGED <<dnsVars, addrs, ipNum>>
    BY <1>3 DEF Race, establishVars
  <2>2. RaceInv'
    BY <2>1, RaceStep DEF EstablishInv
  <2>3. DnsInv'
    <3>1. DnsTypeOK' /\ CallShape'
      BY <2>1 DEF EstablishInv, DnsInv, dnsVars, DnsTypeOK, CallShape
    <3>2. InTurn' /\ BreakerTold'
      BY <2>1 DEF EstablishInv, DnsInv, dnsVars, InTurn, BreakerTold, UnderWay
    <3>3. CacheShape' /\ AnswerShape'
      BY <2>1 DEF EstablishInv, DnsInv, dnsVars, CacheShape, AnswerShape, UnderWay
    <3>4. QED BY <3>1, <3>2, <3>3 DEF DnsInv
  <2>4. QED BY <2>1, <2>2, <2>3 DEF EstablishInv, EstablishTypeOK, AddressShape, Racing, RaceInv, DnsInv
<1>4. QED BY <1>1, <1>2, <1>3 DEF EstablishNext

\* The resolver and the race keep the invariant that the theorems below are
\* read off.
THEOREM EstablishInvariant == EstablishSpec => []EstablishInv
<1>1. EstablishInit => EstablishInv
  BY InitEstablishInv
<1>2. EstablishInv /\ [EstablishNext]_establishVars => EstablishInv'
  BY EstablishStep
<1>3. QED BY <1>1, <1>2, PTL DEF EstablishSpec

\* ips[ipIndex] is within the answer for every connector, whatever the number
\* of addresses (tcp_client.cpp:375).
THEOREM EstablishTypeOKAlways == EstablishSpec => []EstablishTypeOK
<1>1. EstablishInv => EstablishTypeOK
  BY DEF EstablishInv
<1>2. QED BY <1>1, EstablishInvariant, PTL

\* A caller whose query has ended is woken, as long as queries end in turn
\* (dns_query.cpp:49).
THEOREM NoLostAnswerAlways == EstablishSpec => []NoLostAnswer
<1>1. EstablishInv => NoLostAnswer
  BY DEF EstablishInv, DnsInv, BreakerTold, NoLostAnswer
<1>2. QED BY <1>1, EstablishInvariant, PTL

\* A call that was woken returns the whole of the latest answer
\* (dns_query.cpp:64-67, 98).
THEOREM SignalledAnswerAlways == EstablishSpec => []SignalledAnswer
<1>1. EstablishInv => SignalledAnswer
  BY LatestAnswer DEF EstablishInv
<1>2. QED BY <1>1, EstablishInvariant, PTL

\* Every socket but the winner's is closed when the race is over
\* (complex_connect.cpp:129-134, 149-156).
THEOREM OnlyTheWinnerStaysAlways == EstablishSpec => []OnlyTheWinnerStays
<1>1. EstablishInv => OnlyTheWinnerStays
  BY DEF EstablishInv, RaceInv, EndShape, SocketShape, OnlyTheWinnerStays
<1>2. QED BY <1>1, EstablishInvariant, PTL

\* At most kMaxConnectNum attempts are under way (complex_connect.cpp:66-69).
THEOREM NotTooManyAlways == EstablishSpec => []NotTooMany
<1>1. EstablishInv => NotTooMany
  BY DEF EstablishInv, RaceInv
<1>2. QED BY <1>1, EstablishInvariant, PTL

\* No attempt goes on after its time limit, for any limit, intervals and
\* rounding to seconds (complex_connect.cpp:84-95).
THEOREM AttemptsEndInTimeAlways == EstablishSpec => []AttemptsEndInTime
<1>1. EstablishInv => AttemptsEndInTime
  BY DEF EstablishInv, RaceInv, AgeShape, AttemptsEndInTime
<1>2. QED BY <1>1, EstablishInvariant, PTL

\* A race that was not stopped fails only when the attempt to every address
\* ended in an error of its own (complex_connect.cpp:116-147).
THEOREM FailsOnlyIfAllFailAlways == EstablishSpec => []FailsOnlyIfAllFail
<1>1. EstablishInv => FailsOnlyIfAllFail
  BY DEF EstablishInv, RaceInv, EndShape, FailsOnlyIfAllFail
<1>2. QED BY <1>1, EstablishInvariant, PTL

\* No address of the answer, up to the number of attempts, is left out
\* (tcp_client.cpp:369-380).
THEOREM EveryIpTriedAlways == EstablishSpec => []EveryIpTried
<1>1. EstablishInv => EveryIpTried
  <2> SUFFICES ASSUME EstablishInv, Racing, pc = "done", result = 0, ~stopped,
                      NEW p \in 1..ipNum
               PROVE  \E i \in 1..index : addrs[i] = p
    BY DEF EveryIpTried
  <2>1. index = N
    BY DEF EstablishInv, RaceInv, EndShape
  <2>2. p \in 1..N /\ addrs[p] = p
    BY ConnectAssumption DEF EstablishInv, EstablishTypeOK, AddressShape
  <2>3. QED BY <2>1, <2>2
<1>2. QED BY <1>1, EstablishInvariant, PTL

\* A socket whose connection had failed when select looked at it never wins,
\* with epoll and with kqueue (tcp_connector.cpp:95-127,
\* ssl_connector.cpp:81-104).
THEOREM FailedNeverWinsAlways == EstablishSpec => FailedNeverWins
<1>1. EstablishInv /\ [EstablishNext]_establishVars =>
         [\A i \in Index : (result # i /\ result' = i) => ~events[i].failed]_vars
  <2> SUFFICES ASSUME EstablishInv, [EstablishNext]_establishVars
               PROVE  [\A i \in Index : (result # i /\ result' = i) => ~events[i].failed]_vars
    OBVIOUS
  <2>1. [Next]_vars
    BY DEF EstablishNext, Resolve, StartRace, Race, establishVars
  <2>2. QED BY <2>1, WinnerWasReady DEF EstablishInv
<1>2. QED BY <1>1, EstablishInvariant, PTL DEF EstablishSpec, FailedNeverWins
=============================================================================
