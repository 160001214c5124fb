---------------------------- MODULE PacketProofs ----------------------------
(***************************************************************************)
(* Proofs about the codec: for every width of the counter and all bytes a  *)
(* peer may send, a message that is accepted was read to its end and no    *)
(* further; for all lengths a message may have, decodeLength inverts       *)
(* encodeLength; and what the client encodes is decoded again.             *)
(***************************************************************************)
EXTENDS Packet, TLAPS

(***************************************************************************)
(* The weights as numbers.                                                 *)
(***************************************************************************)
LEMMA Places ==
    /\ Place[1] = 1 /\ Place[2] = 128 /\ Place[3] = 16384
    /\ Place[4] = 2097152 /\ Place[5] = 268435456
BY SMT DEF Place

(***************************************************************************)
(* The elements of a sequence.                                             *)
(***************************************************************************)
LEMMA SeqElement ==
    ASSUME NEW S, NEW q \in Seq(S)
    PROVE  \A i \in 1..Len(q) : q[i] \in S
OBVIOUS

(***************************************************************************)
(* A digit of a length is below the weight of the next place.              *)
(***************************************************************************)
LEMMA DigitBound ==
    ASSUME NEW s, IsEncoding(s)
    PROVE  /\ Digit(s, 1) \in Nat /\ Digit(s, 1) <= 127
           /\ Digit(s, 2) \in Nat /\ Digit(s, 2) <= 16256
           /\ Digit(s, 3) \in Nat /\ Digit(s, 3) <= 2080768
           /\ Digit(s, 4) \in Nat /\ Digit(s, 4) <= 266338304
<1>1. s \in Seq(Byte) /\ Len(s) \in 1..4
  BY SMT DEF IsEncoding
<1>2. \A i \in 1..Len(s) : s[i] \in Byte
  BY <1>1, SeqElement, SMT
<1>3. \A b \in Byte : b % 128 \in 0..127
  BY SMT DEF Byte
<1>5. Digit(s, 1) \in Nat /\ Digit(s, 1) <= 127
  <2>1. CASE 1 <= Len(s)
    <3>1. s[1] % 128 \in 0..127
      <4>1. s[1] \in Byte
        BY <1>1, <1>2, <2>1, SMT
      <4> QED
        BY ONLY <4>1, <1>3
    <3>2. Digit(s, 1) = (s[1] % 128) * 1
      BY <2>1, Places, SMT DEF Digit
    <3>3. \A x \in 0..127 : x * 1 \in Nat /\ x * 1 <= 127
      BY SMT
    <3> QED
      BY ONLY <3>1, <3>2, <3>3, SMT
  <2>2. CASE ~(1 <= Len(s))
    BY <2>2, SMT DEF Digit
  <2> QED
    BY <2>1, <2>2
<1>6. Digit(s, 2) \in Nat /\ Digit(s, 2) <= 16256
  <2>1. CASE 2 <= Len(s)
    <3>1. s[2] % 128 \in 0..127
      <4>1. s[2] \in Byte
        BY <1>1, <1>2, <2>1, SMT
      <4> QED
        BY ONLY <4>1, <1>3
    <3>2. Digit(s, 2) = (s[2] % 128) * 128
      BY <2>1, Places, SMT DEF Digit
    <3>3. \A x \in 0..127 : x * 128 \in Nat /\ x * 128 <= 16256
      BY SMT
    <3> QED
      BY ONLY <3>1, <3>2, <3>3, SMT
  <2>2. CASE ~(2 <= Len(s))
    BY <2>2, SMT DEF Digit
  <2> QED
    BY <2>1, <2>2
<1>7. Digit(s, 3) \in Nat /\ Digit(s, 3) <= 2080768
  <2>1. CASE 3 <= Len(s)
    <3>1. s[3] % 128 \in 0..127
      <4>1. s[3] \in Byte
        BY <1>1, <1>2, <2>1, SMT
      <4> QED
        BY ONLY <4>1, <1>3
    <3>2. Digit(s, 3) = (s[3] % 128) * 16384
      BY <2>1, Places, SMT DEF Digit
    <3>3. \A x \in 0..127 : x * 16384 \in Nat /\ x * 16384 <= 2080768
      BY SMT
    <3> QED
      BY ONLY <3>1, <3>2, <3>3, SMT
  <2>2. CASE ~(3 <= Len(s))
    BY <2>2, SMT DEF Digit
  <2> QED
    BY <2>1, <2>2
<1>8. Digit(s, 4) \in Nat /\ Digit(s, 4) <= 266338304
  <2>1. CASE 4 <= Len(s)
    <3>1. s[4] % 128 \in 0..127
      <4>1. s[4] \in Byte
        BY <1>1, <1>2, <2>1, SMT
      <4> QED
        BY ONLY <4>1, <1>3
    <3>2. Digit(s, 4) = (s[4] % 128) * 2097152
      BY <2>1, Places, SMT DEF Digit
    <3>3. \A x \in 0..127 : x * 2097152 \in Nat /\ x * 2097152 <= 266338304
      BY SMT
    <3> QED
      BY ONLY <3>1, <3>2, <3>3, SMT
  <2>2. CASE ~(4 <= Len(s))
    BY <2>2, SMT DEF Digit
  <2> QED
    BY <2>1, <2>2
<1> QED
  BY <1>5, <1>6, <1>7, <1>8, SMT

(***************************************************************************)
(* What decodeLength returns: -1 twice, or a length of at most four digits *)
(* and the number of bytes it took.                                        *)
(***************************************************************************)
LEMMA DecodedLength ==
    ASSUME NEW s, IsEncoding(s)
    PROVE  /\ Unending(s) => /\ decodeLength(s).value = -1
                             /\ decodeLength(s).size = -1
           /\ ~Unending(s) => /\ decodeLength(s).value \in Nat
                              /\ decodeLength(s).value <= MaxPayload
                              /\ decodeLength(s).size = Len(s)
           /\ Len(s) \in 1..4
           /\ Unending(s) \in BOOLEAN
<1>1. DigitSum(s) \in Nat /\ DigitSum(s) <= MaxPayload
  <2>1. /\ Digit(s, 1) \in Nat /\ Digit(s, 1) <= 127
        /\ Digit(s, 2) \in Nat /\ Digit(s, 2) <= 16256
        /\ Digit(s, 3) \in Nat /\ Digit(s, 3) <= 2080768
        /\ Digit(s, 4) \in Nat /\ Digit(s, 4) <= 266338304
    BY DigitBound, SMT
  <2>2. \A a, b, c, d \in Nat :
           a <= 127 /\ b <= 16256 /\ c <= 2080768 /\ d <= 266338304
             => a + b + c + d \in Nat /\ a + b + c + d <= 268435455
    BY SMT
  <2> QED
    BY <2>1, <2>2, SMT DEF DigitSum, MaxPayload
<1>2. Len(s) \in 1..4
  BY SMT DEF IsEncoding
<1>3. Unending(s) \in BOOLEAN
  BY SMT DEF Unending, IsEncoding
<1> QED
  BY <1>1, <1>2, <1>3, SMT DEF decodeLength

(***************************************************************************)
(* The counter is wider than what the fields of a message can take.        *)
(***************************************************************************)
LEMMA WordWide ==
    /\ Word \in Nat /\ Word > 1610612736
    /\ FieldMax = 268435459 /\ MaxPayload = 268435455
BY PacketAssumption, Places, SMT DEF FieldMax, MaxPayload

(***************************************************************************)
(* The part of the invariant about a frame f of which c bytes have been    *)
(* read, with the count at r and k fields left.                            *)
(***************************************************************************)
Counted(f, c, r, k) ==
    /\ f \in Nat /\ f < Word /\ c \in Nat /\ r \in Nat /\ r < Word
    /\ k \in 0..5 /\ c <= (5 - k) * FieldMax
    /\ r = f - c \/ r - Word = f - c

(***************************************************************************)
(* Reading one field: bytes are taken off the count, which may wrap once,  *)
(* and never twice.                                                        *)
(***************************************************************************)
LEMMA CountOneField ==
    ASSUME NEW f, NEW c, NEW r, NEW k, Counted(f, c, r, k), k # 0,
           NEW l \in 0..4, NEW v \in Nat, v <= MaxPayload,
           Minus(r, l) >= v
    PROVE  Counted(f, c + l + v, Minus(Minus(r, l), v), k - 1)
<1> f \in Nat /\ f < Word /\ c \in Nat /\ r \in Nat /\ r < Word
  BY DEF Counted
<1> k \in 1..5 /\ c <= (5 - k) * FieldMax
  BY DEF Counted
<1> r = f - c \/ r - Word = f - c
  BY DEF Counted
<1>1. /\ Minus(r, l) \in Nat /\ Minus(r, l) < Word
      /\ Minus(r, l) = f - (c + l) \/ Minus(r, l) - Word = f - (c + l)
  <2>1. c <= 1342177295
    BY WordWide, SMT
  <2>2. CASE l > r
    BY <2>1, <2>2, WordWide, SMT DEF Minus
  <2>3. CASE l <= r
    BY <2>1, <2>3, WordWide, SMT DEF Minus
  <2> QED
    BY <2>2, <2>3, SMT
<1>2. Minus(Minus(r, l), v) = Minus(r, l) - v
  BY <1>1, WordWide, SMT DEF Minus
<1>3. c + l + v <= (5 - (k - 1)) * FieldMax
  BY WordWide, SMT
<1>4. \A m \in Nat :
         m < Word /\ m >= v /\ (m = f - (c + l) \/ m - Word = f - (c + l))
           => /\ m - v \in Nat /\ m - v < Word
              /\ m - v = f - (c + l + v) \/ (m - v) - Word = f - (c + l + v)
  BY WordWide, SMT
<1>5. /\ Minus(Minus(r, l), v) \in Nat /\ Minus(Minus(r, l), v) < Word
      /\ \/ Minus(Minus(r, l), v) = f - (c + l + v)
         \/ Minus(Minus(r, l), v) - Word = f - (c + l + v)
  BY <1>1, <1>2, <1>4, SMT
<1> QED
  BY <1>3, <1>5, SMT DEF Counted

(***************************************************************************)
(* The fields of every message are known and no more than five.            *)
(***************************************************************************)
LEMMA BodyType ==
    ASSUME NEW t \in DOMAIN Layout, NEW f, ~HasData(f)
    PROVE  Body(t, f) \in Seq(Fixed \cup Strings) /\ Len(Body(t, f)) <= 5
<1>1. t \in 1..7
  BY SMT DEF Layout
<1>2. Body(t, f) = Layout[t]
  BY DEF Body
<1>3. \A i \in 1..7 : Layout[i] \in Seq(Fixed \cup Strings) /\ Len(Layout[i]) <= 5
  <2>1. Layout[1] \in Seq(Fixed \cup Strings) /\ Len(Layout[1]) <= 5
    BY DEF Layout, Fixed, Strings, ConnectDecode
  <2>2. Layout[2] \in Seq(Fixed \cup Strings) /\ Len(Layout[2]) <= 5
    BY DEF Layout, Fixed, Strings, ConnAckDecode
  <2>3. Layout[3] \in Seq(Fixed \cup Strings) /\ Len(Layout[3]) <= 5
    BY DEF Layout, Fixed, Strings, PingReqDecode
  <2>4. Layout[4] \in Seq(Fixed \cup Strings) /\ Len(Layout[4]) <= 5
    BY DEF Layout, Fixed, Strings, PingRespDecode
  <2>5. Layout[5] \in Seq(Fixed \cup Strings) /\ Len(Layout[5]) <= 5
    BY DEF Layout, Fixed, Strings, DisconnectDecode
  <2>6. Layout[6] \in Seq(Fixed \cup Strings) /\ Len(Layout[6]) <= 5
    BY DEF Layout, Fixed, Strings, SendReqDecode
  <2>7. Layout[7] \in Seq(Fixed \cup Strings) /\ Len(Layout[7]) <= 5
    BY DEF Layout, Fixed, Strings, SendRespDecode
  <2> QED
    BY <2>1, <2>2, <2>3, <2>4, <2>5, <2>6, <2>7
<1> QED
  BY <1>1, <1>2, <1>3

(***************************************************************************)
(* Encoding a message leaves the counts alone.                             *)
(***************************************************************************)
LEMMA EncodeIInv ==
    ASSUME IInv,
           ConnectEncode \/ PingEncode \/ DisconnectEncode \/ SendReqEncode
    PROVE  IInv'
<1>1. ASSUME NEW t \in 0..15, NEW f \in 0..15, NEW q \in Seq(Nat),
             EncodeMessage(Own(t, f, q))
      PROVE  IInv'
  <2>1. Own(t, f, q) \in Message
    BY DEF Own, Message
  <2> QED
    BY <1>1, <2>1 DEF EncodeMessage, IInv, TypeOK, CountInv
<1>2. \A p \in Sizes : <<5, p>> \in Seq(Nat)
  BY PacketAssumption
<1>3. \A t, p \in Sizes : <<t, p>> \in Seq(Nat)
  BY PacketAssumption
<1>4. \A t, p, d \in Sizes : (IF d = 0 THEN <<t, p>> ELSE <<t, p, d>>) \in Seq(Nat)
  BY PacketAssumption
<1>5. \A l \in 0..2 : 2 * l \in 0..15 /\ 2 * l + 8 \in 0..15
  OBVIOUS
<1>6. {0, 1, 3, 5, 6} \subseteq 0..15 /\ <<>> \in Seq(Nat)
  OBVIOUS
<1>7. CASE ConnectEncode
  BY <1>1, <1>2, <1>6, <1>7 DEF ConnectEncode, kMsgConnect, Zipped
<1>8. CASE PingEncode \/ DisconnectEncode
  BY <1>1, <1>6, <1>8 DEF PingEncode, DisconnectEncode, kMsgPingReq, kMsgDisconnect
<1>9. CASE SendReqEncode
  <2>1. PICK l \in 0..2, t \in Sizes, p \in Sizes :
          \/ EncodeMessage(Own(6, 2 * l, <<t, p>>))
          \/ \E d \in Sizes : EncodeMessage(Own(6, 2 * l + 8,
                                 IF d = 0 THEN <<t, p>> ELSE <<t, p, d>>))
    BY <1>9 DEF SendReqEncode, kMsgSendReq, Zipped
  <2>2. CASE EncodeMessage(Own(6, 2 * l, <<t, p>>))
    BY <1>1, <1>3, <1>5, <1>6, <2>2
  <2>3. ASSUME NEW d \in Sizes,
               EncodeMessage(Own(6, 2 * l + 8, IF d = 0 THEN <<t, p>> ELSE <<t, p, d>>))
        PROVE  IInv'
    BY <1>1, <1>4, <1>5, <1>6, <2>3
  <2> QED
    BY <2>1, <2>2, <2>3
<1> QED
  BY <1>7, <1>8, <1>9

(***************************************************************************)
(* An exception keeps the invariant: it leaves the counts alone, and they  *)
(* are not looked at again.                                                *)
(***************************************************************************)
LEMMA ThrowIInv ==
    ASSUME IInv, NEW e \in Errors, Throw(e), bad' \in BOOLEAN
    PROVE  IInv'
BY DEF IInv, TypeOK, CountInv, Throw

(***************************************************************************)
(* A header that is accepted starts the count.                             *)
(***************************************************************************)
LEMMA HeaderIInv ==
    ASSUME IInv, NEW t, NEW f, NEW s, DecodeHeader(t, f, s)
    PROVE  IInv'
<1>1. ASSUME UNCHANGED bad, NEW e \in Errors, Throw(e)
      PROVE  IInv'
  BY <1>1, ThrowIInv DEF IInv, TypeOK
<1>2. ASSUME t \in DOMAIN Layout, ~(HasData(f) \/ f % 2 = 1),
             bad' = Unending(s), frame' = Unsigned(decodeLength(s).value),
             remaining' = frame', consumed' = 0, todo' = Body(t, f),
             pc' = "body", UNCHANGED <<sent, why>>
      PROVE  IInv'
  <2>1. frame' \in Nat /\ frame' < Word /\ (bad' => frame' = Word - 1)
    <3>1. CASE Unending(s)
      BY <1>2, <3>1, DecodedLength, WordWide, SMT DEF DecodeHeader, Unsigned
    <3>2. CASE ~Unending(s)
      BY <1>2, <3>2, DecodedLength, WordWide, SMT DEF DecodeHeader, Unsigned
    <3> QED
      BY <3>1, <3>2
  <2>2. bad' \in BOOLEAN
    BY <1>2, DecodedLength DEF DecodeHeader
  <2>3. todo' \in Seq(Fixed \cup Strings) /\ Len(todo') <= 5 /\ Len(todo') \in Nat
    BY <1>2, BodyType
  <2>4. consumed' <= (5 - Len(todo')) * FieldMax
    BY <1>2, <2>3, WordWide, SMT
  <2>5. remaining' = frame' - consumed'
    BY <1>2, <2>1, SMT
  <2>6. TypeOK'
    BY <1>2, <2>1, <2>2, <2>3, WordWide, SMT DEF IInv, TypeOK
  <2> QED
    BY <1>2, <2>1, <2>4, <2>5, <2>6 DEF IInv, CountInv
<1> QED
  BY <1>1, <1>2 DEF DecodeHeader, Errors

(***************************************************************************)
(* The fields that are left after the first.                               *)
(***************************************************************************)
LEMMA TodoTail ==
    ASSUME TypeOK, todo # <<>>
    PROVE  /\ Tail(todo) \in Seq(Fixed \cup Strings)
           /\ Len(Tail(todo)) = Len(todo) - 1
           /\ Len(todo) \in 1..5
<1>1. ASSUME NEW S, NEW q \in Seq(S), q # <<>>
      PROVE  Tail(q) \in Seq(S) /\ Len(Tail(q)) = Len(q) - 1 /\ Len(q) \in Nat \ {0}
  BY <1>1
<1>2. todo \in Seq(Fixed \cup Strings) /\ Len(todo) <= 5
  BY DEF TypeOK
<1>3. /\ Tail(todo) \in Seq(Fixed \cup Strings)
      /\ Len(Tail(todo)) = Len(todo) - 1 /\ Len(todo) \in Nat \ {0}
  BY <1>1, <1>2
<1> QED
  BY <1>2, <1>3

(***************************************************************************)
(* A number is read only if it is there.                                   *)
(***************************************************************************)
LEMMA FixedIInv ==
    ASSUME IInv, GetFixed
    PROVE  IInv'
<1> DEFINE n == FixedSize(Head(todo))
<1>1. CASE Throw("exceeds") /\ UNCHANGED bad
  BY <1>1, ThrowIInv DEF IInv, TypeOK, Errors
<1>2. CASE /\ remaining >= n /\ remaining' = Minus(remaining, n)
           /\ consumed' = consumed + n /\ todo' = Tail(todo)
           /\ UNCHANGED <<pc, sent, frame, why, bad>>
  <2>1. n \in 1..2
    BY DEF FixedSize
  <2> HIDE DEF n
  <2>2. /\ frame \in Nat /\ frame < Word /\ remaining \in Nat /\ remaining < Word
        /\ consumed \in Nat
    BY WordWide, SMT DEF IInv, TypeOK
  <2>3. remaining' = remaining - n
    BY <1>2, <2>1, <2>2, WordWide, SMT DEF Minus
  <2>4. /\ consumed <= (5 - Len(todo)) * FieldMax
        /\ remaining = frame - consumed \/ remaining - Word = frame - consumed
        /\ bad => frame = Word - 1
    BY DEF IInv, CountInv, GetFixed
  <2>5. /\ todo' \in Seq(Fixed \cup Strings) /\ Len(todo') = Len(todo) - 1
        /\ Len(todo) \in 1..5
    BY <1>2, TodoTail DEF GetFixed, IInv
  <2>6. /\ remaining' \in Nat /\ remaining' < Word
        /\ remaining' = frame - consumed' \/ remaining' - Word = frame - consumed'
    BY <1>2, <2>1, <2>2, <2>3, <2>4, WordWide, SMT
  <2>7. consumed' \in Nat /\ consumed' <= (5 - Len(todo')) * FieldMax
    BY <1>2, <2>1, <2>2, <2>4, <2>5, WordWide, SMT
  <2>8. TypeOK'
    BY <1>2, <2>2, <2>5, <2>6, <2>7, WordWide, SMT DEF IInv, TypeOK
  <2> QED
    BY <1>2, <2>4, <2>6, <2>7, <2>8 DEF IInv, CountInv
<1> QED
  BY <1>1, <1>2 DEF GetFixed

(***************************************************************************)
(* A string is read if the count, wrapped or not, allows it.               *)
(***************************************************************************)
LEMMA StringIInv ==
    ASSUME IInv, NEW s, GetString(s), sent.own => sent.strings # <<>>
    PROVE  IInv'
<1> DEFINE d == decodeLength(s)
           left == Minus(remaining, d.size)
<1>1. IsEncoding(s) /\ bad' = (bad \/ Unending(s)) /\ pc = "body" /\ todo # <<>>
  BY DEF GetString
<1>2. bad' \in BOOLEAN
  BY <1>1, DecodedLength DEF IInv, TypeOK
<1>3. CASE Throw("exceeds")
  BY <1>2, <1>3, ThrowIInv DEF Errors
<1>4. CASE pc' = "stuck" /\ UNCHANGED <<sent, todo, frame, remaining, consumed, why>>
  BY <1>2, <1>4 DEF IInv, TypeOK, CountInv
<1>5. CASE /\ left >= Unsigned(d.value) /\ d.value >= 0
           /\ remaining' = Minus(left, d.value)
           /\ consumed' = consumed + Len(s) + d.value
           /\ todo' = Tail(todo)
           /\ sent' = IF sent.own THEN [sent EXCEPT !.strings = Tail(@)] ELSE sent
           /\ UNCHANGED <<pc, frame, why>>
  <2>1. ~Unending(s) /\ d.value \in Nat /\ d.value <= MaxPayload /\ d.size = Len(s)
    <3>1. Unending(s) => d.value = -1
      BY <1>1, DecodedLength
    <3>2. ~Unending(s)
      BY <1>5, <3>1, SMT
    <3> QED
      BY <1>1, <3>2, DecodedLength
  <2>2. Len(s) \in 1..4
    BY <1>1, DecodedLength
  <2>3. Unsigned(d.value) = d.value
    BY <2>1, SMT DEF Unsigned
  <2>4. PICK v \in Nat, l \in 1..4 :
           /\ v <= MaxPayload /\ v = d.value /\ l = Len(s)
           /\ Minus(remaining, l) >= v
           /\ remaining' = Minus(Minus(remaining, l), v)
           /\ consumed' = consumed + l + v
    BY <1>5, <2>1, <2>2, <2>3
  <2> HIDE DEF d
  <2>5. /\ frame \in Nat /\ frame < Word /\ remaining \in Nat /\ remaining < Word
        /\ consumed \in Nat
    BY WordWide, SMT DEF IInv, TypeOK
  <2>6. /\ consumed <= (5 - Len(todo)) * FieldMax
        /\ remaining = frame - consumed \/ remaining - Word = frame - consumed
        /\ bad => frame = Word - 1
    BY <1>1 DEF IInv, CountInv
  <2>7. /\ todo' \in Seq(Fixed \cup Strings) /\ Len(todo') = Len(todo) - 1
        /\ Len(todo) \in 1..5
    BY <1>1, <1>5, TodoTail DEF IInv
  <2>8. /\ remaining' \in Nat /\ remaining' < Word
        /\ consumed' <= (5 - Len(todo')) * FieldMax
        /\ remaining' = frame - consumed' \/ remaining' - Word = frame - consumed'
    <3>1. l \in 0..4
      OBVIOUS
    <3>2. Counted(frame, consumed, remaining, Len(todo)) /\ Len(todo) # 0
      BY <2>5, <2>6, <2>7, SMT DEF Counted
    <3>3. Counted(frame, consumed + l + v, Minus(Minus(remaining, l), v), Len(todo) - 1)
      BY <2>4, <3>1, <3>2, CountOneField
    <3>4. Counted(frame, consumed', remaining', Len(todo'))
      BY ONLY <2>4, <2>7, <3>3
    <3> QED
      BY ONLY <3>4, Zenon DEF Counted
  <2>9. bad' = bad
    BY <1>1, <2>1 DEF IInv, TypeOK
  <2>10. consumed' \in Nat
    BY <2>4, <2>5, SMT
  <2>11. sent' \in Message
    <3>1. ASSUME NEW q \in Seq(Nat), q # <<>> PROVE Tail(q) \in Seq(Nat)
      BY <3>1
    <3>2. sent \in Message
      BY DEF IInv, TypeOK
    <3>3. CASE sent.own
      BY <1>5, <3>1, <3>2, <3>3 DEF Message
    <3>4. CASE ~sent.own
      BY <1>5, <3>2, <3>4
    <3> QED
      BY <3>3, <3>4
  <2>12. TypeOK'
    BY <1>5, <1>2, <2>5, <2>7, <2>8, <2>10, <2>11, WordWide, SMT DEF IInv, TypeOK
  <2> QED
    BY <1>5, <2>6, <2>8, <2>9, <2>12 DEF IInv, CountInv
<1> QED
  BY <1>3, <1>4, <1>5 DEF GetString

(***************************************************************************)
(* Between two messages.                                                   *)
(***************************************************************************)
LEMMA IdleFacts ==
    /\ Foreign \in Message /\ 0 \in Nat /\ 0 \in 0..(Word - 1)
    /\ <<>> \in Seq(Fixed \cup Strings) /\ Len(<<>>) <= 5 /\ "none" \in Errors
<1>1. Foreign \in Message
  BY DEF Foreign, Message
<1>2. 0 \in 0..(Word - 1)
  BY WordWide, SMT
<1> QED
  BY <1>1, <1>2 DEF Errors

(***************************************************************************)
(* IInv holds at the start, every step keeps it.                           *)
(***************************************************************************)
THEOREM PacketInvariant == Spec => []IInv
<1>1. Init => IInv
  BY IdleFacts DEF Init, IInv, TypeOK, CountInv
<1>2. ASSUME IInv, [Next]_vars
      PROVE  IInv'
  <2>1. CASE ConnectEncode \/ PingEncode \/ DisconnectEncode \/ SendReqEncode
    BY <1>2, <2>1, EncodeIInv
  <2>2. CASE PeerWrites
    BY <1>2, <2>2 DEF PeerWrites, IInv, TypeOK, CountInv
  <2>3. CASE OwnHeader \/ PeerHeader
    BY <1>2, <2>3, HeaderIInv DEF OwnHeader, PeerHeader
  <2>4. CASE GetFixed
    BY <1>2, <2>4, FixedIInv
  <2>5. CASE OwnString \/ PeerString
    BY <1>2, <2>5, StringIInv DEF OwnString, PeerString
  <2>6. CASE Refuse
    BY <1>2, <2>6, ThrowIInv DEF Refuse, IInv, TypeOK, Errors
  <2>7. CASE SocketFails
    BY <1>2, <2>7, ThrowIInv DEF SocketFails, IInv, TypeOK, Errors
  <2>8. CASE Finish
    <3>1. CASE Throw("long") /\ UNCHANGED bad
      BY <1>2, <3>1, ThrowIInv DEF IInv, TypeOK, Errors
    <3>2. CASE pc = "body" /\ pc' = "done"
               /\ UNCHANGED <<sent, todo, frame, remaining, consumed, why, bad>>
      BY <1>2, <3>2 DEF IInv, TypeOK, CountInv
    <3> QED
      BY <2>8, <3>1, <3>2 DEF Finish
  <2>9. CASE Again
    BY <2>9, IdleFacts DEF Again, IInv, TypeOK, CountInv
  <2>10. CASE UNCHANGED vars
    BY <1>2, <2>10 DEF vars, IInv, TypeOK, CountInv
  <2> QED
    BY <1>2, <2>1, <2>2, <2>3, <2>4, <2>5, <2>6, <2>7, <2>8, <2>9, <2>10 DEF Next
<1> QED
  BY <1>1, <1>2, PTL DEF Spec

(***************************************************************************)
(* The state of the decoder keeps its type.                                *)
(***************************************************************************)
THEOREM PacketTypeOK == Spec => []TypeOK
<1>1. IInv => TypeOK
  BY DEF IInv
<1> QED
  BY <1>1, PacketInvariant, PTL

(***************************************************************************)
(* At the end of a message the count is 0 and has not wrapped: that would  *)
(* take more bytes than the fields of a message can have.                  *)
(***************************************************************************)
LEMMA CountAtEnd ==
    ASSUME IInv, pc = "done", remaining = 0
    PROVE  consumed = frame /\ ~bad
<1>1. /\ consumed <= (5 - Len(todo)) * FieldMax
      /\ remaining = frame - consumed \/ remaining - Word = frame - consumed
      /\ bad => frame = Word - 1
      /\ frame \in Nat /\ frame < Word /\ consumed \in Nat
      /\ Len(todo) \in Nat /\ Len(todo) <= 5 /\ bad \in BOOLEAN
  BY WordWide, SMT DEF IInv, TypeOK, CountInv
<1>2. consumed <= 1342177295
  BY <1>1, WordWide, SMT
<1>3. consumed = frame
  BY <1>1, <1>2, WordWide, SMT
<1>4. frame # Word - 1
  BY <1>2, <1>3, WordWide, SMT
<1> QED
  BY <1>1, <1>3, <1>4

(***************************************************************************)
(* Only Finish ends a message, and it tests the count.                     *)
(***************************************************************************)
THEOREM DoneAtZero == Spec => [](pc = "done" => remaining = 0)
<1>1. Init => (pc = "done" => remaining = 0)
  BY DEF Init
<1>2. ASSUME pc = "done" => remaining = 0, [Next]_vars
      PROVE  (pc = "done" => remaining = 0)'
  BY <1>2 DEF Next, vars, ConnectEncode, PingEncode, DisconnectEncode, SendReqEncode,
     EncodeMessage, PeerWrites, OwnHeader, PeerHeader, DecodeHeader, GetFixed, OwnString,
     PeerString, GetString, Refuse, SocketFails, Finish, Again, Throw
<1> QED
  BY <1>1, <1>2, PTL DEF Spec

(***************************************************************************)
(* A message that is accepted has been read to its end and no further,     *)
(* whatever bytes the peer sends (encoding.cpp:74-87).                     *)
(***************************************************************************)
THEOREM FrameConsumedAlways == Spec => []FrameConsumed
<1>1. IInv /\ (pc = "done" => remaining = 0) => FrameConsumed
  BY CountAtEnd DEF FrameConsumed
<1> QED
  BY <1>1, PacketInvariant, DoneAtZero, PTL

(***************************************************************************)
(* No message with a length that has no end is accepted                    *)
(* (encoding.cpp:27, fix_header.cpp:40-41).                                *)
(***************************************************************************)
THEOREM BadLengthRefusedAlways == Spec => []BadLengthRefused
<1>1. IInv /\ (pc = "done" => remaining = 0) => BadLengthRefused
  BY CountAtEnd DEF BadLengthRefused
<1> QED
  BY <1>1, PacketInvariant, DoneAtZero, PTL

(***************************************************************************)
(* The digits of a length to the base 128.                                 *)
(***************************************************************************)
D(n, i) == (n \div Place[i]) % 128

(***************************************************************************)
(* Four digits make up a length, and those that encodeLength does not      *)
(* write are 0.                                                            *)
(***************************************************************************)
LEMMA DigitsMakeUp ==
    ASSUME NEW n \in Nat, n <= MaxPayload
    PROVE  /\ DigitsOf(n) \in 1..4
           /\ \A i \in 1..4 : D(n, i) \in 0..127
           /\ \A i \in 1..4 : i > DigitsOf(n) => D(n, i) = 0
           /\ n = D(n, 1) + D(n, 2) * 128 + D(n, 3) * 16384 + D(n, 4) * 2097152
<1>1. /\ D(n, 1) = n % 128 /\ D(n, 2) = (n \div 128) % 128
      /\ D(n, 3) = (n \div 16384) % 128 /\ D(n, 4) = (n \div 2097152) % 128
  BY Places, SMT DEF D
<1>2. n < 268435456
  BY SMT DEF MaxPayload
<1>3. DigitsOf(n) = IF n < 128 THEN 1 ELSE IF n < 16384 THEN 2
                    ELSE IF n < 2097152 THEN 3 ELSE 4
  BY <1>2, Places, SMT DEF DigitsOf
<1>4. /\ n % 128 \in 0..127 /\ (n \div 128) % 128 \in 0..127
      /\ (n \div 16384) % 128 \in 0..127 /\ (n \div 2097152) % 128 \in 0..127
  BY SMT
<1>5. /\ n < 128 => (n \div 128) % 128 = 0
      /\ n < 16384 => (n \div 16384) % 128 = 0
      /\ n < 2097152 => (n \div 2097152) % 128 = 0
  BY SMT
<1>6. n = (n % 128) + ((n \div 128) % 128) * 128 + ((n \div 16384) % 128) * 16384
            + ((n \div 2097152) % 128) * 2097152
  BY <1>2, SMT
<1>7. \A i \in 1..4 : D(n, i) \in 0..127
  BY <1>1, <1>4, SMT
<1>8. \A i \in 1..4 : i > DigitsOf(n) => D(n, i) = 0
  BY <1>1, <1>3, <1>5, SMT
<1> QED
  BY <1>1, <1>3, <1>6, <1>7, <1>8, SMT

(***************************************************************************)
(* decodeLength inverts encodeLength for every length a message may have,  *)
(* and reads exactly the bytes that encodeLength wrote                     *)
(* (encoding.cpp:14-42).                                                   *)
(***************************************************************************)
THEOREM LengthRoundTrip ==
    ASSUME NEW n \in Nat, n <= MaxPayload
    PROVE  /\ IsEncoding(encodeLength(n))
           /\ decodeLength(encodeLength(n))
                = [value |-> n, size |-> Len(encodeLength(n))]
<1> DEFINE k == DigitsOf(n)
           e == encodeLength(n)
<1>1. /\ k \in 1..4 /\ \A i \in 1..4 : D(n, i) \in 0..127
      /\ \A i \in 1..4 : i > k => D(n, i) = 0
      /\ n = D(n, 1) + D(n, 2) * 128 + D(n, 3) * 16384 + D(n, 4) * 2097152
  BY DigitsMakeUp
<1>2. e = [i \in 1..k |-> D(n, i) + (IF i < k THEN 128 ELSE 0)]
  BY DEF encodeLength, D
<1> HIDE DEF k, e
<1>3. /\ \A i \in 1..k : e[i] = D(n, i) + (IF i < k THEN 128 ELSE 0)
      /\ \A i \in 1..k : e[i] \in Byte
  <2>1. \A i \in 1..k : e[i] = D(n, i) + (IF i < k THEN 128 ELSE 0)
    BY <1>2, Zenon
  <2>2. \A i \in 1..k : D(n, i) \in 0..127
    BY <1>1, SMT
  <2>3. \A x \in 0..127 : x + 0 \in Byte /\ x + 128 \in Byte
    BY SMT DEF Byte
  <2>4. ASSUME NEW i \in 1..k PROVE e[i] \in Byte
    BY <2>1, <2>2, <2>3
  <2> QED
    BY <2>1, <2>4
<1>4. e \in Seq(Byte) /\ Len(e) = k
  <2>1. e \in [1..k -> Byte]
    BY <1>2, <1>3
  <2> QED
    BY <1>1, <2>1
<1>5. e[k] < 128 /\ \A i \in 1..(k - 1) : e[i] >= 128
  BY <1>1, <1>3, SMT
<1>6. IsEncoding(e) /\ ~Unending(e)
  <2>1. Len(e) \in 1..4 /\ e[Len(e)] < 128
    BY <1>1, <1>4, <1>5
  <2>2. \A i \in 1..Len(e) - 1 : e[i] >= 128
    BY <1>4, <1>5
  <2>3. e[Len(e)] \in Nat
    <3>1. k \in 1..k
      BY <1>1, SMT
    <3>2. e[k] \in Byte
      BY <1>3, <3>1
    <3>3. Byte \subseteq Nat
      BY SMT DEF Byte
    <3> QED
      BY <1>4, <3>2, <3>3, Zenon
  <2>4. ~(e[Len(e)] >= 128)
    BY <2>1, <2>3, SMT
  <2> QED
    BY <1>4, <2>1, <2>2, <2>4, Zenon DEF IsEncoding, Unending
<1>7. \A i \in 1..4 : i <= k => e[i] % 128 = D(n, i)
  <2>1. \A x \in 0..127 : x % 128 = x /\ (x + 128) % 128 = x
    BY SMT
  <2>2. \A i \in 1..k : D(n, i) \in 0..127
    BY <1>1, SMT
  <2>3. ASSUME NEW i \in 1..k PROVE e[i] % 128 = D(n, i)
    <3>1. CASE i < k
      <4>1. e[i] = D(n, i) + 128
        BY <1>3, <3>1
      <4> QED
        BY <2>1, <2>2, <4>1
    <3>2. CASE ~(i < k)
      <4>1. e[i] = D(n, i)
        BY <1>1, <1>3, <2>2, <3>2, SMT
      <4> QED
        BY <2>1, <2>2, <4>1
    <3> QED
      BY <3>1, <3>2
  <2> QED
    BY <1>1, <2>3, SMT
<1>8. /\ Digit(e, 1) = D(n, 1) /\ Digit(e, 2) = D(n, 2) * 128
      /\ Digit(e, 3) = D(n, 3) * 16384 /\ Digit(e, 4) = D(n, 4) * 2097152
  <2>1. Digit(e, 1) = D(n, 1)
    <3>1. Digit(e, 1) = IF 1 <= k THEN (e[1] % 128) * 1 ELSE 0
      BY <1>4, Places, SMT DEF Digit
    <3>2. D(n, 1) \in 0..127 /\ (1 <= k => e[1] % 128 = D(n, 1))
      BY <1>1, <1>7
    <3>3. ~(1 <= k) => D(n, 1) = 0
      BY <1>1, SMT
    <3> QED
      BY <3>1, <3>2, <3>3, SMT
  <2>2. Digit(e, 2) = D(n, 2) * 128
    <3>1. Digit(e, 2) = IF 2 <= k THEN (e[2] % 128) * 128 ELSE 0
      BY <1>4, Places, SMT DEF Digit
    <3>2. D(n, 2) \in 0..127 /\ (2 <= k => e[2] % 128 = D(n, 2))
      BY <1>1, <1>7
    <3>3. ~(2 <= k) => D(n, 2) = 0
      BY <1>1, SMT
    <3> QED
      BY <3>1, <3>2, <3>3, SMT
  <2>3. Digit(e, 3) = D(n, 3) * 16384
    <3>1. Digit(e, 3) = IF 3 <= k THEN (e[3] % 128) * 16384 ELSE 0
      BY <1>4, Places, SMT DEF Digit
    <3>2. D(n, 3) \in 0..127 /\ (3 <= k => e[3] % 128 = D(n, 3))
      BY <1>1, <1>7
    <3>3. ~(3 <= k) => D(n, 3) = 0
      BY <1>1, SMT
    <3> QED
      BY <3>1, <3>2, <3>3, SMT
  <2>4. Digit(e, 4) = D(n, 4) * 2097152
    <3>1. Digit(e, 4) = IF 4 <= k THEN (e[4] % 128) * 2097152 ELSE 0
      BY <1>4, Places, SMT DEF Digit
    <3>2. D(n, 4) \in 0..127 /\ (4 <= k => e[4] % 128 = D(n, 4))
      BY <1>1, <1>7
    <3>3. ~(4 <= k) => D(n, 4) = 0
      BY <1>1, SMT
    <3> QED
      BY <3>1, <3>2, <3>3, SMT
  <2> QED
    BY <2>1, <2>2, <2>3, <2>4
<1>9. DigitSum(e) = n
  BY <1>1, <1>8, SMT DEF DigitSum
<1> QED
  BY <1>6, <1>9 DEF e, decodeLength

-----------------------------------------------------------------------------
(***************************************************************************)
(* The client's own messages.                                              *)
(***************************************************************************)

\* A string takes a byte more than its length at least.
LEMMA StringSize ==
    ASSUME NEW n \in Nat
    PROVE  /\ Len(encodeLength(n)) \in 1..5
           /\ setString(n) = Len(encodeLength(n)) + n
           /\ setString(n) \in Nat /\ setString(n) > n
<1> DEFINE k == DigitsOf(n)
<1>1. k \in 1..5
  BY SMT DEF DigitsOf
<1>2. encodeLength(n) = [i \in 1..k |-> ((n \div Place[i]) % 128) + (IF i < k THEN 128 ELSE 0)]
  BY DEF encodeLength
<1> HIDE DEF k
<1>3. Len(encodeLength(n)) = k
  BY <1>1, <1>2
<1>4. QED BY <1>1, <1>3, SMT DEF setString

\* What is left of a sequence after its first element.
LEMMA TailAt ==
    ASSUME NEW S, NEW q \in Seq(S), q # <<>>
    PROVE  /\ Tail(q) \in Seq(S) /\ Len(q) \in Nat \ {0} /\ Len(Tail(q)) = Len(q) - 1
           /\ Head(q) = q[1] /\ Head(q) \in S
           /\ \A i \in 1..(Len(q) - 1) : Tail(q)[i] = q[i + 1]
OBVIOUS

LEMMA FixedLenTail ==
    ASSUME NEW q \in Seq(Fixed \cup Strings), Len(q) <= 5, q # <<>>
    PROVE  /\ FixedLen(Tail(q)) \in Nat
           /\ FixedLen(q) = FixedLen(Tail(q))
                              + (IF Head(q) \in Fixed THEN FixedSize(Head(q)) ELSE 0)
<1>0. /\ Len(q) \in Nat \ {0} /\ Len(Tail(q)) = Len(q) - 1 /\ Head(q) = q[1]
      /\ \A i \in 1..(Len(q) - 1) : Tail(q)[i] = q[i + 1]
  BY TailAt
<1>1. /\ Len(q) \in 1..5 /\ Len(Tail(q)) = Len(q) - 1 /\ Head(q) = q[1]
      /\ \A i \in 1..(Len(q) - 1) : Tail(q)[i] = q[i + 1]
  BY <1>0
<1>2. \A x : FixedSize(x) \in {1, 2}
  BY DEF FixedSize
<1>3. \A i \in 1..5 : FixedAt(q, i) \in Nat /\ FixedAt(Tail(q), i) \in Nat
  BY <1>2 DEF FixedAt
<1>4. ASSUME NEW i \in 1..4 PROVE FixedAt(Tail(q), i) = FixedAt(q, i + 1)
  <2>1. i <= Len(Tail(q)) <=> i + 1 <= Len(q)
    BY <1>1
  <2>2. i <= Len(Tail(q)) => Tail(q)[i] = q[i + 1]
    BY <1>1
  <2>3. QED BY <2>1, <2>2 DEF FixedAt
<1>5. /\ FixedAt(Tail(q), 1) = FixedAt(q, 2) /\ FixedAt(Tail(q), 2) = FixedAt(q, 3)
      /\ FixedAt(Tail(q), 3) = FixedAt(q, 4) /\ FixedAt(Tail(q), 4) = FixedAt(q, 5)
  BY <1>4
<1>6. FixedAt(Tail(q), 5) = 0
  BY <1>1 DEF FixedAt
<1>7. FixedAt(q, 1) = IF Head(q) \in Fixed THEN FixedSize(Head(q)) ELSE 0
  BY <1>1 DEF FixedAt
<1>8. /\ FixedAt(q, 1) \in Nat /\ FixedAt(q, 2) \in Nat /\ FixedAt(q, 3) \in Nat
      /\ FixedAt(q, 4) \in Nat /\ FixedAt(q, 5) \in Nat
  BY <1>3
<1>9. /\ FixedLen(q) = FixedAt(q, 1) + FixedLen(Tail(q))
      /\ FixedLen(Tail(q)) \in Nat
  BY ONLY <1>5, <1>6, <1>8, SMT DEF FixedLen
<1>10. QED BY <1>7, <1>8, <1>9

LEMMA StringsInTail ==
    ASSUME NEW q \in Seq(Fixed \cup Strings), Len(q) <= 5, q # <<>>
    PROVE  /\ StringsIn(Tail(q)) \in Nat
           /\ StringsIn(q) = StringsIn(Tail(q)) + (IF Head(q) \in Strings THEN 1 ELSE 0)
<1>0. /\ Len(q) \in Nat \ {0} /\ Len(Tail(q)) = Len(q) - 1 /\ Head(q) = q[1]
      /\ \A i \in 1..(Len(q) - 1) : Tail(q)[i] = q[i + 1]
  BY TailAt
<1>1. /\ Len(q) \in 1..5 /\ Len(Tail(q)) = Len(q) - 1 /\ Head(q) = q[1]
      /\ \A i \in 1..(Len(q) - 1) : Tail(q)[i] = q[i + 1]
  BY <1>0
<1>2. \A i \in 1..5 : StringAmong(q, i) \in Nat /\ StringAmong(Tail(q), i) \in Nat
  BY DEF StringAmong
<1>3. ASSUME NEW i \in 1..4 PROVE StringAmong(Tail(q), i) = StringAmong(q, i + 1)
  <2>1. i <= Len(Tail(q)) <=> i + 1 <= Len(q)
    BY <1>1
  <2>2. i <= Len(Tail(q)) => Tail(q)[i] = q[i + 1]
    BY <1>1
  <2>3. QED BY <2>1, <2>2 DEF StringAmong
<1>4. /\ StringAmong(Tail(q), 1) = StringAmong(q, 2)
      /\ StringAmong(Tail(q), 2) = StringAmong(q, 3)
      /\ StringAmong(Tail(q), 3) = StringAmong(q, 4)
      /\ StringAmong(Tail(q), 4) = StringAmong(q, 5)
  BY <1>3
<1>5. StringAmong(Tail(q), 5) = 0
  BY <1>1 DEF StringAmong
<1>6. StringAmong(q, 1) = IF Head(q) \in Strings THEN 1 ELSE 0
  BY <1>1 DEF StringAmong
<1>7. /\ StringAmong(q, 1) \in Nat /\ StringAmong(q, 2) \in Nat /\ StringAmong(q, 3) \in Nat
      /\ StringAmong(q, 4) \in Nat /\ StringAmong(q, 5) \in Nat
  BY <1>2
<1>8. /\ StringsIn(q) = StringAmong(q, 1) + StringsIn(Tail(q))
      /\ StringsIn(Tail(q)) \in Nat
  BY ONLY <1>4, <1>5, <1>7, SMT DEF StringsIn
<1>9. QED BY <1>6, <1>7, <1>8

LEMMA StringLenTail ==
    ASSUME NEW q \in Seq(Nat), Len(q) <= 3, q # <<>>
    PROVE  /\ StringLen(Tail(q)) \in Nat
           /\ StringLen(q) = StringLen(Tail(q)) + setString(Head(q))
<1>0. /\ Len(q) \in Nat \ {0} /\ Len(Tail(q)) = Len(q) - 1 /\ Head(q) = q[1]
      /\ Tail(q) \in Seq(Nat)
      /\ \A i \in 1..(Len(q) - 1) : Tail(q)[i] = q[i + 1]
  BY TailAt
<1>1. /\ Len(q) \in 1..3 /\ Len(Tail(q)) = Len(q) - 1 /\ Head(q) = q[1]
      /\ Tail(q) \in Seq(Nat)
      /\ \A i \in 1..(Len(q) - 1) : Tail(q)[i] = q[i + 1]
  BY <1>0
<1>2. \A i \in 1..Len(q) : q[i] \in Nat
  BY <1>1, SeqElement
<1>3. ASSUME NEW i \in 1..3 PROVE StringAt(q, i) \in Nat
  <2>1. CASE i <= Len(q)
    <3>1. i \in 1..Len(q)
      BY <1>1, <2>1
    <3>2. QED BY <1>2, <2>1, <3>1, StringSize DEF StringAt
  <2>2. CASE ~(i <= Len(q))
    BY <2>2 DEF StringAt
  <2>3. QED BY <2>1, <2>2
<1>4. ASSUME NEW i \in 1..2 PROVE StringAt(Tail(q), i) = StringAt(q, i + 1)
  <2>1. i <= Len(Tail(q)) <=> i + 1 <= Len(q)
    BY <1>1
  <2>2. i <= Len(Tail(q)) => Tail(q)[i] = q[i + 1]
    BY <1>1
  <2>3. QED BY <2>1, <2>2 DEF StringAt
<1>5. StringAt(Tail(q), 1) = StringAt(q, 2) /\ StringAt(Tail(q), 2) = StringAt(q, 3)
  BY <1>4
<1>6. StringAt(Tail(q), 3) = 0
  BY <1>1 DEF StringAt
<1>7. StringAt(q, 1) = setString(Head(q))
  BY <1>1 DEF StringAt
<1>8. StringAt(q, 1) \in Nat /\ StringAt(q, 2) \in Nat /\ StringAt(q, 3) \in Nat
  BY <1>3
<1>9. /\ StringLen(q) = StringAt(q, 1) + StringLen(Tail(q))
      /\ StringLen(Tail(q)) \in Nat
  BY ONLY <1>5, <1>6, <1>8, SMT DEF StringLen
<1>10. QED BY <1>7, <1>8, <1>9

\* Nothing is left of nothing.
LEMMA NothingLeft ==
    FixedLen(<<>>) = 0 /\ StringsIn(<<>>) = 0 /\ StringLen(<<>>) = 0
<1>1. \A i \in 1..5 : /\ FixedAt(<<>>, i) = 0 /\ StringAmong(<<>>, i) = 0
                      /\ StringAt(<<>>, i) = 0
  BY DEF FixedAt, StringAmong, StringAt
<1>2. QED BY <1>1 DEF FixedLen, StringsIn, StringLen

\* The layouts of the messages that the client sends: lengths and strings.
LEMMA OwnLayouts ==
    /\ {1, 3, 5, 6} \subseteq DOMAIN Layout
    /\ \A t \in DOMAIN Layout : FixedLen(Layout[t]) \in Nat
    /\ StringsIn(Layout[1]) = 2 /\ StringsIn(Layout[3]) = 0
    /\ StringsIn(Layout[5]) = 0 /\ StringsIn(Layout[6]) = 2
<1>1. {1, 3, 5, 6} \subseteq DOMAIN Layout
  BY DEF Layout
<1>2. \A q : FixedLen(q) \in Nat
  BY DEF FixedLen, FixedAt, FixedSize
<1>3. StringsIn(Layout[1]) = 2
  BY DEF StringsIn, StringAmong, Layout, ConnectDecode, Strings
<1>4. StringsIn(Layout[3]) = 0 /\ StringsIn(Layout[5]) = 0
  BY DEF StringsIn, StringAmong, Layout, PingReqDecode, DisconnectDecode, Strings
<1>5. StringsIn(Layout[6]) = 2
  BY DEF StringsIn, StringAmong, Layout, SendReqDecode, Strings
<1>6. QED BY <1>1, <1>2, <1>3, <1>4, <1>5

\* Encoding a message of the client.
LEMMA EncodeOwn ==
    ASSUME ConnectEncode \/ PingEncode \/ DisconnectEncode \/ SendReqEncode
    PROVE  OwnInv' /\ OwnMessageAccepted'
<1>1. ASSUME NEW t \in {1, 3, 5, 6}, NEW f \in 0..15, NEW q, f % 2 = 0,
             Len(q) <= 3, HasData(f) \/ StringsIn(Layout[t]) = Len(q),
             EncodeMessage(Own(t, f, q))
      PROVE  OwnInv' /\ OwnMessageAccepted'
  <2> DEFINE m == Own(t, f, q)
  <2>1. m.own /\ m.type = t /\ m.flags = f /\ m.strings = q
    BY DEF Own
  <2>2. sent' = m /\ pc' = "header" /\ Total(m) <= MaxPayload
    BY <1>1 DEF EncodeMessage
  <2>3. t \in DOMAIN Layout
    BY OwnLayouts
  <2> HIDE DEF m
  <2>4. OwnMessageAccepted'
    BY <2>2 DEF OwnMessageAccepted
  <2>5. OwnInv'
    BY <1>1, <2>1, <2>2, <2>3 DEF OwnInv
  <2>6. QED BY <2>4, <2>5
<1>2. \A l \in 0..2 : /\ 2 * l \in 0..15 /\ (2 * l) % 2 = 0
                      /\ 2 * l + 8 \in 0..15 /\ (2 * l + 8) % 2 = 0
                      /\ HasData(2 * l + 8)
  BY DEF HasData
<1>3. 0 \in 0..15 /\ 0 % 2 = 0
  OBVIOUS
<1>4. CASE ConnectEncode
  <2>1. PICK p \in Zipped : EncodeMessage(Own(1, 0, <<5, p>>))
    BY <1>4 DEF ConnectEncode, kMsgConnect
  <2>2. Len(<<5, p>>) <= 3 /\ StringsIn(Layout[1]) = Len(<<5, p>>)
    BY OwnLayouts
  <2>3. QED BY <1>1, <1>3, <2>1, <2>2
<1>5. CASE PingEncode \/ DisconnectEncode
  <2>1. EncodeMessage(Own(3, 0, <<>>)) \/ EncodeMessage(Own(5, 0, <<>>))
    BY <1>5 DEF PingEncode, DisconnectEncode, kMsgPingReq, kMsgDisconnect
  <2>2. Len(<<>>) = 0
    OBVIOUS
  <2>3. QED BY <1>1, <1>3, <2>1, <2>2, OwnLayouts
<1>6. CASE SendReqEncode
  <2>1. PICK l \in 0..2, t \in Sizes, p \in Zipped :
          \/ EncodeMessage(Own(6, 2 * l, <<t, p>>))
          \/ \E d \in Sizes : EncodeMessage(Own(6, 2 * l + 8,
                                 IF d = 0 THEN <<t, p>> ELSE <<t, p, d>>))
    BY <1>6 DEF SendReqEncode, kMsgSendReq
  <2>2. Len(<<t, p>>) <= 3 /\ StringsIn(Layout[6]) = Len(<<t, p>>)
    BY OwnLayouts
  <2>3. CASE EncodeMessage(Own(6, 2 * l, <<t, p>>))
    BY <1>1, <1>2, <2>2, <2>3
  <2>4. ASSUME NEW d \in Sizes,
               EncodeMessage(Own(6, 2 * l + 8, IF d = 0 THEN <<t, p>> ELSE <<t, p, d>>))
        PROVE  OwnInv' /\ OwnMessageAccepted'
    <3>1. Len(IF d = 0 THEN <<t, p>> ELSE <<t, p, d>>) <= 3
      OBVIOUS
    <3>2. QED BY <1>1, <1>2, <2>4, <3>1
  <2>5. QED BY <2>1, <2>3, <2>4
<1>7. QED BY <1>4, <1>5, <1>6

\* The header of a message of the client is accepted, unless it announces
\* data, and starts the count with the length of what follows.
LEMMA HeaderOwn ==
    ASSUME IInv, OwnInv, OwnHeader
    PROVE  OwnInv' /\ OwnMessageAccepted'
<1> DEFINE n == Total(sent)
           e == encodeLength(n)
<1>1. sent.own /\ pc = "header" /\ DecodeHeader(sent.type, sent.flags, e)
  BY DEF OwnHeader, DecodeHeader
<1>2. /\ sent.type \in DOMAIN Layout /\ sent.flags % 2 = 0 /\ n <= MaxPayload
      /\ Len(sent.strings) <= 3
      /\ HasData(sent.flags) \/ StringsIn(Layout[sent.type]) = Len(sent.strings)
  BY <1>1 DEF OwnInv
<1>3. n \in Nat
  <2>1. sent.strings \in Seq(Nat)
    BY DEF IInv, TypeOK, Message
  <2>2. StringLen(sent.strings) \in Nat
    <3>1. CASE sent.strings = <<>>
      BY <3>1, NothingLeft
    <3>2. CASE sent.strings # <<>>
      <4>1. Head(sent.strings) \in Nat
        BY <2>1, <3>2, TailAt
      <4>2. setString(Head(sent.strings)) \in Nat
        BY <4>1, StringSize
      <4>3. QED BY <1>2, <2>1, <3>2, <4>2, StringLenTail
    <3>3. QED BY <3>1, <3>2
  <2>3. FixedLen(Layout[sent.type]) \in Nat
    BY <1>2, OwnLayouts
  <2>4. QED BY <2>2, <2>3 DEF Total
<1> HIDE DEF n
<1>4. decodeLength(e).value = n
  BY <1>2, <1>3, LengthRoundTrip
<1>5. Unsigned(decodeLength(e).value) = n
  BY <1>3, <1>4, SMT DEF Unsigned
<1> HIDE DEF e
<1>6. CASE HasData(sent.flags) /\ Throw("flag")
  BY <1>2, <1>6 DEF Throw, OwnInv, OwnMessageAccepted
<1>7. CASE /\ ~HasData(sent.flags) /\ remaining' = n /\ todo' = Body(sent.type, sent.flags)
           /\ pc' = "body" /\ UNCHANGED <<sent, why>>
  <2>1. todo' = Layout[sent.type]
    BY <1>7 DEF Body
  <2>2. remaining' = FixedLen(todo') + StringLen(sent.strings)
    BY <1>7, <2>1 DEF n, Total
  <2>3. QED BY <1>2, <1>7, <2>1, <2>2 DEF OwnInv, OwnMessageAccepted
<1>8. QED BY <1>1, <1>2, <1>5, <1>6, <1>7 DEF DecodeHeader

\* A number of a message of the client is there and is counted off.
LEMMA FixedOwn ==
    ASSUME IInv, OwnInv, sent.own, GetFixed
    PROVE  OwnInv' /\ OwnMessageAccepted'
<1> DEFINE n == FixedSize(Head(todo))
           f == FixedLen(Tail(todo))
           s == StringLen(sent.strings)
<1>1. pc = "body" /\ todo # <<>> /\ Head(todo) \in Fixed /\ Head(todo) \notin Strings
  BY DEF GetFixed, Fixed, Strings
<1>2. /\ StringsIn(todo) = Len(sent.strings) /\ Len(sent.strings) <= 3
      /\ remaining = FixedLen(todo) + s /\ remaining <= MaxPayload
  BY <1>1 DEF OwnInv
<1>3. todo \in Seq(Fixed \cup Strings) /\ Len(todo) <= 5 /\ sent.strings \in Seq(Nat)
  BY DEF IInv, TypeOK, Message
<1>4. f \in Nat /\ FixedLen(todo) = f + n
  BY <1>1, <1>3, FixedLenTail
<1>5. StringsIn(todo) = StringsIn(Tail(todo)) + 0 /\ StringsIn(Tail(todo)) \in Nat
  BY <1>1, <1>3, StringsInTail
<1>6. n \in 1..2
  BY DEF FixedSize
<1>7. s \in Nat
  <2>1. CASE sent.strings = <<>>
    BY <2>1, NothingLeft
  <2>2. CASE sent.strings # <<>>
    <3>1. setString(Head(sent.strings)) \in Nat
      BY <1>3, <2>2, TailAt, StringSize
    <3>2. QED BY <1>2, <1>3, <2>2, <3>1, StringLenTail
  <2>3. QED BY <2>1, <2>2
<1>8. GetFixed
  OBVIOUS
<1> HIDE DEF n, f, s
<1>9. remaining = f + n + s /\ remaining >= n /\ Minus(remaining, n) = f + s
  BY <1>2, <1>4, <1>6, <1>7, WordWide, SMT DEF Minus
<1>10. /\ remaining' = Minus(remaining, n) /\ todo' = Tail(todo)
       /\ UNCHANGED <<pc, sent, why>>
  <2>1. ~(remaining < n)
    BY <1>6, <1>9, <1>4, <1>7, SMT
  <2>2. QED BY <2>1 DEF GetFixed, n
<1>11. /\ StringsIn(todo') = Len(sent.strings)
       /\ remaining' = FixedLen(todo') + StringLen(sent.strings)
       /\ remaining' <= MaxPayload
  <2>1. remaining' = f + s /\ f + s <= MaxPayload
    BY <1>2, <1>4, <1>6, <1>7, <1>9, <1>10, WordWide, SMT
  <2>2. QED BY <1>2, <1>5, <1>10, <2>1 DEF f, s
<1>12. QED BY <1>1, <1>2, <1>10, <1>11 DEF OwnInv, OwnMessageAccepted

\* A string of a message of the client is there, with its length.
LEMMA StringOwn ==
    ASSUME IInv, OwnInv, OwnString
    PROVE  OwnInv' /\ OwnMessageAccepted'
<1> DEFINE q == sent.strings
           v == Head(q)
           e == encodeLength(v)
           f == FixedLen(Tail(todo))
           s == StringLen(Tail(q))
<1>1. /\ sent.own /\ pc = "body" /\ todo # <<>> /\ q # <<>> /\ GetString(e)
      /\ Head(todo) \in Strings /\ Head(todo) \notin Fixed
  BY DEF OwnString, GetString, Fixed, Strings
<1>2. /\ StringsIn(todo) = Len(q) /\ Len(q) <= 3
      /\ remaining = FixedLen(todo) + StringLen(q) /\ remaining <= MaxPayload
  BY <1>1 DEF OwnInv
<1>3. todo \in Seq(Fixed \cup Strings) /\ Len(todo) <= 5 /\ q \in Seq(Nat) /\ sent \in Message
  BY DEF IInv, TypeOK, Message
<1>4. f \in Nat /\ FixedLen(todo) = f + 0
  BY <1>1, <1>3, FixedLenTail
<1>5. StringsIn(todo) = StringsIn(Tail(todo)) + 1 /\ StringsIn(Tail(todo)) \in Nat
  BY <1>1, <1>3, StringsInTail
<1>6. v \in Nat /\ Len(q) \in Nat \ {0} /\ Len(Tail(q)) = Len(q) - 1
  BY <1>1, <1>3, TailAt
<1>7. /\ Len(e) \in 1..5 /\ setString(v) = Len(e) + v /\ setString(v) \in Nat
  BY <1>6, StringSize
<1>8. s \in Nat /\ StringLen(q) = s + setString(v)
  BY <1>1, <1>2, <1>3, StringLenTail
<1> HIDE DEF q, v, e, f, s
<1>9. remaining = f + s + Len(e) + v /\ v <= MaxPayload
  BY <1>2, <1>4, <1>6, <1>7, <1>8, WordWide, SMT
<1>10. decodeLength(e).value = v /\ decodeLength(e).size = Len(e)
  BY <1>6, <1>9, LengthRoundTrip DEF e
<1>11. /\ Unsigned(v) = v /\ Minus(remaining, Len(e)) = f + s + v
       /\ Minus(f + s + v, v) = f + s /\ f + s <= MaxPayload
       /\ ~(f + s + v < v) /\ ~(v < 0)
  <2>1. remaining <= 268435455
    BY <1>2, WordWide
  <2>2. QED BY <1>4, <1>6, <1>7, <1>8, <1>9, <2>1, WordWide, SMT DEF Unsigned, Minus
<1>12. /\ remaining' = f + s /\ todo' = Tail(todo)
       /\ sent' = [sent EXCEPT !.strings = Tail(sent.strings)]
       /\ UNCHANGED <<pc, why>>
  BY <1>1, <1>10, <1>11 DEF GetString
<1>13. sent'.strings = Tail(q) /\ sent'.own /\ sent'.flags = sent.flags
  BY <1>1, <1>3, <1>12 DEF Message, q
<1>14. /\ StringsIn(todo') = Len(sent'.strings)
       /\ remaining' = FixedLen(todo') + StringLen(sent'.strings)
       /\ remaining' <= MaxPayload /\ Len(sent'.strings) <= 3
  <2>1. StringsIn(Tail(todo)) = Len(Tail(q)) /\ Len(Tail(q)) <= 3
    BY <1>2, <1>5, <1>6
  <2>2. QED BY <1>11, <1>12, <1>13, <2>1 DEF f, s
<1>15. QED BY <1>1, <1>12, <1>14 DEF OwnInv, OwnMessageAccepted

\* All of a message of the client has been read when its fields have.
LEMMA FinishOwn ==
    ASSUME IInv, OwnInv, sent.own, Finish
    PROVE  OwnInv' /\ OwnMessageAccepted'
<1>1. pc = "body" /\ todo = <<>>
  BY DEF Finish
<1>2. /\ StringsIn(todo) = Len(sent.strings) /\ Len(sent.strings) <= 3
      /\ remaining = FixedLen(todo) + StringLen(sent.strings)
  BY <1>1 DEF OwnInv
<1>3. Len(sent.strings) = 0
  BY <1>1, <1>2, NothingLeft
<1>4. sent.strings = <<>>
  <2>1. sent.strings \in Seq(Nat)
    BY DEF IInv, TypeOK, Message
  <2>2. QED BY <1>3, <2>1
<1>5. remaining = 0
  BY <1>1, <1>2, <1>4, NothingLeft
<1>6. pc' = "done" /\ UNCHANGED sent
  BY <1>5 DEF Finish
<1>7. QED BY <1>2, <1>4, <1>6 DEF OwnInv, OwnMessageAccepted

LEMMA OwnStep ==
    ASSUME IInv, OwnInv, OwnMessageAccepted, [Next]_vars
    PROVE  OwnInv' /\ OwnMessageAccepted'
<1>1. CASE ConnectEncode \/ PingEncode \/ DisconnectEncode \/ SendReqEncode
  BY <1>1, EncodeOwn
<1>2. ASSUME ~sent.own, UNCHANGED sent PROVE OwnInv' /\ OwnMessageAccepted'
  BY <1>2 DEF OwnInv, OwnMessageAccepted
<1>3. CASE PeerWrites
  <2>1. ~sent.own /\ UNCHANGED sent
    BY <1>3 DEF PeerWrites, OwnInv
  <2>2. QED BY <1>2, <2>1
<1>4. CASE OwnHeader
  BY <1>4, HeaderOwn
<1>5. CASE PeerHeader \/ Refuse
  <2>1. ~sent.own /\ UNCHANGED sent
    BY <1>5 DEF PeerHeader, DecodeHeader, Refuse, Throw
  <2>2. QED BY <1>2, <2>1
<1>6. CASE GetFixed
  <2>1. CASE sent.own
    BY <1>6, <2>1, FixedOwn
  <2>2. CASE ~sent.own
    <3>1. UNCHANGED sent
      BY <1>6 DEF GetFixed, Throw
    <3>2. QED BY <1>2, <2>2, <3>1
  <2>3. QED BY <2>1, <2>2
<1>7. CASE OwnString
  BY <1>7, StringOwn
<1>8. CASE PeerString
  <2>1. ~sent.own /\ UNCHANGED sent
    BY <1>8 DEF PeerString, GetString, Throw
  <2>2. QED BY <1>2, <2>1
<1>9. CASE SocketFails
  <2>1. pc' = "error" /\ why' = "socket" /\ UNCHANGED sent
    BY <1>9 DEF SocketFails, Throw
  <2>2. QED BY <2>1 DEF OwnInv, OwnMessageAccepted
<1>10. CASE Finish
  <2>1. CASE sent.own
    BY <1>10, <2>1, FinishOwn
  <2>2. CASE ~sent.own
    <3>1. UNCHANGED sent
      BY <1>10 DEF Finish, Throw
    <3>2. QED BY <1>2, <2>2, <3>1
  <2>3. QED BY <2>1, <2>2
<1>11. CASE Again
  <2>1. ~sent'.own
    BY <1>11 DEF Again, Foreign
  <2>2. QED BY <2>1 DEF OwnInv, OwnMessageAccepted
<1>12. CASE UNCHANGED vars
  BY <1>12 DEF vars, OwnInv, OwnMessageAccepted
<1>13. QED
  BY <1>1, <1>3, <1>4, <1>5, <1>6, <1>7, <1>8, <1>9, <1>10, <1>11, <1>12 DEF Next

(***************************************************************************)
(* What the client encodes, of any size, is decoded again to its end,      *)
(* unless the socket fails or the message carries data (message.cpp:18-34, *)
(* 186-210, message_base.cpp:12-34).                                       *)
(***************************************************************************)
THEOREM OwnMessageAcceptedAlways == Spec => []OwnMessageAccepted
<1>1. Init => OwnInv /\ OwnMessageAccepted
  BY DEF Init, Foreign, OwnInv, OwnMessageAccepted
<1>2. IInv /\ OwnInv /\ OwnMessageAccepted /\ [Next]_vars => OwnInv' /\ OwnMessageAccepted'
  BY OwnStep
<1>3. QED BY <1>1, <1>2, PacketInvariant, PTL DEF Spec
=============================================================================
