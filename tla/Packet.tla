------------------------------- MODULE Packet -------------------------------
(***************************************************************************)
(* The codec (packet/): the fixed header and the fields of a message are   *)
(* read from a stream one after the other, each field counted off the      *)
(* remaining length of the header.  A message comes from a peer, who may   *)
(* send any bytes, or from the client's own encoders.                      *)
(*                                                                         *)
(* Of the bytes only those that encode lengths are kept.  The contents of  *)
(* strings are left out: a field whose value the decoder examines may be   *)
(* refused.                                                                *)
(***************************************************************************)
EXTENDS Integers, Sequences

CONSTANTS
    Word,           \* the number of values of a uint32_t
    HeaderBytes,    \* bytes of a peer's remaining length
    FieldBytes,     \* bytes of a peer's string lengths
    Sizes           \* lengths of the strings the client encodes

Byte == 0..255

\* The weights of the digits of a length: powers of 128.
Place == <<1, 128, 16384, 2097152, 268435456>>

\* kMaxPayloadSize.
MaxPayload == 268435455

\* A uint32_t is wide enough for the fields of any one message.
ASSUME PacketAssumption ==
    /\ Word \in Nat /\ Word > 6 * Place[5]
    /\ HeaderBytes \subseteq Byte /\ FieldBytes \subseteq Byte
    /\ Sizes \subseteq Nat

VARIABLES
    pc,         \* "idle", "header", "body", "done", "error", "stuck"
    sent,       \* what is to be read of a message of the client; or Foreign
    todo,       \* the fields still to be read
    frame,      \* _remainLen as the header has it
    remaining,  \* packetRemaining
    consumed,   \* bytes read since the fixed header
    bad,        \* a length without end has been read
    why         \* TcpExcType

vars == <<pc, sent, todo, frame, remaining, consumed, bad, why>>

-----------------------------------------------------------------------------
\* What decodeLength reads: up to the first byte below 128, at most four.
IsEncoding(s) ==
    /\ s \in Seq(Byte) /\ Len(s) \in 1..4
    /\ \A i \in 1..Len(s) - 1 : s[i] >= 128
    /\ Len(s) < 4 => s[Len(s)] < 128

Encodings(bytes) == {s \in UNION {[1..n -> bytes] : n \in 1..4} : IsEncoding(s)}

HeaderLengths == Encodings(HeaderBytes)

FieldLengths == Encodings(FieldBytes)

Unending(s) == s[Len(s)] >= 128

Digit(s, i) == IF i <= Len(s) THEN (s[i] % 128) * Place[i] ELSE 0

DigitSum(s) == Digit(s, 1) + Digit(s, 2) + Digit(s, 3) + Digit(s, 4)

\* Mutant: the continuation bit of the fourth byte is not looked at.
decodeLengthLax(s) == [value |-> DigitSum(s), size |-> Len(s)]

decodeLength(s) ==
    IF Unending(s) THEN [value |-> -1, size |-> -1]
    ELSE [value |-> DigitSum(s), size |-> Len(s)]

\* The rounds of the loop of encodeLength; its first byte is there for 0 too.
DigitsOf(n) ==
    IF n < Place[2] THEN 1 ELSE IF n < Place[3] THEN 2
    ELSE IF n < Place[4] THEN 3 ELSE IF n < Place[5] THEN 4 ELSE 5

\* Mutant: the digits in the wrong order.
encodeLengthSwapped(n) ==
    LET k == DigitsOf(n) IN
    [i \in 1..k |-> ((n \div Place[k - i + 1]) % 128) + (IF i < k THEN 128 ELSE 0)]

encodeLength(n) ==
    LET k == DigitsOf(n) IN
    [i \in 1..k |-> ((n \div Place[i]) % 128) + (IF i < k THEN 128 ELSE 0)]

-----------------------------------------------------------------------------
\* Arithmetic of uint32_t with an int on the right.

\* Mutant: _remainLen is signed.
SignedLength(v) == v

Unsigned(v) == IF v < 0 THEN v + Word ELSE v

Minus(a, b) ==
    IF b > a THEN a - b + Word ELSE IF a - b >= Word THEN a - b - Word ELSE a - b

\* The kinds of fields; the values of names, flags and codes are examined,
\* and gzip may not be able to expand what it is given.
Fixed == {"u8", "flag", "u16"}
Strings == {"name", "string", "gzip"}
Examined == {"name", "flag", "gzip"}
FixedSize(k) == IF k = "u16" THEN 2 ELSE 1

kMsgConnect == 1
kMsgPingReq == 3
kMsgDisconnect == 5
kMsgSendReq == 6

\* The fields that the Decode of each message reads.
ConnectDecode == <<"name", "flag", "flag", "u16", "gzip">>
ConnAckDecode == <<"flag", "flag">>
PingReqDecode == <<>>
PingRespDecode == <<>>
DisconnectDecode == <<"u8">>
SendReqDecode == <<"u16", "string", "gzip">>
SendRespDecode == <<"u16", "gzip">>

\* By MessageType.
Layout ==
    <<ConnectDecode, ConnAckDecode, PingReqDecode, PingRespDecode,
      DisconnectDecode, SendReqDecode, SendRespDecode>>

HasData(f) == f \div 8 = 1

Body(t, f) ==
    IF t = kMsgSendReq /\ HasData(f) THEN Layout[t] \o <<"gzip">> ELSE Layout[t]

-----------------------------------------------------------------------------
Message == [own : BOOLEAN, type : 0..15, flags : 0..15, strings : Seq(Nat)]

Foreign == [own |-> FALSE, type |-> 0, flags |-> 0, strings |-> <<>>]

\* A message of the client's; strings gives the lengths as they are written.
Own(t, f, strings) == [own |-> TRUE, type |-> t, flags |-> f, strings |-> strings]

\* What gzip returns is never empty.
Zipped == Sizes \ {0}

\* A string with its length in front.
setString(n) == Len(encodeLength(n)) + n

\* The bytes of the i-th field if its size is fixed, and of the i-th string.
FixedAt(fields, i) ==
    IF i <= Len(fields) /\ fields[i] \in Fixed THEN FixedSize(fields[i]) ELSE 0

StringAt(strings, i) == IF i <= Len(strings) THEN setString(strings[i]) ELSE 0

\* A message has at most five fields, of which at most three are strings.
FixedLen(fields) ==
    FixedAt(fields, 1) + FixedAt(fields, 2) + FixedAt(fields, 3) + FixedAt(fields, 4)
      + FixedAt(fields, 5)

StringLen(strings) == StringAt(strings, 1) + StringAt(strings, 2) + StringAt(strings, 3)

\* totalPayloadLen.
Total(m) == FixedLen(Layout[m.type]) + StringLen(m.strings)

-----------------------------------------------------------------------------
Init ==
    /\ pc = "idle" /\ sent = Foreign /\ todo = <<>>
    /\ frame = 0 /\ remaining = 0 /\ consumed = 0
    /\ bad = FALSE /\ why = "none"

\* Longer messages are refused before anything is written.
EncodeMessage(m) ==
    /\ pc = "idle"
    /\ Total(m) <= MaxPayload
    /\ sent' = m
    /\ pc' = "header"
    /\ UNCHANGED <<todo, frame, remaining, consumed, bad, why>>

ConnectEncode == \E p \in Zipped : EncodeMessage(Own(kMsgConnect, 0, <<5, p>>))

PingEncode == EncodeMessage(Own(kMsgPingReq, 0, <<>>))

DisconnectEncode == EncodeMessage(Own(kMsgDisconnect, 0, <<>>))

\* The flags are the reply level and a bit for data.  Empty data are announced
\* and not written.
SendReqEncode ==
    \E l \in 0..2, t \in Sizes, p \in Zipped :
        \/ EncodeMessage(Own(kMsgSendReq, 2 * l, <<t, p>>))
        \/ \E d \in Sizes :
              EncodeMessage(Own(kMsgSendReq, 2 * l + 8,
                                IF d = 0 THEN <<t, p>> ELSE <<t, p, d>>))

PeerWrites ==
    /\ pc = "idle"
    /\ pc' = "header"
    /\ UNCHANGED <<sent, todo, frame, remaining, consumed, bad, why>>

Throw(e) ==
    /\ pc' = "error"
    /\ why' = e
    /\ UNCHANGED <<sent, todo, frame, remaining, consumed>>

\* recv fails or the socket is closed by the other side.
SocketFails ==
    /\ pc \in {"header", "body"}
    /\ Throw("socket") /\ UNCHANGED bad

\* A length without end is not refused here: it is -1, the largest uint32_t.
DecodeHeader(t, f, s) ==
    /\ pc = "header"
    /\ IsEncoding(s)
    /\ \/ /\ t \notin DOMAIN Layout
          /\ Throw("type") /\ UNCHANGED bad
       \/ /\ t \in DOMAIN Layout
          /\ HasData(f) \/ f % 2 = 1
          /\ Throw("flag") /\ UNCHANGED bad
       \/ /\ t \in DOMAIN Layout
          /\ ~(HasData(f) \/ f % 2 = 1)
          /\ bad' = Unending(s)
          /\ frame' = Unsigned(decodeLength(s).value)
          /\ remaining' = frame'
          /\ consumed' = 0
          /\ todo' = Body(t, f)
          /\ pc' = "body"
          /\ UNCHANGED <<sent, why>>

GetFixed ==
    /\ pc = "body" /\ todo # <<>> /\ Head(todo) \in Fixed
    /\ LET n == FixedSize(Head(todo)) IN
       \/ remaining < n /\ Throw("exceeds")
       \/ /\ remaining >= n
          /\ remaining' = Minus(remaining, n)
          /\ consumed' = consumed + n
          /\ todo' = Tail(todo)
          /\ UNCHANGED <<pc, sent, frame, why>>
    /\ UNCHANGED bad

\* getString, getGzipString, getData and getGzipData.  A negative length that
\* passes the test is that of an array: what happens then is undefined, and
\* the call does not return.
GetString(s) ==
    /\ pc = "body" /\ todo # <<>> /\ Head(todo) \in Strings
    /\ IsEncoding(s)
    /\ bad' = (bad \/ Unending(s))
    /\ LET d == decodeLength(s)
           left == Minus(remaining, d.size)
       IN
       \/ left < Unsigned(d.value) /\ Throw("exceeds")
       \/ /\ left >= Unsigned(d.value) /\ d.value < 0
          /\ pc' = "stuck"
          /\ UNCHANGED <<sent, todo, frame, remaining, consumed, why>>
       \/ /\ left >= Unsigned(d.value) /\ d.value >= 0
          /\ remaining' = Minus(left, d.value)
          /\ consumed' = consumed + Len(s) + d.value
          /\ todo' = Tail(todo)
          /\ sent' = IF sent.own THEN [sent EXCEPT !.strings = Tail(@)] ELSE sent
          /\ UNCHANGED <<pc, frame, why>>

\* An unknown protocol, version, flag or return code, or broken gzip data.
Refuse ==
    /\ pc = "body" /\ todo # <<>> /\ Head(todo) \in Examined
    /\ ~sent.own
    /\ Throw("value") /\ UNCHANGED bad

\* Mutant: what is left of the message is not looked at.
FinishLax ==
    /\ pc = "body" /\ todo = <<>>
    /\ pc' = "done"
    /\ UNCHANGED <<sent, todo, frame, remaining, consumed, bad, why>>

Finish ==
    /\ pc = "body" /\ todo = <<>>
    /\ \/ remaining # 0 /\ Throw("long")
       \/ /\ remaining = 0
          /\ pc' = "done"
          /\ UNCHANGED <<sent, todo, frame, remaining, consumed, why>>
    /\ UNCHANGED bad

\* The next message, after an error that of a new connection.
Again ==
    /\ pc \in {"done", "error", "stuck"}
    /\ pc' = "idle" /\ sent' = Foreign /\ todo' = <<>>
    /\ frame' = 0 /\ remaining' = 0 /\ consumed' = 0
    /\ bad' = FALSE /\ why' = "none"

-----------------------------------------------------------------------------
OwnHeader ==
    sent.own /\ DecodeHeader(sent.type, sent.flags, encodeLength(Total(sent)))

PeerHeader ==
    /\ pc = "header" /\ ~sent.own
    /\ \E t \in 0..15, f \in 0..15, s \in HeaderLengths : DecodeHeader(t, f, s)

OwnString ==
    sent.own /\ sent.strings # <<>> /\ GetString(encodeLength(Head(sent.strings)))

PeerString ==
    pc = "body" /\ ~sent.own /\ \E s \in FieldLengths : GetString(s)

Next ==
    \/ ConnectEncode \/ PingEncode \/ DisconnectEncode \/ SendReqEncode \/ PeerWrites
    \/ OwnHeader \/ PeerHeader \/ GetFixed \/ OwnString \/ PeerString
    \/ Refuse \/ SocketFails \/ Finish \/ Again

Spec == Init /\ [][Next]_vars

-----------------------------------------------------------------------------
Errors == {"none", "socket", "type", "flag", "exceeds", "value", "long"}

TypeOK ==
    /\ pc \in {"idle", "header", "body", "done", "error", "stuck"}
    /\ sent \in Message
    /\ todo \in Seq(Fixed \cup Strings) /\ Len(todo) <= 5
    /\ frame \in 0..(Word - 1) /\ remaining \in 0..(Word - 1)
    /\ consumed \in Nat
    /\ bad \in BOOLEAN
    /\ why \in Errors

(***************************************************************************)
(* A message that is decoded without an exception leaves the stream at the *)
(* first byte of the next one: as many bytes were read as its header says, *)
(* although the count of remaining bytes wraps when a length takes more    *)
(* bytes than are left (encoding.cpp:74-87).                               *)
(***************************************************************************)
FrameConsumed == pc = "done" => consumed = frame

(***************************************************************************)
(* No message with a length that has no end is accepted, although          *)
(* decodeLength reports it as a number and no caller tests for it          *)
(* (encoding.cpp:27, fix_header.cpp:40-41).                                *)
(***************************************************************************)
BadLengthRefused == bad => pc # "done"

(***************************************************************************)
(* What the client encodes is decoded again, unless the socket fails or    *)
(* the message carries data: the bit that announces data (message.cpp:186) *)
(* is one that FixHeader::Decode refuses (fix_header.cpp:33).              *)
(***************************************************************************)
OwnMessageAccepted ==
    /\ sent.own /\ pc = "error" /\ ~HasData(sent.flags) => why = "socket"
    /\ sent.own => pc # "stuck"
    /\ sent.own /\ pc = "done" => sent.strings = <<>>

(***************************************************************************)
(* The inductive invariant of the first two: the count is the number of    *)
(* bytes left, or has wrapped once; no field takes more than a length of   *)
(* four bytes and as many bytes as it tells.                               *)
(***************************************************************************)
FieldMax == Place[5] + 3

CountInv ==
    pc \in {"body", "done"} =>
        /\ consumed <= (5 - Len(todo)) * FieldMax
        /\ \/ remaining = frame - consumed
           \/ remaining - Word = frame - consumed
        /\ bad => frame = Word - 1

IInv == TypeOK /\ CountInv

(***************************************************************************)
(* The inductive invariant of the third: of a message of the client, as    *)
(* many strings are left as fields that read one, and what is left of the  *)
(* message is as long as the header says.                                  *)
(***************************************************************************)
StringAmong(fields, i) == IF i <= Len(fields) /\ fields[i] \in Strings THEN 1 ELSE 0

StringsIn(fields) ==
    StringAmong(fields, 1) + StringAmong(fields, 2) + StringAmong(fields, 3)
      + StringAmong(fields, 4) + StringAmong(fields, 5)

OwnInv ==
    sent.own =>
        /\ pc # "idle" /\ Len(sent.strings) <= 3
        /\ pc = "header" =>
              /\ sent.type \in DOMAIN Layout /\ sent.flags % 2 = 0
              /\ Total(sent) <= MaxPayload
              /\ HasData(sent.flags) \/ StringsIn(Layout[sent.type]) = Len(sent.strings)
        /\ pc = "body" =>
              /\ StringsIn(todo) = Len(sent.strings)
              /\ remaining = FixedLen(todo) + StringLen(sent.strings)
              /\ remaining <= MaxPayload
=============================================================================
