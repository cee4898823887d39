------------------------- MODULE WireExchangeProofs -------------------------
(***************************************************************************)
(* That calls and answers are understood across the codecs of client and   *)
(* nodes, for every table of keys, store, call and width: the safety       *)
(* properties of WireExchange, from one inductive invariant.               *)
(***************************************************************************)
EXTENDS WireCodecProofs

-----------------------------------------------------------------------------
(* Responses.                                                              *)

\* A call that has been sent to one of the project's nodes, whose keys have
\* the values that they had.
Ready ==
  /\ node \in {"embassy", "tokio"} /\ IsCall(call) /\ Encodable(call)
  /\ TableOk /\ IsName(nodeId)
  /\ \A i \in DOMAIN Keys : "R" \in Keys[i].flags => IsValue(before[i])

\* What AnswersAreUnderstood asks of an outcome and of the store that goes
\* with it, when the whole frame of the call has been read.
Right(o, s) ==
  \/ o = <<"i/o error">> /\ s = before /\ Unsendable
  \/ /\ o = Result /\ ~Unsendable
     /\ s = IF Accepted THEN [before EXCEPT ![SlotOf(call.keyref)] = call.value] ELSE before

\* What the call makes of a frame that a node builds for it.
LEMMA FrameReturned ==
  ASSUME NEW op \in Ops, op \in {Expects(call.op), "@"}, NEW p \in Seq(Byte), Len(p) <= MaxU16
  PROVE  SendFrame(op, p) # NoReply /\ Returned(SendFrame(op, p)) = Message(op, p)
<1> DEFINE r == [op |-> op, payload |-> p, check |-> Checksum(op, p)]
<1>1. Len(p) \in Nat /\ Len(p) <= MaxLength
  BY LenProperties, WidthU16, MaxLengthType
<1>2. SendFrame(op, p) = r
  BY <1>1, WidthU16 DEF SendFrame, FrameOf
<1>3. SumOk(r)
  BY <1>1, FrameSums
<1>4. r.op = op /\ r.payload = p /\ op # "closed" /\ op # "none"
  BY DEF Ops, EmptyOps, KeyrefOps
<1>5. r # Closed /\ r # NoReply
  BY <1>4 DEF Closed, NoReply
<1> HIDE DEF r
<1>6. QED
  BY <1>2, <1>3, <1>4, <1>5 DEF Returned

\* A call on a stream that ends returns the error of the transport.
LEMMA ClosedReturned ==
  Closed # NoReply /\ Returned(Closed) = <<"i/o error">>
<1>1. Closed # NoReply
  BY DEF Closed, NoReply
<1>2. QED
  BY <1>1 DEF Returned

\* What the call makes of an error response is its code.
LEMMA ErrorReturned ==
  ASSUME NEW code \in Byte
  PROVE  Error(code) # NoReply /\ Returned(Error(code)) = <<"error", code>>
<1> DEFINE p == <<code>>
<1>1. p \in Seq(Byte) /\ Len(p) = 1 /\ p[1] = code
  OBVIOUS
<1>2. "@" \in Ops /\ "@" \in {Expects(call.op), "@"}
  BY DEF Ops
<1> HIDE DEF p
<1>3. Len(p) <= MaxU16
  BY <1>1, WidthU16
<1>4. SendFrame("@", p) # NoReply /\ Returned(SendFrame("@", p)) = Message("@", p)
  BY <1>1, <1>2, <1>3, FrameReturned
<1>5. Message("@", p) = <<"error", code>>
  BY <1>1 DEF Message
<1>6. QED
  BY <1>4, <1>5 DEF Error, p

\* The string responses: their checksum is over pieces, and is that of the whole.
LEMMA Str16Returned ==
  ASSUME NEW op \in Ops, op = Expects(call.op), NEW a \in Seq(Byte), Len(a) <= 1,
         NEW t \in Seq(Byte)
  PROVE  /\ SendStr16(op, a, t) # NoReply
         /\ Len(t) > MaxU16 - Len(a) - 2 => Returned(SendStr16(op, a, t)) = <<"i/o error">>
         /\ ~(Len(t) > MaxU16 - Len(a) - 2) =>
              /\ Len(t) <= MaxLength
              /\ Returned(SendStr16(op, a, t)) = Message(op, a \o Str16(t))
<1>1. CASE Len(t) > MaxU16 - Len(a) - 2
  BY <1>1, ClosedReturned DEF SendStr16
<1>2. CASE ~(Len(t) > MaxU16 - Len(a) - 2)
  <2> DEFINE u == U16(Len(t))
             p == a \o (u \o t)
  <2>1. PICK l \in Nat : l = Len(t)
    BY LenProperties
  <2>2. PICK k \in Nat : k = Len(a)
    BY LenProperties
  <2>3. l + k + 2 <= MaxU16 /\ l <= MaxLength /\ k + 2 + l <= MaxLength
    BY <1>2, <2>1, <2>2, WidthU16, MaxLengthType
  <2>4. u \in Seq(Byte) /\ Len(u) = 2
    BY <2>1, <2>3, U16Bytes
  <2> HIDE DEF u
  <2>5. /\ p \in Seq(Byte) /\ Len(p) = Len(a) + Len(u) + Len(t)
        /\ SegmentedChecksum(op, <<a, u, t>>) = Checksum(op, p)
    <3>1. Len(a) + Len(u) + Len(t) <= MaxLength
      BY <2>1, <2>2, <2>3, <2>4
    <3>2. QED
      BY <2>4, <3>1, SegmentsSum
  <2>6. SendStr16(op, a, t) =
          [op |-> op, payload |-> p, check |-> SegmentedChecksum(op, <<a, u, t>>)]
    BY <1>2 DEF SendStr16, Str16, u
  <2> HIDE DEF p
  <2>7. Len(p) <= MaxU16 /\ ~(Len(p) > MaxU16)
    BY <2>1, <2>2, <2>3, <2>4, <2>5, WidthU16
  <2>8. SendStr16(op, a, t) = SendFrame(op, p)
    BY <2>5, <2>6, <2>7 DEF SendFrame, FrameOf
  <2>9. SendFrame(op, p) # NoReply /\ Returned(SendFrame(op, p)) = Message(op, p)
    BY <2>5, <2>7, FrameReturned
  <2>10. p = a \o Str16(t)
    BY DEF p, u, Str16
  <2>11. QED
    BY <1>2, <2>1, <2>3, <2>8, <2>9, <2>10
<1>3. QED
  BY <1>1, <1>2

\* A value in a response.
LEMMA ValueReturned ==
  ASSUME NEW op \in {"g", "w"}, op = Expects(call.op), NEW v, IsValue(v)
  PROVE  /\ SendValue(op, v) # NoReply
         /\ HasNul(v) \/ Len(EncodeValue(v)) > MaxU16 =>
              Returned(SendValue(op, v)) = <<"i/o error">>
         /\ ~(HasNul(v) \/ Len(EncodeValue(v)) > MaxU16) =>
              Returned(SendValue(op, v)) = <<"value", v>>
<1> DEFINE e == EncodeValue(v)
<1>1. CASE HasNul(v) \/ Len(e) > MaxU16
  <2>1. SendValue(op, v) = Closed
    BY <1>1 DEF SendValue, SendFrame
  <2>2. QED
    BY <1>1, <2>1, ClosedReturned
<1>2. CASE ~(HasNul(v) \/ Len(e) > MaxU16)
  <2>1. e \in Seq(Nat) /\ (v[1] = "str" => Len(e) = 3 + Len(v[2]) /\ Len(v[2]) \in Nat)
    <3>1. v[1] = "str" => v[2] \in Seq(Byte)
      BY ValueKinds DEF IsText, Byte
    <3>2. QED
      BY <3>1, EncodedLength, LenProperties
  <2>2. Len(e) \in Nat /\ Len(e) <= MaxU16
    <3>1. Len(e) \in Nat
      BY <2>1, LenProperties
    <3> HIDE DEF e
    <3>2. QED
      BY <1>2, <3>1, WidthU16
  <2> HIDE DEF e
  <2>3. v[1] = "str" => Len(v[2]) <= MaxLength
    BY <2>1, <2>2, WidthU16, MaxLengthType
  <2>4. e \in Seq(Byte) /\ DecodeValue(0, e) = Request(0, Raw(v))
    BY <1>2, <2>3, EncodedValue, ValueReadBack DEF e
  <2>5. op \in Ops
    BY DEF Ops
  <2>6. SendFrame(op, e) # NoReply /\ Returned(SendFrame(op, e)) = Message(op, e)
    BY <2>2, <2>4, <2>5, FrameReturned
  <2>7. Owned(DecodeValue(0, e).value) = v /\ v # NoValue
    BY <2>4, RawOwned, NotNoValue, RequestParts
  <2>8. Message(op, e) = <<"value", v>>
    BY <2>7 DEF Message
  <2>9. SendValue(op, v) = SendFrame(op, e)
    BY <1>2 DEF SendValue, e
  <2>10. QED
    BY <1>2, <2>6, <2>8, <2>9 DEF e
<1>3. QED
  BY <1>1, <1>2

-----------------------------------------------------------------------------
(* Answers.                                                                *)

\* A name that is sent is read back.
LEMMA NameRead ==
  ASSUME NEW t, IsName(t), Len(t) <= MaxLength
  PROVE  /\ t \in Seq(Byte) /\ Str16(t) \in Seq(Byte)
         /\ IsStr16(Str16(t)) /\ Text16(Str16(t)) = t
<1>1. t \in Seq(Byte) /\ IsUtf8(t) /\ 0 \notin Elements(t)
  BY DEF IsName, IsText, Byte
<1>2. QED
  BY <1>1, Str16Read

\* A name is a sequence of bytes.
LEMMA NameType == \A t : IsName(t) => t \in Seq(Byte) /\ Len(t) \in Nat
  BY LenProperties DEF IsName, IsText, Byte

\* A string that is all of a response.
LEMMA PlainReturned ==
  ASSUME NEW op \in Ops, op = Expects(call.op), NEW t \in Seq(Byte)
  PROVE  /\ SendStr16(op, <<>>, t) # NoReply
         /\ Len(t) > MaxU16 - 2 => Returned(SendStr16(op, <<>>, t)) = <<"i/o error">>
         /\ ~(Len(t) > MaxU16 - 2) =>
              /\ Len(t) <= MaxLength
              /\ Returned(SendStr16(op, <<>>, t)) = Message(op, <<>> \o Str16(t))
<1> DEFINE a == <<>>
<1>1. a \in Seq(Byte) /\ Len(a) = 0
  BY EmptySeq
<1> HIDE DEF a
<1>2. Len(a) <= 1 /\ MaxU16 - Len(a) - 2 = MaxU16 - 2
  BY <1>1, WidthU16
<1>3. /\ SendStr16(op, a, t) # NoReply
      /\ Len(t) > MaxU16 - Len(a) - 2 => Returned(SendStr16(op, a, t)) = <<"i/o error">>
      /\ ~(Len(t) > MaxU16 - Len(a) - 2) =>
           /\ Len(t) <= MaxLength
           /\ Returned(SendStr16(op, a, t)) = Message(op, a \o Str16(t))
  BY <1>1, <1>2, Str16Returned
<1>4. QED
  BY <1>2, <1>3 DEF a

\* The requests without a keyref.
LEMMA ConstantAnswered ==
  ASSUME Ready, call.op \in EmptyOps
  PROVE  AnswerConstant(call.op) # NoReply /\ Right(Returned(AnswerConstant(call.op)), before)
<1>1. ~Accepted /\ call.op \notin KeyrefOps \cup {"W"}
  BY DEF Accepted, EmptyOps, KeyrefOps
<1>2. CASE call.op = "P"
  <2>1. AnswerConstant(call.op) = SendFrame("k", <<>>) /\ Expects(call.op) = "k"
    BY <1>2 DEF AnswerConstant, Expects
  <2>2. <<>> \in Seq(Byte) /\ Len(<<>>) <= MaxU16 /\ "k" \in Ops
    BY EmptySeq, WidthU16 DEF Ops
  <2>3. /\ SendFrame("k", <<>>) # NoReply
        /\ Returned(SendFrame("k", <<>>)) = Message("k", <<>>)
    BY <2>1, <2>2, FrameReturned
  <2>4. Message("k", <<>>) = <<"ok">>
    BY DEF Message
  <2>5. Result = <<"ok">>
    BY <1>1, <1>2 DEF Result
  <2>6. ~Unsendable
    BY <2>5 DEF Unsendable
  <2>7. QED
    BY <1>1, <2>1, <2>3, <2>4, <2>5, <2>6 DEF Right
<1>3. CASE call.op = "I"
  <2>1. AnswerConstant(call.op) = SendStr16("i", <<>>, nodeId) /\ Expects(call.op) = "i"
    BY <1>3 DEF AnswerConstant, Expects
  <2>2. /\ <<>> \in Seq(Byte) /\ Len(<<>>) = 0 /\ "i" \in Ops
        /\ nodeId \in Seq(Byte) /\ Len(nodeId) \in Nat
    BY EmptySeq, WidthU16, NameType DEF Ops, Ready
  <2>3. Result = <<"id", nodeId>>
    BY <1>1, <1>3 DEF Result
  <2>4. Unsendable <=> Len(nodeId) > MaxU16 - 2
    BY <2>3 DEF Unsendable
  <2>5. /\ SendStr16("i", <<>>, nodeId) # NoReply
        /\ Len(nodeId) > MaxU16 - 2 => Returned(SendStr16("i", <<>>, nodeId)) = <<"i/o error">>
        /\ ~(Len(nodeId) > MaxU16 - 2) =>
             /\ Len(nodeId) <= MaxLength
             /\ Returned(SendStr16("i", <<>>, nodeId)) = Message("i", <<>> \o Str16(nodeId))
    BY <2>1, <2>2, PlainReturned
  <2>6. CASE Unsendable
    BY <2>1, <2>4, <2>5, <2>6 DEF Right
  <2>7. CASE ~Unsendable
    <3>1. Str16(nodeId) \in Seq(Byte) /\ IsStr16(Str16(nodeId)) /\ Text16(Str16(nodeId)) = nodeId
      BY <2>4, <2>5, <2>7, NameRead DEF Ready
    <3>2. <<>> \o Str16(nodeId) = Str16(nodeId)
      BY <3>1, ConcatEmptySeq
    <3>3. Message("i", Str16(nodeId)) = <<"id", nodeId>>
      BY <3>1 DEF Message
    <3>4. QED
      BY <1>1, <2>1, <2>3, <2>4, <2>5, <2>7, <3>2, <3>3 DEF Right
  <2>8. QED
    BY <2>6, <2>7
<1>4. CASE call.op = "?"
  <2>1. AnswerConstant(call.op) = SendStr16(":", <<>>, Caps) /\ Expects(call.op) = ":"
    BY <1>4 DEF AnswerConstant, Expects
  <2>2. /\ <<>> \in Seq(Byte) /\ Len(<<>>) = 0 /\ ":" \in Ops /\ Caps \in Seq(Byte)
        /\ ~(Len(Caps) > MaxU16 - 2)
    BY EmptySeq, WidthU16, CapsText DEF Ops
  <2>3. Result = <<"caps", Caps>>
    BY <1>1, <1>4 DEF Result
  <2>4. ~Unsendable
    BY <2>3 DEF Unsendable
  <2>5. /\ SendStr16(":", <<>>, Caps) # NoReply /\ Len(Caps) <= MaxLength
        /\ Returned(SendStr16(":", <<>>, Caps)) = Message(":", <<>> \o Str16(Caps))
    BY <2>1, <2>2, PlainReturned
  <2>6. Str16(Caps) \in Seq(Byte) /\ IsStr16(Str16(Caps)) /\ Text16(Str16(Caps)) = Caps
    BY <2>5, CapsText, Str16Read
  <2>7. <<>> \o Str16(Caps) = Str16(Caps)
    BY <2>6, ConcatEmptySeq
  <2>8. Message(":", Str16(Caps)) = <<"caps", Caps>>
    BY <2>6, CapsText DEF Message
  <2>9. QED
    BY <1>1, <2>1, <2>3, <2>4, <2>5, <2>7, <2>8 DEF Right
<1>5. CASE call.op = "C"
  <2> DEFINE p == U16(KeyCount)
  <2>1. AnswerConstant(call.op) = SendFrame("c", p) /\ Expects(call.op) = "c"
    BY <1>5 DEF AnswerConstant, Expects
  <2>2. KeyCount \in Nat /\ KeyCount <= MaxLength
    BY KeyCountCounts, WidthU16, MaxLengthType DEF Ready
  <2>3. p \in Seq(Byte) /\ Len(p) = 2 /\ Big(p) = KeyCount
    BY <2>2, U16Bytes
  <2> HIDE DEF p
  <2>4. Len(p) <= MaxU16 /\ "c" \in Ops
    BY <2>3, WidthU16 DEF Ops
  <2>5. SendFrame("c", p) # NoReply /\ Returned(SendFrame("c", p)) = Message("c", p)
    BY <2>1, <2>3, <2>4, FrameReturned
  <2>6. Message("c", p) = <<"count", KeyCount>>
    BY <2>3 DEF Message
  <2>7. Result = <<"count", Cardinality({j \in 0 .. MaxU16 : ~Unknown(j)})>>
    BY <1>1, <1>5 DEF Result
  <2>8. Result = <<"count", KeyCount>>
    BY <2>7, KeyCountCounts DEF Ready
  <2>9. ~Unsendable
    BY <2>8 DEF Unsendable
  <2>10. QED
    BY <1>1, <2>1, <2>5, <2>6, <2>8, <2>9 DEF Right
<1>6. QED
  BY <1>2, <1>3, <1>4, <1>5 DEF EmptyOps

\* A request with a keyref that no key has or follows.
LEMMA UnknownAnswered ==
  ASSUME Ready, call.op \in KeyrefOps \cup {"W"}, call.keyref >= KeyCount
  PROVE  Error(1) # NoReply /\ Right(Returned(Error(1)), before)
<1>1. call.keyref \in 0 .. MaxU16
  BY CallKinds, WidthU16 DEF Ready
<1>2. Unknown(call.keyref)
  BY <1>1, KeyCountCounts DEF Ready
<1>3. call.op \notin {"P", "I", "?", "C"}
  BY DEF KeyrefOps
<1>4. Result = <<"error", 1>>
  BY <1>2, <1>3 DEF Result
<1>5. ~Unsendable
  BY <1>4 DEF Unsendable
<1>6. ~Accepted
  <2>1. SUFFICES ASSUME Accepted PROVE FALSE
    OBVIOUS
  <2>2. call.keyref # MaxU16 /\ call.keyref \in Keyrefs
    BY <2>1 DEF Accepted, Allowed
  <2>3. call.keyref < call.keyref
    BY <1>2, <2>2 DEF Unknown
  <2>4. QED
    BY <1>1, <2>3, WidthU16
<1>7. 1 \in Byte
  BY DEF Byte
<1>8. QED
  BY <1>4, <1>5, <1>6, <1>7, ErrorReturned DEF Right

\* The result of a call whose keyref is below the count.
LEMMA KnownKeyref ==
  ASSUME Ready, call.op \in KeyrefOps \cup {"W"}, ~(call.keyref >= KeyCount)
  PROVE  /\ ~Unknown(call.keyref) /\ call.keyref \in Nat /\ call.keyref # MaxU16
         /\ call.op = "U" => Result = <<"ok">>
         /\ call.op = "S" =>
              Result = IF call.keyref \in Keyrefs
                         THEN <<"key", FlagBits(Keys[SlotOf(call.keyref)].flags),
                                Keys[SlotOf(call.keyref)].name>>
                         ELSE <<"key", 0, <<>>>>
         /\ call.op \in {"G", "W", "N"} =>
              IF ~Allowed(call.op, call.keyref) THEN Result = <<"error", 2>>
              ELSE /\ call.op = "N" => Result = <<"ok">>
                   /\ call.op = "G" => Result = <<"value", before[SlotOf(call.keyref)]>>
                   /\ call.op = "W" =>
                        Result = IF Accepted THEN <<"value", call.value>> ELSE <<"error", 3>>
<1>1. call.keyref \in 0 .. MaxU16
  BY CallKinds, WidthU16 DEF Ready
<1>2. ~Unknown(call.keyref)
  BY <1>1, KeyCountCounts DEF Ready
<1>3. call.keyref \in Nat /\ call.keyref # MaxU16
  BY <1>1, <1>2, WidthU16 DEF Unknown
<1>4. call.op \notin {"P", "I", "?", "C"}
  BY DEF KeyrefOps
<1> DEFINE key == Keys[SlotOf(call.keyref)]
           Rest ==
             CASE call.op = "U" -> <<"ok">>
               [] call.op = "S" -> IF call.keyref \in Keyrefs THEN <<"key", FlagBits(key.flags), key.name>>
                                                    ELSE <<"key", 0, <<>>>>
               [] call.op \in {"G", "W", "N"} /\ ~Allowed(call.op, call.keyref) -> <<"error", 2>>
               [] call.op = "N" /\ Allowed("N", call.keyref) -> <<"ok">>
               [] call.op = "G" /\ Allowed("G", call.keyref) -> <<"value", before[SlotOf(call.keyref)]>>
               [] call.op = "W" /\ Allowed("W", call.keyref) ->
                    IF Accepted THEN <<"value", call.value>> ELSE <<"error", 3>>
<1>5. Result = Rest
  BY <1>2, <1>4 DEF Result
<1>6. CASE call.op = "U"
  BY <1>2, <1>3, <1>5, <1>6
<1>7. CASE call.op = "S"
  BY <1>2, <1>3, <1>5, <1>7
<1>8. CASE call.op = "N"
  BY <1>2, <1>3, <1>5, <1>8
<1>9. CASE call.op = "G"
  BY <1>2, <1>3, <1>5, <1>9
<1>10. CASE call.op = "W"
  BY <1>2, <1>3, <1>5, <1>10
<1>11. QED
  BY <1>6, <1>7, <1>8, <1>9, <1>10 DEF KeyrefOps

\* GETKEY of a keyref below the count, of a key or of none.
LEMMA KeyAnswered ==
  ASSUME Ready, call.op = "S", ~(call.keyref >= KeyCount)
  PROVE  AnswerKey(call.keyref) # NoReply /\ Right(Returned(AnswerKey(call.keyref)), before)
<1> DEFINE k == call.keyref
<1>1. ~Accepted /\ Expects(call.op) = "s" /\ "s" \in Ops
  BY DEF Accepted, Expects, Ops
<1>2. Result =
        IF k \in Keyrefs THEN <<"key", FlagBits(Keys[SlotOf(k)].flags), Keys[SlotOf(k)].name>>
                                ELSE <<"key", 0, <<>>>>
  BY KnownKeyref DEF KeyrefOps
<1>3. CASE k \in Keyrefs
  <2> DEFINE t == Keys[SlotOf(k)].name
             bits == FlagBits(Keys[SlotOf(k)].flags)
             a == <<bits>>
  <2>1. AnswerKey(k) = SendStr16("s", a, t)
    BY <1>3 DEF AnswerKey
  <2>2. IsName(t)
    BY <1>3, SlotFound DEF Ready, TableOk
  <2>3. bits \in Nat /\ bits < 8
    BY DEF FlagBits
  <2> HIDE DEF t, bits
  <2>4. bits \in Byte
    BY <2>3 DEF Byte
  <2>5. a \in Seq(Byte) /\ Len(a) = 1
    BY <2>4
  <2>6. Result = <<"key", bits, t>>
    BY <1>2, <1>3 DEF t, bits
  <2>7. Unsendable <=> Len(t) > MaxU16 - 3
    BY <2>6 DEF Unsendable
  <2>8. t \in Seq(Byte)
    BY <2>2, NameType
  <2> HIDE DEF a
  <2>9. /\ Len(a) <= 1 /\ MaxU16 - Len(a) - 2 = MaxU16 - 3
    BY <2>5, WidthU16
  <2>10. /\ SendStr16("s", a, t) # NoReply
         /\ Len(t) > MaxU16 - 3 => Returned(SendStr16("s", a, t)) = <<"i/o error">>
         /\ ~(Len(t) > MaxU16 - 3) =>
              /\ Len(t) <= MaxLength
              /\ Returned(SendStr16("s", a, t)) = Message("s", a \o Str16(t))
    <3>1. /\ SendStr16("s", a, t) # NoReply
          /\ Len(t) > MaxU16 - Len(a) - 2 => Returned(SendStr16("s", a, t)) = <<"i/o error">>
          /\ ~(Len(t) > MaxU16 - Len(a) - 2) =>
               /\ Len(t) <= MaxLength
               /\ Returned(SendStr16("s", a, t)) = Message("s", a \o Str16(t))
      BY <1>1, <2>5, <2>8, <2>9, Str16Returned
    <3>2. QED
      BY <2>9, <3>1
  <2>11. CASE Unsendable
    BY <2>1, <2>7, <2>10, <2>11 DEF Right
  <2>12. CASE ~Unsendable
    <3>1. Str16(t) \in Seq(Byte) /\ IsStr16(Str16(t)) /\ Text16(Str16(t)) = t
      BY <2>2, <2>7, <2>10, <2>12, NameRead
    <3>2. LET p == a \o Str16(t) IN p # <<>> /\ p[1] = bits /\ Tail(p) = Str16(t)
      BY <2>4, <3>1, AfterFirst DEF a
    <3>3. Message("s", a \o Str16(t)) = <<"key", bits, t>>
      BY <2>3, <3>1, <3>2 DEF Message
    <3>4. QED
      BY <1>1, <2>1, <2>6, <2>7, <2>10, <2>12, <3>3 DEF Right
  <2>13. QED
    BY <2>11, <2>12
<1>4. CASE k \notin Keyrefs
  <2> DEFINE p == <<0, 0, 0>>
             q == <<0, 0>>
  <2>1. AnswerKey(k) = SendFrame("s", p)
    BY <1>4 DEF AnswerKey
  <2>2. Result = <<"key", 0, <<>>>>
    BY <1>2, <1>4
  <2>3. ~Unsendable
    <3>1. ~(Len(<<>>) > MaxU16 - 3)
      BY EmptySeq, WidthU16
    <3>2. QED
      BY <2>2, <3>1 DEF Unsendable
  <2>4. /\ p # <<>> /\ p[1] = 0 /\ Tail(p) = q /\ Len(p) = 3 /\ p \in Seq({0})
    OBVIOUS
  <2>5. q = Str16(<<>>)
    BY EmptySeq DEF Str16, U16
  <2>6. p \in Seq(Byte)
    <3>1. 0 \in Byte
      BY DEF Byte
    <3>2. QED
      BY <3>1
  <2> HIDE DEF p, q
  <2>7. <<>> \in Seq(Byte) /\ Len(<<>>) <= MaxLength
    BY EmptySeq, MaxLengthType
  <2>8. IsStr16(q) /\ Text16(q) = <<>>
    <3>1. 0 \notin Elements(<<>>)
      BY DEF Elements
    <3>2. IsUtf8(<<>>)
      BY EmptySeq DEF IsUtf8, TextUpTo
    <3>3. QED
      BY <2>5, <2>7, <3>1, <3>2, Str16Read
  <2>9. Len(p) <= MaxU16
    BY <2>4, WidthU16
  <2>10. SendFrame("s", p) # NoReply /\ Returned(SendFrame("s", p)) = Message("s", p)
    BY <1>1, <2>6, <2>9, FrameReturned
  <2>11. Message("s", p) = <<"key", 0, <<>>>>
    <3>1. p # <<>> /\ p[1] = 0 /\ Tail(p) = q
      BY <2>4
    <3>2. p[1] < 8
      BY <3>1
    <3>3. Message("s", p) = <<"key", p[1], Text16(Tail(p))>>
      BY <2>8, <3>1, <3>2 DEF Message
    <3>4. QED
      BY <2>8, <3>1, <3>3
  <2>12. QED
    BY <1>1, <2>1, <2>2, <2>3, <2>10, <2>11 DEF Right
<1>5. QED
  BY <1>3, <1>4

\* What the call makes of an empty response.
LEMMA OkReturned ==
  ASSUME Expects(call.op) = "k"
  PROVE  SendFrame("k", <<>>) # NoReply /\ Returned(SendFrame("k", <<>>)) = <<"ok">>
<1>1. <<>> \in Seq(Byte) /\ Len(<<>>) <= MaxU16 /\ "k" \in Ops
  BY EmptySeq, WidthU16 DEF Ops
<1>2. /\ SendFrame("k", <<>>) # NoReply
      /\ Returned(SendFrame("k", <<>>)) = Message("k", <<>>)
  BY <1>1, FrameReturned
<1>3. Message("k", <<>>) = <<"ok">>
  BY DEF Message
<1>4. QED
  BY <1>2, <1>3

\* A key that has the flag a request needs.
LEMMA AllowedSlot ==
  ASSUME Ready, NEW op, Allowed(op, call.keyref)
  PROVE  /\ call.keyref \in Keyrefs /\ SlotOf(call.keyref) \in DOMAIN Keys
         /\ Needs(op) \in Keys[SlotOf(call.keyref)].flags
  BY SlotFound DEF Ready, Allowed

\* The requests with a keyref, but WRITE.
LEMMA KeyrefAnswered ==
  ASSUME Ready, call.op \in KeyrefOps, store = before
  PROVE  /\ AnswerKeyref(call.op, call.keyref) # NoReply
         /\ Right(Returned(AnswerKeyref(call.op, call.keyref)), before)
<1> DEFINE k == call.keyref
           r == AnswerKeyref(call.op, k)
<1>1. ~Accepted
  BY DEF Accepted, KeyrefOps
<1>2. k \in Nat /\ KeyCount \in Nat
  BY CallKinds, KeyCountCounts, WidthU16 DEF Ready
<1>3. CASE k >= KeyCount
  <2>1. r = Error(1)
    <3>1. ~(k < KeyCount)
      BY <1>2, <1>3
    <3>2. AnswerKey(k) = Error(1)
      BY <1>3 DEF AnswerKey
    <3>3. QED
      BY <1>3, <3>1, <3>2 DEF AnswerKeyref, KeyrefOps
  <2>2. QED
    BY <1>3, <2>1, UnknownAnswered
<1>4. CASE ~(k >= KeyCount)
  <2>1. k < KeyCount
    BY <1>2, <1>4
  <2>2. CASE call.op = "S"
    BY <1>4, <2>2, KeyAnswered DEF AnswerKeyref
  <2>3. CASE call.op = "U"
    <3>1. r = SendFrame("k", <<>>) /\ Expects(call.op) = "k"
      BY <1>4, <2>1, <2>3 DEF AnswerKeyref, Expects
    <3>2. Result = <<"ok">>
      BY <1>4, <2>3, KnownKeyref DEF KeyrefOps
    <3>3. ~Unsendable
      BY <3>2 DEF Unsendable
    <3>4. QED
      BY <1>1, <3>1, <3>2, <3>3, OkReturned DEF Right
  <2>4. CASE call.op \in {"G", "N"} /\ ~Allowed(call.op, k)
    <3>1. r = Error(2)
      BY <1>4, <2>1, <2>4 DEF AnswerKeyref
    <3>2. Result = <<"error", 2>>
      BY <1>4, <2>4, KnownKeyref DEF KeyrefOps
    <3>3. ~Unsendable
      BY <3>2 DEF Unsendable
    <3>4. 2 \in Byte
      BY DEF Byte
    <3>5. QED
      BY <1>1, <3>1, <3>2, <3>3, <3>4, ErrorReturned DEF Right
  <2>5. CASE call.op = "N" /\ Allowed(call.op, k)
    <3>1. r = SendFrame("k", <<>>) /\ Expects(call.op) = "k"
      BY <1>4, <2>1, <2>5 DEF AnswerKeyref, Expects
    <3>2. Result = <<"ok">>
      BY <1>4, <2>5, KnownKeyref DEF KeyrefOps
    <3>3. ~Unsendable
      BY <3>2 DEF Unsendable
    <3>4. QED
      BY <1>1, <3>1, <3>2, <3>3, OkReturned DEF Right
  <2>6. CASE call.op = "G" /\ Allowed(call.op, k)
    <3> DEFINE v == before[SlotOf(k)]
    <3>1. r = SendValue("g", v) /\ Expects(call.op) = "g"
      BY <1>4, <2>1, <2>6 DEF AnswerKeyref, Expects
    <3>2. Result = <<"value", v>>
      BY <1>4, <2>6, KnownKeyref DEF KeyrefOps
    <3>3. IsValue(v)
      BY <2>6, AllowedSlot DEF Ready, Needs
    <3> HIDE DEF v
    <3>4. Unsendable <=> HasNul(v) \/ Len(EncodeValue(v)) > MaxU16
      BY <3>2 DEF Unsendable
    <3>5. /\ SendValue("g", v) # NoReply
          /\ Unsendable => Returned(SendValue("g", v)) = <<"i/o error">>
          /\ ~Unsendable => Returned(SendValue("g", v)) = <<"value", v>>
      BY <3>1, <3>3, <3>4, ValueReturned
    <3>6. QED
      BY <1>1, <3>1, <3>2, <3>5 DEF Right
  <2>7. QED
    BY <2>2, <2>3, <2>4, <2>5, <2>6 DEF KeyrefOps
<1>5. QED
  BY <1>3, <1>4

\* WRITE.
LEMMA WriteAnswered ==
  ASSUME Ready, call.op = "W", store = before, NEW v, NEW decoded,
         Allowed("W", call.keyref) =>
           decoded = IF Fits(call.value, TypeAt(call.keyref)) THEN call.value ELSE NoValue,
         AnswerWrite(call.keyref, v, decoded)
  PROVE  reply' # NoReply /\ \E s : s = store' /\ Right(Returned(reply'), s)
<1> DEFINE k == call.keyref
<1>1. IsValue(call.value)
  BY CallKinds DEF Ready, EmptyOps, KeyrefOps
<1>2. k \in Nat /\ KeyCount \in Nat
  BY CallKinds, KeyCountCounts, WidthU16 DEF Ready
<1>3. CASE k >= KeyCount
  <2>1. reply' = Error(1) /\ store' = before
    BY <1>3 DEF AnswerWrite
  <2>2. QED
    BY <1>3, <2>1, UnknownAnswered
<1>4. CASE ~(k >= KeyCount) /\ ~Allowed("W", k)
  <2>1. reply' = Error(2) /\ store' = before
    BY <1>4 DEF AnswerWrite
  <2>2. Result = <<"error", 2>> /\ ~Accepted
    BY <1>4, KnownKeyref DEF Accepted
  <2>3. ~Unsendable
    BY <2>2 DEF Unsendable
  <2>4. 2 \in Byte
    BY DEF Byte
  <2>5. QED
    BY <2>1, <2>2, <2>3, <2>4, ErrorReturned DEF Right
<1>5. CASE ~(k >= KeyCount) /\ Allowed("W", k)
  <2>1. k # MaxU16 /\ Result = IF Accepted THEN <<"value", call.value>> ELSE <<"error", 3>>
    BY <1>5, KnownKeyref
  <2>2. Accepted <=> Fits(call.value, TypeAt(k))
    BY <1>5, <2>1 DEF Accepted
  <2>3. decoded = IF Accepted THEN call.value ELSE NoValue
    BY <1>5, <2>2
  <2>4. CASE ~Accepted
    <3>1. reply' = Error(3) /\ store' = before
      BY <1>5, <2>3, <2>4 DEF AnswerWrite
    <3>2. Result = <<"error", 3>>
      BY <2>1, <2>4
    <3>3. ~Unsendable
      BY <3>2 DEF Unsendable
    <3>4. 3 \in Byte
      BY DEF Byte
    <3>5. QED
      BY <2>4, <3>1, <3>2, <3>3, <3>4, ErrorReturned DEF Right
  <2>5. CASE Accepted
    <3>1. decoded = call.value /\ decoded # NoValue
      BY <1>1, <2>3, <2>5, NotNoValue
    <3>2. /\ store' = [before EXCEPT ![SlotOf(k)] = call.value]
          /\ reply' = SendValue("w", call.value)
      BY <1>5, <3>1 DEF AnswerWrite
    <3>3. Result = <<"value", call.value>> /\ Expects(call.op) = "w"
      BY <2>1, <2>5 DEF Expects
    <3>4. ~HasNul(call.value) /\ ~(Len(EncodeValue(call.value)) > MaxU16)
      <4>1. ~HasNul(call.value) /\ Len(CallPayload(call)) <= MaxU16
        BY DEF Ready, Encodable
      <4>2. /\ Len(EncodeValue(call.value)) \in Nat
            /\ Len(CallPayload(call)) = 2 + Len(EncodeValue(call.value))
        BY WriteLength DEF Ready
      <4>3. QED
        BY <4>1, <4>2, WidthU16
    <3>5. ~Unsendable
      BY <3>3, <3>4 DEF Unsendable
    <3>6. /\ SendValue("w", call.value) # NoReply
          /\ Returned(SendValue("w", call.value)) = <<"value", call.value>>
      BY <1>1, <3>3, <3>4, ValueReturned
    <3>7. QED
      BY <2>5, <3>2, <3>3, <3>5, <3>6 DEF Right
  <2>6. QED
    BY <2>4, <2>5
<1>6. QED
  BY <1>3, <1>4, <1>5

-----------------------------------------------------------------------------
(* The invariant.                                                          *)

\* The call that a client has made, if it made one.
CallInv ==
  /\ node \in {"embassy", "tokio", "foreign"}
  /\ call = NoCall => node = "embassy" /\ pc # "call"
  /\ call # NoCall => IsCall(call)
  /\ call # NoCall /\ node # "foreign" => nodeId \in NodeIds[node] /\ before \in Stores[node]
  /\ node = "foreign" => call.op = "?"

\* What the call returns is what it makes of the answer.
ReturnInv == outcome # Pending => reply # NoReply /\ outcome = Returned(reply)

\* The call is not on the stream yet, has failed, or finds the stream broken.
Unsent ==
  /\ frame = [op |-> "none", payload |-> <<>>, sumOk |-> TRUE]
  /\ read = 0 /\ added = 0 /\ left = 0 /\ fault = FALSE /\ tail = <<>>
  /\ keyref = 0 /\ value = NoValue
  /\ \/ pc = "call" /\ verdict = "reading" /\ reply = NoReply /\ outcome = Pending
     \/ /\ pc = "done" /\ verdict = "reading" /\ reply = NoReply
        /\ outcome = <<"invalid input">> /\ ~Encodable(call)
     \/ pc = "done" /\ verdict = "reject" /\ node = "embassy" /\ ReturnInv

\* The frame is the call's.
OnTheStream ==
  /\ frame = [op |-> call.op, payload |-> CallPayload(call), sumOk |-> TRUE]
  /\ Encodable(call) /\ ReturnInv

\* What the node has answered is what the call has to return.
AnswerInv ==
  /\ reply = NoReply => store = before
  /\ reply # NoReply /\ node = "embassy" => pc = "done"
  /\ reply # NoReply /\ call # NoCall /\ node # "foreign" =>
       \/ Right(Returned(reply), store)
       \/ /\ node = "embassy" /\ read < FrameLen
          /\ reply = Closed /\ store = before
  /\ reply # NoReply /\ node = "foreign" => \E t \in CapsTexts : reply = FrameOf(":", Str16(t))

WireInv ==
  /\ CallInv /\ AnswerInv
  /\ call # NoCall => Unsent \/ OnTheStream
  /\ ~(call # NoCall /\ Unsent) => TypeInv /\ AgreeInv

\* The reader before its first read, of any frame.
Fresh ==
  /\ IsFrame(frame) /\ pc = "header" /\ read = 0 /\ added = 0 /\ left = 0 /\ fault = FALSE
  /\ tail = <<>> /\ keyref = 0 /\ value = NoValue /\ verdict = "reading"

\* The streaming reader's invariants hold before it reads any frame.
LEMMA FreshReader == Fresh => TypeInv /\ AgreeInv
<1> SUFFICES ASSUME Fresh PROVE TypeInv /\ AgreeInv
  OBVIOUS
<1>1. <<>> \in Seq(Byte) /\ Len(<<>>) = 0 /\ Len(<<>>) < 4
  BY EmptySeq
<1>2. tail \in Seq(Byte) /\ Len(tail) < 4
  BY <1>1 DEF Fresh
<1>3. LengthInv
  BY DEF Fresh, LengthInv, Lengths
<1>4. 0 <= MaxLength
  BY MaxLengthType
<1>5. TypeInv
  BY <1>2, <1>3, <1>4 DEF Fresh, TypeInv
<1>6. AgreeInv
  BY DEF Fresh, AgreeInv
<1>7. QED
  BY <1>5, <1>6

\* The two kinds of states in which no step of the reader can be taken but that
\* the stream breaks.
LEMMA NoStep ==
  /\ pc = "done" => ~Next
  /\ pc = "call" /\ Next => Break
  BY DEF Next, ReadHeader, ReadKeyref, ReadKind, ReadBool, ReadI64, ReadStrLen, ReadStr,
         Feed, FeedDone, DiscardStep, FinishChecksum, Break

\* A call is made before its frame is on the stream, and one frame is not another.
LEMMA Phases ==
  ASSUME WireInv
  PROVE  /\ pc = "call" => call # NoCall /\ Unsent
         /\ call # NoCall => IsCall(call)
         /\ call = NoCall \/ ~Unsent => TypeInv /\ AgreeInv
         /\ call # NoCall /\ ~Unsent => OnTheStream
         /\ call # NoCall /\ OnTheStream => ~Unsent
<1>1. pc = "call" => call # NoCall
  BY DEF WireInv, CallInv
<1>2. TypeInv => pc # "call"
  BY DEF TypeInv, LengthInv
<1>3. call # NoCall => IsCall(call)
  BY DEF WireInv, CallInv
<1>4. call # NoCall => call.op # "none"
  BY <1>3, CallKinds DEF ValidOpcode, EmptyOps, KeyrefOps
<1>5. call # NoCall /\ OnTheStream => ~Unsent
  BY <1>4 DEF OnTheStream, Unsent
<1>6. QED
  BY <1>1, <1>2, <1>3, <1>5 DEF WireInv

\* What the protocol makes of a call depends on the node, its keys and values,
\* and the call alone.
LEMMA ResultStays ==
  ASSUME UNCHANGED <<node, nodeId, before, call>>
  PROVE  /\ Returned(reply)' = Returned(reply')
         /\ Right(Returned(reply), store)' <=> Right(Returned(reply'), store')
<1>1. Returned(reply)' = Returned(reply')
  BY DEF Returned
<1>2. Keys' = Keys
  BY DEF Keys
<1>3. Keyrefs' = Keyrefs
  BY <1>2 DEF Keyrefs
<1>4. \A k : SlotOf(k)' = SlotOf(k)
  BY <1>2 DEF SlotOf
<1>5. Caps' = Caps
  BY <1>2 DEF Caps
<1>6. \A k : Unknown(k)' <=> Unknown(k)
  BY <1>3 DEF Unknown
<1>7. \A op, k : Allowed(op, k)' <=> Allowed(op, k)
  BY <1>2, <1>3, <1>4 DEF Allowed
<1>8. \A k : TypeAt(k)' = TypeAt(k)
  BY <1>2, <1>3, <1>4 DEF TypeAt
<1>9. Accepted' <=> Accepted
  BY <1>7, <1>8 DEF Accepted
<1>10. Result' = Result
  BY <1>2, <1>3, <1>4, <1>5, <1>6, <1>7, <1>9 DEF Result
<1>11. Unsendable' <=> Unsendable
  BY <1>10 DEF Unsendable
<1>12. QED
  BY <1>1, <1>4, <1>9, <1>10, <1>11 DEF Right

\* The table of a node of the project, as the invariant's lemmas want it.
LEMMA ReadyCall ==
  ASSUME WireInv, call # NoCall, OnTheStream, node # "foreign"
  PROVE  Ready
<1>1. /\ node \in {"embassy", "tokio"} /\ IsCall(call)
      /\ nodeId \in NodeIds[node] /\ before \in Stores[node]
  BY DEF WireInv, CallInv
<1>2. IsTable(node) /\ IsName(nodeId)
  BY <1>1, NodeAssumption
<1>3. TableOk
  BY <1>2 DEF IsTable, TableOk, Keys
<1>4. \A i \in DOMAIN Keys : "R" \in Keys[i].flags => IsValue(before[i])
  BY <1>1, <1>2 DEF IsTable, Keys
<1>5. QED
  BY <1>1, <1>2, <1>3, <1>4 DEF Ready, OnTheStream

\* A frame that build_frame has built is one that the reader can be given.
LEMMA BuiltFrame ==
  ASSUME NEW op, NEW p \in Seq(Byte), Len(p) <= MaxLength
  PROVE  IsFrame([op |-> op, payload |-> p, sumOk |-> TRUE])
<1>1. p \in Seq(0 .. 255)
  BY DEF Byte
<1>2. Len(p) <= 65535
  BY DEF MaxLength
<1>3. QED
  BY <1>1, <1>2 DEF IsFrame

\* What the parser of whole frames makes of the call on the stream.
LEMMA SentParsed ==
  ASSUME call # NoCall, IsCall(call), OnTheStream
  PROVE  /\ frame.op = call.op /\ IsFrame(frame)
         /\ Parsed(frame) = Request(call.keyref, Carried(call))
         /\ Owned(Carried(call)) = call.value
<1>1. /\ CallPayload(call) \in Seq(Byte) /\ Len(CallPayload(call)) <= MaxLength
      /\ Decode(call.op, CallPayload(call)) = Request(call.keyref, Carried(call))
      /\ Owned(Carried(call)) = call.value
  BY CallRead DEF OnTheStream
<1>2. frame.op = call.op /\ frame.payload = CallPayload(call) /\ frame.sumOk = TRUE
  BY DEF OnTheStream
<1>3. ValidOpcode(call.op)
  BY CallKinds
<1>4. IsFrame(frame)
  BY <1>1, BuiltFrame DEF OnTheStream
<1>5. QED
  BY <1>1, <1>2, <1>3, <1>4 DEF Parsed

\* A call is put on the stream, or refused: the frame is one that both readers take.
LEMMA SendStep == WireInv /\ SendCall => WireInv'
<1> SUFFICES ASSUME WireInv, SendCall PROVE WireInv'
  OBVIOUS
<1>1. /\ pc = "call" /\ UNCHANGED <<node, nodeId, store, before, call, reply>>
      /\ UNCHANGED <<read, added, left, fault, tail, keyref, value, verdict>>
  BY DEF SendCall
<1>2. call # NoCall /\ IsCall(call) /\ Unsent
  BY <1>1, Phases
<1>3. /\ reply = NoReply /\ read = 0 /\ added = 0 /\ left = 0 /\ fault = FALSE /\ tail = <<>>
      /\ keyref = 0 /\ value = NoValue /\ verdict = "reading" /\ outcome = Pending
  BY <1>1, <1>2 DEF Unsent
<1>4. CASE Encodable(call)
  <2>1. /\ frame' = [op |-> call.op, payload |-> CallPayload(call),
                     sumOk |-> SumOk(FrameOf(call.op, CallPayload(call)))]
        /\ pc' = "header" /\ UNCHANGED outcome
    BY <1>4 DEF SendCall
  <2>2. /\ CallPayload(call) \in Seq(Byte) /\ Len(CallPayload(call)) <= MaxLength
        /\ call.op \in Ops
    BY <1>2, <1>4, CallRead, CallKinds
  <2>3. SumOk(FrameOf(call.op, CallPayload(call))) = TRUE
    BY <2>2, FrameSums DEF FrameOf, SumOk
  <2>4. OnTheStream'
    BY <1>1, <1>3, <1>4, <2>1, <2>3 DEF OnTheStream, ReturnInv
  <2>5. IsFrame(frame)'
    BY <2>1, <2>2, <2>3, BuiltFrame
  <2>6. Fresh'
    BY <1>1, <1>3, <2>1, <2>5 DEF Fresh
  <2>7. TypeInv' /\ AgreeInv'
    BY <2>6, FreshReader, PTL
  <2>8. CallInv'
    BY <1>1, <2>1 DEF WireInv, CallInv
  <2>9. AnswerInv'
    BY <1>1, <1>3 DEF WireInv, AnswerInv
  <2>10. QED
    BY <2>4, <2>7, <2>8, <2>9 DEF WireInv
<1>5. CASE ~Encodable(call)
  <2>1. pc' = "done" /\ outcome' = <<"invalid input">> /\ UNCHANGED frame
    BY <1>5 DEF SendCall
  <2>2. Unsent'
    BY <1>1, <1>2, <1>3, <1>5, <2>1 DEF Unsent
  <2>3. CallInv'
    BY <1>1, <2>1 DEF WireInv, CallInv
  <2>4. AnswerInv'
    BY <1>1, <1>3 DEF WireInv, AnswerInv
  <2>5. (call # NoCall)'
    BY <1>1, <1>2 DEF NoCall
  <2>6. QED
    BY <2>2, <2>3, <2>4, <2>5 DEF WireInv
<1>6. QED
  BY <1>4, <1>5

\* The streaming reader leaves the call and the answers alone.
LEMMA ReaderStep == WireInv /\ ReadStep => WireInv'
<1> SUFFICES ASSUME WireInv, ReadStep PROVE WireInv'
  OBVIOUS
<1>1. /\ node = "embassy" /\ Next
      /\ UNCHANGED <<node, nodeId, store, before, call, reply, outcome>>
  BY DEF ReadStep, wireVars
<1>2. pc # "done" /\ frame' = frame /\ pc' # "call"
  BY <1>1, NoStep DEF Next, ReadHeader, ReadKeyref, ReadKind, ReadBool, ReadI64, ReadStrLen,
     ReadStr, Feed, FeedDone, DiscardStep, FinishChecksum, Break, Discard
<1>3. reply = NoReply /\ store = before
  BY <1>1, <1>2 DEF WireInv, AnswerInv
<1>4. CallInv' /\ AnswerInv'
  BY <1>1, <1>2, <1>3 DEF WireInv, CallInv, AnswerInv, NoCall, NoReply
<1>5. CASE call # NoCall /\ Unsent
  <2>1. pc = "call" /\ verdict = "reading" /\ outcome = Pending
    BY <1>2, <1>5 DEF Unsent
  <2>2. Break
    BY <1>1, <2>1, NoStep
  <2>3. Unsent'
    BY <1>1, <1>5, <2>1, <2>2 DEF Unsent, Break, ReturnInv
  <2>4. QED
    BY <1>1, <1>4, <1>5, <2>3 DEF WireInv
<1>6. CASE call = NoCall \/ ~Unsent
  <2>1. TypeInv /\ AgreeInv
    BY <1>6, Phases
  <2>2. TypeInv' /\ AgreeInv'
    BY <1>1, <2>1, TypeStep, AgreeStep
  <2>3. call # NoCall => OnTheStream'
    <3>1. SUFFICES ASSUME call # NoCall PROVE OnTheStream'
      OBVIOUS
    <3>2. OnTheStream /\ outcome = Pending
      BY <1>3, <1>6, <3>1, Phases DEF OnTheStream, ReturnInv
    <3>3. QED
      BY <1>1, <1>2, <3>2 DEF OnTheStream, ReturnInv
  <2>4. QED
    BY <1>1, <1>4, <2>2, <2>3 DEF WireInv
<1>7. QED
  BY <1>5, <1>6

\* The node answers: the reader and the call stay, and the answer is right.
LEMMA AnswerKeeps ==
  ASSUME WireInv, reply = NoReply, reply' # NoReply,
         UNCHANGED <<vars, node, nodeId, before, call, outcome>>,
         pc # "call", ~(call # NoCall /\ Unsent /\ verdict # "reject"),
         node = "embassy" => pc = "done",
         call # NoCall /\ node # "foreign" =>
           \/ Right(Returned(reply'), store')
           \/ node = "embassy" /\ read < FrameLen /\ reply' = Closed /\ store' = before,
         node = "foreign" => \E t \in CapsTexts : reply' = FrameOf(":", Str16(t))
  PROVE  WireInv'
<1>1. /\ UNCHANGED <<frame, read, added, pc, left, fault, tail, keyref, value, verdict>>
      /\ UNCHANGED <<node, nodeId, before, call, outcome>>
  BY DEF vars
<1>2. CallInv'
  BY <1>1 DEF WireInv, CallInv, NoCall
<1>3. FrameLen' = FrameLen
  BY <1>1 DEF FrameLen, PayloadLen
<1>4. AnswerInv'
  <2>1. Right(Returned(reply), store)' <=> Right(Returned(reply'), store')
    BY <1>1, ResultStays
  <2>2. NoReply' = NoReply /\ NoCall' = NoCall /\ Closed' = Closed
    BY DEF NoReply, NoCall, Closed
  <2>3. QED
    BY <1>1, <1>3, <2>1, <2>2 DEF AnswerInv
<1>5. CASE call # NoCall /\ Unsent
  <2>1. pc = "done" /\ verdict = "reject" /\ node = "embassy" /\ ReturnInv
    BY <1>5 DEF Unsent
  <2>2. outcome = Pending
    BY <2>1 DEF ReturnInv
  <2>3. Unsent'
    BY <1>1, <1>5, <2>1, <2>2 DEF Unsent, ReturnInv
  <2>4. (call # NoCall)'
    BY <1>1, <1>5
  <2>5. QED
    BY <1>2, <1>4, <2>3, <2>4 DEF WireInv
<1>6. CASE call = NoCall \/ ~Unsent
  <2>1. TypeInv' /\ AgreeInv'
    BY <1>6, Phases, TypeStep, AgreeStep
  <2>2. call # NoCall => OnTheStream'
    <3>1. SUFFICES ASSUME call # NoCall PROVE OnTheStream'
      OBVIOUS
    <3>2. OnTheStream /\ outcome = Pending
      BY <1>6, <3>1, Phases DEF OnTheStream, ReturnInv
    <3>3. QED
      BY <1>1, <3>2 DEF OnTheStream, ReturnInv
  <2>3. QED
    BY <1>1, <1>2, <1>4, <2>1, <2>2 DEF WireInv
<1>7. QED
  BY <1>5, <1>6

\* The answer to the request as either reader gives it is right.
LEMMA DispatchRight ==
  ASSUME Ready, store = before, NEW v, NEW decoded,
         call.op = "W" /\ Allowed("W", call.keyref) =>
           decoded = IF Fits(call.value, TypeAt(call.keyref)) THEN call.value ELSE NoValue,
         Dispatch(call.op, call.keyref, v, decoded)
  PROVE  reply' # NoReply /\ Right(Returned(reply'), store')
<1>1. call.op \in EmptyOps \/ call.op \in KeyrefOps \/ call.op = "W"
  BY CallKinds DEF Ready
<1>2. CASE call.op = "W"
  BY <1>2, WriteAnswered DEF Dispatch
<1>3. CASE call.op \in EmptyOps
  <2>1. reply' = AnswerConstant(call.op) /\ store' = before
    BY <1>3 DEF Dispatch, EmptyOps
  <2>2. QED
    BY <1>3, <2>1, ConstantAnswered
<1>4. CASE call.op \in KeyrefOps
  <2>1. reply' = AnswerKeyref(call.op, call.keyref) /\ store' = before
    BY <1>4 DEF Dispatch, EmptyOps, KeyrefOps
  <2>2. QED
    BY <1>4, <2>1, KeyrefAnswered
<1>5. QED
  BY <1>1, <1>2, <1>3, <1>4

\* A response is a frame or the end of the connection, to any request.
LEMMA SomeFrame ==
  ASSUME NEW op, op # "none"
  PROVE  /\ \A p : SendFrame(op, p) # NoReply
         /\ \A a, t : SendStr16(op, a, t) # NoReply
         /\ \A v : SendValue(op, v) # NoReply
<1>1. /\ \A p, c : [op |-> op, payload |-> p, check |-> c] # NoReply
      /\ Closed # NoReply
  <2>1. \A p, c : [op |-> op, payload |-> p, check |-> c].op = op
    OBVIOUS
  <2>2. NoReply.op = "none" /\ Closed.op = "closed"
    BY DEF NoReply, Closed
  <2>3. QED
    BY <2>1, <2>2
<1>2. \A p : SendFrame(op, p) # NoReply
  BY <1>1, Zenon DEF SendFrame, FrameOf
<1>3. \A a, t : SendStr16(op, a, t) # NoReply
  BY <1>1, Zenon DEF SendStr16
<1>4. \A v : SendValue(op, v) # NoReply
  BY <1>1, <1>2, Zenon DEF SendValue
<1>5. QED
  BY <1>2, <1>3, <1>4

\* Every request that the reader serves is answered.
LEMMA SomeAnswer ==
  ASSUME TableOk, NEW op, ValidOpcode(op), NEW k \in Nat, NEW v, NEW decoded,
         Dispatch(op, k, v, decoded)
  PROVE  reply' # NoReply
<1>1. /\ "k" # "none" /\ "i" # "none" /\ ":" # "none" /\ "c" # "none" /\ "s" # "none"
      /\ "g" # "none" /\ "w" # "none" /\ "@" # "none"
  OBVIOUS
<1>2. \A code : Error(code) # NoReply
  BY <1>1, SomeFrame DEF Error
<1>3. KeyCount \in Nat
  BY KeyCountCounts, WidthU16
<1>4. CASE op = "W"
  <2>1. reply' \in {Error(1), Error(2), Error(3), SendValue("w", decoded)}
    BY <1>4 DEF Dispatch, AnswerWrite
  <2>2. QED
    BY <1>1, <1>2, <2>1, SomeFrame
<1>5. CASE op \in EmptyOps
  <2>1. reply' = AnswerConstant(op)
    BY <1>5 DEF Dispatch, EmptyOps
  <2>2. AnswerConstant(op) \in {SendFrame("k", <<>>), SendStr16("i", <<>>, nodeId),
                                SendStr16(":", <<>>, Caps), SendFrame("c", U16(KeyCount))}
    BY <1>5 DEF AnswerConstant, EmptyOps
  <2>3. QED
    BY <1>1, <2>1, <2>2, SomeFrame
<1>6. CASE op \in KeyrefOps
  <2>1. reply' = AnswerKeyref(op, k)
    BY <1>6 DEF Dispatch, EmptyOps, KeyrefOps
  <2>2. op = "S" => reply' = AnswerKey(k)
    BY <2>1 DEF AnswerKeyref
  <2>3. AnswerKey(k) # NoReply
    BY <1>1, <1>2, SomeFrame, Zenon DEF AnswerKey
  <2>4. op # "S" => reply' \in {Error(1), Error(2), SendFrame("k", <<>>),
                                SendValue("g", store[SlotOf(k)])}
    <3>1. k >= KeyCount \/ k < KeyCount
      BY <1>3
    <3>2. k >= KeyCount => ~(k < KeyCount)
      BY <1>3
    <3>3. QED
      BY <1>6, <2>1, <3>1, <3>2 DEF AnswerKeyref, KeyrefOps
  <2>5. QED
    BY <1>1, <1>2, <2>2, <2>3, <2>4, SomeFrame
<1>7. QED
  BY <1>4, <1>5, <1>6 DEF ValidOpcode

\* The answer of the embedded server to a request that it has read.
LEMMA EmbassyStep == WireInv /\ AnswerEmbassy => WireInv'
<1> SUFFICES ASSUME WireInv, AnswerEmbassy PROVE WireInv'
  OBVIOUS
<1>1. /\ node = "embassy" /\ verdict = "request" /\ reply = NoReply /\ store = before
      /\ Dispatch(frame.op, keyref, value, DecodeAs(TypeAt(keyref), value))
      /\ UNCHANGED <<vars, node, nodeId, before, call, outcome>>
  BY DEF AnswerEmbassy, WireInv, AnswerInv
<1>2. ~(call # NoCall /\ Unsent)
  BY <1>1 DEF Unsent
<1>3. TypeInv /\ AgreeInv
  BY <1>2, Phases
<1>4. pc = "done"
  BY <1>1, <1>3 DEF TypeInv, LengthInv
<1>5. CASE call = NoCall
  <2>1. reply' # NoReply
    <3>1. ValidOpcode(frame.op)
      BY <1>1, <1>3, Agreement, RequestParts DEF TypeInv, ReaderAgreesWithParser, Parsed
    <3>2. IsTable(node)
      BY <1>1, NodeAssumption
    <3>3. TableOk
      BY <3>2 DEF IsTable, TableOk, Keys
    <3>4. keyref \in Nat
      BY <1>3 DEF TypeInv
    <3>5. QED
      BY <1>1, <3>1, <3>3, <3>4, SomeAnswer
  <2>2. QED
    BY <1>1, <1>2, <1>4, <1>5, <2>1, AnswerKeeps
<1>6. CASE call # NoCall
  <2>1. OnTheStream /\ IsCall(call)
    BY <1>2, <1>6, Phases
  <2>2. Ready
    BY <1>1, <1>6, <2>1, ReadyCall
  <2>3. /\ frame.op = call.op /\ Parsed(frame) = Request(call.keyref, Carried(call))
    BY <1>6, <2>1, SentParsed
  <2>4. keyref = call.keyref /\ value = Known(Carried(call))
    BY <1>1, <1>3, <2>3, Agreement, RequestParts DEF TypeInv, ReaderAgreesWithParser
  <2>5. call.op = "W" /\ Allowed("W", call.keyref) =>
          DecodeAs(TypeAt(keyref), value) =
            IF Fits(call.value, TypeAt(call.keyref)) THEN call.value ELSE NoValue
    <3>1. SUFFICES ASSUME call.op = "W", Allowed("W", call.keyref)
                   PROVE  DecodeAs(TypeAt(keyref), value) =
                            IF Fits(call.value, TypeAt(call.keyref)) THEN call.value ELSE NoValue
      OBVIOUS
    <3>2. IsValue(call.value) /\ Carried(call) = Raw(call.value)
      BY <2>1, <3>1, CallKinds DEF Carried, EmptyOps, KeyrefOps
    <3>3. call.keyref \in Keyrefs /\ SlotOf(call.keyref) \in DOMAIN Keys
      BY <2>2, <3>1, AllowedSlot
    <3>4. EmbassyType(TypeAt(call.keyref))
      BY <1>1, <3>3, NodeAssumption DEF TypeAt, EmbassyType, Keys
    <3>5. QED
      BY <2>4, <3>2, <3>4, EmbassyTakes
  <2>6. Dispatch(call.op, call.keyref, value, DecodeAs(TypeAt(keyref), value))
    BY <1>1, <2>3, <2>4
  <2>7. reply' # NoReply /\ Right(Returned(reply'), store')
    BY <1>1, <2>2, <2>5, <2>6, DispatchRight
  <2>8. QED
    BY <1>1, <1>2, <1>4, <2>7, AnswerKeeps
<1>7. QED
  BY <1>5, <1>6

\* The embedded server hangs up on a call's frame only if the stream broke in it.
LEMMA HangUpStep == WireInv /\ HangUp => WireInv'
<1> SUFFICES ASSUME WireInv, HangUp PROVE WireInv'
  OBVIOUS
<1>1. /\ node = "embassy" /\ verdict = "reject" /\ reply = NoReply /\ store = before
      /\ reply' = Closed /\ store' = before
      /\ UNCHANGED <<vars, node, nodeId, before, call, outcome>>
  BY DEF HangUp, WireInv, AnswerInv
<1>2. reply' # NoReply
  BY <1>1, ClosedReturned
<1>3. pc = "done" /\ ~(call # NoCall /\ Unsent /\ verdict # "reject")
  <2>1. CASE call # NoCall /\ Unsent
    BY <1>1, <2>1 DEF Unsent
  <2>2. CASE call = NoCall \/ ~Unsent
    <3>1. TypeInv
      BY <2>2, Phases
    <3>2. QED
      BY <1>1, <3>1 DEF TypeInv, LengthInv
  <2>3. QED
    BY <1>1, <2>1, <2>2
<1>4. call # NoCall => read < FrameLen
  <2>1. CASE call # NoCall /\ Unsent
    <3>1. frame.payload = <<>> /\ read = 0
      BY <2>1 DEF Unsent
    <3>2. QED
      BY <3>1, EmptySeq DEF FrameLen, PayloadLen
  <2>2. CASE call # NoCall /\ ~Unsent
    <3>1. TypeInv /\ AgreeInv /\ OnTheStream /\ IsCall(call)
      BY <2>2, Phases
    <3>2. Parsed(frame).verdict = "request"
      BY <2>2, <3>1, SentParsed, RequestParts
    <3>3. read # FrameLen
      BY <1>1, <3>1, <3>2, Agreement DEF TypeInv, ReaderAgreesWithParser
    <3>4. read <= FrameLen /\ PayloadLen \in Nat /\ read \in Nat
      BY <3>1, NoByteBeyond, PayloadType DEF TypeInv, ServedWhole, LengthInv
    <3>5. QED
      BY <3>3, <3>4 DEF FrameLen
  <2>3. QED
    BY <2>1, <2>2
<1>5. QED
  BY <1>1, <1>2, <1>3, <1>4, AnswerKeeps

\* The answer of the test node to a frame that it has parsed.
LEMMA TokioStep == WireInv /\ AnswerTokio => WireInv'
<1> SUFFICES ASSUME WireInv, AnswerTokio PROVE WireInv'
  OBVIOUS
<1>1. /\ node = "tokio" /\ pc = "header" /\ reply = NoReply /\ store = before
      /\ UNCHANGED <<vars, node, nodeId, before, call, outcome>>
  BY DEF AnswerTokio, WireInv, AnswerInv
<1>2. call # NoCall
  BY <1>1 DEF WireInv, CallInv
<1>3. ~Unsent
  BY <1>1 DEF Unsent
<1>4. OnTheStream /\ IsCall(call) /\ Ready
  BY <1>1, <1>2, <1>3, Phases, ReadyCall
<1>5. frame.op = call.op /\ Parsed(frame) = Request(call.keyref, Carried(call))
  BY <1>2, <1>4, SentParsed
<1> DEFINE r == Parsed(frame)
<1>6. r.verdict = "request" /\ r.keyref = call.keyref /\ r.value = Carried(call)
  BY <1>5, RequestParts
<1>7. Dispatch(call.op, call.keyref, Carried(call), ExpectAs(TypeAt(call.keyref), Carried(call)))
  BY <1>5, <1>6 DEF AnswerTokio
<1>8. call.op = "W" /\ Allowed("W", call.keyref) =>
        ExpectAs(TypeAt(call.keyref), Carried(call)) =
          IF Fits(call.value, TypeAt(call.keyref)) THEN call.value ELSE NoValue
  <2>1. SUFFICES ASSUME call.op = "W", Allowed("W", call.keyref)
                 PROVE  ExpectAs(TypeAt(call.keyref), Carried(call)) =
                          IF Fits(call.value, TypeAt(call.keyref)) THEN call.value ELSE NoValue
    OBVIOUS
  <2>2. IsValue(call.value) /\ Carried(call) = Raw(call.value)
    BY <1>4, <2>1, CallKinds DEF Carried, EmptyOps, KeyrefOps
  <2>3. call.keyref \in Keyrefs /\ SlotOf(call.keyref) \in DOMAIN Keys
    BY <1>4, <2>1, AllowedSlot
  <2>4. TokioType(TypeAt(call.keyref))
    BY <1>1, <2>3, NodeAssumption DEF TypeAt, TokioType, Keys
  <2>5. QED
    BY <2>2, <2>4, TokioTakes
<1>9. reply' # NoReply /\ Right(Returned(reply'), store')
  BY <1>1, <1>4, <1>7, <1>8, DispatchRight
<1>10. QED
  BY <1>1, <1>3, <1>9, AnswerKeeps

\* Another node's answer.
LEMMA ForeignStep == WireInv /\ AnswerForeign => WireInv'
<1> SUFFICES ASSUME WireInv, AnswerForeign PROVE WireInv'
  OBVIOUS
<1>1. /\ node = "foreign" /\ pc = "header" /\ reply = NoReply
      /\ UNCHANGED <<vars, node, nodeId, before, store, call, outcome>>
  BY DEF AnswerForeign
<1>2. PICK t \in CapsTexts : reply' = FrameOf(":", Str16(t))
  BY DEF AnswerForeign
<1>3. reply' # NoReply
  <2>1. reply'.op = ":" /\ NoReply.op = "none"
    BY <1>2 DEF FrameOf, NoReply
  <2>2. QED
    BY <2>1
<1>4. ~Unsent
  BY <1>1 DEF Unsent
<1>5. QED
  BY <1>1, <1>2, <1>3, <1>4, AnswerKeeps

\* A call returns what it makes of the answer, and nothing else changes.
LEMMA ReturnStep == WireInv /\ Return => WireInv'
<1> SUFFICES ASSUME WireInv, Return PROVE WireInv'
  OBVIOUS
<1>1. /\ call # NoCall /\ reply # NoReply /\ outcome = Pending /\ outcome' = Returned(reply)
      /\ UNCHANGED <<vars, node, nodeId, before, store, call, reply>>
  BY DEF Return
<1>2. UNCHANGED <<frame, read, added, pc, left, fault, tail, keyref, value, verdict>>
  BY <1>1 DEF vars
<1>3. CallInv'
  BY <1>1, <1>2 DEF WireInv, CallInv, NoCall
<1>4. AnswerInv'
  <2>1. Right(Returned(reply), store)' <=> Right(Returned(reply'), store')
    BY <1>1, ResultStays
  <2>2. FrameLen' = FrameLen
    BY <1>2 DEF FrameLen, PayloadLen
  <2>3. reply' = reply /\ store' = store
    BY <1>1
  <2>4. QED
    BY <1>1, <1>2, <2>1, <2>2, <2>3 DEF WireInv, AnswerInv, NoReply, NoCall, Closed
<1>5. ReturnInv'
  BY <1>1, ResultStays DEF ReturnInv, NoReply
<1>6. Unsent => Unsent'
  BY <1>1, <1>2, <1>5 DEF Unsent
<1>7. OnTheStream => OnTheStream'
  BY <1>1, <1>2, <1>5 DEF OnTheStream
<1>8. CASE Unsent
  BY <1>1, <1>3, <1>4, <1>6, <1>8 DEF WireInv, NoCall
<1>9. CASE ~Unsent
  <2>1. TypeInv /\ AgreeInv /\ OnTheStream
    BY <1>1, <1>9, Phases
  <2>2. TypeInv' /\ AgreeInv'
    BY <1>1, <2>1, TypeStep, AgreeStep
  <2>3. QED
    BY <1>3, <1>4, <1>7, <2>1, <2>2 DEF WireInv
<1>10. QED
  BY <1>8, <1>9

\* The invariant holds of a call that has not been sent, and of any frame unread.
LEMMA InitStep == WireInit => WireInv
<1> SUFFICES ASSUME WireInit PROVE WireInv
  OBVIOUS
<1>1. /\ read = 0 /\ added = 0 /\ left = 0 /\ fault = FALSE /\ tail = <<>>
      /\ keyref = 0 /\ value = NoValue /\ verdict = "reading"
      /\ reply = NoReply /\ outcome = Pending /\ before = store
  BY DEF WireInit
<1>2. ReturnInv
  BY <1>1 DEF ReturnInv
<1>3. AnswerInv
  BY <1>1 DEF AnswerInv
<1>4. ASSUME NEW c, IsCall(c) PROVE c # NoCall
  <2>1. c.op # "none"
    BY <1>4, CallKinds DEF ValidOpcode, EmptyOps, KeyrefOps
  <2>2. NoCall.op = "none"
    BY DEF NoCall
  <2>3. QED
    BY <2>1, <2>2
<1>5. CASE node = "embassy" /\ call = NoCall /\ frame \in Frames /\ pc = "header"
  <2>1. IsFrame(frame)
    BY <1>5, ReaderAssumption
  <2>2. TypeInv /\ AgreeInv
    BY <1>1, <1>5, <2>1, FreshReader DEF Fresh
  <2>3. CallInv
    BY <1>5 DEF CallInv
  <2>4. QED
    BY <1>3, <1>5, <2>2, <2>3 DEF WireInv
<1>6. CASE /\ node \in {"embassy", "tokio"} /\ call \in Calls
           /\ frame = [op |-> "none", payload |-> <<>>, sumOk |-> TRUE] /\ pc = "call"
           /\ nodeId \in NodeIds[node] /\ store \in Stores[node]
  <2>1. IsCall(call) /\ call # NoCall
    BY <1>4, <1>6, CallAssumption
  <2>2. Unsent
    BY <1>1, <1>6 DEF Unsent
  <2>3. CallInv
    BY <1>1, <1>6, <2>1 DEF CallInv
  <2>4. QED
    BY <1>3, <2>1, <2>2, <2>3 DEF WireInv
<1>7. CASE /\ node = "foreign" /\ call = [NoCall EXCEPT !.op = "?"]
           /\ frame = [op |-> "none", payload |-> <<>>, sumOk |-> TRUE] /\ pc = "call"
  <2>1. call.op = "?" /\ call.keyref = 0 /\ call.value = NoValue
    BY <1>7 DEF NoCall
  <2>2. 0 \in 0 .. MaxU16
    BY WidthU16
  <2>3. IsCall(call)
    BY <2>1, <2>2 DEF IsCall, EmptyOps
  <2>4. call # NoCall
    BY <1>4, <2>3
  <2>5. Unsent
    BY <1>1, <1>7 DEF Unsent
  <2>6. CallInv
    BY <1>7, <2>1, <2>3, <2>4 DEF CallInv
  <2>7. QED
    BY <1>3, <2>4, <2>5, <2>6 DEF WireInv
<1>8. QED
  BY <1>5, <1>6, <1>7 DEF WireInit

\* The invariant speaks of the variables alone.
LEMMA QuietStep == WireInv /\ UNCHANGED <<vars, wireVars>> => WireInv'
<1> SUFFICES ASSUME WireInv, UNCHANGED <<vars, wireVars>> PROVE WireInv'
  OBVIOUS
<1>1. /\ UNCHANGED <<frame, read, added, pc, left, fault, tail, keyref, value, verdict>>
      /\ UNCHANGED <<node, nodeId, store, before, call, reply, outcome>>
  BY DEF vars, wireVars
<1>2. CallInv'
  BY <1>1 DEF WireInv, CallInv, NoCall
<1>3. AnswerInv'
  <2>1. Right(Returned(reply), store)' <=> Right(Returned(reply'), store')
    BY <1>1, ResultStays
  <2>2. FrameLen' = FrameLen
    BY <1>1 DEF FrameLen, PayloadLen
  <2>3. reply' = reply /\ store' = store
    BY <1>1
  <2>4. QED
    BY <1>1, <2>1, <2>2, <2>3 DEF WireInv, AnswerInv, NoReply, NoCall, Closed
<1>4. ReturnInv => ReturnInv'
  BY <1>1, ResultStays DEF ReturnInv, NoReply
<1>5. (Unsent => Unsent') /\ (OnTheStream => OnTheStream')
  BY <1>1, <1>4 DEF Unsent, OnTheStream
<1>6. TypeInv /\ AgreeInv => TypeInv' /\ AgreeInv'
  BY TypeStep, AgreeStep
<1>7. CASE call # NoCall /\ Unsent
  BY <1>1, <1>2, <1>3, <1>5, <1>7 DEF WireInv, NoCall
<1>8. CASE call = NoCall \/ ~Unsent
  BY <1>1, <1>2, <1>3, <1>5, <1>6, <1>8 DEF WireInv, NoCall
<1>9. QED
  BY <1>7, <1>8

\* Every step keeps the invariant.
LEMMA WireInvStep == WireInv /\ [WireNext]_<<vars, wireVars>> => WireInv'
<1> SUFFICES ASSUME WireInv, [WireNext]_<<vars, wireVars>> PROVE WireInv'
  OBVIOUS
<1>1. CASE SendCall
  BY <1>1, SendStep
<1>2. CASE ReadStep
  BY <1>2, ReaderStep
<1>3. CASE AnswerEmbassy
  BY <1>3, EmbassyStep
<1>4. CASE HangUp
  BY <1>4, HangUpStep
<1>5. CASE AnswerTokio
  BY <1>5, TokioStep
<1>6. CASE AnswerForeign
  BY <1>6, ForeignStep
<1>7. CASE Return
  BY <1>7, ReturnStep
<1>8. CASE UNCHANGED <<vars, wireVars>>
  BY <1>8, QuietStep
<1>9. QED
  BY <1>1, <1>2, <1>3, <1>4, <1>5, <1>6, <1>7, <1>8 DEF WireNext

\* The invariant of a request, from the call to its result, always holds.
THEOREM WireInvHolds == WireSpec => []WireInv
<1>1. WireInit => WireInv
  BY InitStep
<1>2. WireInv /\ [WireNext]_<<vars, wireVars>> => WireInv'
  BY WireInvStep
<1>3. QED
  BY <1>1, <1>2, PTL DEF WireSpec

-----------------------------------------------------------------------------
(* The properties.                                                         *)

\* What the streaming reader gives of a call's value is the value, unless it is
\* a string that no key of the server can hold.
LEMMA ReadAsCalled ==
  ASSUME NEW c, IsCall(c)
  PROVE  \/ Known(Carried(c)) = Oversized /\ Len(c.value[2]) > MaxStr
         \/ Known(Carried(c)) # Oversized /\ Owned(Known(Carried(c))) = c.value
<1>1. NoValue # Oversized /\ \A s : s[1] # "oversized" => s # Oversized
  BY DEF NoValue, Oversized
<1>2. CASE c.op # "W"
  <2>1. Carried(c) = NoValue /\ c.value = NoValue
    BY <1>2, CallKinds DEF Carried
  <2>2. Known(NoValue) = NoValue /\ Owned(NoValue) = NoValue
    BY DEF Known, Owned, NoValue
  <2>3. QED
    BY <1>1, <2>1, <2>2
<1>3. CASE c.op = "W"
  <2>1. IsValue(c.value) /\ Carried(c) = Raw(c.value)
    BY <1>3, CallKinds DEF Carried, EmptyOps, KeyrefOps
  <2>2. Owned(Raw(c.value)) = c.value
    BY <2>1, RawOwned
  <2>3. Raw(c.value)[1] \in {"bool", "i64", "str"} /\ Raw(c.value) # Oversized
    <3>1. Raw(c.value)[1] \in {"bool", "i64", "str"}
      BY <2>1, ValueKinds
    <3>2. QED
      BY <1>1, <3>1
  <2>4. CASE Raw(c.value)[1] = "str" /\ Len(Raw(c.value)[2]) > MaxStr
    <3>1. Raw(c.value) = c.value
      BY <2>1, <2>4, ValueKinds
    <3>2. QED
      BY <2>1, <2>4, <3>1 DEF Known
  <2>5. CASE ~(Raw(c.value)[1] = "str" /\ Len(Raw(c.value)[2]) > MaxStr)
    BY <2>1, <2>2, <2>3, <2>5 DEF Known
  <2>6. QED
    BY <2>4, <2>5
<1>4. QED
  BY <1>2, <1>3

\* The frame of a call is the call to both readers.
LEMMA WireUnderstands == WireInv => CallsAreUnderstood
<1> SUFFICES ASSUME WireInv, Sent PROVE
      /\ Parsed(frame).verdict = "request"
      /\ Parsed(frame).keyref = call.keyref /\ Owned(Parsed(frame).value) = call.value
      /\ node = "embassy" /\ verdict = "reject" => read < FrameLen
      /\ node = "embassy" /\ verdict = "request" =>
           /\ keyref = call.keyref
           /\ \/ value = Oversized /\ Len(call.value[2]) > MaxStr
              \/ value # Oversized /\ Owned(value) = call.value
  BY DEF CallsAreUnderstood
<1>1. call # NoCall /\ IsCall(call) /\ frame.op = call.op
  BY Phases DEF Sent
<1>2. call.op # "none"
  BY <1>1, CallKinds DEF ValidOpcode, EmptyOps, KeyrefOps
<1>3. ~Unsent
  <2>1. SUFFICES ASSUME Unsent PROVE FALSE
    OBVIOUS
  <2>2. frame = [op |-> "none", payload |-> <<>>, sumOk |-> TRUE]
    BY <2>1 DEF Unsent
  <2>3. frame.op = "none"
    BY <2>2
  <2>4. QED
    BY <1>1, <1>2, <2>3
<1>4. TypeInv /\ AgreeInv /\ OnTheStream
  BY <1>1, <1>3, Phases
<1>5. /\ Parsed(frame).verdict = "request" /\ Parsed(frame).keyref = call.keyref
      /\ Parsed(frame).value = Carried(call) /\ Owned(Carried(call)) = call.value
  BY <1>1, <1>4, SentParsed, RequestParts
<1>6. ReaderAgreesWithParser /\ ServedWhole
  BY <1>4, Agreement, NoByteBeyond DEF TypeInv
<1>7. verdict = "reject" => read < FrameLen
  <2>1. verdict = "reject" => read # FrameLen
    BY <1>5, <1>6 DEF ReaderAgreesWithParser
  <2>2. read <= FrameLen /\ PayloadLen \in Nat /\ read \in Nat
    BY <1>4, <1>6, PayloadType DEF TypeInv, ServedWhole, LengthInv
  <2>3. QED
    BY <2>1, <2>2 DEF FrameLen
<1>8. verdict = "request" => keyref = call.keyref /\ value = Known(Carried(call))
  BY <1>5, <1>6 DEF ReaderAgreesWithParser
<1>9. QED
  BY <1>1, <1>5, <1>7, <1>8, ReadAsCalled

\* A call that the client refuses has a NUL, or is longer than a frame can be.
LEMMA RefusedCall ==
  ASSUME NEW c, IsCall(c), ~Encodable(c)
  PROVE  /\ c.op = "W"
         /\ HasNul(c.value) \/ Len(EncodeValue(c.value)) + 2 > MaxU16
<1>1. CASE c.op = "W"
  <2>1. /\ Len(EncodeValue(c.value)) \in Nat
        /\ Len(CallPayload(c)) = 2 + Len(EncodeValue(c.value))
    BY <1>1, WriteLength
  <2>2. QED
    BY <1>1, <2>1, WidthU16 DEF Encodable
<1>2. CASE c.op # "W"
  <2>1. c.value = NoValue /\ (CallPayload(c) = <<>> \/ CallPayload(c) = U16(c.keyref))
    BY <1>2, CallKinds
  <2>2. ~HasNul(NoValue)
    BY DEF HasNul, NoValue
  <2>3. c.keyref \in Nat /\ c.keyref <= MaxLength
    BY CallKinds, WidthU16, MaxLengthType
  <2>4. Len(CallPayload(c)) = 0 \/ Len(CallPayload(c)) = 2
    BY <2>1, <2>3, U16Bytes, EmptySeq
  <2>5. QED
    BY <2>1, <2>2, <2>4, WidthU16 DEF Encodable
<1>3. QED
  BY <1>1, <1>2

\* The result of a call is right, whoever ended it.
LEMMA WireAnswers == WireInv => AnswersAreUnderstood
<1> SUFFICES ASSUME WireInv, Decided, node # "foreign" PROVE AnswersAreUnderstood
  BY DEF AnswersAreUnderstood
<1>1. call # NoCall /\ outcome # Pending /\ IsCall(call)
  BY Phases DEF Decided
<1>2. CASE Unsent /\ reply = NoReply
  <2>1. outcome = <<"invalid input">> /\ ~Encodable(call)
    BY <1>1, <1>2 DEF Unsent, ReturnInv
  <2>2. store = before
    BY <1>2 DEF WireInv, AnswerInv
  <2>3. QED
    BY <1>1, <2>1, <2>2, RefusedCall DEF AnswersAreUnderstood
<1>3. CASE OnTheStream \/ reply # NoReply
  <2>1. ReturnInv
    BY <1>1, <1>3 DEF WireInv, Unsent, OnTheStream
  <2>2. reply # NoReply /\ outcome = Returned(reply)
    BY <1>1, <2>1 DEF ReturnInv
  <2>3. \/ Right(Returned(reply), store)
        \/ node = "embassy" /\ read < FrameLen /\ reply = Closed /\ store = before
    BY <1>1, <2>2 DEF WireInv, AnswerInv
  <2>4. QED
    BY <2>2, <2>3, ClosedReturned DEF Right, AnswersAreUnderstood
<1>4. QED
  BY <1>1, <1>2, <1>3 DEF WireInv

\* What the client makes of another node's capabilities.
LEMMA CapsReturned ==
  ASSUME call.op = "?", NEW t \in CapsTexts
  PROVE  /\ Text16(FrameOf(":", Str16(t)).payload) = t
         /\ Returned(FrameOf(":", Str16(t))) =
              IF CapsReference(t) THEN <<"caps", t>> ELSE ProtocolError
<1> DEFINE p == Str16(t)
<1>1. t \in Seq(Byte) /\ Len(t) <= MaxU16 - 2
  BY CallAssumption DEF Byte
<1>2. PICK l \in Nat : l = Len(t)
  BY <1>1, LenProperties
<1>3. Len(t) <= MaxLength /\ 2 + Len(t) <= MaxU16
  BY <1>1, <1>2, WidthU16, MaxLengthType
<1>4. /\ p \in Seq(Byte) /\ Len(p) = 2 + Len(t) /\ Text16(p) = t
      /\ IsStr16(p) <=> 0 \notin Elements(t) /\ IsUtf8(t)
  BY <1>1, <1>3, Str16Read
<1> HIDE DEF p
<1>5. ":" \in Ops /\ ":" \in {Expects(call.op), "@"}
  BY DEF Ops, Expects
<1>6. Len(p) <= MaxU16 /\ ~(Len(p) > MaxU16)
  BY <1>2, <1>3, <1>4, WidthU16
<1>7. Returned(SendFrame(":", p)) = Message(":", p)
  BY <1>4, <1>5, <1>6, FrameReturned
<1>8. SendFrame(":", p) = FrameOf(":", p)
  BY <1>6 DEF SendFrame
<1>9. CapsReference(t) => IsStr16(p)
  <2>1. SUFFICES ASSUME CapsReference(t) PROVE 0 \notin Elements(t) /\ IsUtf8(t)
    BY <1>4
  <2>2. \A i \in 1 .. Len(t) : t[i] < 128 /\ t[i] # 0
    BY <1>1, <2>1, CapsParsed
  <2>3. IsUtf8(t)
    BY <1>1, <2>2, AsciiIsText
  <2>4. DOMAIN t = 1 .. Len(t)
    BY <1>1, LenProperties
  <2>5. 0 \notin Elements(t)
    BY <2>2, <2>4 DEF Elements
  <2>6. QED
    BY <2>3, <2>5
<1>10. CapsParse(t) <=> CapsReference(t)
  BY <1>1, CapsParsed
<1>11. Message(":", p) = IF CapsReference(t) THEN <<"caps", t>> ELSE ProtocolError
  BY <1>4, <1>9, <1>10 DEF Message
<1>12. FrameOf(":", p).payload = p
  BY DEF FrameOf
<1>13. QED
  BY <1>4, <1>7, <1>8, <1>11, <1>12 DEF p

\* The result of asking a foreign node for its capabilities is right.
LEMMA WireCaps == WireInv => CapsReadAsDocumented
<1> SUFFICES ASSUME WireInv, Decided, node = "foreign" PROVE CapsReadAsDocumented
  BY DEF CapsReadAsDocumented
<1>1. /\ call # NoCall /\ outcome # Pending /\ IsCall(call) /\ call.op = "?"
  BY Phases DEF Decided, WireInv, CallInv
<1>2. Encodable(call)
  BY <1>1, RefusedCall
<1>3. ReturnInv
  BY <1>1, <1>2 DEF WireInv, Unsent, OnTheStream
<1>4. reply # NoReply /\ outcome = Returned(reply)
  BY <1>1, <1>3 DEF ReturnInv
<1>5. PICK t \in CapsTexts : reply = FrameOf(":", Str16(t))
  BY <1>4 DEF WireInv, AnswerInv
<1>6. QED
  BY <1>1, <1>4, <1>5, CapsReturned DEF CapsReadAsDocumented

\* What the client puts on the stream is the call it was asked to make, to the
\* parser of whole frames and to the streaming reader.
THEOREM ClientIsUnderstood == WireSpec => []CallsAreUnderstood
<1>1. WireInv => CallsAreUnderstood
  BY WireUnderstands
<1>2. QED
  BY <1>1, WireInvHolds, PTL

\* Every call returns what the keys of the node and the protocol make of it.
THEOREM NodesAreUnderstood == WireSpec => []AnswersAreUnderstood
<1>1. WireInv => AnswersAreUnderstood
  BY WireAnswers
<1>2. QED
  BY <1>1, WireInvHolds, PTL

\* CapsRef::parse takes exactly the capability strings that PROTOCOL.md defines.
THEOREM CapabilitiesAreRead == WireSpec => []CapsReadAsDocumented
<1>1. WireInv => CapsReadAsDocumented
  BY WireCaps
<1>2. QED
  BY <1>1, WireInvHolds, PTL

\* The streaming reader's properties, of the frames that calls put on the stream.
LEMMA WireReads == WireInv => TypeOK /\ ServedWhole /\ ReaderAgreesWithParser
<1> SUFFICES ASSUME WireInv PROVE TypeOK /\ ServedWhole /\ ReaderAgreesWithParser
  OBVIOUS
<1>1. CASE call # NoCall /\ Unsent
  <2>1. /\ frame.payload = <<>> /\ read = 0 /\ added = 0 /\ left = 0 /\ fault = FALSE
        /\ tail = <<>> /\ keyref = 0 /\ verdict \in {"reading", "reject"}
    BY <1>1 DEF Unsent
  <2>2. FrameLen = 4 /\ <<>> \in Seq(0 .. 255) /\ Len(<<>>) = 0
    BY <2>1, EmptySeq DEF FrameLen, PayloadLen
  <2>3. TypeOK
    <3>1. tail \in Seq(0 .. 255) /\ Len(tail) <= 4
      BY <2>1, <2>2
    <3>2. fault \in BOOLEAN
      BY <2>1
    <3>3. /\ read \in Nat /\ added \in Nat /\ left \in Nat /\ left <= 65535
          /\ keyref \in Nat /\ keyref <= 65535
      BY <2>1
    <3>4. QED
      BY <2>1, <3>1, <3>2, <3>3 DEF TypeOK
  <2>4. ServedWhole /\ ReaderAgreesWithParser
    BY <2>1, <2>2 DEF ServedWhole, ReaderAgreesWithParser
  <2>5. QED
    BY <2>3, <2>4
<1>2. CASE call = NoCall \/ ~Unsent
  <2>1. TypeInv /\ AgreeInv
    BY <1>2, Phases
  <2>2. TypeOK
    BY <2>1, LenProperties DEF TypeInv, LengthInv, TypeOK, Byte, MaxLength
  <2>3. QED
    BY <2>1, <2>2, Agreement, NoByteBeyond DEF TypeInv
<1>3. QED
  BY <1>1, <1>2

\* What holds of the streaming reader by itself holds of it between the client and
\* the node: it takes whole frames, and the parser of whole frames agrees.
THEOREM ReaderInCalls == WireSpec => [](TypeOK /\ ServedWhole /\ ReaderAgreesWithParser)
<1>1. WireInv => TypeOK /\ ServedWhole /\ ReaderAgreesWithParser
  BY WireReads
<1>2. QED
  BY <1>1, WireInvHolds, PTL

=============================================================================
