---------------------------- MODULE WireExchange ----------------------------
(***************************************************************************)
(* One request from the call in the client to its result, through the      *)
(* codecs of both ends.  The client library encodes a call                 *)
(* (crates/qup/src/client.rs); a node reads the frame, answers it from its *)
(* typed keys and encodes the response; the client parses that             *)
(* (crates/qup-core/src/types).  The node is one of                        *)
(*   "embassy"  reads with the streaming reader of RequestReader, also     *)
(*              frames that no call of the client made;                    *)
(*   "tokio"    the test node, which parses whole frames;                  *)
(*   "foreign"  any other node, asked for its capabilities.                *)
(* Strings are sequences of bytes, integers have I64Bytes bytes.           *)
(***************************************************************************)
EXTENDS RequestReader, FiniteSets

CONSTANTS
  MaxU16,    \* u16::MAX, for lengths and keyrefs
  Calls,     \* calls of the client: [op, keyref, value]
  Table,     \* for "embassy" and "tokio", the keys: [keyref, name, flags, type]
  Stores,    \* for each, the values the application may have given the keys
  NodeIds,   \* for each, its node id
  CapsTexts  \* capability strings that a foreign node may send

\* n >> 8 * k, for each k.
Shifts(n) ==
  LET shift[k \in 0 .. I64Bytes] == IF k = 0 THEN n ELSE shift[k - 1] \div 256 IN shift

\* What the types of the program say of its strings, names, values and calls:
\* a str is UTF-8, and an i64 has its sign in its first byte.
IsText(t) == t \in Seq(0 .. 255) /\ IsUtf8(t)
IsName(t) == IsText(t) /\ 0 \notin Elements(t)
IsI64(n)  == n \in Int /\ Shifts(n)[I64Bytes - 1] \in -128 .. 127
IsValue(v) ==
  \/ v[1] = "bool" /\ v = <<"bool", v[2]>> /\ v[2] \in BOOLEAN
  \/ v[1] = "i64"  /\ v = <<"i64", v[2]>>  /\ IsI64(v[2])
  \/ v[1] = "str"  /\ v = <<"str", v[2]>>  /\ IsText(v[2])
IsCall(c) ==
  /\ c.keyref \in 0 .. MaxU16
  /\ \/ c.op \in EmptyOps  /\ c.value = NoValue /\ c.keyref = 0
     \/ c.op \in KeyrefOps /\ c.value = NoValue
     \/ c.op = "W" /\ IsValue(c.value)

\* The array of keys; a key that can be read has a value.
IsTable(n) ==
  /\ DOMAIN Table[n] \subseteq Nat
  /\ \A i \in DOMAIN Table[n] :
       /\ Table[n][i].keyref \in 0 .. MaxU16 /\ IsName(Table[n][i].name)
       /\ \A s \in Stores[n] : "R" \in Table[n][i].flags => IsValue(s[i])

ASSUME WidthAssumption == MaxU16 \in 19 .. 65535 /\ I64Bytes \in Nat \ {0}

ASSUME CallAssumption ==
  /\ \A c \in Calls : IsCall(c)
  /\ \A t \in CapsTexts : t \in Seq(0 .. 255) /\ Len(t) <= MaxU16 - 2

\* The macro run! takes the length of the longest string of a key for MAX_STR.
ASSUME NodeAssumption ==
  /\ \A n \in {"embassy", "tokio"} : IsTable(n) /\ \A t \in NodeIds[n] : IsName(t)
  /\ \A i \in DOMAIN Table["tokio"] : LET key == Table["tokio"][i] IN
       /\ key.keyref = i - 1 /\ key.type[1] \in {"i64", "u64", "str", "never"}
       /\ key.type[1] = "str" => key.type[2] \in Nat
  /\ \A i \in DOMAIN Table["embassy"] : LET t == Table["embassy"][i].type IN
       /\ t[1] \in {"bool", "i64", "str", "enum"}
       /\ t[1] = "str"  => t[2] \in 0 .. MaxStr
       /\ t[1] = "enum" => \A name \in t[2] : IsName(name) /\ Len(name) <= MaxStr

VARIABLES
  node,     \* who reads the request
  nodeId,
  store,    \* the value of each key
  before,   \* history: the store before the request
  call,     \* the client's call, or NoCall
  reply,    \* the response frame: [op, payload, check]
  outcome   \* what the call returned

wireVars == <<node, nodeId, store, before, call, reply, outcome>>

NoCall  == [op |-> "none", keyref |-> 0, value |-> NoValue]
NoReply == [op |-> "none", payload |-> <<>>, check |-> 0]
Closed  == [op |-> "closed", payload |-> <<>>, check |-> 0]
Pending == <<"pending">>

-----------------------------------------------------------------------------
(* Frames.                                                                 *)

\* Opcode constants, with their bytes.
Codes == {<<"P", 80>>, <<"I", 73>>, <<"C", 67>>, <<"S", 83>>, <<"G", 71>>, <<"W", 87>>,
          <<"N", 78>>, <<"U", 85>>, <<"?", 63>>, <<"k", 107>>, <<"i", 105>>, <<"c", 99>>,
          <<"s", 115>>, <<"g", 103>>, <<"w", 119>>, <<":", 58>>, <<"@", 64>>, <<"!", 33>>}
Code(op) == (CHOOSE c \in Codes : c[1] = op)[2]

\* u16 and i64 to_be_bytes, and i64::from_be_bytes, from the sign on.
U16(n) == <<n \div 256, n % 256>>
I64(n) == [i \in 1 .. I64Bytes |-> Shifts(n)[I64Bytes - i] % 256]
Prefixes(b) ==
  LET prefix[i \in 0 .. I64Bytes] ==
        IF i = 0 THEN (IF b[1] >= 128 THEN -1 ELSE 0) ELSE 256 * prefix[i - 1] + b[i]
  IN prefix
FromI64(b) == Prefixes(b)[I64Bytes]

\* The sums of the first numbers of s, and its sum as a u8 that wraps.
Sums(s) ==
  LET sum[i \in 0 .. Len(s)] == IF i = 0 THEN 0 ELSE sum[i - 1] + s[i] IN sum
Sum(s)  == Sums(s)[Len(s)]
Sum8(s) == Sum(s) % 256

\* compute_checksum, frame_sum.
HeaderAnd(op, p) == <<Code(op)>> \o U16(Len(p)) \o p
Checksum(op, p)  == (256 - Sum8(HeaderAnd(op, p))) % 256
SumOk(f)         == Sum8(HeaderAnd(f.op, f.payload) \o <<f.check>>) = 0

FrameOf(op, p) == [op |-> op, payload |-> p, check |-> Checksum(op, p)]

Str16(t) == U16(Len(t)) \o t

\* A value as the payload's kind and body.
EncodeValue(v) ==
  CASE v[1] = "bool" -> <<1, IF v[2] THEN 1 ELSE 0>>
    [] v[1] = "i64"  -> <<2>> \o I64(v[2])
    [] v[1] = "str"  -> <<3>> \o Str16(v[2])

HasNul(v) == v[1] = "str" /\ 0 \in Elements(v[2])

-----------------------------------------------------------------------------
(* The client's calls.                                                     *)

CallPayload(c) ==
  CASE c.op \in EmptyOps  -> <<>>
    [] c.op \in KeyrefOps -> U16(c.keyref)
    [] OTHER              -> U16(c.keyref) \o EncodeValue(c.value)

\* Mutant: push_str16 lets NUL through.
EncodableWithNul(c) == Len(CallPayload(c)) <= MaxU16

\* push_str16 refuses NUL and a length beyond u16, build_frame a payload
\* beyond u16.
Encodable(c) == ~HasNul(c.value) /\ Len(CallPayload(c)) <= MaxU16

\* The frame of the call is on the stream, or the call has failed.
SendCall ==
  /\ pc = "call"
  /\ IF Encodable(call)
       THEN /\ frame' = [op |-> call.op, payload |-> CallPayload(call),
                         sumOk |-> SumOk(FrameOf(call.op, CallPayload(call)))]
            /\ pc' = "header" /\ UNCHANGED outcome
       ELSE pc' = "done" /\ outcome' = <<"invalid input">> /\ UNCHANGED frame
  /\ UNCHANGED <<read, added, left, fault, tail, keyref, value, verdict>>
  /\ UNCHANGED <<node, nodeId, store, before, call, reply>>

-----------------------------------------------------------------------------
(* The keys of a node.                                                     *)

Keys    == Table[node]
Keyrefs == {Keys[i].keyref : i \in DOMAIN Keys}

\* find_slot: the first key with the keyref.
SlotOf(k) ==
  CHOOSE i \in DOMAIN Keys :
    Keys[i].keyref = k /\ \A j \in DOMAIN Keys : Keys[j].keyref = k => i <= j

\* key_count saturates; the test node's keyrefs have no gaps.
KeyCount ==
  IF Keyrefs = {} THEN 0
  ELSE LET last == CHOOSE k \in Keyrefs : \A j \in Keyrefs : j <= k IN
       IF last = MaxU16 THEN MaxU16 ELSE last + 1

FlagBits(flags) ==
  (IF "R" \in flags THEN 1 ELSE 0) + (IF "W" \in flags THEN 2 ELSE 0)
  + (IF "N" \in flags THEN 4 ELSE 0)

\* The flag a request asks of its key.
Needs(op) == CASE op = "G" -> "R" [] op = "W" -> "W" [] op = "N" -> "N"

\* An enum that derives Value is one of its wire names.
DecodeEnum(names, v) == IF v[1] = "str" /\ v[2] \in names THEN v ELSE NoValue

\* QupValue::decode, and validate, of what the streaming reader gives.
DecodeAs(t, v) ==
  CASE t[1] = "bool" /\ v[1] = "bool" -> <<"bool", v[2] = 1>>
    [] t[1] = "i64"  /\ v[1] = "i64"  -> <<"i64", FromI64(v[2])>>
    [] t[1] = "str"  /\ v[1] = "str"  -> IF Len(v[2]) <= t[2] THEN <<"str", v[2]>> ELSE NoValue
    [] t[1] = "enum" -> DecodeEnum(t[2], v)
    [] OTHER -> NoValue

\* expect_i64, expect_u64 and expect_str with the key's length.
ExpectAs(t, v) ==
  CASE t[1] = "i64" /\ v[1] = "i64" -> <<"i64", FromI64(v[2])>>
    [] t[1] = "u64" /\ v[1] = "i64" -> IF FromI64(v[2]) >= 0 THEN <<"i64", FromI64(v[2])>>
                                                              ELSE NoValue
    [] t[1] = "str" /\ v[1] = "str" -> IF Len(v[2]) <= t[2] THEN <<"str", v[2]>> ELSE NoValue
    [] OTHER -> NoValue

-----------------------------------------------------------------------------
(* Responses.                                                              *)

\* send_frame of the embassy server; build_frame of the test node would panic.
SendFrame(op, p) == IF Len(p) > MaxU16 THEN Closed ELSE FrameOf(op, p)
Error(code) == SendFrame("@", <<code>>)

\* compute_segmented_checksum.
SegmentedChecksum(op, segments) ==
  LET length == Sum([i \in DOMAIN segments |-> Len(segments[i])])
      sum    == Sum([i \in DOMAIN segments |-> Sum8(segments[i])]) IN
  (256 - ((Sum8(<<Code(op)>> \o U16(length)) + sum) % 256)) % 256

\* send_str16_response and send_key_response, whose strings are not copied
\* into a buffer.
SendStr16(op, prefix, t) ==
  IF Len(t) > MaxU16 - Len(prefix) - 2 THEN Closed
  ELSE [op |-> op, payload |-> prefix \o Str16(t),
        check |-> SegmentedChecksum(op, <<prefix, U16(Len(t)), t>>)]

\* The value of a key as a response; String::validate refuses NUL.  The test
\* node has no such check: its stores hold only what its parser accepted.
SendValue(op, v) == IF HasNul(v) THEN Closed ELSE SendFrame(op, EncodeValue(v))

BaseCaps == <<80, 107, 73, 105, 67, 99, 83, 115, 71, 103, 87, 119, 78, 107, 85, 107>>
Caps == IF node = "tokio" \/ \E i \in DOMAIN Keys : "N" \in Keys[i].flags
          THEN Append(BaseCaps, 33) ELSE BaseCaps

\* Requests without a keyref.
AnswerConstant(op) ==
  CASE op = "P" -> SendFrame("k", <<>>)
    [] op = "I" -> SendStr16("i", <<>>, nodeId)
    [] op = "?" -> SendStr16(":", <<>>, Caps)
    [] op = "C" -> SendFrame("c", U16(KeyCount))

\* GETKEY, and what refuses a request: an unknown keyref, then the flags; a
\* keyref below the count may have no key.
AnswerKey(k) ==
  IF k >= KeyCount THEN Error(1)
  ELSE IF k \notin Keyrefs THEN SendFrame("s", <<0, 0, 0>>)
  ELSE LET key == Keys[SlotOf(k)] IN SendStr16("s", <<FlagBits(key.flags)>>, key.name)

Allowed(op, k) == k \in Keyrefs /\ Needs(op) \in Keys[SlotOf(k)].flags

AnswerKeyref(op, k) ==
  CASE op = "S" -> AnswerKey(k)
    [] op # "S" /\ k >= KeyCount -> Error(1)
    [] op = "U" /\ k < KeyCount -> SendFrame("k", <<>>)
    [] op \in {"G", "N"} /\ k < KeyCount ->
         IF ~Allowed(op, k) THEN Error(2)
         ELSE IF op = "N" THEN SendFrame("k", <<>>)
         ELSE SendValue("g", store[SlotOf(k)])

\* Mutant: the value is stored before it is known to fit the key.
StoreBeforeCheck(k, v, decoded) ==
  IF k >= KeyCount THEN reply' = Error(1) /\ UNCHANGED store
  ELSE IF ~Allowed("W", k) THEN reply' = Error(2) /\ UNCHANGED store
  ELSE /\ store' = [store EXCEPT ![SlotOf(k)] = decoded]
       /\ reply' = IF decoded = NoValue THEN Error(3) ELSE SendValue("w", decoded)

\* WRITE: a value that does not fit its key changes nothing.
AnswerWrite(k, v, decoded) ==
  IF k >= KeyCount THEN reply' = Error(1) /\ UNCHANGED store
  ELSE IF ~Allowed("W", k) THEN reply' = Error(2) /\ UNCHANGED store
  ELSE IF decoded = NoValue THEN reply' = Error(3) /\ UNCHANGED store
  ELSE /\ store' = [store EXCEPT ![SlotOf(k)] = decoded]
       /\ reply' = SendValue("w", decoded)

Dispatch(op, k, v, decoded) ==
  IF op = "W" THEN AnswerWrite(k, v, decoded)
  ELSE /\ reply' = IF op \in EmptyOps THEN AnswerConstant(op) ELSE AnswerKeyref(op, k)
       /\ UNCHANGED store

TypeAt(k) == IF k \in Keyrefs THEN Keys[SlotOf(k)].type ELSE <<"none">>

\* handle_request, after a request that the streaming reader has read.
AnswerEmbassy ==
  /\ node = "embassy" /\ verdict = "request" /\ reply = NoReply
  /\ Dispatch(frame.op, keyref, value, DecodeAs(TypeAt(keyref), value))
  /\ UNCHANGED <<vars, node, nodeId, before, call, outcome>>

\* The embassy server ends on a frame that it refuses.
HangUp ==
  /\ node = "embassy" /\ verdict = "reject" /\ reply = NoReply
  /\ reply' = Closed
  /\ UNCHANGED <<vars, node, nodeId, before, store, call, outcome>>

\* read_next_message and dispatch_message of the test node.
AnswerTokio ==
  /\ node = "tokio" /\ pc = "header" /\ reply = NoReply
  /\ LET r == Parsed(frame) IN
     IF r.verdict = "reject" THEN reply' = Closed /\ UNCHANGED store
     ELSE Dispatch(frame.op, r.keyref, r.value, ExpectAs(TypeAt(r.keyref), r.value))
  /\ UNCHANGED <<vars, node, nodeId, before, call, outcome>>

\* Another node's capabilities.
AnswerForeign ==
  /\ node = "foreign" /\ pc = "header" /\ reply = NoReply
  /\ \E t \in CapsTexts : reply' = FrameOf(":", Str16(t))
  /\ UNCHANGED <<vars, node, nodeId, before, store, call, outcome>>

-----------------------------------------------------------------------------
(* The client's decoding of the response.                                  *)

ProtocolError == <<"protocol error">>

\* PayloadCursor::read_str16, and finish.
IsStr16(p) ==
  /\ Len(p) >= 2 /\ Len(p) = 2 + Big(p)
  /\ LET t == SubSeq(p, 3, Len(p)) IN 0 \notin Elements(t) /\ IsUtf8(t)
Text16(p) == SubSeq(p, 3, Len(p))

Upper(b) == b \in 65 .. 90
Lower(b) == b \in 97 .. 122

\* Opcode::expected_ordinary_response.
Responses == {<<80, 107>>, <<78, 107>>, <<85, 107>>, <<73, 105>>, <<67, 99>>, <<83, 115>>,
              <<71, 103>>, <<87, 119>>}
KnownRequest(b) == \E r \in Responses : r[1] = b

WellPaired(request, response) ==
  /\ Upper(request) /\ Lower(response)
  /\ KnownRequest(request) => <<request, response>> \in Responses

\* Mutant: a request may be listed with two responses.
PairOkWithoutSeen(seen, request, response) == WellPaired(request, response)

\* A pair in CapsRef::parse; seen are the pairs before it.
PairOk(seen, request, response) ==
  /\ WellPaired(request, response)
  /\ \A s \in seen : s[1] = request => s[2] = response

\* One round of the loop of CapsRef::parse, at byte i.
CapsRound(t, acc, i) ==
  CASE acc.state # "more" -> acc
    [] acc.state = "more" /\ t[i] = 33 ->
         [acc EXCEPT !.state = IF i = Len(t) THEN "done" ELSE "malformed"]
    [] acc.state = "more" /\ t[i] # 33 ->
         IF i < Len(t) /\ PairOk(acc.seen, t[i], t[i + 1])
           THEN [acc EXCEPT !.seen = @ \cup {<<t[i], t[i + 1]>>}]
           ELSE [acc EXCEPT !.state = "malformed"]

Rounds(t) == (Len(t) + 1) \div 2
CapsLoop(t) ==
  LET loop[j \in 0 .. Rounds(t)] ==
        IF j = 0 THEN [state |-> "more", seen |-> {}] ELSE CapsRound(t, loop[j - 1], 2 * j - 1)
  IN loop

CapsParse(t) ==
  /\ \A i \in DOMAIN t : t[i] < 128
  /\ CapsLoop(t)[Rounds(t)].state # "malformed"

\* owned_value.
Owned(v) ==
  CASE v[1] = "bool" -> <<"bool", v[2] = 1>>
    [] v[1] = "i64"  -> <<"i64", FromI64(v[2])>>
    [] v[1] = "str"  -> v
    [] OTHER         -> NoValue

\* MessageRef::decode of a response, and owned_message.
Message(op, p) ==
  CASE op = "k" -> IF p = <<>> THEN <<"ok">> ELSE ProtocolError
    [] op = "i" -> IF IsStr16(p) THEN <<"id", Text16(p)>> ELSE ProtocolError
    [] op = "c" -> IF Len(p) = 2 THEN <<"count", Big(p)>> ELSE ProtocolError
    [] op = "s" -> IF p # <<>> /\ p[1] < 8 /\ IsStr16(Tail(p))
                     THEN <<"key", p[1], Text16(Tail(p))>> ELSE ProtocolError
    [] op \in {"g", "w"} ->
         LET v == Owned(DecodeValue(0, p).value) IN
         IF v # NoValue THEN <<"value", v>> ELSE ProtocolError
    [] op = ":" -> IF IsStr16(p) /\ CapsParse(Text16(p)) THEN <<"caps", Text16(p)>>
                                                         ELSE ProtocolError
    [] op = "@" -> IF Len(p) = 1 THEN <<"error", p[1]>> ELSE ProtocolError
    [] OTHER    -> ProtocolError

\* What the call matches on.
Expects(op) == CASE op \in {"P", "N", "U"} -> "k" [] op = "I" -> "i" [] op = "?" -> ":"
                 [] op = "C" -> "c" [] op = "S" -> "s" [] op = "G" -> "g" [] op = "W" -> "w"

\* next_message, and what the call makes of it.
Returned(r) ==
  CASE r = Closed -> <<"i/o error">>
    [] r # Closed /\ ~SumOk(r) -> ProtocolError
    [] r # Closed /\ SumOk(r) ->
         IF r.op \in {Expects(call.op), "@"} THEN Message(r.op, r.payload)
         ELSE <<"unexpected message">>

Return ==
  /\ call # NoCall /\ reply # NoReply /\ outcome = Pending
  /\ outcome' = Returned(reply)
  /\ UNCHANGED <<vars, node, nodeId, before, store, call, reply>>

-----------------------------------------------------------------------------
\* A call of the client, or any frame for the embassy server.
WireInit ==
  /\ read = 0 /\ added = 0 /\ left = 0 /\ fault = FALSE /\ tail = <<>>
  /\ keyref = 0 /\ value = NoValue /\ verdict = "reading"
  /\ reply = NoReply /\ outcome = Pending
  /\ \/ /\ node = "embassy" /\ call = NoCall
        /\ frame \in Frames /\ pc = "header"
        /\ nodeId = <<>> /\ store = CHOOSE s \in Stores[node] : TRUE
     \/ /\ node \in {"embassy", "tokio"} /\ call \in Calls
        /\ frame = [op |-> "none", payload |-> <<>>, sumOk |-> TRUE] /\ pc = "call"
        /\ nodeId \in NodeIds[node]
        /\ call.op # "I" => nodeId = CHOOSE n \in NodeIds[node] : TRUE
        /\ store \in Stores[node]
        /\ call.op \notin {"G", "W"} => store = CHOOSE s \in Stores[node] : TRUE
     \/ /\ node = "foreign" /\ call = [NoCall EXCEPT !.op = "?"]
        /\ frame = [op |-> "none", payload |-> <<>>, sumOk |-> TRUE] /\ pc = "call"
        /\ nodeId = <<>> /\ store = <<>>
  /\ before = store

ReadStep == node = "embassy" /\ Next /\ UNCHANGED wireVars

WireNext ==
  \/ SendCall \/ ReadStep \/ AnswerEmbassy \/ HangUp \/ AnswerTokio \/ AnswerForeign \/ Return

WireSpec == WireInit /\ [][WireNext]_<<vars, wireVars>>

-----------------------------------------------------------------------------
(* Properties.                                                             *)

Decided == call # NoCall /\ outcome # Pending

Sent == call # NoCall /\ frame.op = call.op

\* What the client puts on the stream is its call to the parser of whole
\* frames, and to the streaming reader: no frame of the client is refused once
\* it has been read to its end, and a string too long for the server's keys
\* is known to be one (PROTOCOL.md:41).
CallsAreUnderstood ==
  Sent =>
    /\ Parsed(frame).verdict = "request"
    /\ Parsed(frame).keyref = call.keyref /\ Owned(Parsed(frame).value) = call.value
    /\ node = "embassy" /\ verdict = "reject" => read < FrameLen
    /\ node = "embassy" /\ verdict = "request" =>
         /\ keyref = call.keyref
         /\ \/ value = Oversized /\ Len(call.value[2]) > MaxStr
            \/ value # Oversized /\ Owned(value) = call.value

\* What the types of the keys mean, for the client's values.
Fits(v, t) ==
  \/ t[1] = v[1] /\ (v[1] = "str" => Len(v[2]) <= t[2])
  \/ t[1] = "u64"  /\ v[1] = "i64" /\ v[2] >= 0
  \/ t[1] = "enum" /\ v[1] = "str" /\ v[2] \in t[2]

Accepted ==
  /\ call.op = "W" /\ Allowed("W", call.keyref) /\ call.keyref # MaxU16
  /\ Fits(call.value, TypeAt(call.keyref))

\* The result that PROTOCOL.md gives the call.  No keyref is valid that is
\* above every key's, nor is the last one, which no count can include.
Unknown(k) == k = MaxU16 \/ \A j \in Keyrefs : j < k

Result ==
  LET k == call.keyref
      key == Keys[SlotOf(k)] IN
  CASE call.op = "P" -> <<"ok">>
    [] call.op = "I" -> <<"id", nodeId>>
    [] call.op = "?" -> <<"caps", Caps>>
    [] call.op = "C" -> <<"count", Cardinality({j \in 0 .. MaxU16 : ~Unknown(j)})>>
    [] call.op \in KeyrefOps \cup {"W"} /\ Unknown(k) -> <<"error", 1>>
    [] OTHER ->
       CASE call.op = "U" -> <<"ok">>
         [] call.op = "S" -> IF k \in Keyrefs THEN <<"key", FlagBits(key.flags), key.name>>
                                              ELSE <<"key", 0, <<>>>>
         [] call.op \in {"G", "W", "N"} /\ ~Allowed(call.op, k) -> <<"error", 2>>
         [] call.op = "N" /\ Allowed("N", k) -> <<"ok">>
         [] call.op = "G" /\ Allowed("G", k) -> <<"value", before[SlotOf(k)]>>
         [] call.op = "W" /\ Allowed("W", k) ->
              IF Accepted THEN <<"value", call.value>> ELSE <<"error", 3>>

\* Responses that no frame can carry: a node id, a name or a value whose
\* length fits u16 but not with what precedes it, or a value that has NUL.
Unsendable ==
  CASE Result[1] = "id"    -> Len(Result[2]) > MaxU16 - 2
    [] Result[1] = "key"   -> Len(Result[3]) > MaxU16 - 3
    [] Result[1] = "value" -> HasNul(Result[2]) \/ Len(EncodeValue(Result[2])) > MaxU16
    [] OTHER -> FALSE

\* Every call returns what the node's keys and the protocol make of it, and a
\* WRITE changes its key to the value that it returns, or nothing.  The
\* connection ends instead only when the transport did, or when the response
\* cannot be sent; a call that the client refuses reaches no key.
AnswersAreUnderstood ==
  Decided /\ node # "foreign" =>
    \/ /\ outcome = <<"invalid input">> /\ store = before
       /\ (HasNul(call.value) \/ Len(EncodeValue(call.value)) + 2 > MaxU16)
    \/ /\ outcome = <<"i/o error">> /\ store = before
       /\ Unsendable \/ (node = "embassy" /\ read < FrameLen)
    \/ /\ outcome = Result /\ ~Unsendable
       /\ store = IF Accepted THEN [before EXCEPT ![SlotOf(call.keyref)] = call.value] ELSE before

\* A capability string as PROTOCOL.md:226-241 defines it.
CapsReference(t) ==
  LET pairs == IF t # <<>> /\ t[Len(t)] = 33 THEN Len(t) - 1 ELSE Len(t)
      Odd == {i \in 1 .. pairs : i % 2 = 1} IN
  /\ pairs % 2 = 0
  /\ \A i \in Odd : Upper(t[i]) /\ Lower(t[i + 1])
  /\ \A i \in Odd : KnownRequest(t[i]) => <<t[i], t[i + 1]>> \in Responses
  /\ \A i, j \in Odd : t[i] = t[j] => t[i + 1] = t[j + 1]

\* The client takes another node's capabilities exactly if they are
\* well-formed, and as they were sent.
CapsReadAsDocumented ==
  Decided /\ node = "foreign" =>
    outcome = IF CapsReference(Text16(reply.payload)) THEN <<"caps", Text16(reply.payload)>>
                                                      ELSE ProtocolError

=============================================================================
