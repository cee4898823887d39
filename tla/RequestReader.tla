--------------------------- MODULE RequestReader ---------------------------
(***************************************************************************)
(* Two decoders of a request frame.  Server::read_request of               *)
(* crates/qup-embassy/src/lib.rs reads it from the stream piece by piece   *)
(* into small buffers, one action per read_exact; qup-core parses it once  *)
(* it is complete.  A frame is what is on the stream: an opcode, a payload *)
(* whose length the header declares, and a checksum byte that is right or  *)
(* not.  A byte is a number; those of a text also have a place in UTF-8.   *)
(***************************************************************************)
EXTENDS Integers, Sequences

CONSTANTS
  Frames,       \* the frames on the stream: [op, payload, sumOk]
  I64Bytes,     \* 8 in the code
  MaxStr,       \* MAX_STR: the longest string a key of the server holds
  DiscardChunk, \* DISCARD_CHUNK
  Lead2, Lead3, Lead4, Cont   \* the bytes that start, or go on with, a
                              \* character of two, three or four bytes;
                              \* the others are ASCII

\* A frame's payload is of bytes that a u16 can count.
IsFrame(f) ==
  f.payload \in Seq(0 .. 255) /\ Len(f.payload) <= 65535 /\ f.sumOk \in BOOLEAN

ASSUME ReaderAssumption ==
  /\ \A f \in Frames : IsFrame(f)
  /\ I64Bytes \in Nat /\ MaxStr \in Nat /\ DiscardChunk \in Nat \ {0}
  /\ {Lead2, Lead3, Lead4, Cont} \subseteq 128 .. 255

VARIABLES
  frame,    \* the frame being read
  read,     \* bytes taken from the stream since its start
  added,    \* bytes of it added to FrameSum
  pc,       \* the next read_exact
  left,     \* bytes left to discard or to feed
  fault,    \* a payload error is returned once the checksum is right
  tail,     \* Utf8StreamValidator: the bytes of an unfinished character
  keyref, value,   \* what has been decoded
  verdict   \* "reading", "request" or "reject"

vars == <<frame, read, added, pc, left, fault, tail, keyref, value, verdict>>

EmptyOps  == {"P", "I", "C", "?"}
KeyrefOps == {"S", "G", "N", "U"}
NoValue   == <<"none">>
Oversized == <<"oversized">>

\* Opcode::validate for frames from the client: reserved bytes, letters that
\* the protocol does not define and opcodes of the node are refused.
ValidOpcode(op) == op \in EmptyOps \cup KeyrefOps \cup {"W"}

Big(s) == 256 * s[1] + s[2]

-----------------------------------------------------------------------------
(* str::from_utf8, for the bytes that the constants name.                  *)

Elements(s) == {s[i] : i \in DOMAIN s}

Width(b) == CASE b = Lead2 -> 2 [] b = Lead3 -> 3 [] b = Lead4 -> 4 [] OTHER -> 1

\* The bytes after the lead byte at i, as far as s goes, are continuations.
WellBegun(s, i) ==
  /\ s[i] # Cont
  /\ \A j \in i + 1 .. i + Width(s[i]) - 1 : j <= Len(s) => s[j] = Cont

\* s is a text up to byte n: each byte is in a character that begins well
\* and ends by n.
TextUpTo(s, n) ==
  \A i \in 1 .. n :
    \E j \in 1 .. i : WellBegun(s, j) /\ i < j + Width(s[j]) /\ j + Width(s[j]) - 1 <= n

IsUtf8(s) == TextUpTo(s, Len(s))

\* Utf8Error::valid_up_to, and error_len() = None: the rest can be finished.
ValidUpTo(s) ==
  CHOOSE n \in 0 .. Len(s) : TextUpTo(s, n) /\ \A m \in n + 1 .. Len(s) : ~TextUpTo(s, m)
Unfinished(s, n) == WellBegun(s, n + 1) /\ n + Width(s[n + 1]) > Len(s)

-----------------------------------------------------------------------------
(* The reference: parse_frame and MessageRef::decode on the whole frame.   *)

Rejected == [verdict |-> "reject", keyref |-> 0, value |-> NoValue]
Request(k, v) == [verdict |-> "request", keyref |-> k, value |-> v]

\* ValueRef::decode and PayloadCursor::finish on the payload after keyref.
DecodeValue(k, p) ==
  CASE p = <<>> -> Rejected
    [] p # <<>> /\ p[1] = 1 ->
         IF Len(p) = 2 /\ p[2] \in {0, 1} THEN Request(k, <<"bool", p[2]>>) ELSE Rejected
    [] p # <<>> /\ p[1] = 2 ->
         IF Len(p) = 1 + I64Bytes THEN Request(k, <<"i64", Tail(p)>>) ELSE Rejected
    [] p # <<>> /\ p[1] = 3 ->
         IF Len(p) < 3 THEN Rejected
         ELSE LET text == SubSeq(p, 4, Len(p)) IN
                IF Len(text) = Big(Tail(p)) /\ 0 \notin Elements(text) /\ IsUtf8(text)
                  THEN Request(k, <<"str", text>>) ELSE Rejected
    [] OTHER -> Rejected

\* MessageRef::decode.
Decode(op, p) ==
  CASE op \in EmptyOps  -> IF p = <<>> THEN Request(0, NoValue) ELSE Rejected
    [] op \in KeyrefOps -> IF Len(p) = 2 THEN Request(Big(p), NoValue) ELSE Rejected
    [] OTHER            -> IF Len(p) < 2 THEN Rejected
                           ELSE DecodeValue(Big(p), SubSeq(p, 3, Len(p)))

\* parse_frame: the checksum, then the opcode, then the payload.
Parsed(f) ==
  IF f.sumOk /\ ValidOpcode(f.op) THEN Decode(f.op, f.payload) ELSE Rejected

-----------------------------------------------------------------------------
(* The streaming reader.                                                   *)

PayloadLen == Len(frame.payload)
FrameLen   == PayloadLen + 4

\* The next n bytes of the stream; past the frame it holds the next request.
Bytes(n) ==
  [i \in 1 .. n |-> IF read - 3 + i \in DOMAIN frame.payload
                      THEN frame.payload[read - 3 + i] ELSE 0]

\* read_exact_tracked of n bytes.
Take(n) == read' = read + n /\ added' = added + n

Discard(n) == pc' = "discard" /\ left' = n /\ fault' = TRUE

\* The opcode is validated before the rest of the frame is read.
ReadHeader ==
  /\ pc = "header"
  /\ read' = 3 /\ added' = 3
  /\ IF ~ValidOpcode(frame.op)
       THEN /\ pc' = "done" /\ verdict' = "reject"
            /\ UNCHANGED <<left, fault>>
       ELSE /\ IF \/ frame.op \in EmptyOps  /\ PayloadLen # 0
                  \/ frame.op \in KeyrefOps /\ PayloadLen # 2
                  \/ frame.op = "W" /\ PayloadLen < 3
                 THEN Discard(PayloadLen)
                 ELSE /\ pc' = IF frame.op \in EmptyOps THEN "checksum" ELSE "keyref"
                      /\ UNCHANGED <<left, fault>>
            /\ UNCHANGED verdict
  /\ UNCHANGED <<frame, tail, keyref, value>>

ReadKeyref ==
  /\ pc = "keyref" /\ Take(2)
  /\ keyref' = Big(Bytes(2))
  /\ pc' = IF frame.op = "W" THEN "kind" ELSE "checksum"
  /\ UNCHANGED <<frame, left, fault, tail, value, verdict>>

\* The kind byte, and the length it wants.
ReadKind ==
  /\ pc = "kind" /\ Take(1)
  /\ LET kind == Bytes(1)[1]
         remaining == PayloadLen - 3 IN
       IF \/ kind \notin {1, 2, 3}
          \/ kind = 1 /\ remaining # 1
          \/ kind = 2 /\ remaining # I64Bytes
          \/ kind = 3 /\ remaining < 2
         THEN Discard(remaining)
         ELSE /\ pc' = CASE kind = 1 -> "bool" [] kind = 2 -> "i64" [] kind = 3 -> "strlen"
              /\ UNCHANGED <<left, fault>>
  /\ UNCHANGED <<frame, tail, keyref, value, verdict>>

ReadBool ==
  /\ pc = "bool" /\ Take(1)
  /\ value' = <<"bool", Bytes(1)[1]>>
  /\ fault' = (Bytes(1)[1] \notin {0, 1})
  /\ pc' = "checksum"
  /\ UNCHANGED <<frame, left, tail, keyref, verdict>>

ReadI64 ==
  /\ pc = "i64" /\ Take(I64Bytes)
  /\ value' = <<"i64", Bytes(I64Bytes)>>
  /\ pc' = "checksum"
  /\ UNCHANGED <<frame, left, fault, tail, keyref, verdict>>

\* A string that fits is read at once, a longer one is checked in chunks.
ReadStrLen ==
  /\ pc = "strlen" /\ Take(2)
  /\ LET n == Big(Bytes(2)) IN
       IF PayloadLen - 5 # n THEN Discard(PayloadLen - 5)
       ELSE /\ pc' = IF n <= MaxStr THEN "str" ELSE "feed"
            /\ left' = n
            /\ UNCHANGED fault
  /\ UNCHANGED <<frame, tail, keyref, value, verdict>>

\* decode_wire_string, once the checksum has been read.
ReadStr ==
  /\ pc = "str" /\ Take(left)
  /\ value' = <<"str", Bytes(left)>>
  /\ fault' = (0 \in Elements(Bytes(left)) \/ ~IsUtf8(Bytes(left)))
  /\ left' = 0 /\ pc' = "checksum"
  /\ UNCHANGED <<frame, tail, keyref, verdict>>

ChunkLen == IF left < DiscardChunk THEN left ELSE DiscardChunk

\* Mutant: an unfinished character at the end of a chunk is forgotten.
FeedForgetsTail ==
  /\ pc = "feed" /\ left > 0 /\ Take(ChunkLen) /\ left' = left - ChunkLen
  /\ LET chunk == Bytes(ChunkLen)
         n == ValidUpTo(chunk) IN
       fault' = (fault \/ 0 \in Elements(chunk) \/ (n < Len(chunk) /\ ~Unfinished(chunk, n)))
  /\ UNCHANGED <<frame, pc, tail, keyref, value, verdict>>

\* Mutant: the whole buffer is kept, not what follows valid_up_to.
FeedKeepsBuffer ==
  /\ pc = "feed" /\ left > 0 /\ Take(ChunkLen) /\ left' = left - ChunkLen
  /\ tail' = tail \o Bytes(ChunkLen)
  /\ UNCHANGED <<frame, pc, fault, keyref, value, verdict>>

\* Utf8StreamValidator::feed of a chunk, skipped after an error.
Feed ==
  /\ pc = "feed" /\ left > 0 /\ Take(ChunkLen) /\ left' = left - ChunkLen
  /\ LET chunk  == Bytes(ChunkLen)
         buffer == tail \o chunk
         n      == ValidUpTo(buffer) IN
       CASE fault -> UNCHANGED <<fault, tail>>
         [] ~fault /\ (0 \in Elements(chunk) \/ (n < Len(buffer) /\ ~Unfinished(buffer, n))) ->
              fault' = TRUE /\ UNCHANGED tail
         [] OTHER -> tail' = SubSeq(buffer, n + 1, Len(buffer)) /\ UNCHANGED fault
  /\ UNCHANGED <<frame, pc, keyref, value, verdict>>

\* The loop ends; Utf8StreamValidator::finish.
FeedDone ==
  /\ pc = "feed" /\ left = 0
  /\ fault' = (fault \/ ~IsUtf8(tail))
  /\ value' = Oversized
  /\ pc' = "checksum"
  /\ UNCHANGED <<frame, read, added, left, tail, keyref, verdict>>

\* Mutant: the last chunk of a discarded payload is read in full.
DiscardWholeChunks ==
  /\ pc = "discard"
  /\ IF left = 0 THEN pc' = "checksum" /\ UNCHANGED <<read, added, left>>
     ELSE /\ Take(DiscardChunk) /\ left' = left - ChunkLen
          /\ UNCHANGED pc
  /\ UNCHANGED <<frame, fault, tail, keyref, value, verdict>>

\* discard_exact: a payload of a wrong length is read and summed all the same.
DiscardStep ==
  /\ pc = "discard"
  /\ IF left = 0 THEN pc' = "checksum" /\ UNCHANGED <<read, added, left>>
     ELSE /\ Take(ChunkLen) /\ left' = left - ChunkLen
          /\ UNCHANGED pc
  /\ UNCHANGED <<frame, fault, tail, keyref, value, verdict>>

\* finish_checksum, and then the payload error if there is one.  The sum of
\* a frame that was not summed whole is as good as arbitrary.
FinishChecksum ==
  /\ pc = "checksum" /\ Take(1)
  /\ pc' = "done"
  /\ \E sum \in IF added' = FrameLen THEN {frame.sumOk} ELSE BOOLEAN :
       verdict' = IF sum /\ ~fault THEN "request" ELSE "reject"
  /\ UNCHANGED <<frame, left, fault, tail, keyref, value>>

\* The stream ends or fails in any read_exact.
Break ==
  /\ pc # "done" /\ ~(pc = "feed" /\ left = 0)
  /\ pc' = "done" /\ verdict' = "reject"
  /\ UNCHANGED <<frame, read, added, left, fault, tail, keyref, value>>

Init ==
  /\ frame \in Frames
  /\ read = 0 /\ added = 0 /\ pc = "header" /\ left = 0 /\ fault = FALSE /\ tail = <<>>
  /\ keyref = 0 /\ value = NoValue /\ verdict = "reading"

Next ==
  \/ ReadHeader \/ ReadKeyref \/ ReadKind \/ ReadBool \/ ReadI64 \/ ReadStrLen \/ ReadStr
  \/ Feed \/ FeedDone \/ DiscardStep \/ FinishChecksum \/ Break

Spec == Init /\ [][Next]_vars

-----------------------------------------------------------------------------
(* Properties.                                                             *)

\* Every variable has its type; the rest of a character fits the validator's
\* tail, into which it is copied unchecked but for a panic.
TypeOK ==
  /\ read \in Nat /\ added \in Nat /\ left \in Nat /\ left <= 65535
  /\ fault \in BOOLEAN /\ keyref \in Nat /\ keyref <= 65535
  /\ tail \in Seq(0 .. 255) /\ Len(tail) <= 4
  /\ verdict \in {"reading", "request", "reject"}

\* No request is served before its frame has been read and summed to its
\* last byte, and none of the next frame has been taken (PROTOCOL.md:41).
ServedWhole ==
  /\ read <= FrameLen
  /\ verdict = "request" => read = FrameLen /\ added = FrameLen

\* The value as the streaming reader gives it: a string too long for the
\* server's keys is only known to be one.
Known(v) == IF v[1] = "str" /\ Len(v[2]) > MaxStr THEN Oversized ELSE v

\* A request that the reader serves is what the whole-frame parser makes of
\* the same bytes, and a frame that was read to its end and refused is one
\* that the parser refuses.
ReaderAgreesWithParser ==
  /\ verdict = "request" =>
       /\ Parsed(frame).verdict = "request"
       /\ keyref = Parsed(frame).keyref /\ value = Known(Parsed(frame).value)
  /\ verdict = "reject" /\ read = FrameLen => Parsed(frame).verdict = "reject"

=============================================================================
