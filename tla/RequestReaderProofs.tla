------------------------ MODULE RequestReaderProofs ------------------------
(***************************************************************************)
(* Proofs that the streaming reader takes whole frames, and that it makes  *)
(* of each of them what the parser of whole frames does: for every frame   *)
(* on the stream and every width of its integers, strings and chunks.      *)
(***************************************************************************)
EXTENDS RequestReader, SequenceTheorems, WellFoundedInduction, TLAPS

\* The lengths at which each read_exact stands: what has been taken of the
\* frame, and what its header left to the read that comes next.
Lengths ==
  /\ pc = "header"   => read = 0
  /\ pc = "keyref"   => /\ read = 3
                        /\ \/ frame.op = "W" /\ PayloadLen >= 3
                           \/ frame.op # "W" /\ PayloadLen = 2
  /\ pc = "kind"     => read = 5 /\ PayloadLen >= 3
  /\ pc = "bool"     => read = 6 /\ PayloadLen = 4
  /\ pc = "i64"      => read = 6 /\ PayloadLen = 3 + I64Bytes
  /\ pc = "strlen"   => read = 6 /\ PayloadLen >= 5
  /\ pc \in {"str", "feed", "discard"} => read + left = PayloadLen + 3
  /\ pc = "checksum" => read = PayloadLen + 3
  /\ pc = "done"     => read <= FrameLen

\* Every byte that is taken is summed, and a verdict is given only at the end.
LengthInv ==
  /\ IsFrame(frame)
  /\ read \in Nat /\ added = read /\ left \in Nat
  /\ pc \in {"header", "keyref", "kind", "bool", "i64", "strlen", "str", "feed",
             "discard", "checksum", "done"}
  /\ Lengths
  /\ pc # "done" => verdict = "reading"
  /\ verdict = "request" => read = FrameLen

\* The length of a payload is a number, and stays while its frame is read.
LEMMA PayloadLength ==
  ASSUME LengthInv
  PROVE  PayloadLen \in Nat
<1>1. frame.payload \in Seq(0 .. 255)
  BY DEF LengthInv, IsFrame
<1>2. QED
  BY <1>1, LenProperties DEF PayloadLen

\* A chunk is never longer than what is left.
LEMMA ChunkFits ==
  ASSUME LengthInv
  PROVE  ChunkLen \in Nat /\ ChunkLen <= left
  BY ReaderAssumption DEF LengthInv, ChunkLen

LEMMA LengthStep == LengthInv /\ [Next]_vars => LengthInv'
<1> SUFFICES ASSUME LengthInv, [Next]_vars PROVE LengthInv'
  OBVIOUS
<1>1. PayloadLen \in Nat /\ ChunkLen \in Nat /\ ChunkLen <= left /\ I64Bytes \in Nat
  BY PayloadLength, ChunkFits, ReaderAssumption
<1>2. frame' = frame => PayloadLen' = PayloadLen /\ FrameLen' = FrameLen
  BY DEF PayloadLen, FrameLen
<1> USE DEF LengthInv, Lengths, FrameLen, Take, Discard
<1>3. CASE ReadHeader
  <2> DEFINE Malformed == \/ frame.op \in EmptyOps  /\ PayloadLen # 0
                          \/ frame.op \in KeyrefOps /\ PayloadLen # 2
                          \/ frame.op = "W" /\ PayloadLen < 3
  <2>1. CASE ~ValidOpcode(frame.op)
    BY <1>1, <1>2, <1>3, <2>1 DEF ReadHeader
  <2>2. CASE ValidOpcode(frame.op) /\ Malformed
    BY <1>1, <1>2, <1>3, <2>2 DEF ReadHeader
  <2>3. CASE ValidOpcode(frame.op) /\ ~Malformed
    <3>1. frame.op \in EmptyOps => PayloadLen = 0 /\ pc' = "checksum"
      BY <1>3, <2>3 DEF ReadHeader
    <3>2. frame.op \notin EmptyOps => pc' = "keyref"
      BY <1>3, <2>3 DEF ReadHeader
    <3>3. frame.op \notin EmptyOps =>
            (frame.op = "W" /\ PayloadLen >= 3) \/ (frame.op # "W" /\ PayloadLen = 2)
      BY <1>1, <2>3 DEF ValidOpcode, KeyrefOps
    <3>4. /\ read' = 3 /\ added' = 3
          /\ frame' = frame /\ left' = left /\ verdict' = "reading"
      BY <1>3, <2>3 DEF ReadHeader
    <3>5. CASE frame.op \in EmptyOps
      BY <1>1, <1>2, <3>1, <3>4, <3>5
    <3>6. CASE frame.op \notin EmptyOps
      BY <1>1, <1>2, <3>2, <3>3, <3>4, <3>6
    <3>7. QED
      BY <3>5, <3>6
  <2>4. QED
    BY <2>1, <2>2, <2>3
<1>4. CASE ReadKeyref
  BY <1>1, <1>2, <1>4 DEF ReadKeyref
<1>5. CASE ReadKind
  BY <1>1, <1>2, <1>5 DEF ReadKind
<1>6. CASE ReadBool
  BY <1>1, <1>2, <1>6 DEF ReadBool
<1>7. CASE ReadI64
  BY <1>1, <1>2, <1>7 DEF ReadI64
<1>8. CASE ReadStrLen
  BY <1>1, <1>2, <1>8 DEF ReadStrLen
<1>9. CASE ReadStr
  BY <1>1, <1>2, <1>9 DEF ReadStr
<1>10. CASE Feed
  BY <1>1, <1>2, <1>10 DEF Feed
<1>11. CASE FeedDone
  BY <1>1, <1>2, <1>11 DEF FeedDone
<1>12. CASE DiscardStep
  BY <1>1, <1>2, <1>12 DEF DiscardStep
<1>13. CASE FinishChecksum
  BY <1>1, <1>2, <1>13 DEF FinishChecksum
<1>14. CASE Break
  BY <1>1, <1>2, <1>14 DEF Break
<1>15. CASE UNCHANGED vars
  BY <1>1, <1>2, <1>15 DEF vars
<1>16. QED
  BY <1>3, <1>4, <1>5, <1>6, <1>7, <1>8, <1>9, <1>10, <1>11, <1>12, <1>13, <1>14, <1>15 DEF Next

LEMMA LengthInit == Init => LengthInv
  BY ReaderAssumption DEF Init, LengthInv, Lengths

\* A frame is read to its last byte.
LEMMA NoByteBeyond == LengthInv => ServedWhole
<1> SUFFICES ASSUME LengthInv PROVE ServedWhole
  OBVIOUS
<1>1. PayloadLen \in Nat /\ I64Bytes \in Nat
  BY PayloadLength, ReaderAssumption
<1>2. QED
  BY <1>1 DEF LengthInv, Lengths, ServedWhole, FrameLen

\* No request is served before its frame has been read and summed to its last
\* byte, and no byte of the next frame is taken (PROTOCOL.md:41): for every
\* frame that the stream may hold, also those whose lengths contradict each
\* other.
THEOREM ReaderTakesWholeFrames == Spec => []ServedWhole
<1>1. Spec => []LengthInv
  BY LengthInit, LengthStep, PTL DEF Spec
<1>2. QED
  BY <1>1, NoByteBeyond, PTL

-----------------------------------------------------------------------------
(* Texts in pieces: what the lemmas say of TextUpTo, for any bytes.         *)

Byte == 0 .. 255

\* The character that starts at byte j covers byte i and ends by byte n.
Covers(s, j, i, n) ==
  WellBegun(s, j) /\ i < j + Width(s[j]) /\ j + Width(s[j]) - 1 <= n

LEMMA Widths == \A b : Width(b) \in 1 .. 4
  BY DEF Width

LEMMA TextCovers ==
  ASSUME NEW s, NEW n
  PROVE  TextUpTo(s, n) <=> \A i \in 1 .. n : \E j \in 1 .. i : Covers(s, j, i, n)
  BY DEF TextUpTo, Covers

\* What follows a text is a text if its own characters cover it.
LEMMA TextSplit ==
  ASSUME NEW s \in Seq(Byte), NEW m \in Nat, NEW n \in Nat,
         m <= n, n <= Len(s), TextUpTo(s, m)
  PROVE  TextUpTo(s, n) <=>
           \A i \in m + 1 .. n : \E j \in m + 1 .. i : Covers(s, j, i, n)
<1>1. Len(s) \in Nat
  BY LenProperties
<1>2. \A j \in 1 .. n : Width(s[j]) \in 1 .. 4
  BY Widths
<1>3. ASSUME \A i \in m + 1 .. n : \E j \in m + 1 .. i : Covers(s, j, i, n)
      PROVE  TextUpTo(s, n)
  <2> SUFFICES ASSUME NEW i \in 1 .. n PROVE \E j \in 1 .. i : Covers(s, j, i, n)
    BY TextCovers
  <2>1. CASE i <= m
    <3>1. PICK j \in 1 .. i : Covers(s, j, i, m)
      BY <2>1, TextCovers
    <3>2. Width(s[j]) \in 1 .. 4
      BY <1>2
    <3>3. Covers(s, j, i, n)
      BY <3>1, <3>2 DEF Covers
    <3>4. QED
      BY <3>3
  <2>2. CASE i > m
    <3>1. PICK j \in m + 1 .. i : Covers(s, j, i, n)
      BY <1>3, <2>2
    <3>2. QED
      BY <3>1
  <2>3. QED
    BY <2>1, <2>2
<1>4. ASSUME TextUpTo(s, n), NEW i \in m + 1 .. n
      PROVE  \E j \in m + 1 .. i : Covers(s, j, i, n)
  <2>1. PICK j \in 1 .. i : Covers(s, j, i, n)
    BY <1>4, TextCovers
  <2>2. ASSUME j <= m PROVE FALSE
    <3>1. PICK h \in 1 .. j : Covers(s, h, j, m)
      BY <2>2, TextCovers
    <3>2. Width(s[h]) \in 1 .. 4 /\ Width(s[j]) \in 1 .. 4
      BY Widths
    <3>3. h # j
      BY <2>1, <3>1, <3>2 DEF Covers
    <3>4. s[j] = Cont
      BY <1>1, <2>2, <3>1, <3>2, <3>3 DEF Covers, WellBegun
    <3>5. QED
      BY <2>1, <3>4 DEF Covers, WellBegun
  <2>3. QED
    BY <2>1, <2>2
<1>5. QED
  BY <1>3, <1>4

\* A character that ends within a piece of s is the same in the piece.
LEMMA CoversShift ==
  ASSUME NEW s \in Seq(Byte), NEW m \in Nat, NEW c \in Nat, m <= c, c <= Len(s),
         NEW b \in Seq(Byte), Len(b) = c - m, \A i \in 1 .. Len(b) : b[i] = s[m + i],
         NEW n \in Nat, n <= Len(b), NEW i \in 1 .. n, NEW j \in 1 .. i
  PROVE  Covers(b, j, i, n) <=> Covers(s, m + j, m + i, m + n)
<1>1. Len(s) \in Nat /\ Len(b) \in Nat
  BY LenProperties
<1>2. b[j] = s[m + j] /\ Width(b[j]) = Width(s[m + j])
  BY <1>1
<1>3. PICK w \in 1 .. 4 : w = Width(b[j]) /\ w = Width(s[m + j])
  BY <1>2, Widths
<1>4. ASSUME j + w - 1 <= n PROVE WellBegun(b, j) <=> WellBegun(s, m + j)
  <2>1. ASSUME WellBegun(b, j), NEW k \in m + j + 1 .. m + j + w - 1
        PROVE  s[k] = Cont
    <3>1. k - m \in j + 1 .. j + w - 1 /\ m + (k - m) = k /\ k - m \in 1 .. Len(b)
      BY <1>1, <1>4
    <3>2. b[k - m] = s[k]
      BY <3>1
    <3>3. b[k - m] = Cont
      BY <1>1, <1>3, <2>1, <3>1 DEF WellBegun
    <3>4. QED
      BY <3>2, <3>3
  <2>2. ASSUME WellBegun(s, m + j), NEW k \in j + 1 .. j + w - 1
        PROVE  b[k] = Cont
    <3>1. m + k \in m + j + 1 .. m + j + w - 1 /\ m + k <= Len(s) /\ k \in 1 .. Len(b)
      BY <1>1, <1>4
    <3>2. s[m + k] = Cont
      BY <1>3, <2>2, <3>1 DEF WellBegun
    <3>3. QED
      BY <3>1, <3>2
  <2>3. ASSUME WellBegun(b, j) PROVE WellBegun(s, m + j)
    BY <1>2, <1>3, <2>1, <2>3 DEF WellBegun
  <2>4. ASSUME WellBegun(s, m + j) PROVE WellBegun(b, j)
    BY <1>2, <1>3, <2>2, <2>4 DEF WellBegun
  <2>5. QED
    BY <2>3, <2>4
<1>5. (j + w - 1 <= n) <=> ((m + j) + w - 1 <= m + n)
  OBVIOUS
<1>6. (i < j + w) <=> (m + i < (m + j) + w)
  OBVIOUS
<1>7. Covers(b, j, i, n) <=> WellBegun(b, j) /\ i < j + w /\ j + w - 1 <= n
  BY <1>3 DEF Covers
<1>8. Covers(s, m + j, m + i, m + n) <=>
        WellBegun(s, m + j) /\ m + i < (m + j) + w /\ (m + j) + w - 1 <= m + n
  BY <1>3 DEF Covers
<1>9. QED
  BY <1>4, <1>5, <1>6, <1>7, <1>8

\* A piece of s that follows a text is a text as far as s goes on being one.
LEMMA TextShift ==
  ASSUME NEW s \in Seq(Byte), NEW m \in Nat, NEW c \in Nat, m <= c, c <= Len(s),
         NEW b \in Seq(Byte), Len(b) = c - m, \A i \in 1 .. Len(b) : b[i] = s[m + i],
         NEW n \in Nat, n <= Len(b), TextUpTo(s, m)
  PROVE  TextUpTo(b, n) <=> TextUpTo(s, m + n)
<1>1. Len(s) \in Nat /\ Len(b) \in Nat
  BY LenProperties
<1>2. m + n \in Nat /\ m <= m + n /\ m + n <= Len(s)
  BY <1>1
<1>3. TextUpTo(s, m + n) <=>
        \A i \in m + 1 .. m + n : \E j \in m + 1 .. i : Covers(s, j, i, m + n)
  BY <1>2, TextSplit
<1>4. \A i \in 1 .. n : \A j \in 1 .. i :
        Covers(b, j, i, n) <=> Covers(s, m + j, m + i, m + n)
  BY CoversShift
<1>5. ASSUME TextUpTo(b, n), NEW i \in m + 1 .. m + n
      PROVE  \E j \in m + 1 .. i : Covers(s, j, i, m + n)
  <2>1. i - m \in 1 .. n /\ m + (i - m) = i
    OBVIOUS
  <2>2. PICK j \in 1 .. i - m : Covers(b, j, i - m, n)
    BY <1>5, <2>1, TextCovers
  <2>3. Covers(s, m + j, i, m + n)
    BY <1>4, <2>1, <2>2
  <2>4. m + j \in m + 1 .. i
    BY <2>1
  <2>5. QED
    BY <2>3, <2>4
<1>6. ASSUME TextUpTo(s, m + n), NEW i \in 1 .. n
      PROVE  \E j \in 1 .. i : Covers(b, j, i, n)
  <2>1. m + i \in m + 1 .. m + n
    OBVIOUS
  <2>2. PICK j \in m + 1 .. m + i : Covers(s, j, m + i, m + n)
    BY <1>3, <1>6, <2>1
  <2>3. j - m \in 1 .. i /\ m + (j - m) = j
    BY <2>2
  <2>4. Covers(b, j - m, i, n)
    BY <1>4, <2>2, <2>3
  <2>5. QED
    BY <2>3, <2>4
<1>7. QED
  BY <1>3, <1>5, <1>6, TextCovers

LEMMA LessThan == OpToRel(<, Nat) = {ss \in Nat \X Nat : ss[1] < ss[2]}
  BY DEF OpToRel

\* Every sequence is a text up to a last byte: Utf8Error::valid_up_to.
LEMMA ValidUpToType ==
  ASSUME NEW s \in Seq(Byte)
  PROVE  /\ ValidUpTo(s) \in 0 .. Len(s)
         /\ TextUpTo(s, ValidUpTo(s))
         /\ \A m \in ValidUpTo(s) + 1 .. Len(s) : ~TextUpTo(s, m)
<1> DEFINE L == Len(s)
           D == {d \in 0 .. L : TextUpTo(s, L - d)}
<1>1. L \in Nat
  BY LenProperties
<1>2. TextUpTo(s, 0)
  BY DEF TextUpTo
<1> HIDE DEF L
<1>3. L \in D
  BY <1>1, <1>2
<1>4. D \subseteq Nat /\ D # {}
  <2>1. D \subseteq 0 .. L
    OBVIOUS
  <2> HIDE DEF D
  <2>2. QED
    BY <1>1, <1>3, <2>1
<1>5. PICK d \in D : \A e \in D : ~(<<e, d>> \in OpToRel(<, Nat))
  BY <1>4, NatLessThanWellFounded, WFMin, Zenon
<1>6. L - d \in 0 .. L /\ TextUpTo(s, L - d)
  BY <1>1
<1>7. ASSUME NEW m \in L - d + 1 .. L, TextUpTo(s, m) PROVE FALSE
  <2>1. m \in Int /\ L - m \in 0 .. L /\ L - m < d /\ L - (L - m) = m
    BY <1>1, <1>6
  <2>2. L - m \in D
    BY <1>7, <2>1
  <2>3. <<L - m, d>> \in {ss \in Nat \X Nat : ss[1] < ss[2]}
    BY <1>1, <1>4, <2>1
  <2>4. QED
    BY <1>5, <2>2, <2>3, LessThan
<1>8. \E n \in 0 .. L : TextUpTo(s, n) /\ \A m \in n + 1 .. L : ~TextUpTo(s, m)
  BY <1>6, <1>7
<1>9. QED
  BY <1>8 DEF ValidUpTo, L

\* A character of a piece of s that is no character of s, but could not be
\* finished either: s is no text.
LEMMA FeedRefuses ==
  ASSUME NEW s \in Seq(Byte), NEW m \in Nat, NEW c \in Nat, m <= c, c <= Len(s),
         NEW b \in Seq(Byte), Len(b) = c - m, \A i \in 1 .. Len(b) : b[i] = s[m + i],
         TextUpTo(s, m),
         NEW n \in Nat, n < Len(b), TextUpTo(b, n),
         \A k \in n + 1 .. Len(b) : ~TextUpTo(b, k), ~Unfinished(b, n)
  PROVE  ~IsUtf8(s)
<1> SUFFICES ASSUME IsUtf8(s) PROVE FALSE
  OBVIOUS
<1> DEFINE a == m + n + 1
           w == Width(b[n + 1])
<1>1. Len(s) \in Nat /\ Len(b) \in Nat
  BY LenProperties
<1>2. m + n \in Nat /\ m <= m + n /\ m + n <= Len(s) /\ a \in m + n + 1 .. Len(s)
  BY <1>1
<1>3. TextUpTo(b, n)
  OBVIOUS
<1>4. \A k \in Nat : k <= Len(b) => (TextUpTo(b, k) <=> TextUpTo(s, m + k))
  BY TextShift
<1>5. TextUpTo(s, m + n)
  BY <1>3, <1>4
<1>6. n + 1 \in 1 .. Len(b) /\ m + (n + 1) = a
  BY <1>1
<1>7. b[n + 1] = s[a] /\ w = Width(s[a]) /\ w \in 1 .. 4
  BY <1>6, Widths
<1>8. WellBegun(s, a)
  <2>1. \A i \in m + n + 1 .. Len(s) : \E j \in m + n + 1 .. i : Covers(s, j, i, Len(s))
    <3> DEFINE f == m + n
               l == Len(s)
    <3>1. l \in Nat /\ f \in Nat /\ f <= l /\ l <= Len(s) /\ TextUpTo(s, l) /\ TextUpTo(s, f)
      BY <1>1, <1>2, <1>5 DEF IsUtf8
    <3> HIDE DEF f, l
    <3>2. \A i \in f + 1 .. l : \E j \in f + 1 .. i : Covers(s, j, i, l)
      BY <3>1, TextSplit
    <3>3. QED
      BY <3>2 DEF f, l
  <2>2. PICK j \in m + n + 1 .. a : Covers(s, j, a, Len(s))
    BY <1>2, <2>1
  <2>3. j = a
    BY <1>2, <2>2
  <2>4. QED
    BY <2>2, <2>3 DEF Covers
<1> HIDE DEF a, w
<1>9. a = m + n + 1 /\ a \in Nat /\ w \in 1 .. 4
  BY <1>2, <1>7 DEF a, w
<1>10. WellBegun(b, n + 1)
  <2>1. s[a] # Cont /\ \A k \in a + 1 .. a + w - 1 : k <= Len(s) => s[k] = Cont
    BY <1>7, <1>8 DEF WellBegun
  <2>2. ASSUME NEW k \in n + 1 + 1 .. n + 1 + w - 1, k <= Len(b) PROVE b[k] = Cont
    <3>1. k \in Int /\ n + 2 <= k /\ k <= n + w
      BY <1>9
    <3>2. k \in 1 .. Len(b) /\ m + k <= Len(s)
      BY <1>1, <2>2, <3>1
    <3>3. m + k \in a + 1 .. a + w - 1
      BY <1>9, <3>1
    <3>4. QED
      BY <2>1, <3>2, <3>3
  <2>3. QED
    BY <1>7, <2>1, <2>2 DEF WellBegun, w
<1>11. n + w <= Len(b)
  BY <1>1, <1>7, <1>10 DEF Unfinished, w
<1> DEFINE e == m + (n + w)
<1>12. /\ e \in Nat /\ m + n <= e /\ e <= Len(s) /\ e = a + w - 1
       /\ n + w \in n + 1 .. Len(b) /\ n + w \in Nat
  <2>1. w \in Int /\ 1 <= w /\ a = m + n + 1
    BY <1>9
  <2>2. n + w \in n + 1 .. Len(b) /\ n + w \in Nat
    BY <1>1, <1>11, <2>1
  <2>3. m + (n + w) = a + w - 1 /\ m + (n + w) \in Nat /\ m + n <= m + (n + w)
    BY <2>1, <2>2
  <2>4. m + (n + w) <= Len(s)
    BY <1>1, <2>2
  <2>5. QED
    BY <2>2, <2>3, <2>4
<1>13. ASSUME NEW i \in m + n + 1 .. e
       PROVE  \E j \in m + n + 1 .. i : Covers(s, j, i, e)
  <2>1. a \in m + n + 1 .. i /\ i < a + w /\ a + w - 1 <= e
    <3>1. w \in Int /\ 1 <= w /\ a = m + n + 1
      BY <1>9
    <3>2. i \in Int /\ m + n + 1 <= i /\ i <= e /\ e = a + w - 1
      BY <1>12
    <3> HIDE DEF e
    <3>3. QED
      BY <3>1, <3>2
  <2>2. Covers(s, a, i, e)
    BY <1>7, <1>8, <2>1 DEF Covers
  <2>3. QED
    BY <2>1, <2>2
<1>14. TextUpTo(s, e)
  <2> HIDE DEF e
  <2>1. QED
    BY <1>2, <1>5, <1>12, <1>13, TextSplit
<1>15. TextUpTo(b, n + w)
  BY <1>4, <1>11, <1>12, <1>14
<1>16. QED
  BY <1>12, <1>15

\* t is what is left of a character in the first c bytes of s, and chunk are
\* the bytes that follow them.
LeftOver(s, c, t) ==
  /\ c \in Nat /\ Len(t) <= c /\ TextUpTo(s, c - Len(t))
  /\ \A i \in 1 .. Len(t) : t[i] = s[(c - Len(t)) + i]
Follows(s, c, chunk) ==
  /\ c + Len(chunk) <= Len(s)
  /\ \A i \in 1 .. Len(chunk) : chunk[i] = s[c + i]

\* The bytes of b are those of s from byte m on.
PieceOf(s, m, b) == \A i \in 1 .. Len(b) : b[i] = s[m + i]

\* b is a text up to byte n, and no further.
LongestText(b, n) ==
  /\ n \in Nat /\ n <= Len(b) /\ TextUpTo(b, n)
  /\ \A k \in n + 1 .. Len(b) : ~TextUpTo(b, k)

\* Utf8StreamValidator::feed: b is what is left of a text up to byte c and the
\* chunk that follows.  What cannot be finished is no text; the rest is kept.
LEMMA FeedChunk ==
  ASSUME NEW s \in Seq(Byte), NEW c, NEW t \in Seq(Byte), NEW chunk \in Seq(Byte),
         NEW b \in Seq(Byte), NEW n,
         LeftOver(s, c, t), Follows(s, c, chunk), b = t \o chunk, LongestText(b, n)
  PROVE  /\ n < Len(b) /\ ~Unfinished(b, n) => ~IsUtf8(s)
         /\ Len(b) = Len(t) + Len(chunk)
         /\ PieceOf(s, c - Len(t), b)
         /\ TextUpTo(s, (c - Len(t)) + n)
<1>0. /\ c \in Nat /\ n \in Nat /\ Len(t) <= c /\ TextUpTo(s, c - Len(t))
      /\ \A i \in 1 .. Len(t) : t[i] = s[(c - Len(t)) + i]
      /\ c + Len(chunk) <= Len(s)
      /\ \A i \in 1 .. Len(chunk) : chunk[i] = s[c + i]
      /\ n <= Len(b) /\ TextUpTo(b, n)
      /\ \A k \in n + 1 .. Len(b) : ~TextUpTo(b, k)
  BY DEF LeftOver, Follows, LongestText
<1> DEFINE m == c - Len(t)
           d == c + Len(chunk)
<1>1. /\ Len(s) \in Nat /\ Len(t) \in Nat /\ Len(chunk) \in Nat /\ m \in Nat
      /\ m <= d /\ d \in Nat /\ d <= Len(s)
  BY <1>0, LenProperties
<1>2. /\ b \in Seq(Byte) /\ Len(b) = Len(t) + Len(chunk) /\ Len(b) \in Nat
      /\ Len(b) = d - m
  BY <1>0, <1>1, ConcatProperties
<1>3. \A i \in 1 .. Len(b) : b[i] = s[m + i]
  <2> SUFFICES ASSUME NEW i \in 1 .. Len(b) PROVE b[i] = s[m + i]
    OBVIOUS
  <2>1. b[i] = IF i <= Len(t) THEN t[i] ELSE chunk[i - Len(t)]
    BY <1>2, ConcatProperties
  <2>2. CASE i <= Len(t)
    BY <1>0, <1>1, <2>1, <2>2
  <2>3. CASE i > Len(t)
    <3>1. i - Len(t) \in 1 .. Len(chunk) /\ c + (i - Len(t)) = m + i
      BY <1>0, <1>1, <1>2, <2>3
    <3>2. chunk[i - Len(t)] = s[c + (i - Len(t))]
      BY <1>0, <3>1
    <3>3. QED
      BY <1>1, <2>1, <2>3, <3>1, <3>2
  <2>4. QED
    BY <1>1, <2>2, <2>3
<1>6. TextUpTo(s, m)
  BY <1>0
<1>5. m \in Nat /\ d \in Nat /\ m <= d /\ d <= Len(s) /\ Len(b) = d - m
  BY <1>1, <1>2
<1> HIDE DEF m, d
<1>7. TextUpTo(s, m + n)
  BY <1>0, <1>3, <1>5, <1>6, TextShift
<1>8. ASSUME n < Len(b), ~Unfinished(b, n) PROVE ~IsUtf8(s)
  BY <1>0, <1>3, <1>5, <1>6, <1>8, FeedRefuses
<1>9. QED
  BY <1>2, <1>3, <1>7, <1>8 DEF m, PieceOf

-----------------------------------------------------------------------------
(* What the parser makes of a payload.                                     *)

WireText == SubSeq(frame.payload, 6, PayloadLen)

\* The payload after its keyref, after its kind and after its string length.
LEMMA PayloadParts ==
  ASSUME NEW p \in Seq(Byte), Len(p) >= 3, NEW q, q = SubSeq(p, 3, Len(p))
  PROVE  /\ q \in Seq(Byte) /\ Len(q) = Len(p) - 2 /\ q # <<>>
         /\ \A i \in 1 .. Len(q) : q[i] = p[i + 2]
         /\ Tail(q) \in Seq(Byte) /\ Len(Tail(q)) = Len(p) - 3
         /\ \A i \in 1 .. Len(p) - 3 : Tail(q)[i] = p[i + 3]
<1>1. Len(p) \in Nat /\ \A i \in 3 .. Len(p) : p[i] \in Byte
  BY LenProperties, ElementOfSeq
<1>2. /\ q \in Seq(Byte) /\ Len(q) = Len(p) - 2
      /\ \A i \in 1 .. Len(q) : q[i] = p[i + 2]
  <2>1. /\ SubSeq(p, 3, Len(p)) \in Seq(Byte)
        /\ Len(SubSeq(p, 3, Len(p))) = IF 3 <= Len(p) THEN Len(p) - 3 + 1 ELSE 0
        /\ \A i \in 1 .. Len(p) - 3 + 1 : SubSeq(p, 3, Len(p))[i] = p[3 + i - 1]
    BY <1>1, SubSeqProperties
  <2>2. \A i \in 1 .. Len(p) - 2 : 3 + i - 1 = i + 2 /\ i \in 1 .. Len(p) - 3 + 1
    BY <1>1
  <2>3. QED
    BY <1>1, <2>1, <2>2
<1>3. q # <<>>
  <2>1. Len(q) # 0
    BY <1>1, <1>2
  <2>2. Len(<<>>) = 0
    BY EmptySeq
  <2>3. QED
    BY <2>1, <2>2, Zenon
<1>4. /\ Tail(q) \in Seq(Byte) /\ Len(Tail(q)) = Len(q) - 1
      /\ \A i \in 1 .. Len(q) - 1 : Tail(q)[i] = q[i + 1]
  BY <1>2, <1>3, HeadTailProperties
<1>5. ASSUME NEW i \in 1 .. Len(p) - 3 PROVE Tail(q)[i] = p[i + 3]
  <2>1. i + 1 \in 1 .. Len(q) /\ (i + 1) + 2 = i + 3 /\ i \in 1 .. Len(q) - 1
    BY <1>1, <1>2
  <2>2. q[i + 1] = p[(i + 1) + 2] /\ Tail(q)[i] = q[i + 1]
    BY <1>2, <1>4, <2>1
  <2>3. QED
    BY <2>1, <2>2
<1>6. QED
  BY <1>1, <1>2, <1>3, <1>4, <1>5

\* The text of a string.
LEMMA TextPart ==
  ASSUME NEW p \in Seq(Byte), Len(p) >= 5, NEW q, q = SubSeq(p, 3, Len(p)),
         NEW t, t = SubSeq(p, 6, Len(p))
  PROVE  /\ t \in Seq(Byte) /\ Len(t) = Len(p) - 5
         /\ \A i \in 1 .. Len(t) : t[i] = p[i + 5]
         /\ SubSeq(q, 4, Len(q)) = t
<1>1. Len(p) \in Nat /\ \A i \in 6 .. Len(p) : p[i] \in Byte
  BY LenProperties, ElementOfSeq
<1>2. /\ SubSeq(p, 6, Len(p)) \in Seq(Byte)
      /\ Len(SubSeq(p, 6, Len(p))) = IF 6 <= Len(p) THEN Len(p) - 6 + 1 ELSE 0
      /\ \A i \in 1 .. Len(p) - 6 + 1 : SubSeq(p, 6, Len(p))[i] = p[6 + i - 1]
  BY <1>1, SubSeqProperties
<1>3. \A i \in 1 .. Len(p) - 5 : 6 + i - 1 = i + 5 /\ i \in 1 .. Len(p) - 6 + 1
  BY <1>1
<1>4. t \in Seq(Byte) /\ Len(t) = Len(p) - 5 /\ \A i \in 1 .. Len(t) : t[i] = p[i + 5]
  <2>1. t \in Seq(Byte) /\ Len(t) = IF 6 <= Len(p) THEN Len(p) - 6 + 1 ELSE 0
    BY <1>2
  <2>2. Len(t) = Len(p) - 5
    <3>1. PICK l \in Nat : l = Len(p)
      BY <1>1
    <3>2. l >= 5 /\ Len(t) = IF 6 <= l THEN l - 6 + 1 ELSE 0
      BY <2>1, <3>1
    <3>3. Len(t) = l - 5
      BY <3>2
    <3>4. QED
      BY <3>1, <3>3
  <2>3. \A i \in 1 .. Len(t) : t[i] = p[i + 5]
    BY <1>2, <1>3, <2>2
  <2>4. QED
    BY <2>1, <2>2, <2>3
<1>5. /\ q \in Seq(Byte) /\ Len(q) = Len(p) - 2
      /\ \A i \in 1 .. Len(q) : q[i] = p[i + 2]
  BY <1>1, PayloadParts
<1>6. \A i \in 4 .. Len(q) : q[i] \in Byte
  BY <1>5, ElementOfSeq
<1>7. Len(q) \in Int
  BY <1>1, <1>5
<1>8. /\ SubSeq(q, 4, Len(q)) \in Seq(Byte)
      /\ Len(SubSeq(q, 4, Len(q))) = IF 4 <= Len(q) THEN Len(q) - 4 + 1 ELSE 0
      /\ \A i \in 1 .. Len(q) - 4 + 1 : SubSeq(q, 4, Len(q))[i] = q[4 + i - 1]
  BY <1>6, <1>7, SubSeqProperties
<1> DEFINE r == SubSeq(q, 4, Len(q))
<1>9. r \in Seq(Byte) /\ Len(r) = Len(t)
  BY <1>1, <1>4, <1>5, <1>8
<1>10. ASSUME NEW i \in 1 .. Len(r) PROVE r[i] = t[i]
  <2>1. /\ i \in 1 .. Len(q) - 4 + 1 /\ 4 + i - 1 \in 1 .. Len(q)
        /\ (4 + i - 1) + 2 = i + 5 /\ i \in 1 .. Len(t)
    BY <1>1, <1>4, <1>5, <1>9
  <2>2. r[i] = q[4 + i - 1] /\ q[4 + i - 1] = p[(4 + i - 1) + 2] /\ t[i] = p[i + 5]
    BY <1>4, <1>5, <1>8, <2>1
  <2>3. QED
    BY <2>1, <2>2
<1>11. r = t
  <2> HIDE DEF r
  <2>1. QED
    BY <1>4, <1>9, <1>10, SeqEqual
<1>12. QED
  BY <1>4, <1>11

\* MessageRef::decode of a WRITE, kind by kind.
LEMMA WriteDecoded ==
  ASSUME NEW p \in Seq(Byte), Len(p) >= 3
  PROVE  /\ p[3] \notin {1, 2, 3} => Decode("W", p) = Rejected
         /\ p[3] = 1 =>
              Decode("W", p) = IF Len(p) = 4 /\ p[4] \in {0, 1}
                                 THEN Request(Big(p), <<"bool", p[4]>>) ELSE Rejected
         /\ p[3] = 2 =>
              Decode("W", p) = IF Len(p) = 3 + I64Bytes
                                 THEN Request(Big(p), <<"i64", Tail(SubSeq(p, 3, Len(p)))>>)
                                 ELSE Rejected
         /\ p[3] = 3 /\ Len(p) < 5 => Decode("W", p) = Rejected
         /\ p[3] = 3 /\ Len(p) >= 5 =>
              LET t == SubSeq(p, 6, Len(p)) IN
                Decode("W", p) =
                  IF Len(t) = 256 * p[4] + p[5] /\ 0 \notin Elements(t) /\ IsUtf8(t)
                    THEN Request(Big(p), <<"str", t>>) ELSE Rejected
<1> DEFINE q == SubSeq(p, 3, Len(p))
<1>1. Len(p) \in Nat /\ I64Bytes \in Nat
  BY LenProperties, ReaderAssumption
<1>2. /\ q \in Seq(Byte) /\ Len(q) = Len(p) - 2 /\ q # <<>>
      /\ \A i \in 1 .. Len(q) : q[i] = p[i + 2]
      /\ \A i \in 1 .. Len(p) - 3 : Tail(q)[i] = p[i + 3]
  BY PayloadParts
<1>3. Decode("W", p) = DecodeValue(Big(p), q)
  BY <1>1 DEF Decode, EmptyOps, KeyrefOps
<1> HIDE DEF q
<1>4. q[1] = p[3]
  <2>1. 1 \in 1 .. Len(q) /\ 1 + 2 = 3
    BY <1>1, <1>2
  <2>2. QED
    BY <1>2, <2>1
<1>5. ASSUME Len(p) >= 4 PROVE q[2] = p[4]
  <2>1. 2 \in 1 .. Len(q) /\ 2 + 2 = 4
    BY <1>1, <1>2, <1>5
  <2>2. QED
    BY <1>2, <2>1
<1>6. p[3] \notin {1, 2, 3} => DecodeValue(Big(p), q) = Rejected
  BY <1>2, <1>4 DEF DecodeValue
<1>7. p[3] = 1 => DecodeValue(Big(p), q) =
                    IF Len(q) = 2 /\ q[2] \in {0, 1} THEN Request(Big(p), <<"bool", q[2]>>)
                    ELSE Rejected
  BY <1>2, <1>4 DEF DecodeValue
<1>8. p[3] = 2 => DecodeValue(Big(p), q) =
                    IF Len(q) = 1 + I64Bytes THEN Request(Big(p), <<"i64", Tail(q)>>)
                    ELSE Rejected
  BY <1>2, <1>4 DEF DecodeValue
<1>9. p[3] = 3 => DecodeValue(Big(p), q) =
                    IF Len(q) < 3 THEN Rejected
                    ELSE LET text == SubSeq(q, 4, Len(q)) IN
                           IF /\ Len(text) = Big(Tail(q))
                              /\ 0 \notin Elements(text) /\ IsUtf8(text)
                             THEN Request(Big(p), <<"str", text>>) ELSE Rejected
  BY <1>2, <1>4 DEF DecodeValue
<1>10. (Len(q) = 2 <=> Len(p) = 4) /\ (Len(q) = 1 + I64Bytes <=> Len(p) = 3 + I64Bytes)
       /\ (Len(q) < 3 <=> Len(p) < 5)
  BY <1>1, <1>2
<1>11. ASSUME Len(p) >= 5
       PROVE  Big(Tail(q)) = 256 * p[4] + p[5] /\ SubSeq(q, 4, Len(q)) = SubSeq(p, 6, Len(p))
  <2>1. 1 \in 1 .. Len(p) - 3 /\ 2 \in 1 .. Len(p) - 3 /\ 1 + 3 = 4 /\ 2 + 3 = 5
    BY <1>1, <1>11
  <2>2. Tail(q)[1] = p[4] /\ Tail(q)[2] = p[5]
    BY <1>2, <2>1
  <2>3. SubSeq(q, 4, Len(q)) = SubSeq(p, 6, Len(p))
    BY <1>11, TextPart DEF q
  <2>4. QED
    BY <2>2, <2>3 DEF Big
<1>12. p[3] = 1 => Decode("W", p) = IF Len(p) = 4 /\ p[4] \in {0, 1}
                                 THEN Request(Big(p), <<"bool", p[4]>>) ELSE Rejected
  BY <1>1, <1>3, <1>5, <1>7, <1>10
<1>13. p[3] = 3 /\ Len(p) >= 5 =>
              LET t == SubSeq(p, 6, Len(p)) IN
                Decode("W", p) =
                  IF Len(t) = 256 * p[4] + p[5] /\ 0 \notin Elements(t) /\ IsUtf8(t)
                    THEN Request(Big(p), <<"str", t>>) ELSE Rejected
  <2>1. SUFFICES ASSUME p[3] = 3, Len(p) >= 5, NEW t, t = SubSeq(p, 6, Len(p))
                 PROVE  Decode("W", p) =
                          IF Len(t) = 256 * p[4] + p[5] /\ 0 \notin Elements(t) /\ IsUtf8(t)
                            THEN Request(Big(p), <<"str", t>>) ELSE Rejected
    OBVIOUS
  <2>2. Big(Tail(q)) = 256 * p[4] + p[5] /\ SubSeq(q, 4, Len(q)) = t
    BY <1>11, <2>1
  <2>3. ~(Len(q) < 3)
    BY <1>1, <1>10, <2>1
  <2>4. DecodeValue(Big(p), q) =
          IF Len(t) = Big(Tail(q)) /\ 0 \notin Elements(t) /\ IsUtf8(t)
            THEN Request(Big(p), <<"str", t>>) ELSE Rejected
    BY <1>9, <2>1, <2>2, <2>3
  <2>5. QED
    BY <1>3, <2>2, <2>4
<1>14. p[3] = 3 /\ Len(p) < 5 => Decode("W", p) = Rejected
  BY <1>3, <1>9, <1>10
<1>15. p[3] = 2 =>
              Decode("W", p) = IF Len(p) = 3 + I64Bytes
                                 THEN Request(Big(p), <<"i64", Tail(SubSeq(p, 3, Len(p)))>>)
                                 ELSE Rejected
  BY <1>3, <1>8, <1>10 DEF q
<1>16. QED
  BY <1>3, <1>6, <1>12, <1>13, <1>14, <1>15

\* A WRITE that is too short for a kind, and the requests without a value.
LEMMA ShortDecoded ==
  ASSUME NEW p \in Seq(Byte)
  PROVE  /\ Len(p) < 3 => Decode("W", p) = Rejected
         /\ \A op \in EmptyOps :
              Decode(op, p) = IF Len(p) = 0 THEN Request(0, NoValue) ELSE Rejected
         /\ \A op \in KeyrefOps :
              Decode(op, p) = IF Len(p) = 2 THEN Request(Big(p), NoValue) ELSE Rejected
<1>1. p = <<>> <=> Len(p) = 0
  BY LenProperties, EmptySeq
<1>0. Len(p) \in Nat
  BY LenProperties
<1>2. \A op \in EmptyOps :
        Decode(op, p) = IF Len(p) = 0 THEN Request(0, NoValue) ELSE Rejected
  <2> SUFFICES ASSUME NEW op \in EmptyOps
               PROVE  Decode(op, p) = IF Len(p) = 0 THEN Request(0, NoValue) ELSE Rejected
    OBVIOUS
  <2>1. Decode(op, p) = IF p = <<>> THEN Request(0, NoValue) ELSE Rejected
    BY DEF Decode, EmptyOps, KeyrefOps
  <2>2. QED
    BY <1>1, <2>1
<1>3. \A op \in KeyrefOps :
        Decode(op, p) = IF Len(p) = 2 THEN Request(Big(p), NoValue) ELSE Rejected
  <2>1. \A op \in KeyrefOps : op \notin EmptyOps
    BY DEF KeyrefOps, EmptyOps
  <2>2. QED
    BY <2>1 DEF Decode
<1>4. ASSUME Len(p) < 3 PROVE Decode("W", p) = Rejected
  <2>1. Decode("W", p) = IF Len(p) < 2 THEN Rejected
                         ELSE DecodeValue(Big(p), SubSeq(p, 3, Len(p)))
    BY DEF Decode, EmptyOps, KeyrefOps
  <2>2. CASE Len(p) < 2
    BY <2>1, <2>2
  <2>3. CASE ~(Len(p) < 2)
    <3>1. SubSeq(p, 3, Len(p)) = <<>>
      BY <1>0, <1>4, SubSeqEmpty
    <3>2. DecodeValue(Big(p), <<>>) = Rejected
      BY DEF DecodeValue
    <3>3. QED
      BY <2>1, <2>3, <3>1, <3>2
  <2>4. QED
    BY <2>2, <2>3
<1>5. QED
  BY <1>2, <1>3, <1>4

-----------------------------------------------------------------------------
(* The types of what is read.                                              *)

MaxLength == 65535   \* u16::MAX

LEMMA PayloadType ==
  ASSUME LengthInv
  PROVE  /\ frame.payload \in Seq(Byte) /\ PayloadLen \in Nat /\ PayloadLen <= MaxLength
         /\ PayloadLen = Len(frame.payload) /\ DOMAIN frame.payload = 1 .. PayloadLen
         /\ \A i \in 1 .. PayloadLen : frame.payload[i] \in Byte
<1>1. frame.payload \in Seq(Byte) /\ Len(frame.payload) <= MaxLength
  BY DEF LengthInv, IsFrame, Byte, MaxLength
<1>2. PayloadLen = Len(frame.payload)
  BY DEF PayloadLen
<1>3. QED
  BY <1>1, <1>2, LenProperties, ElementOfSeq

\* What read_exact puts into its buffer.
LEMMA BytesRead ==
  ASSUME LengthInv, NEW n \in Nat
  PROVE  /\ Bytes(n) \in Seq(Byte) /\ Len(Bytes(n)) = n
         /\ \A i \in 1 .. n : Bytes(n)[i] \in Byte
         /\ read >= 3 /\ read - 3 + n <= PayloadLen =>
              \A i \in 1 .. n : Bytes(n)[i] = frame.payload[read - 3 + i]
<1>1. read \in Nat
  BY DEF LengthInv
<1>2. \A i \in 1 .. n : Bytes(n)[i] \in Byte
  <2>1. 0 \in Byte
    BY DEF Byte
  <2> SUFFICES ASSUME NEW i \in 1 .. n PROVE Bytes(n)[i] \in Byte
    OBVIOUS
  <2>2. Bytes(n)[i] = IF read - 3 + i \in 1 .. PayloadLen
                        THEN frame.payload[read - 3 + i] ELSE 0
    BY PayloadType DEF Bytes
  <2>3. QED
    BY <2>1, <2>2, PayloadType
<1>3. Bytes(n) \in [1 .. n -> Byte]
  BY <1>2 DEF Bytes
<1>4. Bytes(n) \in Seq(Byte) /\ Len(Bytes(n)) = n
  BY <1>3
<1>5. ASSUME read >= 3, read - 3 + n <= PayloadLen, NEW i \in 1 .. n
      PROVE  Bytes(n)[i] = frame.payload[read - 3 + i]
  <2>1. read - 3 + i \in 1 .. PayloadLen
    BY <1>1, <1>5, PayloadType
  <2>2. QED
    BY <2>1, PayloadType DEF Bytes
<1>6. QED
  BY <1>2, <1>4, <1>5

LEMMA MaxLengthType == MaxLength \in Nat
  BY DEF MaxLength

LEMMA BigType ==
  ASSUME NEW s, s[1] \in Byte, s[2] \in Byte
  PROVE  Big(s) \in Nat /\ Big(s) <= MaxLength
<1>1. s[1] \in Nat /\ s[1] <= 255 /\ s[2] \in Nat /\ s[2] <= 255
  BY DEF Byte
<1>2. QED
  BY <1>1 DEF Big, MaxLength

\* LengthInv, and the type of each variable: what is left of a character is
\* shorter than the longest one.
TypeInv ==
  /\ LengthInv
  /\ left <= MaxLength /\ fault \in BOOLEAN /\ keyref \in Nat /\ keyref <= MaxLength
  /\ tail \in Seq(Byte) /\ Len(tail) < 4
  /\ verdict \in {"reading", "request", "reject"}

\* The buffer that Utf8StreamValidator::feed looks at.
LEMMA FeedBuffer ==
  ASSUME TypeInv, NEW b, b = tail \o Bytes(ChunkLen)
  PROVE  /\ b \in Seq(Byte)
         /\ ValidUpTo(b) \in Nat /\ ValidUpTo(b) <= Len(b) /\ TextUpTo(b, ValidUpTo(b))
         /\ \A k \in ValidUpTo(b) + 1 .. Len(b) : ~TextUpTo(b, k)
<1>1. b \in Seq(Byte)
  BY ChunkFits, BytesRead, ConcatProperties DEF TypeInv
<1>2. Len(b) \in Nat
  BY <1>1, LenProperties
<1> HIDE DEF Byte
<1>3. /\ ValidUpTo(b) \in 0 .. Len(b) /\ TextUpTo(b, ValidUpTo(b))
      /\ \A k \in ValidUpTo(b) + 1 .. Len(b) : ~TextUpTo(b, k)
  BY <1>1, ValidUpToType
<1>4. ValidUpTo(b) \in Nat /\ ValidUpTo(b) <= Len(b)
  BY <1>2, <1>3
<1>5. QED
  BY <1>1, <1>3, <1>4

\* What follows valid_up_to is kept when it can be finished.
LEMMA FeedTail ==
  ASSUME NEW b \in Seq(Byte), NEW n \in Nat, n <= Len(b),
         ~(n < Len(b) /\ ~Unfinished(b, n))
  PROVE  /\ SubSeq(b, n + 1, Len(b)) \in Seq(Byte)
         /\ Len(SubSeq(b, n + 1, Len(b))) = Len(b) - n /\ Len(b) - n < 4
         /\ \A i \in 1 .. Len(b) - n : SubSeq(b, n + 1, Len(b))[i] = b[n + i]
<1>1. PICK l \in Nat : l = Len(b)
  BY LenProperties
<1>2. \A i \in n + 1 .. l : b[i] \in Byte
  BY <1>1, ElementOfSeq
<1>3. /\ SubSeq(b, n + 1, l) \in Seq(Byte)
      /\ Len(SubSeq(b, n + 1, l)) = IF n + 1 <= l THEN l - (n + 1) + 1 ELSE 0
      /\ \A i \in 1 .. l - (n + 1) + 1 : SubSeq(b, n + 1, l)[i] = b[n + 1 + i - 1]
  BY <1>2, SubSeqProperties
<1>4. Len(SubSeq(b, n + 1, l)) = l - n
  BY <1>1, <1>3
<1>5. \A i \in 1 .. l - n : i \in 1 .. l - (n + 1) + 1 /\ n + 1 + i - 1 = n + i
  OBVIOUS
<1>6. \A i \in 1 .. l - n : SubSeq(b, n + 1, l)[i] = b[n + i]
  BY <1>3, <1>5
<1>7. l - n < 4
  <2>1. CASE n < l
    <3>1. n + Width(b[n + 1]) > l
      BY <1>1, <2>1 DEF Unfinished
    <3>2. Width(b[n + 1]) \in 1 .. 4
      BY Widths
    <3>3. QED
      BY <3>1, <3>2
  <2>2. QED
    BY <1>1, <2>1
<1>8. QED
  BY <1>1, <1>3, <1>4, <1>6, <1>7

LEMMA TypeStep == TypeInv /\ [Next]_vars => TypeInv'
<1> SUFFICES ASSUME TypeInv, [Next]_vars PROVE TypeInv'
  OBVIOUS
<1>1. LengthInv /\ LengthInv'
  BY LengthStep DEF TypeInv
<1>2. PayloadLen \in Nat /\ PayloadLen <= MaxLength /\ left \in Nat /\ MaxLength \in Nat
  BY <1>1, PayloadType, MaxLengthType DEF LengthInv
<1>3. ChunkLen \in Nat /\ ChunkLen <= left
  BY <1>1, ChunkFits
<1>4. Bytes(2)[1] \in Byte /\ Bytes(2)[2] \in Byte
  <2>1. \A i \in 1 .. 2 : Bytes(2)[i] \in Byte
    BY <1>1, BytesRead
  <2>2. QED
    BY <2>1
<1>5. Big(Bytes(2)) \in Nat /\ Big(Bytes(2)) <= MaxLength
  BY <1>4, BigType
<1>6. CASE ReadHeader
  <2>1. left' \in {left, PayloadLen} /\ fault' \in {fault, TRUE}
    BY <1>6 DEF ReadHeader, Discard
  <2>2. verdict' \in {verdict, "reject"} /\ UNCHANGED <<keyref, tail>>
    BY <1>6 DEF ReadHeader
  <2>3. QED
    BY <1>1, <1>2, <2>1, <2>2 DEF TypeInv
<1>7. CASE ReadKeyref
  BY <1>1, <1>5, <1>7 DEF TypeInv, ReadKeyref
<1>8. CASE ReadKind
  <2>1. PayloadLen >= 3
    BY <1>8 DEF TypeInv, LengthInv, Lengths, ReadKind
  <2>2. QED
    <3>1. left' \in {left, PayloadLen - 3} /\ fault' \in {fault, TRUE}
      BY <1>8 DEF ReadKind, Discard
    <3>2. UNCHANGED <<keyref, tail, verdict>>
      BY <1>8 DEF ReadKind
    <3>3. left' <= MaxLength
      BY <1>2, <2>1, <3>1 DEF TypeInv
    <3>4. QED
      BY <1>1, <3>1, <3>2, <3>3 DEF TypeInv
<1>9. CASE ReadBool
  BY <1>1, <1>9 DEF TypeInv, ReadBool
<1>10. CASE ReadI64
  BY <1>1, <1>10 DEF TypeInv, ReadI64
<1>11. CASE ReadStrLen
  <2>1. left' <= MaxLength /\ fault' \in BOOLEAN
    <3>1. \/ left' = PayloadLen - 5 /\ fault' = TRUE
          \/ left' = Big(Bytes(2)) /\ fault' = fault
      BY <1>11 DEF ReadStrLen, Discard
    <3>2. PayloadLen - 5 <= MaxLength
      BY <1>2
    <3>3. QED
      BY <1>5, <3>1, <3>2 DEF TypeInv
  <2>2. QED
    BY <1>1, <1>11, <2>1 DEF TypeInv, ReadStrLen
<1>12. CASE ReadStr
  <2>1. left' <= MaxLength
    BY <1>2, <1>12 DEF ReadStr
  <2>2. fault' \in BOOLEAN /\ UNCHANGED <<keyref, tail, verdict>>
    BY <1>12 DEF ReadStr
  <2>3. QED
    BY <1>1, <2>1, <2>2 DEF TypeInv
<1>13. CASE Feed
  <2> DEFINE b == tail \o Bytes(ChunkLen)
             n == ValidUpTo(b)
             r == SubSeq(b, n + 1, Len(b))
             Bad == 0 \in Elements(Bytes(ChunkLen)) \/ (n < Len(b) /\ ~Unfinished(b, n))
  <2>1. b \in Seq(Byte) /\ n \in Nat /\ n <= Len(b)
    BY FeedBuffer
  <2>2. ASSUME ~Bad PROVE r \in Seq(Byte) /\ Len(r) < 4
    <3>1. ~(n < Len(b) /\ ~Unfinished(b, n))
      BY <2>2
    <3> HIDE DEF b, n
    <3>2. r \in Seq(Byte) /\ Len(r) = Len(b) - n /\ Len(b) - n < 4
      BY <2>1, <3>1, FeedTail
    <3>3. QED
      BY <3>2
  <2>3. /\ left' = left - ChunkLen /\ UNCHANGED <<keyref, verdict>>
        /\ \/ fault /\ UNCHANGED <<fault, tail>>
           \/ ~fault /\ Bad /\ fault' = TRUE /\ UNCHANGED tail
           \/ ~fault /\ ~Bad /\ tail' = r /\ UNCHANGED fault
    <3>1. left' = left - ChunkLen /\ UNCHANGED <<keyref, verdict>>
      BY <1>13 DEF Feed
    <3>2. fault \in BOOLEAN
      BY DEF TypeInv
    <3>3. CASE fault
      <4>1. UNCHANGED <<fault, tail>>
        BY <1>13, <3>3 DEF Feed
      <4>2. QED
        BY <3>1, <3>3, <4>1
    <3>4. CASE ~fault /\ Bad
      <4>1. fault' = TRUE /\ UNCHANGED tail
        BY <1>13, <3>4 DEF Feed
      <4>2. QED
        BY <3>1, <3>4, <4>1
    <3>5. CASE ~fault /\ ~Bad
      <4>1. tail' = r /\ UNCHANGED fault
        BY <1>13, <3>5 DEF Feed
      <4>2. QED
        BY <3>1, <3>5, <4>1
    <3>6. QED
      BY <3>3, <3>4, <3>5
  <2> HIDE DEF Bad, r
  <2>4. tail' \in Seq(Byte) /\ Len(tail') < 4 /\ fault' \in BOOLEAN
    BY <2>2, <2>3 DEF TypeInv
  <2>5. left' <= MaxLength
    BY <1>2, <1>3, <2>3 DEF TypeInv
  <2>6. QED
    BY <1>1, <2>3, <2>4, <2>5 DEF TypeInv
<1>14. CASE FeedDone
  BY <1>1, <1>14 DEF TypeInv, FeedDone
<1>15. CASE DiscardStep
  BY <1>1, <1>2, <1>3, <1>15 DEF TypeInv, DiscardStep
<1>16. CASE FinishChecksum
  BY <1>1, <1>16 DEF TypeInv, FinishChecksum
<1>17. CASE Break
  BY <1>1, <1>17 DEF TypeInv, Break
<1>18. CASE UNCHANGED vars
  BY <1>1, <1>18 DEF TypeInv, vars
<1>19. QED
  BY <1>6, <1>7, <1>8, <1>9, <1>10, <1>11, <1>12, <1>13, <1>14, <1>15, <1>16, <1>17, <1>18
  DEF Next

LEMMA TypeInit == Init => TypeInv
<1>1. <<>> \in Seq(Byte) /\ Len(<<>>) = 0 /\ Len(<<>>) < 4
  BY EmptySeq
<1>2. 0 <= MaxLength
  BY DEF MaxLength
<1> SUFFICES ASSUME Init PROVE TypeInv
  OBVIOUS
<1>3. LengthInv
  BY LengthInit
<1>4. tail \in Seq(Byte) /\ Len(tail) < 4
  BY <1>1 DEF Init
<1>5. QED
  BY <1>2, <1>3, <1>4 DEF Init, TypeInv

\* Every variable has its type; the bytes that Utf8StreamValidator keeps of an
\* unfinished character fit its tail, whatever text is cut into chunks of
\* whatever length.
THEOREM ReaderTypes == Spec => []TypeOK
<1>1. Spec => []TypeInv
  BY TypeInit, TypeStep, PTL DEF Spec
<1>2. TypeInv => TypeOK
  BY LenProperties DEF TypeInv, LengthInv, TypeOK, Byte, MaxLength
<1>3. QED
  BY <1>1, <1>2, PTL

-----------------------------------------------------------------------------
(* The two decoders agree.                                                 *)

Payload == frame.payload
Decoded == Decode(frame.op, frame.payload)

\* The bytes of a text that have been fed to the validator.
Consumed == Len(WireText) - left

\* Until an error is found, what has been fed has no NUL, and is a text but for
\* the tail; an error is one that the parser finds in the whole text.
FeedInv ==
  /\ left <= Len(WireText)
  /\ fault => 0 \in Elements(WireText) \/ ~IsUtf8(WireText)
  /\ ~fault => /\ \A i \in 1 .. Consumed : WireText[i] # 0
               /\ Len(tail) <= Consumed
               /\ \A i \in 1 .. Len(tail) : tail[i] = WireText[(Consumed - Len(tail)) + i]
               /\ TextUpTo(WireText, Consumed - Len(tail))

\* What is known once the payload has been read: the parser's result.
Checked ==
  /\ fault => Decoded = Rejected
  /\ ~fault => Decoded = Request(keyref, Decoded.value) /\ value = Known(Decoded.value)

\* What has been decoded at each read, of what the parser is given whole.
AgreeInv ==
  /\ pc \notin {"header", "done"} => ValidOpcode(frame.op)
  /\ pc = "header" => keyref = 0
  /\ pc \in {"header", "keyref"} => value = NoValue
  /\ pc \in {"header", "keyref", "kind", "bool", "i64", "strlen", "str"} =>
       ~fault /\ tail = <<>>
  /\ pc = "keyref" => frame.op \notin EmptyOps
  /\ pc \in {"kind", "bool", "i64", "strlen", "str", "feed"} =>
       frame.op = "W" /\ keyref = Big(Payload)
  /\ pc = "bool" => Payload[3] = 1
  /\ pc = "i64" => Payload[3] = 2
  /\ pc \in {"strlen", "str", "feed"} => Payload[3] = 3
  /\ pc \in {"str", "feed"} => /\ PayloadLen >= 5
                               /\ PayloadLen - 5 = 256 * Payload[4] + Payload[5]
  /\ pc = "str" => left = PayloadLen - 5 /\ left <= MaxStr
  /\ pc = "feed" => PayloadLen - 5 > MaxStr /\ FeedInv
  /\ pc = "discard" => fault /\ Decoded = Rejected
  /\ pc = "checksum" => Checked
  /\ pc = "done" => ReaderAgreesWithParser

LEMMA RequestParts ==
  /\ \A k, v : /\ Request(k, v).verdict = "request"
               /\ Request(k, v).keyref = k /\ Request(k, v).value = v
  /\ Rejected.verdict = "reject"
  BY DEF Request, Rejected

LEMMA FrameStays ==
  ASSUME frame' = frame
  PROVE  /\ Payload' = Payload /\ Decoded' = Decoded /\ WireText' = WireText
         /\ PayloadLen' = PayloadLen /\ FrameLen' = FrameLen
         /\ ValidOpcode(frame.op)' = ValidOpcode(frame.op)
         /\ Parsed(frame)' = Parsed(frame)
  BY DEF Payload, Decoded, WireText, PayloadLen, FrameLen, ValidOpcode, Parsed

LEMMA HeaderAgrees ==
  ASSUME TypeInv, AgreeInv, ReadHeader
  PROVE  AgreeInv'
<1>1. frame' = frame /\ UNCHANGED <<keyref, tail, value>>
  BY DEF ReadHeader
<1>2. pc = "header" /\ keyref = 0 /\ value = NoValue /\ fault = FALSE /\ tail = <<>>
  BY DEF ReadHeader, AgreeInv, TypeInv
<1>3. PayloadLen = Len(Payload) /\ Payload \in Seq(Byte) /\ PayloadLen \in Nat
  BY PayloadType DEF Payload, TypeInv
<1>4. CASE ~ValidOpcode(frame.op)
  <2>1. pc' = "done" /\ verdict' = "reject"
    BY <1>4 DEF ReadHeader
  <2>2. Parsed(frame).verdict = "reject"
    BY <1>4, RequestParts DEF Parsed
  <2>3. ReaderAgreesWithParser'
    BY <1>1, <2>1, <2>2, FrameStays DEF ReaderAgreesWithParser
  <2>4. QED
    BY <2>1, <2>3 DEF AgreeInv
<1> DEFINE Malformed == \/ frame.op \in EmptyOps  /\ PayloadLen # 0
                        \/ frame.op \in KeyrefOps /\ PayloadLen # 2
                        \/ frame.op = "W" /\ PayloadLen < 3
<1>5. CASE ValidOpcode(frame.op) /\ Malformed
  <2>1. pc' = "discard" /\ fault' = TRUE
    BY <1>5 DEF ReadHeader, Discard
  <2>2. Decoded = Rejected
    BY <1>3, <1>5, ShortDecoded DEF Decoded, Payload
  <2>3. ValidOpcode(frame.op)' /\ Decoded' = Rejected
    BY <1>1, <1>5, <2>2, FrameStays
  <2>4. QED
    BY <2>1, <2>3 DEF AgreeInv
<1>6. CASE ValidOpcode(frame.op) /\ ~Malformed
  <2>1. UNCHANGED <<fault, frame, tail, keyref, value>> /\ ValidOpcode(frame.op)'
    BY <1>1, <1>6, FrameStays DEF ReadHeader
  <2>2. CASE frame.op \in EmptyOps
    <3>1. pc' = "checksum"
      BY <1>6, <2>2 DEF ReadHeader
    <3>2. Len(frame.payload) = 0
      BY <1>3, <1>6, <2>2 DEF Payload
    <3>3. Decoded = Request(0, NoValue)
      BY <1>3, <2>2, <3>2, ShortDecoded DEF Decoded, Payload
    <3>4. NoValue = Known(NoValue)
      BY DEF NoValue, Known
    <3>5. Checked'
      BY <1>2, <2>1, <3>3, <3>4, RequestParts, FrameStays DEF Checked
    <3>6. QED
      BY <2>1, <3>1, <3>5 DEF AgreeInv
  <2>3. CASE frame.op \notin EmptyOps
    <3>1. pc' = "keyref"
      BY <1>6, <2>3 DEF ReadHeader
    <3>2. QED
      BY <1>2, <2>1, <2>3, <3>1 DEF AgreeInv
  <2>4. QED
    BY <2>2, <2>3
<1>7. QED
  BY <1>4, <1>5, <1>6

LEMMA KeyrefAgrees ==
  ASSUME TypeInv, AgreeInv, ReadKeyref
  PROVE  AgreeInv'
<1>1. /\ pc = "keyref" /\ UNCHANGED <<frame, left, fault, tail, value, verdict>>
      /\ keyref' = Big(Bytes(2))
  BY DEF ReadKeyref
<1>2. /\ value = NoValue /\ fault = FALSE /\ tail = <<>>
      /\ ValidOpcode(frame.op) /\ frame.op \notin EmptyOps
  BY <1>1 DEF AgreeInv, TypeInv
<1>3. /\ PayloadLen = Len(frame.payload) /\ frame.payload \in Seq(Byte)
      /\ PayloadLen \in Nat
  BY PayloadType DEF TypeInv
<1>4. /\ read = 3
      /\ \/ frame.op = "W" /\ PayloadLen >= 3
         \/ frame.op # "W" /\ PayloadLen = 2
  BY <1>1 DEF TypeInv, LengthInv, Lengths
<1>5. keyref' = Big(Payload)
  <2>1. LengthInv /\ read >= 3 /\ read - 3 + 2 <= PayloadLen /\ 2 \in Nat
    <3>1. PICK l \in Nat : l = PayloadLen
      BY <1>3
    <3>2. l >= 2
      BY <1>4, <3>1
    <3>3. QED
      BY <1>4, <3>1, <3>2 DEF TypeInv
  <2>2. \A i \in 1 .. 2 : Bytes(2)[i] = frame.payload[read - 3 + i]
    BY <2>1, BytesRead
  <2>3. read - 3 + 1 = 1 /\ read - 3 + 2 = 2
    BY <1>4
  <2>4. Bytes(2)[1] = frame.payload[1] /\ Bytes(2)[2] = frame.payload[2]
    BY <2>2, <2>3
  <2>5. QED
    BY <1>1, <2>4 DEF Big, Payload
<1>6. ValidOpcode(frame.op)' /\ frame'.op = frame.op
  BY <1>1, <1>2, FrameStays
<1>7. CASE frame.op = "W"
  <2>1. pc' = "kind"
    BY <1>7 DEF ReadKeyref
  <2>2. keyref' = Big(Payload)' /\ frame.op' = "W"
    BY <1>1, <1>5, <1>7, FrameStays
  <2>3. QED
    BY <1>1, <1>2, <1>6, <2>1, <2>2 DEF AgreeInv
<1>8. CASE frame.op # "W"
  <2>1. pc' = "checksum"
    BY <1>8 DEF ReadKeyref
  <2>2. frame.op \in KeyrefOps /\ Len(frame.payload) = 2
    BY <1>2, <1>3, <1>4, <1>8 DEF ValidOpcode
  <2>3. Decoded = Request(Big(Payload), NoValue)
    BY <1>3, <2>2, ShortDecoded DEF Decoded, Payload
  <2>4. NoValue = Known(NoValue)
    BY DEF NoValue, Known
  <2>5. Checked'
    BY <1>1, <1>2, <1>5, <2>3, <2>4, RequestParts, FrameStays DEF Checked
  <2>6. QED
    BY <1>6, <2>1, <2>5 DEF AgreeInv
<1>9. QED
  BY <1>7, <1>8

LEMMA KindAgrees ==
  ASSUME TypeInv, AgreeInv, ReadKind
  PROVE  AgreeInv'
<1>1. pc = "kind" /\ UNCHANGED <<frame, tail, keyref, value, verdict>>
  BY DEF ReadKind
<1>2. /\ fault = FALSE /\ tail = <<>> /\ ValidOpcode(frame.op)
      /\ frame.op = "W" /\ keyref = Big(Payload)
  BY <1>1 DEF AgreeInv, TypeInv
<1>3. /\ PayloadLen = Len(Payload) /\ Payload \in Seq(Byte)
      /\ PayloadLen \in Nat /\ I64Bytes \in Nat
  BY PayloadType, ReaderAssumption DEF TypeInv, Payload
<1>4. read = 5 /\ PayloadLen >= 3
  BY <1>1 DEF TypeInv, LengthInv, Lengths
<1>5. Bytes(1)[1] = Payload[3]
  <2>1. LengthInv /\ read >= 3 /\ read - 3 + 1 <= PayloadLen /\ read - 3 + 1 = 3
    BY <1>3, <1>4 DEF TypeInv
  <2>2. \A i \in 1 .. 1 : Bytes(1)[i] = frame.payload[read - 3 + i]
    BY <2>1, BytesRead
  <2>3. QED
    BY <2>1, <2>2 DEF Payload
<1>6. ValidOpcode(frame.op)' /\ frame.op' = "W" /\ keyref' = Big(Payload)'
      /\ Payload' = Payload /\ Decoded' = Decoded
  BY <1>1, <1>2, FrameStays
<1> DEFINE kind == Payload[3]
           remaining == PayloadLen - 3
           Wrong == \/ kind \notin {1, 2, 3}
                    \/ kind = 1 /\ remaining # 1
                    \/ kind = 2 /\ remaining # I64Bytes
                    \/ kind = 3 /\ remaining < 2
<1>7. CASE Wrong
  <2>1. pc' = "discard" /\ fault' = TRUE
    BY <1>5, <1>7 DEF ReadKind, Discard
  <2>2. Decoded = Decode("W", Payload) /\ Len(Payload) >= 3
    BY <1>2, <1>3, <1>4 DEF Decoded, Payload
  <2>3. Decoded = Rejected
    <3>1. CASE kind \notin {1, 2, 3}
      BY <1>3, <2>2, <3>1, WriteDecoded
    <3>2. CASE kind = 1 /\ Len(Payload) # 4
      BY <1>3, <2>2, <3>2, WriteDecoded
    <3>3. CASE kind = 2 /\ Len(Payload) # 3 + I64Bytes
      BY <1>3, <2>2, <3>3, WriteDecoded
    <3>4. CASE kind = 3 /\ Len(Payload) < 5
      BY <1>3, <2>2, <3>4, WriteDecoded
    <3>5. QED
      BY <1>3, <1>7, <3>1, <3>2, <3>3, <3>4
  <2>4. QED
    BY <1>6, <2>1, <2>3 DEF AgreeInv
<1>8. CASE ~Wrong
  <2>1. UNCHANGED fault
    BY <1>5, <1>8 DEF ReadKind
  <2>2. \/ kind = 1 /\ pc' = "bool"
        \/ kind = 2 /\ pc' = "i64"
        \/ kind = 3 /\ pc' = "strlen"
    BY <1>5, <1>8 DEF ReadKind
  <2>3. QED
    BY <1>1, <1>2, <1>6, <2>1, <2>2 DEF AgreeInv
<1>9. QED
  BY <1>7, <1>8

LEMMA BoolAgrees ==
  ASSUME TypeInv, AgreeInv, ReadBool
  PROVE  AgreeInv'
<1>1. /\ pc = "bool" /\ UNCHANGED <<frame, left, tail, keyref, verdict>>
      /\ pc' = "checksum" /\ value' = <<"bool", Bytes(1)[1]>>
      /\ fault' = (Bytes(1)[1] \notin {0, 1})
  BY DEF ReadBool
<1>2. /\ ValidOpcode(frame.op) /\ frame.op = "W" /\ keyref = Big(Payload)
      /\ Payload[3] = 1
  BY <1>1 DEF AgreeInv
<1>3. PayloadLen = Len(Payload) /\ Payload \in Seq(Byte)
  BY PayloadType DEF TypeInv, Payload
<1>4. read = 6 /\ PayloadLen = 4
  BY <1>1 DEF TypeInv, LengthInv, Lengths
<1>5. Bytes(1)[1] = Payload[4]
  <2>1. LengthInv /\ read >= 3 /\ read - 3 + 1 <= PayloadLen /\ read - 3 + 1 = 4
    BY <1>4 DEF TypeInv
  <2>2. \A i \in 1 .. 1 : Bytes(1)[i] = frame.payload[read - 3 + i]
    BY <2>1, BytesRead
  <2>3. QED
    BY <2>1, <2>2 DEF Payload
<1>6. Len(Payload) >= 3 /\ Len(Payload) = 4
  BY <1>3, <1>4
<1>7. Decoded = IF Payload[4] \in {0, 1} THEN Request(Big(Payload), <<"bool", Payload[4]>>)
                ELSE Rejected
  BY <1>2, <1>3, <1>6, WriteDecoded DEF Decoded, Payload
<1>8. <<"bool", Payload[4]>> = Known(<<"bool", Payload[4]>>)
  BY DEF Known
<1>9. Checked'
  <2>1. /\ Decoded' = Decoded /\ keyref' = Big(Payload) /\ value' = <<"bool", Payload[4]>>
        /\ fault' = (Payload[4] \notin {0, 1})
    BY <1>1, <1>2, <1>5, FrameStays
  <2>2. CASE Payload[4] \in {0, 1}
    <3>1. Decoded = Request(Big(Payload), <<"bool", Payload[4]>>) /\ ~fault'
      BY <1>7, <2>1, <2>2
    <3>2. QED
      BY <1>8, <2>1, <3>1, RequestParts DEF Checked
  <2>3. CASE Payload[4] \notin {0, 1}
    <3>1. Decoded = Rejected /\ fault'
      BY <1>7, <2>1, <2>3
    <3>2. QED
      BY <2>1, <3>1 DEF Checked
  <2>4. QED
    BY <2>2, <2>3
<1>10. QED
  BY <1>1, <1>2, <1>9, FrameStays DEF AgreeInv

LEMMA I64Agrees ==
  ASSUME TypeInv, AgreeInv, ReadI64
  PROVE  AgreeInv'
<1>1. /\ pc = "i64" /\ UNCHANGED <<frame, left, fault, tail, keyref, verdict>>
      /\ pc' = "checksum" /\ value' = <<"i64", Bytes(I64Bytes)>>
  BY DEF ReadI64
<1>2. /\ ValidOpcode(frame.op) /\ frame.op = "W" /\ keyref = Big(Payload)
      /\ Payload[3] = 2 /\ fault = FALSE
  BY <1>1 DEF AgreeInv, TypeInv
<1>3. PayloadLen = Len(Payload) /\ Payload \in Seq(Byte) /\ I64Bytes \in Nat
  BY PayloadType, ReaderAssumption DEF TypeInv, Payload
<1>4. read = 6 /\ PayloadLen = 3 + I64Bytes
  BY <1>1 DEF TypeInv, LengthInv, Lengths
<1> DEFINE r == Tail(SubSeq(Payload, 3, Len(Payload)))
<1>5. Len(Payload) >= 3 /\ Len(Payload) = 3 + I64Bytes
  BY <1>3, <1>4
<1>6. /\ r \in Seq(Byte) /\ Len(r) = Len(Payload) - 3
      /\ \A i \in 1 .. Len(Payload) - 3 : r[i] = Payload[i + 3]
  BY <1>3, <1>5, PayloadParts
<1>7. Bytes(I64Bytes) = r
  <2>1. LengthInv /\ read >= 3 /\ read - 3 + I64Bytes <= PayloadLen /\ Len(r) = I64Bytes
    BY <1>3, <1>4, <1>5, <1>6 DEF TypeInv
  <2>2. /\ \A i \in 1 .. I64Bytes : Bytes(I64Bytes)[i] = frame.payload[read - 3 + i]
        /\ Bytes(I64Bytes) \in Seq(Byte) /\ Len(Bytes(I64Bytes)) = I64Bytes
    BY <1>3, <2>1, BytesRead
  <2> HIDE DEF r
  <2>3. ASSUME NEW i \in 1 .. I64Bytes PROVE Bytes(I64Bytes)[i] = r[i]
    <3>1. read - 3 + i = i + 3 /\ i \in 1 .. Len(Payload) - 3
      BY <1>3, <1>4, <1>5
    <3>2. QED
      BY <1>6, <2>2, <3>1 DEF Payload
  <2>4. QED
    BY <1>6, <2>1, <2>2, <2>3, SeqEqual
<1>8. Decoded = Request(Big(Payload), <<"i64", r>>)
  BY <1>2, <1>3, <1>5, WriteDecoded DEF Decoded, Payload
<1> HIDE DEF r
<1>9. <<"i64", r>> = Known(<<"i64", r>>)
  BY DEF Known
<1>10. Checked'
  BY <1>1, <1>2, <1>7, <1>8, <1>9, RequestParts, FrameStays DEF Checked
<1>11. QED
  BY <1>1, <1>2, <1>10, FrameStays DEF AgreeInv

\* What a WRITE of a string is to the parser.
LEMMA StringDecoded ==
  ASSUME TypeInv, frame.op = "W", Payload[3] = 3, PayloadLen >= 5
  PROVE  /\ WireText \in Seq(Byte) /\ Len(WireText) = PayloadLen - 5
         /\ \A i \in 1 .. Len(WireText) : WireText[i] = Payload[i + 5]
         /\ \/ PayloadLen - 5 # 256 * Payload[4] + Payload[5]
            \/ 0 \in Elements(WireText) \/ ~IsUtf8(WireText)
            => Decoded = Rejected
         /\ /\ PayloadLen - 5 = 256 * Payload[4] + Payload[5]
            /\ 0 \notin Elements(WireText) /\ IsUtf8(WireText)
            => Decoded = Request(Big(Payload), <<"str", WireText>>)
<1>1. PayloadLen = Len(Payload) /\ Payload \in Seq(Byte) /\ Len(Payload) >= 5
      /\ PayloadLen \in Nat
  BY PayloadType DEF TypeInv, Payload
<1>2. WireText = SubSeq(Payload, 6, Len(Payload))
  BY <1>1 DEF WireText, Payload
<1>3. /\ WireText \in Seq(Byte) /\ Len(WireText) = PayloadLen - 5
      /\ \A i \in 1 .. Len(WireText) : WireText[i] = Payload[i + 5]
  BY <1>1, <1>2, TextPart
<1>4. Len(Payload) >= 3
  BY <1>1
<1>5. Decoded = IF /\ Len(WireText) = 256 * Payload[4] + Payload[5]
                   /\ 0 \notin Elements(WireText) /\ IsUtf8(WireText)
                  THEN Request(Big(Payload), <<"str", WireText>>) ELSE Rejected
  BY <1>1, <1>2, <1>4, WriteDecoded DEF Decoded, Payload
<1>6. QED
  BY <1>3, <1>5

LEMMA StrLenAgrees ==
  ASSUME TypeInv, AgreeInv, ReadStrLen
  PROVE  AgreeInv'
<1>1. pc = "strlen" /\ UNCHANGED <<frame, tail, keyref, value, verdict>>
  BY DEF ReadStrLen
<1>2. /\ fault = FALSE /\ tail = <<>> /\ ValidOpcode(frame.op)
      /\ frame.op = "W" /\ keyref = Big(Payload) /\ Payload[3] = 3
  BY <1>1 DEF AgreeInv, TypeInv
<1>3. PayloadLen \in Nat /\ MaxStr \in Nat
  BY PayloadType, ReaderAssumption DEF TypeInv
<1>4. read = 6 /\ PayloadLen >= 5
  BY <1>1 DEF TypeInv, LengthInv, Lengths
<1> DEFINE n == 256 * Payload[4] + Payload[5]
<1>5. Big(Bytes(2)) = n
  <2>1. LengthInv /\ read >= 3 /\ read - 3 + 2 <= PayloadLen /\ 2 \in Nat
    BY <1>3, <1>4 DEF TypeInv
  <2>2. \A i \in 1 .. 2 : Bytes(2)[i] = frame.payload[read - 3 + i]
    BY <2>1, BytesRead
  <2>3. read - 3 + 1 = 4 /\ read - 3 + 2 = 5
    BY <1>4
  <2>4. Bytes(2)[1] = frame.payload[4] /\ Bytes(2)[2] = frame.payload[5]
    BY <2>2, <2>3
  <2>5. QED
    BY <2>4 DEF Big, Payload
<1>6. /\ Len(WireText) = PayloadLen - 5
      /\ PayloadLen - 5 # n => Decoded = Rejected
  BY <1>2, <1>4, StringDecoded
<1>7. /\ ValidOpcode(frame.op)' /\ frame.op' = "W" /\ keyref' = Big(Payload)'
      /\ Payload' = Payload /\ Decoded' = Decoded /\ PayloadLen' = PayloadLen
      /\ WireText' = WireText
  BY <1>1, <1>2, FrameStays
<1> HIDE DEF n
<1>8. CASE PayloadLen - 5 # n
  <2>1. pc' = "discard" /\ fault' = TRUE
    BY <1>5, <1>8 DEF ReadStrLen, Discard
  <2>2. QED
    BY <1>6, <1>7, <1>8, <2>1 DEF AgreeInv
<1>9. CASE PayloadLen - 5 = n
  <2>1. /\ left' = n /\ UNCHANGED fault
        /\ pc' = IF n <= MaxStr THEN "str" ELSE "feed"
    BY <1>5, <1>9 DEF ReadStrLen
  <2>2. PayloadLen' - 5 = 256 * Payload[4]' + Payload[5]' /\ PayloadLen' >= 5
    BY <1>4, <1>7, <1>9 DEF n
  <2>3. CASE n <= MaxStr
    <3>1. pc' = "str" /\ left' = PayloadLen' - 5 /\ left' <= MaxStr
      BY <1>7, <1>9, <2>1, <2>3
    <3>2. QED
      BY <1>1, <1>2, <1>7, <2>1, <2>2, <3>1 DEF AgreeInv
  <2>4. CASE ~(n <= MaxStr)
    <3>1. pc' = "feed" /\ left' = PayloadLen - 5 /\ PayloadLen' - 5 > MaxStr
      BY <1>3, <1>7, <1>9, <2>1, <2>4
    <3>2. Consumed' = 0 /\ left' <= Len(WireText)'
      BY <1>3, <1>6, <1>7, <3>1 DEF Consumed
    <3>3. tail' = <<>> /\ Len(tail') = 0 /\ ~fault'
      BY <1>1, <1>2, <2>1, EmptySeq
    <3>4. TextUpTo(WireText, 0)
      BY DEF TextUpTo
    <3>5. Consumed' - Len(tail') = 0
      <4>1. Len(tail') = 0
        BY <3>3
      <4>2. QED
        BY <3>2, <4>1
    <3>6. TextUpTo(WireText, Consumed - Len(tail))'
      BY <1>7, <3>4, <3>5 DEF TextUpTo, WellBegun, Width
    <3>7. FeedInv'
      BY <3>2, <3>3, <3>6 DEF FeedInv
    <3>8. QED
      BY <1>1, <1>2, <1>7, <2>1, <2>2, <3>1, <3>7 DEF AgreeInv
  <2>5. QED
    BY <2>3, <2>4
<1>10. QED
  BY <1>8, <1>9

LEMMA StrAgrees ==
  ASSUME TypeInv, AgreeInv, ReadStr
  PROVE  AgreeInv'
<1>1. /\ pc = "str" /\ UNCHANGED <<frame, tail, keyref, verdict>>
      /\ pc' = "checksum" /\ value' = <<"str", Bytes(left)>>
      /\ fault' = (0 \in Elements(Bytes(left)) \/ ~IsUtf8(Bytes(left)))
  BY DEF ReadStr
<1>2. /\ ValidOpcode(frame.op) /\ frame.op = "W" /\ keyref = Big(Payload)
      /\ Payload[3] = 3 /\ PayloadLen >= 5
      /\ PayloadLen - 5 = 256 * Payload[4] + Payload[5]
      /\ left = PayloadLen - 5 /\ left <= MaxStr
  BY <1>1 DEF AgreeInv
<1>3. PayloadLen \in Nat /\ MaxStr \in Nat
  BY PayloadType, ReaderAssumption DEF TypeInv
<1>4. read + left = PayloadLen + 3 /\ read \in Nat /\ left \in Nat
  BY <1>1 DEF TypeInv, LengthInv, Lengths
<1>5. read = 8
  BY <1>2, <1>3, <1>4
<1>6. /\ WireText \in Seq(Byte) /\ Len(WireText) = left
      /\ \A i \in 1 .. Len(WireText) : WireText[i] = Payload[i + 5]
  BY <1>2, StringDecoded
<1>7. Bytes(left) = WireText
  <2>1. LengthInv /\ read >= 3 /\ read - 3 + left <= PayloadLen
    BY <1>3, <1>4, <1>5 DEF TypeInv
  <2>2. /\ \A i \in 1 .. left : Bytes(left)[i] = frame.payload[read - 3 + i]
        /\ Bytes(left) \in Seq(Byte) /\ Len(Bytes(left)) = left
    BY <1>4, <2>1, BytesRead
  <2>3. ASSUME NEW i \in 1 .. left PROVE Bytes(left)[i] = WireText[i]
    <3>1. read - 3 + i = i + 5
      BY <1>4, <1>5
    <3>2. QED
      BY <1>6, <2>2, <3>1 DEF Payload
  <2>4. QED
    BY <1>6, <2>2, <2>3, SeqEqual
<1>8. Known(<<"str", WireText>>) = <<"str", WireText>>
  <2>1. ~(Len(WireText) > MaxStr)
    BY <1>2, <1>3, <1>4, <1>6
  <2>2. QED
    BY <2>1 DEF Known
<1>9. Checked'
  <2>1. /\ Decoded' = Decoded /\ keyref' = Big(Payload) /\ value' = <<"str", WireText>>
        /\ fault' = (0 \in Elements(WireText) \/ ~IsUtf8(WireText))
    BY <1>1, <1>2, <1>7, FrameStays
  <2>2. CASE 0 \in Elements(WireText) \/ ~IsUtf8(WireText)
    <3>1. Decoded = Rejected /\ fault'
      BY <1>2, <2>1, <2>2, StringDecoded
    <3>2. QED
      BY <2>1, <3>1 DEF Checked
  <2>3. CASE 0 \notin Elements(WireText) /\ IsUtf8(WireText)
    <3>1. Decoded = Request(Big(Payload), <<"str", WireText>>) /\ ~fault'
      BY <1>2, <2>1, <2>3, StringDecoded
    <3>2. QED
      BY <1>8, <2>1, <3>1, RequestParts DEF Checked
  <2>4. QED
    BY <2>2, <2>3
<1>10. QED
  BY <1>1, <1>2, <1>9, FrameStays DEF AgreeInv

LEMMA FeedDoneAgrees ==
  ASSUME TypeInv, AgreeInv, FeedDone
  PROVE  AgreeInv'
<1>1. /\ pc = "feed" /\ left = 0 /\ UNCHANGED <<frame, left, tail, keyref, verdict>>
      /\ pc' = "checksum" /\ value' = Oversized
      /\ fault' = (fault \/ ~IsUtf8(tail))
  BY DEF FeedDone
<1>2. /\ ValidOpcode(frame.op) /\ frame.op = "W" /\ keyref = Big(Payload)
      /\ Payload[3] = 3 /\ PayloadLen >= 5 /\ PayloadLen - 5 > MaxStr
      /\ PayloadLen - 5 = 256 * Payload[4] + Payload[5] /\ FeedInv
  BY <1>1 DEF AgreeInv
<1>3. /\ WireText \in Seq(Byte) /\ Len(WireText) = PayloadLen - 5
      /\ Len(WireText) \in Nat /\ tail \in Seq(Byte) /\ Len(tail) \in Nat
  BY <1>2, StringDecoded, LenProperties DEF TypeInv
<1>4. Consumed = Len(WireText)
  BY <1>1, <1>3 DEF Consumed
<1>5. Decoded' = Decoded /\ keyref' = Big(Payload)
  BY <1>1, <1>2, FrameStays
<1>6. CASE fault
  <2>1. Decoded = Rejected /\ fault'
    BY <1>1, <1>2, <1>6, StringDecoded DEF FeedInv
  <2>2. QED
    BY <1>1, <1>2, <1>5, <2>1, FrameStays DEF AgreeInv, Checked
<1>7. CASE ~fault
  <2> DEFINE l == Len(WireText)
             m == l - Len(tail)
  <2>1. /\ \A i \in 1 .. l : WireText[i] # 0
        /\ Len(tail) <= l
        /\ \A i \in 1 .. Len(tail) : tail[i] = WireText[m + i]
        /\ TextUpTo(WireText, m)
    BY <1>2, <1>4, <1>7 DEF FeedInv
  <2>2. /\ l \in Nat /\ m \in Nat /\ m <= l /\ Len(tail) = l - m /\ m + Len(tail) = l
        /\ l <= Len(WireText)
    <3>1. PICK x \in Nat, y \in Nat : x = Len(WireText) /\ y = Len(tail)
      BY <1>3
    <3>2. y <= x
      BY <2>1, <3>1
    <3>3. x - y \in Nat /\ x - y <= x /\ y = x - (x - y) /\ (x - y) + y = x
      BY <3>2
    <3>4. QED
      BY <3>1, <3>3
  <2> HIDE DEF l, m
  <2>3. TextUpTo(tail, Len(tail)) <=> TextUpTo(WireText, m + Len(tail))
    BY <1>3, <2>1, <2>2, TextShift
  <2>4. IsUtf8(tail) <=> IsUtf8(WireText)
    BY <2>2, <2>3 DEF IsUtf8, l
  <2>5. 0 \notin Elements(WireText)
    BY <1>3, <2>1, LenProperties DEF Elements, l
  <2>6. CASE ~IsUtf8(tail)
    <3>1. Decoded = Rejected /\ fault'
      BY <1>1, <1>2, <2>4, <2>6, StringDecoded
    <3>2. QED
      BY <1>1, <1>2, <1>5, <3>1, FrameStays DEF AgreeInv, Checked
  <2>7. CASE IsUtf8(tail)
    <3>1. Decoded = Request(Big(Payload), <<"str", WireText>>) /\ ~fault'
      BY <1>1, <1>2, <1>7, <2>4, <2>5, <2>7, StringDecoded
    <3>2. Known(<<"str", WireText>>) = Oversized
      BY <1>2, <1>3 DEF Known
    <3>3. Checked'
      BY <1>1, <1>5, <3>1, <3>2, RequestParts DEF Checked
    <3>4. QED
      BY <1>1, <1>2, <3>3, FrameStays DEF AgreeInv
  <2>8. QED
    BY <2>6, <2>7
<1>8. QED
  BY <1>6, <1>7

LEMMA FinishAgrees ==
  ASSUME TypeInv, AgreeInv, FinishChecksum
  PROVE  AgreeInv'
<1>1. /\ pc = "checksum" /\ pc' = "done" /\ read' = read + 1 /\ added' = added + 1
      /\ UNCHANGED <<frame, left, fault, tail, keyref, value>>
  BY DEF FinishChecksum, Take
<1>2. ValidOpcode(frame.op) /\ Checked /\ fault \in BOOLEAN
  BY <1>1 DEF AgreeInv, TypeInv
<1>3. read = PayloadLen + 3 /\ added = read /\ PayloadLen \in Nat
  BY <1>1, PayloadType DEF TypeInv, LengthInv, Lengths
<1>4. added' = FrameLen
  BY <1>1, <1>3 DEF FrameLen
<1>5. verdict' = IF frame.sumOk /\ ~fault THEN "request" ELSE "reject"
  BY <1>4 DEF FinishChecksum
<1>6. Parsed(frame) = IF frame.sumOk THEN Decoded ELSE Rejected
  BY <1>2 DEF Parsed, Decoded
<1>7. ReaderAgreesWithParser'
  <2>1. Parsed(frame)' = Parsed(frame) /\ UNCHANGED <<keyref, value>>
    BY <1>1, FrameStays
  <2>2. CASE frame.sumOk /\ ~fault
    <3>1. verdict' = "request" /\ Parsed(frame) = Decoded
      BY <1>5, <1>6, <2>2
    <3>2. Decoded = Request(keyref, Decoded.value) /\ value = Known(Decoded.value)
      BY <1>2, <2>2 DEF Checked
    <3>3. Decoded.verdict = "request" /\ Decoded.keyref = keyref
      BY <3>2, RequestParts
    <3>4. /\ Parsed(frame)'.verdict = "request" /\ keyref' = Parsed(frame)'.keyref
          /\ value' = Known(Parsed(frame)'.value)
      BY <2>1, <3>1, <3>2, <3>3
    <3>5. Known(Parsed(frame).value)' = Known(Parsed(frame)'.value)
      BY DEF Known
    <3>6. QED
      BY <3>1, <3>4, <3>5 DEF ReaderAgreesWithParser
  <2>3. CASE ~(frame.sumOk /\ ~fault)
    <3>1. verdict' = "reject" /\ Parsed(frame) = Rejected
      BY <1>2, <1>5, <1>6, <2>3 DEF Checked
    <3>2. QED
      BY <2>1, <3>1, RequestParts DEF ReaderAgreesWithParser
  <2>4. QED
    BY <2>2, <2>3
<1>8. QED
  BY <1>1, <1>7 DEF AgreeInv

LEMMA BreakAgrees ==
  ASSUME TypeInv, AgreeInv, Break
  PROVE  AgreeInv'
<1>1. /\ pc # "done" /\ pc' = "done" /\ verdict' = "reject"
      /\ UNCHANGED <<frame, read, left>> /\ ~(pc = "feed" /\ left = 0)
  BY DEF Break
<1>2. PayloadLen \in Nat /\ I64Bytes \in Nat /\ read \in Nat /\ left \in Nat
  BY PayloadType, ReaderAssumption DEF TypeInv, LengthInv
<1>3. read <= PayloadLen + 3
  BY <1>1, <1>2 DEF TypeInv, LengthInv, Lengths
<1>4. read' # FrameLen'
  BY <1>1, <1>2, <1>3, FrameStays DEF FrameLen
<1>5. ReaderAgreesWithParser'
  BY <1>1, <1>4 DEF ReaderAgreesWithParser
<1>6. QED
  BY <1>1, <1>5 DEF AgreeInv

LEMMA FeedAgrees ==
  ASSUME TypeInv, AgreeInv, Feed
  PROVE  AgreeInv'
<1>1. /\ pc = "feed" /\ left' = left - ChunkLen
      /\ UNCHANGED <<frame, pc, keyref, value, verdict>>
  BY DEF Feed
<1>2. /\ ValidOpcode(frame.op) /\ frame.op = "W" /\ keyref = Big(Payload)
      /\ Payload[3] = 3 /\ PayloadLen >= 5 /\ PayloadLen - 5 > MaxStr
      /\ PayloadLen - 5 = 256 * Payload[4] + Payload[5] /\ FeedInv
  BY <1>1 DEF AgreeInv
<1>3. /\ WireText \in Seq(Byte) /\ Len(WireText) = PayloadLen - 5
      /\ \A i \in 1 .. Len(WireText) : WireText[i] = Payload[i + 5]
  BY <1>2, StringDecoded
<1> DEFINE l == Len(WireText)
           c == Consumed
           k == ChunkLen
           chunk == Bytes(k)
           b == tail \o chunk
           n == ValidUpTo(b)
           m == c - Len(tail)
<1>4. /\ l \in Nat /\ PayloadLen \in Nat /\ left \in Nat /\ read \in Nat
      /\ left <= l /\ c = l - left /\ c \in Nat
      /\ k \in Nat /\ k <= left /\ c + k \in Nat /\ c + k <= l
  <2>1. l \in Nat /\ PayloadLen \in Nat
    BY <1>3, PayloadType, LenProperties DEF TypeInv
  <2>2. left \in Nat /\ read \in Nat
    BY DEF TypeInv, LengthInv
  <2>3. k \in Nat /\ k <= left
    BY ChunkFits DEF TypeInv
  <2>4. left <= l /\ c = l - left
    BY <1>2 DEF FeedInv, Consumed
  <2> HIDE DEF l, c, k
  <2>5. c \in Nat /\ c + k \in Nat /\ c + k <= l
    BY <2>1, <2>2, <2>3, <2>4
  <2>6. QED
    BY <2>1, <2>2, <2>3, <2>4, <2>5
<1>5. read - 8 = c /\ read >= 8 /\ read - 3 + k <= PayloadLen
  <2>1. read + left = PayloadLen + 3
    BY <1>1 DEF TypeInv, LengthInv, Lengths
  <2>2. l = PayloadLen - 5
    BY <1>3
  <2> HIDE DEF l, c, k
  <2>3. QED
    BY <1>4, <2>1, <2>2
<1>6. /\ chunk \in Seq(Byte) /\ Len(chunk) = k
      /\ \A i \in 1 .. Len(chunk) : chunk[i] = WireText[c + i]
  <2>1. LengthInv /\ read >= 3 /\ read - 3 + k <= PayloadLen /\ k \in Nat
    BY <1>4, <1>5 DEF TypeInv
  <2>2. /\ chunk \in Seq(Byte) /\ Len(chunk) = k
        /\ \A i \in 1 .. k : chunk[i] = Payload[read - 3 + i]
    BY <2>1, BytesRead DEF Payload
  <2> HIDE DEF c, k, chunk
  <2>3. ASSUME NEW i \in 1 .. k PROVE chunk[i] = WireText[c + i]
    <3>1. c + i \in 1 .. l /\ (c + i) + 5 = read - 3 + i
      BY <1>4, <1>5
    <3>2. WireText[c + i] = Payload[(c + i) + 5]
      BY <1>3, <3>1
    <3>3. QED
      BY <2>2, <3>1, <3>2
  <2>4. QED
    BY <2>2, <2>3
<1>7. /\ Decoded' = Decoded /\ WireText' = WireText /\ Payload' = Payload
      /\ PayloadLen' = PayloadLen /\ ValidOpcode(frame.op)' /\ frame.op' = "W"
      /\ keyref' = Big(Payload)' /\ pc' = "feed"
  BY <1>1, <1>2, FrameStays
<1>8. left' = left - k /\ left' <= l /\ Consumed' = c + k
  <2>1. left' = left - k /\ Consumed' = l - left'
    BY <1>1, <1>7 DEF Consumed
  <2> HIDE DEF l, c, k
  <2>2. QED
    BY <1>4, <2>1
<1>9. /\ b \in Seq(Byte) /\ n \in Nat /\ n <= Len(b) /\ TextUpTo(b, n)
      /\ \A i \in n + 1 .. Len(b) : ~TextUpTo(b, i)
  BY FeedBuffer
<1>10. FeedInv' => AgreeInv'
  BY <1>2, <1>7 DEF AgreeInv
<1> DEFINE Nul == 0 \in Elements(chunk)
           Broken == n < Len(b) /\ ~Unfinished(b, n)
<1>11. CASE fault
  <2>1. UNCHANGED fault
    BY <1>11 DEF Feed
  <2>2. fault' => 0 \in Elements(WireText)' \/ ~IsUtf8(WireText)'
    <3>1. 0 \in Elements(WireText) \/ ~IsUtf8(WireText)
      BY <1>2, <1>11 DEF FeedInv
    <3>2. Elements(WireText)' = Elements(WireText) /\ IsUtf8(WireText)' = IsUtf8(WireText)
      BY <1>7 DEF Elements, IsUtf8, TextUpTo, WellBegun, Width
    <3>3. QED
      BY <3>1, <3>2
  <2>3. FeedInv'
    BY <1>7, <1>8, <1>11, <2>1, <2>2 DEF FeedInv
  <2>4. QED
    BY <1>10, <2>3
<1>12. CASE ~fault
  <2>1. /\ \A i \in 1 .. c : WireText[i] # 0
        /\ Len(tail) <= c
        /\ \A i \in 1 .. Len(tail) : tail[i] = WireText[m + i]
        /\ TextUpTo(WireText, m)
    BY <1>2, <1>12 DEF FeedInv
  <2>2. tail \in Seq(Byte) /\ Len(tail) \in Nat
    BY LenProperties DEF TypeInv
  <2>3. /\ Broken => ~IsUtf8(WireText)
        /\ Len(b) = Len(tail) + Len(chunk)
        /\ \A i \in 1 .. Len(b) : b[i] = WireText[m + i]
        /\ TextUpTo(WireText, m + n)
    <3>1. c \in Nat /\ b = tail \o chunk
      BY <1>4
    <3>2. LeftOver(WireText, c, tail)
      BY <1>4, <2>1 DEF LeftOver
    <3>3. Follows(WireText, c, chunk)
      BY <1>4, <1>6 DEF Follows
    <3>4. LongestText(b, n)
      BY <1>9 DEF LongestText
    <3> HIDE DEF c, chunk, b, n
    <3>5. /\ n < Len(b) /\ ~Unfinished(b, n) => ~IsUtf8(WireText)
          /\ Len(b) = Len(tail) + Len(chunk)
          /\ \A i \in 1 .. Len(b) : b[i] = WireText[(c - Len(tail)) + i]
          /\ TextUpTo(WireText, (c - Len(tail)) + n)
      <4>1. /\ WireText \in Seq(Byte) /\ chunk \in Seq(Byte) /\ tail \in Seq(Byte)
            /\ b \in Seq(Byte) /\ n \in Nat
        BY <1>3, <1>6, <1>9, <2>2
      <4>2. TextUpTo(WireText, (c - Len(tail)) + n)
        BY <3>1, <3>2, <3>3, <3>4, <4>1, FeedChunk
      <4>3. Len(b) = Len(tail) + Len(chunk)
        BY <3>1, <3>2, <3>3, <3>4, <4>1, FeedChunk
      <4>4. n < Len(b) /\ ~Unfinished(b, n) => ~IsUtf8(WireText)
        BY <3>1, <3>2, <3>3, <3>4, <4>1, FeedChunk
      <4>5. \A i \in 1 .. Len(b) : b[i] = WireText[(c - Len(tail)) + i]
        <5>1. PieceOf(WireText, c - Len(tail), b)
          BY <3>1, <3>2, <3>3, <3>4, <4>1, FeedChunk
        <5>2. QED
          BY <5>1 DEF PieceOf
      <4>6. QED
        BY <4>2, <4>3, <4>4, <4>5
    <3>6. QED
      BY <3>5
  <2>4. m \in Nat /\ m + Len(b) = c + k /\ Len(b) \in Nat
    <3>1. PICK x \in Nat, y \in Nat : x = Len(tail) /\ y = Len(chunk)
      BY <1>4, <1>6, <2>2
    <3>2. Len(b) = x + y /\ y = k /\ m = c - x /\ x <= c
      BY <1>6, <2>1, <2>3, <3>1
    <3> HIDE DEF b, k, c, m
    <3>3. m \in Nat /\ m + (x + y) = c + y
      BY <1>4, <3>2
    <3>4. QED
      BY <3>2, <3>3
  <2>5. CASE Nul \/ Broken
    <3>1. fault' = TRUE
      BY <1>1, <1>12, <2>5 DEF Feed
    <3>2. Nul => 0 \in Elements(WireText)
      <4>1. SUFFICES ASSUME Nul PROVE 0 \in Elements(WireText)
        OBVIOUS
      <4>2. PICK i \in 1 .. k : chunk[i] = 0
        BY <1>6, <4>1, LenProperties DEF Elements
      <4>3. c + i \in 1 .. l /\ WireText[c + i] = 0
        <5> HIDE DEF c, k, l, chunk
        <5>1. c + i \in 1 .. l
          BY <1>4
        <5>2. QED
          BY <1>6, <4>2, <5>1
      <4>4. DOMAIN WireText = 1 .. l
        BY <1>3, LenProperties
      <4>5. QED
        BY <4>3, <4>4 DEF Elements
    <3>3. 0 \in Elements(WireText) \/ ~IsUtf8(WireText)
      BY <2>3, <2>5, <3>2
    <3>4. Elements(WireText)' = Elements(WireText) /\ IsUtf8(WireText)' = IsUtf8(WireText)
      BY <1>7 DEF Elements, IsUtf8, TextUpTo, WellBegun, Width
    <3>5. FeedInv'
      BY <1>7, <1>8, <3>1, <3>3, <3>4 DEF FeedInv
    <3>6. QED
      BY <1>10, <3>5
  <2>6. CASE ~Nul /\ ~Broken
    <3> DEFINE r == SubSeq(b, n + 1, Len(b))
    <3>1. tail' = r /\ UNCHANGED fault
      BY <1>12, <2>6 DEF Feed
    <3>2. /\ Len(r) = Len(b) - n
          /\ \A i \in 1 .. Len(b) - n : r[i] = b[n + i]
      <4>1. ~(n < Len(b) /\ ~Unfinished(b, n))
        BY <2>6
      <4> HIDE DEF b, n
      <4>2. QED
        BY <1>9, <4>1, FeedTail
    <3>3. (c + k) - Len(r) = m + n /\ Len(r) <= c + k
      <4>1. PICK x \in Nat : x = Len(b)
        BY <2>4
      <4>2. Len(r) = x - n /\ m + x = c + k /\ n <= x
        BY <1>9, <2>4, <3>2, <4>1
      <4> HIDE DEF r, c, k, m, n
      <4>3. c \in Nat /\ k \in Nat /\ m \in Nat /\ n \in Nat
        BY <1>4, <1>9, <2>4
      <4>4. (c + k) - (x - n) = m + n /\ x - n <= c + k
        BY <4>2, <4>3
      <4>5. QED
        BY <4>2, <4>4
    <3>4. \A i \in 1 .. Len(r) : r[i] = WireText[(m + n) + i]
      <4> SUFFICES ASSUME NEW i \in 1 .. Len(r) PROVE r[i] = WireText[(m + n) + i]
        OBVIOUS
      <4> HIDE DEF r, b, n, m
      <4>1. i \in 1 .. Len(b) - n /\ n + i \in 1 .. Len(b) /\ m + (n + i) = (m + n) + i
        BY <1>9, <2>4, <3>2
      <4>2. r[i] = b[n + i] /\ b[n + i] = WireText[m + (n + i)]
        BY <2>3, <3>2, <4>1
      <4>3. QED
        BY <4>1, <4>2
    <3>5. \A i \in 1 .. c + k : WireText[i] # 0
      <4> SUFFICES ASSUME NEW i \in 1 .. c + k PROVE WireText[i] # 0
        OBVIOUS
      <4>1. CASE i <= c
        <5> HIDE DEF c, k
        <5>1. i \in 1 .. c
          BY <1>4, <4>1
        <5>2. QED
          BY <2>1, <5>1
      <4>2. CASE i > c
        <5>1. DOMAIN chunk = 1 .. k
          BY <1>6, LenProperties
        <5>2. \A j \in 1 .. k : chunk[j] # 0
          BY <2>6, <5>1 DEF Elements
        <5> HIDE DEF c, k, chunk
        <5>3. i - c \in 1 .. k /\ c + (i - c) = i
          BY <1>4, <4>2
        <5>4. chunk[i - c] = WireText[c + (i - c)]
          BY <1>6, <5>3
        <5>5. QED
          BY <5>2, <5>3, <5>4
      <4>3. QED
        BY <1>4, <4>1, <4>2
    <3> HIDE DEF r
    <3>6. Consumed' - Len(tail') = m + n /\ Len(tail') <= Consumed'
      BY <1>8, <3>1, <3>3
    <3>7. TextUpTo(WireText, Consumed - Len(tail))'
      BY <1>7, <2>3, <3>6 DEF TextUpTo, WellBegun, Width
    <3>8. \A i \in 1 .. Consumed' : WireText'[i] # 0
      BY <1>7, <1>8, <3>5
    <3>9. \A i \in 1 .. Len(tail') : tail'[i] = WireText'[(Consumed' - Len(tail')) + i]
      BY <1>7, <3>1, <3>4, <3>6
    <3>10. FeedInv'
      BY <1>7, <1>8, <1>12, <3>1, <3>6, <3>7, <3>8, <3>9 DEF FeedInv
    <3>11. QED
      BY <1>10, <3>10
  <2>7. QED
    BY <2>5, <2>6
<1>13. QED
  BY <1>11, <1>12

LEMMA DiscardAgrees ==
  ASSUME TypeInv, AgreeInv, DiscardStep
  PROVE  AgreeInv'
<1>1. /\ pc = "discard" /\ UNCHANGED <<frame, fault, tail, keyref, value, verdict>>
      /\ pc' \in {"discard", "checksum"}
  BY DEF DiscardStep
<1>2. ValidOpcode(frame.op)' /\ fault' /\ Decoded' = Rejected
  BY <1>1, FrameStays DEF AgreeInv
<1>3. QED
  BY <1>1, <1>2 DEF AgreeInv, Checked

LEMMA AgreeInit == Init => AgreeInv
  BY DEF Init, AgreeInv

LEMMA AgreeStep == TypeInv /\ AgreeInv /\ [Next]_vars => AgreeInv'
<1> SUFFICES ASSUME TypeInv, AgreeInv, [Next]_vars PROVE AgreeInv'
  OBVIOUS
<1>1. CASE UNCHANGED vars
  <2>1. UNCHANGED <<frame, read, pc, left, fault, tail, keyref, value, verdict>>
    BY <1>1 DEF vars
  <2>2. /\ Payload' = Payload /\ Decoded' = Decoded /\ WireText' = WireText
        /\ PayloadLen' = PayloadLen /\ FrameLen' = FrameLen
        /\ ValidOpcode(frame.op)' = ValidOpcode(frame.op)
        /\ Parsed(frame)' = Parsed(frame)
    BY <2>1, FrameStays
  <2>3. FeedInv' = FeedInv
    BY <2>1 DEF FeedInv, Consumed, WireText, PayloadLen, IsUtf8, TextUpTo, WellBegun,
                Width, Elements
  <2>4. Checked' = Checked
    BY <2>1, <2>2 DEF Checked, Known
  <2>5. ReaderAgreesWithParser' = ReaderAgreesWithParser
    BY <2>1, <2>2 DEF ReaderAgreesWithParser, Known
  <2>6. QED
    BY <2>1, <2>2, <2>3, <2>4, <2>5 DEF AgreeInv
<1>2. QED
  BY <1>1, HeaderAgrees, KeyrefAgrees, KindAgrees, BoolAgrees, I64Agrees, StrLenAgrees,
     StrAgrees, FeedAgrees, FeedDoneAgrees, DiscardAgrees, FinishAgrees, BreakAgrees DEF Next

\* A request that is served has its end behind it, so it is judged as agreed.
LEMMA Agreement == LengthInv /\ AgreeInv => ReaderAgreesWithParser
<1> SUFFICES ASSUME LengthInv, AgreeInv PROVE ReaderAgreesWithParser
  OBVIOUS
<1>1. CASE pc = "done"
  BY <1>1 DEF AgreeInv
<1>2. CASE pc # "done"
  BY <1>2 DEF LengthInv, ReaderAgreesWithParser
<1>3. QED
  BY <1>1, <1>2

\* The streaming reader and the parser of whole frames agree: what is served is
\* the request that parse_frame and MessageRef::decode make of the frame, and a
\* frame read to its end and refused is one that they refuse, wherever the
\* chunks cut its text.
THEOREM DecodersAgree == Spec => []ReaderAgreesWithParser
<1>1. Spec => []TypeInv
  BY TypeInit, TypeStep, PTL DEF Spec
<1>2. Spec => []AgreeInv
  BY <1>1, AgreeInit, AgreeStep, PTL DEF Spec
<1>3. TypeInv /\ AgreeInv => ReaderAgreesWithParser
  BY Agreement DEF TypeInv
<1>4. QED
  BY <1>1, <1>2, <1>3, PTL
=============================================================================
