-------------------------- MODULE WireCodecProofs --------------------------
(***************************************************************************)
(* Theorems about the codecs of WireExchange, for every input: checksums,  *)
(* integers, strings, values, calls and capability strings, and what the   *)
(* nodes make of a keyref and of a value.  The recursive functions of the  *)
(* model exist and are what their definitions say by induction over the    *)
(* naturals, which the first lemma derives from their well-foundedness.    *)
(***************************************************************************)
EXTENDS WireExchange, RequestReaderProofs, FiniteSetTheorems

-----------------------------------------------------------------------------
(* Induction.                                                              *)

\* A set with 0, and with n + 1 for each n that it has, has every natural.
LEMMA Inductive ==
  ASSUME NEW S, 0 \in S, \A n \in Nat : n \in S => n + 1 \in S
  PROVE  \A n \in Nat : n \in S
<1> DEFINE T == Nat \ S
<1>1. SUFFICES ASSUME T # {} PROVE FALSE
  OBVIOUS
<1>2. T \subseteq Nat
  OBVIOUS
<1>3. PICK n \in T : \A m \in T : ~(<<m, n>> \in OpToRel(<, Nat))
  <2> HIDE DEF T
  <2>1. QED
    BY <1>1, <1>2, NatLessThanWellFounded, WFMin, Zenon
<1>4. n \in Nat /\ n # 0 /\ n - 1 \in Nat /\ (n - 1) + 1 = n /\ n - 1 < n
  OBVIOUS
<1>5. n - 1 \notin T
  <2>1. <<n - 1, n>> \in {ss \in Nat \X Nat : ss[1] < ss[2]}
    BY <1>4
  <2>2. QED
    BY <1>3, <2>1, LessThan
<1>6. QED
  BY <1>4, <1>5

\* g holds b and what the first l repetitions of step make of it.
IsIterate(T, b, step, l, g) ==
  /\ g \in [0 .. l -> T] /\ g[0] = b
  /\ \A i \in 1 .. l : g[i] = step[<<i - 1, g[i - 1]>>]

\* A step can be repeated as often as one likes.
LEMMA Iterates ==
  ASSUME NEW T, NEW b \in T, NEW step \in [Nat \X T -> T], NEW l \in Nat
  PROVE  \E g : IsIterate(T, b, step, l, g)
<1> DEFINE Good(n, g) == g[0] = b /\ \A i \in 1 .. n : g[i] = step[<<i - 1, g[i - 1]>>]
           S == {n \in Nat : \E g \in [0 .. n -> T] : Good(n, g)}
<1>1. 0 \in S
  <2>1. [i \in 0 .. 0 |-> b] \in [0 .. 0 -> T] /\ Good(0, [i \in 0 .. 0 |-> b])
    OBVIOUS
  <2>2. QED
    BY <2>1
<1>2. ASSUME NEW n \in Nat, n \in S PROVE n + 1 \in S
  <2>1. PICK g \in [0 .. n -> T] : Good(n, g)
    BY <1>2
  <2> DEFINE h == [i \in 0 .. n + 1 |-> IF i <= n THEN g[i] ELSE step[<<n, g[n]>>]]
  <2>2. g[n] \in T /\ step[<<n, g[n]>>] \in T
    OBVIOUS
  <2>3. h \in [0 .. n + 1 -> T]
    BY <2>2
  <2>4. h[0] = b
    BY <2>1
  <2>5. ASSUME NEW i \in 1 .. n + 1 PROVE h[i] = step[<<i - 1, h[i - 1]>>]
    <3>1. i - 1 \in 0 .. n /\ h[i - 1] = g[i - 1]
      OBVIOUS
    <3>2. CASE i <= n
      BY <2>1, <3>1, <3>2
    <3>3. CASE i = n + 1
      <4>1. i - 1 = n /\ h[i] = step[<<n, g[n]>>] /\ h[n] = g[n]
        BY <3>3
      <4>2. QED
        BY <4>1
    <3>4. QED
      BY <3>2, <3>3
  <2>6. Good(n + 1, h)
    BY <2>4, <2>5
  <2> HIDE DEF h, Good
  <2>7. QED
    BY <2>3, <2>6
<1>3. \A n \in Nat : n \in S
  <2> HIDE DEF S
  <2>1. QED
    BY <1>1, <1>2, Inductive
<1>4. QED
  BY <1>3 DEF IsIterate

-----------------------------------------------------------------------------
(* Sums.                                                                   *)

\* The recursive definition of the sums of a sequence of naturals.
LEMMA SumsDefined ==
  ASSUME NEW s \in Seq(Nat)
  PROVE  /\ Sums(s) \in [0 .. Len(s) -> Nat] /\ Sums(s)[0] = 0
         /\ \A i \in 1 .. Len(s) : Sums(s)[i] = Sums(s)[i - 1] + s[i]
<1>1. PICK l \in Nat : l = Len(s)
  BY LenProperties
<1>2. \A i \in 1 .. l : s[i] \in Nat
  BY <1>1, ElementOfSeq
<1> DEFINE step == [p \in Nat \X Nat |-> IF p[1] + 1 \in 1 .. l THEN p[2] + s[p[1] + 1] ELSE 0]
<1>3. step \in [Nat \X Nat -> Nat]
  BY <1>2
<1>4. PICK g : IsIterate(Nat, 0, step, l, g)
  <2> HIDE DEF step
  <2>1. QED
    BY <1>3, Iterates
<1>5. \A i \in 1 .. l : g[i] = g[i - 1] + s[i]
  <2> SUFFICES ASSUME NEW i \in 1 .. l PROVE g[i] = g[i - 1] + s[i]
    OBVIOUS
  <2>1. i - 1 \in Nat /\ g[i - 1] \in Nat /\ (i - 1) + 1 = i
    BY <1>4 DEF IsIterate
  <2>2. QED
    BY <1>4, <2>1 DEF IsIterate
<1>6. g = [i \in 0 .. l |-> IF i = 0 THEN 0 ELSE g[i - 1] + s[i]]
  BY <1>4, <1>5 DEF IsIterate
<1>7. Sums(s) = [i \in 0 .. l |-> IF i = 0 THEN 0 ELSE Sums(s)[i - 1] + s[i]]
  BY <1>1, <1>6, Zenon DEF Sums
<1> DEFINE f == Sums(s)
<1> HIDE DEF f
<1>8. f = [i \in 0 .. l |-> IF i = 0 THEN 0 ELSE f[i - 1] + s[i]]
  BY <1>7 DEF f
<1>9. f[0] = 0 /\ \A i \in 1 .. l : f[i] = f[i - 1] + s[i]
  BY <1>8
<1>10. \A i \in Nat : i \in {n \in Nat : n <= l => f[n] \in Nat}
  <2> DEFINE S == {n \in Nat : n <= l => f[n] \in Nat}
  <2>1. 0 \in S
    BY <1>9
  <2>2. ASSUME NEW n \in Nat, n \in S PROVE n + 1 \in S
    <3>1. CASE n + 1 <= l
      <4>1. n + 1 \in 1 .. l /\ (n + 1) - 1 = n /\ f[n] \in Nat
        BY <2>2, <3>1
      <4>2. f[n + 1] = f[n] + s[n + 1]
        BY <1>9, <4>1
      <4>3. QED
        BY <1>2, <4>1, <4>2
    <3>2. QED
      BY <3>1
  <2> HIDE DEF S
  <2>3. \A i \in Nat : i \in S
    BY <2>1, <2>2, Inductive
  <2>4. QED
    BY <2>3 DEF S
<1>11. f \in [0 .. l -> Nat]
  <2>1. f = [i \in 0 .. l |-> f[i]]
    BY <1>8
  <2>2. \A i \in 0 .. l : f[i] \in Nat
    BY <1>10
  <2>3. QED
    BY <2>1, <2>2
<1>12. QED
  BY <1>1, <1>9, <1>11 DEF f

\* The sums of a sequence are those of its front, and of one element more.
LEMMA SumsOfFront ==
  ASSUME NEW s \in Seq(Nat), NEW t \in Seq(Nat)
  PROVE  \A i \in 0 .. Len(s) : Sums(s \o t)[i] = Sums(s)[i]
<1>1. PICK l \in Nat : l = Len(s)
  BY LenProperties
<1>2. PICK m \in Nat : m = Len(t)
  BY LenProperties
<1> DEFINE u == s \o t
<1>3. u \in Seq(Nat) /\ Len(u) = l + m /\ \A i \in 1 .. l : u[i] = s[i]
  <2>1. u \in Seq(Nat) /\ Len(u) = Len(s) + Len(t)
        /\ \A i \in 1 .. Len(s) + Len(t) : u[i] = IF i <= Len(s) THEN s[i] ELSE t[i - Len(s)]
    BY ConcatProperties
  <2>2. QED
    BY <1>1, <1>2, <2>1
<1> HIDE DEF u
<1> DEFINE S == {n \in Nat : n <= l => Sums(u)[n] = Sums(s)[n]}
<1>4. 0 \in S
  BY <1>3, SumsDefined
<1>5. ASSUME NEW n \in Nat, n \in S PROVE n + 1 \in S
  <2>1. CASE n + 1 <= l
    <3>1. n + 1 \in 1 .. l /\ n + 1 \in 1 .. l + m /\ (n + 1) - 1 = n
      BY <2>1
    <3>2. Sums(u)[n + 1] = Sums(u)[n] + u[n + 1]
      BY <1>3, <3>1, SumsDefined
    <3>3. Sums(s)[n + 1] = Sums(s)[n] + s[n + 1]
      BY <1>1, <3>1, SumsDefined
    <3>4. QED
      BY <1>3, <1>5, <3>1, <3>2, <3>3
  <2>2. QED
    BY <2>1
<1>6. \A n \in Nat : n \in S
  <2> HIDE DEF S
  <2>1. QED
    BY <1>4, <1>5, Inductive
<1>7. QED
  BY <1>1, <1>6 DEF u

\* The sum of naturals is a natural.
LEMMA SumType ==
  ASSUME NEW s \in Seq(Nat)
  PROVE  Sum(s) \in Nat
  BY SumsDefined, LenProperties DEF Sum

\* The sum of a sequence and of what follows it.
LEMMA SumConcat ==
  ASSUME NEW s \in Seq(Nat), NEW t \in Seq(Nat)
  PROVE  Sum(s \o t) = Sum(s) + Sum(t)
<1>1. PICK l \in Nat : l = Len(s)
  BY LenProperties
<1>2. PICK m \in Nat : m = Len(t)
  BY LenProperties
<1> DEFINE u == s \o t
<1>3. u \in Seq(Nat) /\ Len(u) = l + m /\ \A i \in 1 .. m : u[l + i] = t[i]
  <2>1. u \in Seq(Nat) /\ Len(u) = Len(s) + Len(t)
        /\ \A i \in 1 .. Len(s) + Len(t) : u[i] = IF i <= Len(s) THEN s[i] ELSE t[i - Len(s)]
    BY ConcatProperties
  <2>2. ASSUME NEW i \in 1 .. m PROVE u[l + i] = t[i]
    <3>1. l + i \in 1 .. l + m /\ ~(l + i <= l) /\ (l + i) - l = i
      OBVIOUS
    <3>2. QED
      BY <1>1, <1>2, <2>1, <3>1
  <2>3. QED
    BY <1>1, <1>2, <2>1, <2>2
<1>4. Sums(u)[l] = Sum(s) /\ Sum(s) \in Nat /\ Sum(t) \in Nat
  <2>1. l \in 0 .. Len(s)
    BY <1>1
  <2>2. Sums(s \o t)[l] = Sums(s)[l]
    BY <2>1, SumsOfFront
  <2>3. QED
    BY <1>1, <2>2, SumType DEF Sum
<1> HIDE DEF u
<1> DEFINE S == {n \in Nat : n <= m => Sums(u)[l + n] = Sum(s) + Sums(t)[n]}
<1>5. 0 \in S
  <2>1. l + 0 = l /\ Sums(t)[0] = 0
    BY SumsDefined
  <2>2. QED
    BY <1>4, <2>1
<1>6. ASSUME NEW n \in Nat, n \in S PROVE n + 1 \in S
  <2>1. CASE n + 1 <= m
    <3>1. /\ n + 1 \in 1 .. m /\ l + (n + 1) \in 1 .. l + m
          /\ (n + 1) - 1 = n /\ (l + (n + 1)) - 1 = l + n /\ n \in 0 .. m
      BY <2>1
    <3>2. Sums(u)[l + (n + 1)] = Sums(u)[l + n] + u[l + (n + 1)]
      BY <1>3, <3>1, SumsDefined
    <3>3. Sums(t)[n + 1] = Sums(t)[n] + t[n + 1] /\ Sums(t)[n] \in Nat
      BY <1>2, <3>1, SumsDefined
    <3>4. u[l + (n + 1)] = t[n + 1] /\ t[n + 1] \in Nat
      BY <1>2, <1>3, <3>1, ElementOfSeq
    <3>5. Sums(u)[l + n] = Sum(s) + Sums(t)[n]
      BY <1>6, <2>1
    <3>6. QED
      BY <1>4, <3>2, <3>3, <3>4, <3>5
  <2>2. QED
    BY <2>1
<1>7. \A n \in Nat : n \in S
  <2> HIDE DEF S
  <2>1. QED
    BY <1>5, <1>6, Inductive
<1>8. Sums(u)[l + m] = Sum(s) + Sums(t)[m]
  BY <1>7
<1>9. QED
  BY <1>2, <1>3, <1>8 DEF u, Sum

\* The sums of no number and of one.
LEMMA SumOfOne ==
  /\ Sum(<<>>) = 0
  /\ \A a \in Nat : Sum(<<a>>) = a
<1>1. <<>> \in Seq(Nat) /\ Len(<<>>) = 0
  BY EmptySeq
<1>2. Sum(<<>>) = 0
  BY <1>1, SumsDefined DEF Sum
<1>3. ASSUME NEW a \in Nat PROVE Sum(<<a>>) = a
  <2>1. <<a>> \in Seq(Nat) /\ Len(<<a>>) = 1 /\ <<a>>[1] = a
    OBVIOUS
  <2>2. Sums(<<a>>)[0] = 0 /\ \A i \in 1 .. 1 : Sums(<<a>>)[i] = Sums(<<a>>)[i - 1] + <<a>>[i]
    BY <2>1, SumsDefined
  <2>3. 1 \in 1 .. 1 /\ 1 - 1 = 0
    OBVIOUS
  <2>4. QED
    BY <2>1, <2>2, <2>3 DEF Sum
<1>4. QED
  BY <1>2, <1>3

\* Bytes are naturals, so that they can be summed.
LEMMA BytesAreNaturals == \A s \in Seq(Byte) : s \in Seq(Nat)
<1>1. Byte \subseteq Nat
  BY DEF Byte
<1>2. QED
  BY <1>1, SeqMonotonic

-----------------------------------------------------------------------------
(* Checksums.                                                              *)

Ops == EmptyOps \cup KeyrefOps \cup {"W", "k", "i", "c", "s", "g", "w", ":", "@", "!"}

\* Every opcode is a byte.
LEMMA CodeType == \A op \in Ops : Code(op) \in Byte
<1> SUFFICES ASSUME NEW op \in Ops PROVE Code(op) \in Byte
  OBVIOUS
<1>1. \A c \in Codes : c[2] \in Byte
  BY DEF Codes, Byte
<1>2. \E c \in Codes : c[1] = op
  BY DEF Codes, Ops, EmptyOps, KeyrefOps
<1>3. QED
  BY <1>1, <1>2 DEF Code

\* u16::to_be_bytes, and back.
LEMMA U16Bytes ==
  ASSUME NEW n \in Nat, n <= MaxLength
  PROVE  /\ U16(n) \in Seq(Byte) /\ Len(U16(n)) = 2
         /\ U16(n)[1] = n \div 256 /\ U16(n)[2] = n % 256
         /\ Big(U16(n)) = n
<1>1. n \div 256 \in Byte /\ n % 256 \in Byte /\ 256 * (n \div 256) + (n % 256) = n
  BY SMT DEF MaxLength, Byte
<1>2. QED
  BY <1>1 DEF U16, Big

\* Every frame that is built has a sum of zero.
THEOREM FrameSums ==
  ASSUME NEW op \in Ops, NEW p \in Seq(Byte), Len(p) <= MaxLength
  PROVE  /\ HeaderAnd(op, p) \in Seq(Nat)
         /\ Checksum(op, p) \in Nat
         /\ SumOk([op |-> op, payload |-> p, check |-> Checksum(op, p)])
<1> DEFINE h == HeaderAnd(op, p)
           k == Checksum(op, p)
<1>1. h \in Seq(Nat)
  <2>1. Len(p) \in Nat /\ U16(Len(p)) \in Seq(Byte)
    BY LenProperties, U16Bytes
  <2>2. <<Code(op)>> \in Seq(Byte)
    BY CodeType
  <2>3. <<Code(op)>> \o U16(Len(p)) \in Seq(Byte)
    BY <2>1, <2>2, ConcatProperties
  <2>4. h \in Seq(Byte)
    BY <2>3, ConcatProperties DEF HeaderAnd
  <2>5. QED
    BY <2>4, BytesAreNaturals
<1>2. k = (256 - (Sum(h) % 256)) % 256 /\ Sum(h) \in Nat
  BY <1>1, SumType DEF Checksum, Sum8
<1> HIDE DEF h, k
<1>3. k \in Nat /\ (Sum(h) + k) % 256 = 0
  BY <1>2
<1>4. <<k>> \in Seq(Nat) /\ Sum(<<k>>) = k
  BY <1>3, SumOfOne
<1>5. Sum(h \o <<k>>) = Sum(h) + k
  BY <1>1, <1>4, SumConcat
<1>6. SumOk([op |-> op, payload |-> p, check |-> k])
  BY <1>3, <1>5 DEF SumOk, Sum8, h
<1>7. QED
  BY <1>1, <1>3, <1>6 DEF h, k

\* The sum of three numbers, for the three pieces of a response.
LEMMA SumOfThree ==
  ASSUME NEW x \in Nat, NEW y \in Nat, NEW z \in Nat
  PROVE  Sum(<<x, y, z>>) = x + y + z
<1> DEFINE s == <<x, y, z>>
<1>1. s \in Seq(Nat) /\ Len(s) = 3 /\ s[1] = x /\ s[2] = y /\ s[3] = z
  OBVIOUS
<1> HIDE DEF s
<1>2. Sums(s)[0] = 0 /\ \A i \in 1 .. 3 : Sums(s)[i] = Sums(s)[i - 1] + s[i]
  BY <1>1, SumsDefined
<1>3. Sums(s)[1] = 0 + x
  <2>1. 1 \in 1 .. 3 /\ 1 - 1 = 0
    OBVIOUS
  <2>2. QED
    BY <1>1, <1>2, <2>1
<1>4. Sums(s)[2] = 0 + x + y
  <2>1. 2 \in 1 .. 3 /\ 2 - 1 = 1
    OBVIOUS
  <2>2. QED
    BY <1>1, <1>2, <1>3, <2>1
<1>5. Sums(s)[3] = 0 + x + y + z
  <2>1. 3 \in 1 .. 3 /\ 3 - 1 = 2
    OBVIOUS
  <2>2. QED
    BY <1>1, <1>2, <1>4, <2>1
<1>6. QED
  BY <1>1, <1>5 DEF Sum, s

\* The checksum over the pieces is that of the payload that they make.
LEMMA SegmentsSum ==
  ASSUME NEW op \in Ops, NEW a \in Seq(Byte), NEW b \in Seq(Byte), NEW t \in Seq(Byte),
         Len(a) + Len(b) + Len(t) <= MaxLength
  PROVE  /\ a \o (b \o t) \in Seq(Byte) /\ Len(a \o (b \o t)) = Len(a) + Len(b) + Len(t)
         /\ SegmentedChecksum(op, <<a, b, t>>) = Checksum(op, a \o (b \o t))
<1> DEFINE p == a \o (b \o t)
           l == Len(a) + Len(b) + Len(t)
           h == <<Code(op)>> \o U16(l)
           segments == <<a, b, t>>
<1>1. Len(a) \in Nat /\ Len(b) \in Nat /\ Len(t) \in Nat /\ l \in Nat
  BY LenProperties
<1>2. p \in Seq(Byte) /\ Len(p) = l
  <2>1. b \o t \in Seq(Byte) /\ Len(b \o t) = Len(b) + Len(t)
    BY ConcatProperties
  <2>2. p \in Seq(Byte) /\ Len(p) = Len(a) + Len(b \o t)
    BY <2>1, ConcatProperties
  <2>3. QED
    BY <1>1, <2>1, <2>2
<1>3. h \in Seq(Byte)
  <2>1. U16(l) \in Seq(Byte)
    BY <1>1, U16Bytes
  <2>2. <<Code(op)>> \in Seq(Byte)
    BY CodeType
  <2>3. QED
    BY <2>1, <2>2, ConcatProperties
<1>4. /\ h \in Seq(Nat) /\ a \in Seq(Nat) /\ b \in Seq(Nat) /\ t \in Seq(Nat)
      /\ b \o t \in Seq(Nat) /\ p \in Seq(Nat)
  BY <1>2, <1>3, BytesAreNaturals, ConcatProperties
<1>5. Sum(h \o p) = Sum(h) + (Sum(a) + (Sum(b) + Sum(t)))
  <2>1. Sum(b \o t) = Sum(b) + Sum(t)
    BY <1>4, SumConcat
  <2>2. Sum(a \o (b \o t)) = Sum(a) + Sum(b \o t)
    BY <1>4, SumConcat
  <2> HIDE DEF h
  <2>3. Sum(h \o p) = Sum(h) + Sum(p)
    BY <1>4, SumConcat
  <2>4. QED
    BY <2>1, <2>2, <2>3
<1>6. /\ Sum(h) \in Nat /\ Sum(a) \in Nat /\ Sum(b) \in Nat /\ Sum(t) \in Nat
  BY <1>4, SumType
<1>7. [i \in DOMAIN segments |-> Len(segments[i])] = <<Len(a), Len(b), Len(t)>>
  OBVIOUS
<1>8. Sum([i \in DOMAIN segments |-> Len(segments[i])]) = l
  BY <1>1, <1>7, SumOfThree
<1>9. [i \in DOMAIN segments |-> Sum8(segments[i])] = <<Sum8(a), Sum8(b), Sum8(t)>>
  OBVIOUS
<1>10. Sum8(a) \in Nat /\ Sum8(b) \in Nat /\ Sum8(t) \in Nat
  BY <1>6 DEF Sum8
<1>11. Sum([i \in DOMAIN segments |-> Sum8(segments[i])]) = Sum8(a) + Sum8(b) + Sum8(t)
  BY <1>9, <1>10, SumOfThree
<1>12. SegmentedChecksum(op, segments) =
         (256 - ((Sum8(h) + (Sum8(a) + Sum8(b) + Sum8(t))) % 256)) % 256
  BY <1>8, <1>11 DEF SegmentedChecksum
<1>13. Checksum(op, p) = (256 - Sum8(h \o p)) % 256
  BY <1>2 DEF Checksum, HeaderAnd
<1>14. \A w, x, y, z \in Nat :
         ((w % 256) + ((x % 256) + (y % 256) + (z % 256))) % 256 = (w + (x + (y + z))) % 256
  OBVIOUS
<1>15. (Sum8(h) + (Sum8(a) + Sum8(b) + Sum8(t))) % 256 = Sum8(h \o p)
  <2> HIDE DEF h, p
  <2>1. QED
    BY <1>5, <1>6, <1>14 DEF Sum8
<1> HIDE DEF h, p, l, segments
<1>16. SegmentedChecksum(op, segments) = Checksum(op, p)
  BY <1>12, <1>13, <1>15
<1>17. QED
  BY <1>2, <1>16 DEF p, l, segments

-----------------------------------------------------------------------------
(* Integers.                                                               *)

\* An i64 has at least one byte.
LEMMA Widths64 == I64Bytes \in Nat /\ I64Bytes - 1 \in Nat /\ (I64Bytes - 1) + 1 = I64Bytes
  BY WidthAssumption

\* The recursive definition of the shifts of an integer.
LEMMA ShiftsDefined ==
  ASSUME NEW n \in Int
  PROVE  /\ Shifts(n) \in [0 .. I64Bytes -> Int] /\ Shifts(n)[0] = n
         /\ \A k \in 1 .. I64Bytes : Shifts(n)[k] = Shifts(n)[k - 1] \div 256
<1> DEFINE step == [p \in Nat \X Int |-> p[2] \div 256]
<1>1. step \in [Nat \X Int -> Int]
  OBVIOUS
<1>2. PICK g : IsIterate(Int, n, step, I64Bytes, g)
  <2> HIDE DEF step
  <2>1. QED
    BY <1>1, Iterates, Widths64
<1>3. \A k \in 1 .. I64Bytes : g[k] = g[k - 1] \div 256
  <2> SUFFICES ASSUME NEW k \in 1 .. I64Bytes PROVE g[k] = g[k - 1] \div 256
    OBVIOUS
  <2>1. k - 1 \in Nat /\ g[k - 1] \in Int
    BY <1>2, Widths64 DEF IsIterate
  <2>2. QED
    BY <1>2, <2>1 DEF IsIterate
<1>4. g = [k \in 0 .. I64Bytes |-> IF k = 0 THEN n ELSE g[k - 1] \div 256]
  BY <1>2, <1>3, Widths64 DEF IsIterate
<1>5. Shifts(n) = [k \in 0 .. I64Bytes |-> IF k = 0 THEN n ELSE Shifts(n)[k - 1] \div 256]
  BY <1>4, Zenon DEF Shifts
<1> DEFINE f == Shifts(n)
<1> HIDE DEF f
<1>6. f = [k \in 0 .. I64Bytes |-> IF k = 0 THEN n ELSE f[k - 1] \div 256]
  BY <1>5 DEF f
<1>7. f[0] = n /\ \A k \in 1 .. I64Bytes : f[k] = f[k - 1] \div 256
  BY <1>6, Widths64
<1> DEFINE S == {k \in Nat : k <= I64Bytes => f[k] \in Int}
<1>8. 0 \in S
  BY <1>7
<1>9. ASSUME NEW k \in Nat, k \in S PROVE k + 1 \in S
  <2>1. CASE k + 1 <= I64Bytes
    <3>1. k + 1 \in 1 .. I64Bytes /\ (k + 1) - 1 = k /\ f[k] \in Int
      BY <1>9, <2>1, Widths64
    <3>2. QED
      BY <1>7, <3>1
  <2>2. QED
    BY <2>1
<1>10. \A k \in Nat : k \in S
  <2> HIDE DEF S
  <2>1. QED
    BY <1>8, <1>9, Inductive
<1>11. f \in [0 .. I64Bytes -> Int]
  <2>1. f = [k \in 0 .. I64Bytes |-> f[k]]
    BY <1>6
  <2>2. \A k \in 0 .. I64Bytes : f[k] \in Int
    BY <1>10, Widths64
  <2>3. QED
    BY <2>1, <2>2
<1>12. QED
  BY <1>7, <1>11 DEF f

\* The recursive definition of i64::from_be_bytes.
LEMMA PrefixesDefined ==
  ASSUME NEW b \in Seq(Byte), Len(b) = I64Bytes
  PROVE  /\ Prefixes(b) \in [0 .. I64Bytes -> Int]
         /\ Prefixes(b)[0] = IF b[1] >= 128 THEN -1 ELSE 0
         /\ \A i \in 1 .. I64Bytes : Prefixes(b)[i] = 256 * Prefixes(b)[i - 1] + b[i]
<1>1. \A i \in 1 .. I64Bytes : b[i] \in Nat
  <2>1. \A i \in 1 .. Len(b) : b[i] \in Byte
    BY ElementOfSeq
  <2>2. ASSUME NEW i \in 1 .. I64Bytes PROVE b[i] \in Byte
    BY <2>1
  <2>3. \A x \in Byte : x \in Nat
    BY DEF Byte
  <2>4. QED
    BY <2>2, <2>3
<1> DEFINE step == [p \in Nat \X Int |-> IF p[1] + 1 \in 1 .. I64Bytes
                                           THEN 256 * p[2] + b[p[1] + 1] ELSE 0]
           sign == IF b[1] >= 128 THEN -1 ELSE 0
<1>2. step \in [Nat \X Int -> Int] /\ sign \in Int
  BY <1>1
<1>3. PICK g : IsIterate(Int, sign, step, I64Bytes, g)
  <2> HIDE DEF step, sign
  <2>1. QED
    BY <1>2, Iterates, Widths64
<1>4. \A i \in 1 .. I64Bytes : g[i] = 256 * g[i - 1] + b[i]
  <2> SUFFICES ASSUME NEW i \in 1 .. I64Bytes PROVE g[i] = 256 * g[i - 1] + b[i]
    OBVIOUS
  <2>1. i - 1 \in Nat /\ g[i - 1] \in Int /\ (i - 1) + 1 = i
    BY <1>3, Widths64 DEF IsIterate
  <2> HIDE DEF sign
  <2>2. QED
    BY <1>3, <2>1 DEF IsIterate
<1>5. g = [i \in 0 .. I64Bytes |-> IF i = 0 THEN sign ELSE 256 * g[i - 1] + b[i]]
  <2> HIDE DEF sign, step
  <2>1. QED
    BY <1>3, <1>4, Widths64 DEF IsIterate
<1>6. Prefixes(b) = [i \in 0 .. I64Bytes |->
                       IF i = 0 THEN sign ELSE 256 * Prefixes(b)[i - 1] + b[i]]
  BY <1>5, Zenon DEF Prefixes
<1> DEFINE f == Prefixes(b)
<1> HIDE DEF f, sign
<1>7. f = [i \in 0 .. I64Bytes |-> IF i = 0 THEN sign ELSE 256 * f[i - 1] + b[i]]
  BY <1>6 DEF f
<1>8. f[0] = sign /\ \A i \in 1 .. I64Bytes : f[i] = 256 * f[i - 1] + b[i]
  BY <1>7, Widths64
<1> DEFINE S == {k \in Nat : k <= I64Bytes => f[k] \in Int}
<1>9. 0 \in S
  BY <1>2, <1>8
<1>10. ASSUME NEW k \in Nat, k \in S PROVE k + 1 \in S
  <2>1. CASE k + 1 <= I64Bytes
    <3>1. k + 1 \in 1 .. I64Bytes /\ (k + 1) - 1 = k /\ f[k] \in Int
      BY <1>10, <2>1, Widths64
    <3>2. QED
      BY <1>1, <1>8, <3>1
  <2>2. QED
    BY <2>1
<1>11. \A k \in Nat : k \in S
  <2> HIDE DEF S
  <2>1. QED
    BY <1>9, <1>10, Inductive
<1>12. f \in [0 .. I64Bytes -> Int]
  <2>1. f = [k \in 0 .. I64Bytes |-> f[k]]
    BY <1>7
  <2>2. \A k \in 0 .. I64Bytes : f[k] \in Int
    BY <1>11, Widths64
  <2>3. QED
    BY <2>1, <2>2
<1>13. QED
  BY <1>8, <1>12 DEF f, sign

\* i64::to_be_bytes, and back.
LEMMA I64Bytes64 ==
  ASSUME NEW n, IsI64(n)
  PROVE  I64(n) \in Seq(Byte) /\ Len(I64(n)) = I64Bytes /\ FromI64(I64(n)) = n
<1> DEFINE w == I64Bytes
           b == I64(n)
           f == Shifts(n)
           g == Prefixes(b)
<1>1. w \in Nat /\ w - 1 \in Nat /\ 1 \in 1 .. w
  BY Widths64
<1>2. f \in [0 .. w -> Int] /\ f[0] = n /\ \A k \in 1 .. w : f[k] = f[k - 1] \div 256
  BY ShiftsDefined DEF IsI64
<1>3. f[w - 1] \in -128 .. 127
  BY DEF IsI64
<1> HIDE DEF f, w
<1>4. b = [i \in 1 .. w |-> f[w - i] % 256]
  BY DEF I64, f, w
<1>5. \A i \in 1 .. w : w - i \in 0 .. w /\ f[w - i] \in Int /\ f[w - i] % 256 \in Byte
  <2>1. \A i \in 1 .. w : w - i \in 0 .. w
    BY <1>1
  <2>2. \A i \in 1 .. w : f[w - i] \in Int
    BY <1>2, <2>1
  <2>3. \A x \in Int : x % 256 \in Byte
    BY DEF Byte
  <2>4. QED
    BY <2>1, <2>2, <2>3
<1> HIDE DEF b
<1>6. b \in [1 .. w -> Byte]
  BY <1>4, <1>5
<1>7. b \in Seq(Byte) /\ Len(b) = w
  BY <1>1, <1>6
<1>8. g[0] = (IF b[1] >= 128 THEN -1 ELSE 0) /\ \A i \in 1 .. w : g[i] = 256 * g[i - 1] + b[i]
  BY <1>7, PrefixesDefined DEF w
<1> HIDE DEF g
<1>9. g[0] = f[w]
  <2>1. b[1] = f[w - 1] % 256 /\ f[w] = f[w - 1] \div 256
    <3>1. w \in 1 .. w
      BY <1>1
    <3>2. QED
      BY <1>1, <1>2, <1>4, <3>1
  <2>2. \A x \in -128 .. 127 : x \div 256 = (IF x % 256 >= 128 THEN -1 ELSE 0)
    OBVIOUS
  <2>3. QED
    BY <1>3, <1>8, <2>1, <2>2
<1> DEFINE S == {k \in Nat : k <= w => g[k] = f[w - k]}
<1>10. 0 \in S
  BY <1>1, <1>9
<1>11. ASSUME NEW k \in Nat, k \in S PROVE k + 1 \in S
  <2>1. CASE k + 1 <= w
    <3>1. /\ k + 1 \in 1 .. w /\ (k + 1) - 1 = k /\ w - k \in 1 .. w
          /\ (w - k) - 1 = w - (k + 1)
      BY <1>1, <2>1
    <3>2. g[k] = f[w - k]
      BY <1>1, <1>11, <2>1
    <3>3. f[w - k] = f[w - (k + 1)] \div 256
      BY <1>2, <3>1
    <3>4. b[k + 1] = f[w - (k + 1)] % 256 /\ f[w - (k + 1)] \in Int
      BY <1>4, <1>5, <3>1
    <3>5. g[k + 1] = 256 * g[k] + b[k + 1]
      BY <1>8, <3>1
    <3>6. \A x \in Int : 256 * (x \div 256) + (x % 256) = x
      OBVIOUS
    <3>7. QED
      BY <3>2, <3>3, <3>4, <3>5, <3>6
  <2>2. QED
    BY <2>1
<1>12. \A k \in Nat : k \in S
  <2> HIDE DEF S
  <2>1. QED
    BY <1>10, <1>11, Inductive
<1>13. g[w] = n
  <2>1. w - w = 0
    BY <1>1
  <2>2. QED
    BY <1>1, <1>2, <1>12, <2>1
<1>14. QED
  BY <1>7, <1>13 DEF FromI64, g, b, w

-----------------------------------------------------------------------------
(* Payloads.                                                               *)

\* What follows the front of a sequence.
LEMMA AfterFront ==
  ASSUME NEW a \in Seq(Byte), NEW b \in Seq(Byte)
  PROVE  /\ a \o b \in Seq(Byte) /\ Len(a \o b) = Len(a) + Len(b)
         /\ \A i \in 1 .. Len(a) : (a \o b)[i] = a[i]
         /\ \A i \in 1 .. Len(b) : (a \o b)[Len(a) + i] = b[i]
         /\ SubSeq(a \o b, Len(a) + 1, Len(a \o b)) = b
<1>1. PICK l \in Nat : l = Len(a)
  BY LenProperties
<1>2. PICK m \in Nat : m = Len(b)
  BY LenProperties
<1> DEFINE u == a \o b
<1>3. u \in Seq(Byte) /\ Len(u) = l + m
      /\ \A i \in 1 .. l + m : u[i] = IF i <= l THEN a[i] ELSE b[i - l]
  BY <1>1, <1>2, ConcatProperties
<1> HIDE DEF u
<1>4. \A i \in 1 .. l : u[i] = a[i]
  BY <1>3
<1>5. ASSUME NEW i \in 1 .. m PROVE u[l + i] = b[i]
  <2>1. l + i \in 1 .. l + m /\ ~(l + i <= l) /\ (l + i) - l = i
    OBVIOUS
  <2>2. QED
    BY <1>3, <2>1
<1> DEFINE r == SubSeq(u, l + 1, l + m)
<1>6. /\ r \in Seq(Byte)
      /\ Len(r) = IF l + 1 <= l + m THEN (l + m) - (l + 1) + 1 ELSE 0
      /\ \A i \in 1 .. (l + m) - (l + 1) + 1 : r[i] = u[(l + 1) + i - 1]
  <2>1. \A i \in l + 1 .. l + m : u[i] \in Byte
    <3>1. \A i \in 1 .. Len(u) : u[i] \in Byte
      BY <1>3, ElementOfSeq
    <3>2. QED
      BY <1>3, <3>1
  <2>2. l + 1 \in Int /\ l + m \in Int
    OBVIOUS
  <2>3. QED
    BY <2>1, <2>2, SubSeqProperties
<1> HIDE DEF r
<1>7. Len(r) = m
  BY <1>6
<1>8. ASSUME NEW i \in 1 .. Len(r) PROVE r[i] = b[i]
  <2>1. i \in 1 .. (l + m) - (l + 1) + 1 /\ (l + 1) + i - 1 = l + i /\ i \in 1 .. m
    BY <1>7
  <2>2. QED
    BY <1>5, <1>6, <2>1
<1>9. r = b
  BY <1>2, <1>6, <1>7, <1>8, SeqEqual
<1>10. QED
  BY <1>1, <1>2, <1>3, <1>4, <1>5, <1>9 DEF r, u

\* A string with its length, and back.
LEMMA Str16Read ==
  ASSUME NEW t \in Seq(Byte), Len(t) <= MaxLength
  PROVE  /\ Str16(t) \in Seq(Byte) /\ Len(Str16(t)) = 2 + Len(t)
         /\ Big(Str16(t)) = Len(t) /\ Text16(Str16(t)) = t
         /\ IsStr16(Str16(t)) <=> 0 \notin Elements(t) /\ IsUtf8(t)
<1> DEFINE p == Str16(t)
           u == U16(Len(t))
<1>1. PICK l \in Nat : l = Len(t)
  BY LenProperties
<1>2. u \in Seq(Byte) /\ Len(u) = 2 /\ Big(u) = l
  BY <1>1, U16Bytes
<1>3. p = u \o t
  BY DEF Str16
<1> HIDE DEF p, u
<1>4. /\ p \in Seq(Byte) /\ Len(p) = 2 + l
      /\ \A i \in 1 .. 2 : p[i] = u[i]
      /\ SubSeq(p, 2 + 1, Len(p)) = t
  <2>1. /\ p \in Seq(Byte) /\ Len(p) = Len(u) + Len(t)
        /\ \A i \in 1 .. Len(u) : p[i] = u[i]
        /\ SubSeq(p, Len(u) + 1, Len(p)) = t
    BY <1>2, <1>3, AfterFront
  <2>2. QED
    BY <1>1, <1>2, <2>1
<1>5. Big(p) = l
  <2>1. 1 \in 1 .. 2 /\ 2 \in 1 .. 2
    OBVIOUS
  <2>2. p[1] = u[1] /\ p[2] = u[2]
    BY <1>4, <2>1
  <2>3. QED
    BY <1>2, <2>2 DEF Big
<1>6. SubSeq(p, 3, Len(p)) = t
  <2>1. 2 + 1 = 3
    OBVIOUS
  <2>2. QED
    BY <1>4, <2>1
<1>7. Len(p) >= 2 /\ Len(p) = 2 + Big(p)
  BY <1>4, <1>5
<1>8. IsStr16(p) <=> 0 \notin Elements(t) /\ IsUtf8(t)
  BY <1>6, <1>7 DEF IsStr16
<1>9. QED
  BY <1>1, <1>4, <1>5, <1>6, <1>8 DEF p, Text16

\* A value as the decoders know it.
Raw(v) ==
  CASE v[1] = "bool" -> <<"bool", IF v[2] THEN 1 ELSE 0>>
    [] v[1] = "i64"  -> <<"i64", I64(v[2])>>
    [] v[1] = "str"  -> v

\* The three kinds of values.
LEMMA ValueKinds ==
  ASSUME NEW v, IsValue(v)
  PROVE  \/ /\ v[1] = "bool" /\ v = <<"bool", v[2]>> /\ v[2] \in BOOLEAN
            /\ EncodeValue(v) = <<1, IF v[2] THEN 1 ELSE 0>>
            /\ Raw(v) = <<"bool", IF v[2] THEN 1 ELSE 0>>
         \/ /\ v[1] = "i64" /\ v = <<"i64", v[2]>> /\ IsI64(v[2])
            /\ EncodeValue(v) = <<2>> \o I64(v[2]) /\ Raw(v) = <<"i64", I64(v[2])>>
         \/ /\ v[1] = "str" /\ v = <<"str", v[2]>> /\ IsText(v[2])
            /\ EncodeValue(v) = <<3>> \o Str16(v[2]) /\ Raw(v) = v
  BY DEF IsValue, EncodeValue, Raw

\* owned_value takes a value that was encoded back to what it was.
LEMMA RawOwned ==
  ASSUME NEW v, IsValue(v)
  PROVE  Owned(Raw(v)) = v
<1>1. CASE v[1] = "bool"
  <2>1. v = <<"bool", v[2]>> /\ v[2] \in BOOLEAN /\ Raw(v) = <<"bool", IF v[2] THEN 1 ELSE 0>>
    BY <1>1, ValueKinds
  <2>2. Owned(Raw(v)) = <<"bool", Raw(v)[2] = 1>>
    BY <2>1 DEF Owned
  <2>3. (Raw(v)[2] = 1) = v[2]
    BY <2>1
  <2>4. QED
    BY <2>1, <2>2, <2>3
<1>2. CASE v[1] = "i64"
  <2>1. v = <<"i64", v[2]>> /\ Raw(v) = <<"i64", I64(v[2])>> /\ FromI64(I64(v[2])) = v[2]
    BY <1>2, ValueKinds, I64Bytes64
  <2>2. Owned(Raw(v)) = <<"i64", FromI64(I64(v[2]))>>
    BY <2>1 DEF Owned
  <2>3. QED
    BY <2>1, <2>2
<1>3. CASE v[1] = "str"
  BY <1>3, ValueKinds DEF Owned
<1>4. QED
  BY <1>1, <1>2, <1>3, ValueKinds

\* The bytes of a value.
LEMMA EncodedValue ==
  ASSUME NEW v, IsValue(v), v[1] = "str" => Len(v[2]) <= MaxLength
  PROVE  /\ EncodeValue(v) \in Seq(Byte)
         /\ Len(EncodeValue(v)) = CASE v[1] = "bool" -> 2
                                    [] v[1] = "i64"  -> 1 + I64Bytes
                                    [] v[1] = "str"  -> 3 + Len(v[2])
<1>1. CASE v[1] = "bool"
  <2>1. PICK x \in {0, 1} : EncodeValue(v) = <<1, x>>
    BY <1>1, ValueKinds
  <2>2. x \in Byte /\ 1 \in Byte
    BY DEF Byte
  <2>3. <<1, x>> \in Seq(Byte) /\ Len(<<1, x>>) = 2
    BY <2>2
  <2>4. QED
    BY <1>1, <2>1, <2>3
<1>2. CASE v[1] = "i64"
  <2>1. I64(v[2]) \in Seq(Byte) /\ Len(I64(v[2])) = I64Bytes /\ EncodeValue(v) = <<2>> \o I64(v[2])
    BY <1>2, ValueKinds, I64Bytes64
  <2>2. <<2>> \in Seq(Byte) /\ Len(<<2>>) = 1
    BY DEF Byte
  <2>3. QED
    BY <1>2, <2>1, <2>2, ConcatProperties
<1>3. CASE v[1] = "str"
  <2>1. /\ v[2] \in Seq(Byte) /\ Len(v[2]) <= MaxLength /\ Len(v[2]) \in Nat
        /\ EncodeValue(v) = <<3>> \o Str16(v[2])
    BY <1>3, ValueKinds, LenProperties DEF IsText, Byte
  <2>2. <<3>> \in Seq(Byte) /\ Len(<<3>>) = 1
    BY DEF Byte
  <2>3. Str16(v[2]) \in Seq(Byte) /\ Len(Str16(v[2])) = 2 + Len(v[2])
    BY <2>1, Str16Read
  <2>4. EncodeValue(v) \in Seq(Byte) /\ Len(EncodeValue(v)) = 1 + (2 + Len(v[2]))
    BY <2>1, <2>2, <2>3, ConcatProperties
  <2>5. QED
    BY <1>3, <2>1, <2>4
<1>4. QED
  BY <1>1, <1>2, <1>3, ValueKinds

\* A byte before a sequence.
LEMMA AfterFirst ==
  ASSUME NEW a \in Byte, NEW b \in Seq(Byte)
  PROVE  /\ <<a>> \o b \in Seq(Byte) /\ Len(<<a>> \o b) = 1 + Len(b)
         /\ <<a>> \o b # <<>> /\ (<<a>> \o b)[1] = a /\ Tail(<<a>> \o b) = b
         /\ \A i \in 1 .. Len(b) : (<<a>> \o b)[1 + i] = b[i]
<1> DEFINE h == <<a>>
           p == h \o b
<1>1. h \in Seq(Byte) /\ Len(h) = 1 /\ h[1] = a
  OBVIOUS
<1>2. Len(b) \in Nat
  BY LenProperties
<1> HIDE DEF h
<1>3. /\ p \in Seq(Byte) /\ Len(p) = Len(h) + Len(b)
      /\ \A i \in 1 .. Len(h) : p[i] = h[i]
      /\ \A i \in 1 .. Len(b) : p[Len(h) + i] = b[i]
      /\ SubSeq(p, Len(h) + 1, Len(p)) = b
  BY <1>1, AfterFront
<1> HIDE DEF p
<1>4. p[1] = a
  <2>1. 1 \in 1 .. 1
    OBVIOUS
  <2>2. QED
    BY <1>1, <1>3, <2>1
<1>5. p # <<>>
  BY <1>1, <1>2, <1>3, EmptySeq
<1>6. SubSeq(p, 2, Len(p)) = b
  <2>1. 1 + 1 = 2
    OBVIOUS
  <2>2. QED
    BY <1>1, <1>3, <2>1
<1>7. Tail(p) = b
  BY <1>3, <1>5, <1>6, TailIsSubSeq
<1>8. QED
  BY <1>1, <1>3, <1>4, <1>5, <1>7 DEF p, h

\* The decoder of a value is the inverse of its encoder.
LEMMA ValueReadBack ==
  ASSUME NEW k, NEW v, IsValue(v), ~HasNul(v), v[1] = "str" => Len(v[2]) <= MaxLength
  PROVE  DecodeValue(k, EncodeValue(v)) = Request(k, Raw(v))
<1> DEFINE p == EncodeValue(v)
<1>1. CASE v[1] = "bool"
  <2>1. PICK x \in {0, 1} : p = <<1, x>> /\ Raw(v) = <<"bool", x>>
    BY <1>1, ValueKinds
  <2>2. p # <<>> /\ p[1] = 1 /\ Len(p) = 2 /\ p[2] = x
    BY <2>1
  <2> HIDE DEF p
  <2>3. QED
    BY <2>1, <2>2 DEF DecodeValue, p
<1>2. CASE v[1] = "i64"
  <2> DEFINE b == I64(v[2])
  <2>1. b \in Seq(Byte) /\ Len(b) = I64Bytes /\ p = <<2>> \o b /\ Raw(v) = <<"i64", b>>
    BY <1>2, ValueKinds, I64Bytes64
  <2>2. 2 \in Byte
    BY DEF Byte
  <2> HIDE DEF p, b
  <2>3. p # <<>> /\ p[1] = 2 /\ Len(p) = 1 + I64Bytes /\ Tail(p) = b
    BY <2>1, <2>2, AfterFirst
  <2>4. DecodeValue(k, p) = Request(k, <<"i64", b>>)
    BY <2>3 DEF DecodeValue
  <2>5. QED
    BY <2>1, <2>4 DEF p
<1>3. CASE v[1] = "str"
  <2> DEFINE t == v[2]
             q == Str16(t)
  <2>1. /\ v = <<"str", t>> /\ t \in Seq(Byte) /\ IsUtf8(t) /\ 0 \notin Elements(t)
        /\ Len(t) <= MaxLength /\ Len(t) \in Nat
        /\ p = <<3>> \o q /\ Raw(v) = v
    BY <1>3, ValueKinds, LenProperties DEF IsText, Byte, HasNul
  <2>2. 3 \in Byte
    BY DEF Byte
  <2> HIDE DEF t
  <2>3. q \in Seq(Byte) /\ Len(q) = 2 + Len(t) /\ Big(q) = Len(t) /\ Text16(q) = t
    BY <2>1, Str16Read
  <2> HIDE DEF q, p
  <2>4. /\ p \in Seq(Byte) /\ p # <<>> /\ p[1] = 3 /\ Len(p) = 1 + Len(q) /\ Tail(p) = q
        /\ \A i \in 1 .. Len(q) : p[1 + i] = q[i]
    BY <2>1, <2>2, <2>3, AfterFirst
  <2>5. Len(p) = 3 + Len(t) /\ ~(Len(p) < 3) /\ Big(Tail(p)) = Len(t)
    <3>1. PICK l \in Nat : l = Len(t)
      BY <2>1
    <3>2. Len(p) = 1 + (2 + l) /\ Big(Tail(p)) = l
      BY <2>3, <2>4, <3>1
    <3>3. Len(p) = 3 + l /\ ~(Len(p) < 3)
      BY <3>2
    <3>4. QED
      BY <3>1, <3>2, <3>3
  <2>6. SubSeq(p, 4, Len(p)) = t
    <3> DEFINE l == Len(t)
               r == SubSeq(p, 4, 3 + l)
               s == SubSeq(q, 3, 2 + l)
    <3>1. l \in Nat /\ Len(p) = 3 + l /\ Len(q) = 2 + l
      BY <2>1, <2>3, <2>5
    <3> HIDE DEF l
    <3>2. /\ \A i \in 4 .. 3 + l : p[i] \in Byte
          /\ \A i \in 3 .. 2 + l : q[i] \in Byte
      <4>1. \A i \in 1 .. Len(p) : p[i] \in Byte
        BY <2>4, ElementOfSeq
      <4>2. \A i \in 1 .. Len(q) : q[i] \in Byte
        BY <2>3, ElementOfSeq
      <4>3. QED
        BY <3>1, <4>1, <4>2
    <3>3. /\ r \in Seq(Byte) /\ Len(r) = IF 4 <= 3 + l THEN (3 + l) - 4 + 1 ELSE 0
          /\ \A i \in 1 .. (3 + l) - 4 + 1 : r[i] = p[4 + i - 1]
      BY <3>1, <3>2, SubSeqProperties
    <3>4. /\ s \in Seq(Byte) /\ Len(s) = IF 3 <= 2 + l THEN (2 + l) - 3 + 1 ELSE 0
          /\ \A i \in 1 .. (2 + l) - 3 + 1 : s[i] = q[3 + i - 1]
      BY <3>1, <3>2, SubSeqProperties
    <3> HIDE DEF r, s
    <3>5. Len(r) = l /\ Len(s) = l
      BY <3>1, <3>3, <3>4
    <3>6. ASSUME NEW i \in 1 .. Len(r) PROVE r[i] = s[i]
      <4>1. /\ i \in 1 .. (3 + l) - 4 + 1 /\ i \in 1 .. (2 + l) - 3 + 1
            /\ 4 + i - 1 = 1 + (3 + i - 1) /\ 3 + i - 1 \in 1 .. Len(q)
        BY <3>1, <3>5
      <4>2. r[i] = p[1 + (3 + i - 1)] /\ s[i] = q[3 + i - 1]
        BY <3>3, <3>4, <4>1
      <4>3. QED
        BY <2>4, <4>1, <4>2
    <3>7. r = s
      BY <3>3, <3>4, <3>5, <3>6, SeqEqual
    <3>8. s = t
      BY <2>3, <3>1 DEF s, Text16
    <3>9. QED
      BY <3>1, <3>7, <3>8 DEF r
  <2>7. DecodeValue(k, p) = Request(k, <<"str", t>>)
    <3>1. p # <<>> /\ p[1] = 3 /\ p[1] # 1 /\ p[1] # 2 /\ ~(Len(p) < 3)
      BY <2>4, <2>5
    <3>2. DecodeValue(k, p) =
            LET text == SubSeq(p, 4, Len(p)) IN
              IF Len(text) = Big(Tail(p)) /\ 0 \notin Elements(text) /\ IsUtf8(text)
                THEN Request(k, <<"str", text>>) ELSE Rejected
      BY <3>1 DEF DecodeValue
    <3>3. QED
      BY <2>1, <2>5, <2>6, <3>2
  <2>8. QED
    BY <2>1, <2>7 DEF p
<1>4. QED
  BY <1>1, <1>2, <1>3, ValueKinds

\* The length of a value, also of one that no frame can carry.
LEMMA EncodedLength ==
  ASSUME NEW v, IsValue(v)
  PROVE  /\ EncodeValue(v) \in Seq(Nat)
         /\ Len(EncodeValue(v)) = CASE v[1] = "bool" -> 2
                                    [] v[1] = "i64"  -> 1 + I64Bytes
                                    [] v[1] = "str"  -> 3 + Len(v[2])
<1>1. CASE v[1] # "str"
  <2>1. EncodeValue(v) \in Seq(Byte)
    BY <1>1, EncodedValue
  <2>2. QED
    BY <1>1, <2>1, EncodedValue, BytesAreNaturals
<1>2. CASE v[1] = "str"
  <2> DEFINE t == v[2]
             u == U16(Len(t))
  <2>1. EncodeValue(v) = <<3>> \o (u \o t) /\ t \in Seq(Nat)
    <3>1. EncodeValue(v) = <<3>> \o Str16(t) /\ t \in Seq(Byte)
      BY <1>2, ValueKinds DEF IsText, Byte
    <3>2. QED
      BY <3>1, BytesAreNaturals DEF Str16
  <2>2. Len(t) \in Nat
    BY <2>1, LenProperties
  <2> HIDE DEF t
  <2>3. u \in Seq(Nat) /\ Len(u) = 2
    <3>1. Len(t) \div 256 \in Nat /\ Len(t) % 256 \in Nat
      BY <2>2
    <3>2. QED
      BY <3>1 DEF U16
  <2>4. <<3>> \in Seq(Nat) /\ Len(<<3>>) = 1
    OBVIOUS
  <2> HIDE DEF u
  <2>5. u \o t \in Seq(Nat) /\ Len(u \o t) = 2 + Len(t)
    <3>1. u \o t \in Seq(Nat) /\ Len(u \o t) = Len(u) + Len(t)
      BY <2>1, <2>3, ConcatProperties
    <3>2. QED
      BY <2>3, <3>1
  <2>6. <<3>> \o (u \o t) \in Seq(Nat) /\ Len(<<3>> \o (u \o t)) = 1 + (2 + Len(t))
    BY <2>4, <2>5, ConcatProperties
  <2>7. QED
    BY <1>2, <2>1, <2>2, <2>6 DEF t
<1>3. QED
  BY <1>1, <1>2

-----------------------------------------------------------------------------
(* Calls.                                                                  *)

\* u16::MAX holds the payloads that are not strings.
LEMMA WidthU16 == MaxU16 \in Nat /\ MaxU16 >= 19 /\ MaxU16 <= MaxLength
  BY WidthAssumption DEF MaxLength

\* What the parser of whole frames makes of the value of a call.
Carried(c) == IF c.op = "W" THEN Raw(c.value) ELSE NoValue

\* The operations of the three kinds of calls.
LEMMA CallKinds ==
  ASSUME NEW c, IsCall(c)
  PROVE  /\ c.keyref \in Nat /\ c.keyref <= MaxU16
         /\ ValidOpcode(c.op) /\ c.op \in Ops
         /\ \/ /\ c.op \in EmptyOps /\ c.op # "W" /\ c.value = NoValue /\ c.keyref = 0
               /\ CallPayload(c) = <<>>
            \/ /\ c.op \in KeyrefOps /\ c.op # "W" /\ c.op \notin EmptyOps /\ c.value = NoValue
               /\ CallPayload(c) = U16(c.keyref)
            \/ /\ c.op = "W" /\ IsValue(c.value)
               /\ CallPayload(c) = U16(c.keyref) \o EncodeValue(c.value)
<1>1. c.keyref \in Nat /\ c.keyref <= MaxU16
  BY WidthU16 DEF IsCall
<1>2. CASE c.op \in EmptyOps /\ c.value = NoValue /\ c.keyref = 0
  <2>1. c.op # "W" /\ c.op \notin KeyrefOps
    BY <1>2 DEF EmptyOps, KeyrefOps
  <2>2. CallPayload(c) = <<>>
    BY <1>2, <2>1 DEF CallPayload
  <2>3. QED
    BY <1>1, <1>2, <2>1, <2>2 DEF ValidOpcode, Ops
<1>3. CASE c.op \in KeyrefOps /\ c.value = NoValue
  <2>1. c.op # "W" /\ c.op \notin EmptyOps
    BY <1>3 DEF EmptyOps, KeyrefOps
  <2>2. CallPayload(c) = U16(c.keyref)
    BY <1>3, <2>1 DEF CallPayload
  <2>3. QED
    BY <1>1, <1>3, <2>1, <2>2 DEF ValidOpcode, Ops
<1>4. CASE c.op = "W" /\ IsValue(c.value)
  <2>1. c.op \notin EmptyOps /\ c.op \notin KeyrefOps
    BY <1>4 DEF EmptyOps, KeyrefOps
  <2>2. CallPayload(c) = U16(c.keyref) \o EncodeValue(c.value)
    BY <2>1 DEF CallPayload
  <2>3. QED
    BY <1>1, <1>4, <2>2 DEF ValidOpcode, Ops
<1>5. QED
  BY <1>2, <1>3, <1>4 DEF IsCall

\* The length of the payload of a WRITE.
LEMMA WriteLength ==
  ASSUME NEW c, IsCall(c), c.op = "W"
  PROVE  /\ Len(EncodeValue(c.value)) \in Nat
         /\ Len(CallPayload(c)) = 2 + Len(EncodeValue(c.value))
<1>1. c.keyref \in Nat /\ IsValue(c.value) /\ CallPayload(c) = U16(c.keyref) \o EncodeValue(c.value)
  BY CallKinds DEF EmptyOps, KeyrefOps
<1>2. EncodeValue(c.value) \in Seq(Nat)
  BY <1>1, EncodedLength
<1>3. U16(c.keyref) \in Seq(Nat) /\ Len(U16(c.keyref)) = 2
  <2>1. c.keyref \div 256 \in Nat /\ c.keyref % 256 \in Nat
    BY <1>1
  <2>2. QED
    BY <2>1 DEF U16
<1> DEFINE e == EncodeValue(c.value)
           u == U16(c.keyref)
<1> HIDE DEF e, u
<1>4. e \in Seq(Nat) /\ u \in Seq(Nat) /\ Len(u) = 2
  BY <1>2, <1>3 DEF e, u
<1>5. Len(u \o e) = Len(u) + Len(e) /\ Len(e) \in Nat
  BY <1>4, ConcatProperties, LenProperties
<1>6. QED
  BY <1>1, <1>4, <1>5 DEF e, u

\* The payload of a call that the client can encode, and what the parser of
\* whole frames makes of it.
THEOREM CallRead ==
  ASSUME NEW c, IsCall(c), Encodable(c)
  PROVE  /\ CallPayload(c) \in Seq(Byte) /\ Len(CallPayload(c)) <= MaxLength
         /\ Decode(c.op, CallPayload(c)) = Request(c.keyref, Carried(c))
         /\ Owned(Carried(c)) = c.value
<1> DEFINE p == CallPayload(c)
           k == c.keyref
<1>1. k \in Nat /\ k <= MaxLength /\ Len(p) <= MaxU16
  <2>1. c.keyref \in Nat /\ c.keyref <= MaxU16
    BY CallKinds
  <2>2. c.keyref <= MaxLength
    BY <2>1, WidthU16, MaxLengthType
  <2>3. QED
    BY <2>1, <2>2 DEF Encodable
<1>2. U16(k) \in Seq(Byte) /\ Len(U16(k)) = 2 /\ Big(U16(k)) = k
  BY <1>1, U16Bytes
<1>3. NoValue = Owned(NoValue)
  BY DEF Owned, NoValue
<1>4. CASE c.op \in EmptyOps
  <2>1. p = <<>> /\ c.value = NoValue /\ k = 0 /\ c.op # "W" /\ c.op \notin KeyrefOps
    BY <1>4, CallKinds DEF EmptyOps, KeyrefOps
  <2>2. Decode(c.op, p) = Request(k, NoValue)
    BY <1>4, <2>1 DEF Decode
  <2>3. p \in Seq(Byte) /\ Len(p) = 0
    BY <2>1, EmptySeq
  <2> HIDE DEF p
  <2>4. Len(p) <= MaxLength
    BY <2>3, MaxLengthType
  <2>5. QED
    BY <1>3, <2>1, <2>2, <2>3, <2>4 DEF Carried, p
<1>5. CASE c.op \in KeyrefOps
  <2>1. p = U16(k) /\ c.value = NoValue /\ c.op # "W" /\ c.op \notin EmptyOps
    BY <1>5, CallKinds DEF EmptyOps, KeyrefOps
  <2>2. Len(p) = 2 /\ Big(p) = k /\ p \in Seq(Byte)
    BY <1>2, <2>1
  <2>3. Decode(c.op, p) = Request(k, NoValue)
    BY <1>5, <2>1, <2>2 DEF Decode
  <2>4. Len(p) <= MaxLength
    BY <1>1, WidthU16, <2>2, MaxLengthType
  <2>5. QED
    BY <1>3, <2>1, <2>2, <2>3, <2>4 DEF Carried
<1>6. CASE c.op \notin EmptyOps /\ c.op \notin KeyrefOps
  <2> DEFINE v == c.value
             e == EncodeValue(v)
             u == U16(k)
  <2>1. c.op = "W" /\ IsValue(v) /\ p = u \o e
    BY <1>6, CallKinds
  <2>2. Len(e) \in Nat /\ Len(p) = 2 + Len(e)
    BY <2>1, WriteLength
  <2> HIDE DEF v, p, e, u
  <2>3. Len(p) <= MaxLength /\ Len(e) <= MaxLength - 2
    BY <1>1, <2>2, WidthU16, MaxLengthType
  <2>4. v[1] = "str" => Len(v[2]) <= MaxLength
    <3>1. SUFFICES ASSUME v[1] = "str" PROVE Len(v[2]) <= MaxLength
      OBVIOUS
    <3>2. Len(e) = 3 + Len(v[2])
      BY <2>1, <3>1, EncodedLength DEF e
    <3>3. Len(v[2]) \in Nat
      BY <2>1, <3>1, ValueKinds, LenProperties DEF IsText
    <3>4. QED
      BY <2>2, <2>3, <3>2, <3>3, MaxLengthType
  <2>5. ~HasNul(v)
    BY DEF Encodable, v
  <2>6. e \in Seq(Byte)
    BY <2>1, <2>4, EncodedValue DEF e
  <2>7. u \in Seq(Byte) /\ Len(u) = 2 /\ Big(u) = k
    BY <1>2 DEF u
  <2>8. /\ p \in Seq(Byte) /\ \A i \in 1 .. 2 : p[i] = u[i]
        /\ SubSeq(p, 3, Len(p)) = e
    <3>1. /\ p \in Seq(Byte)
          /\ \A i \in 1 .. Len(u) : p[i] = u[i]
          /\ SubSeq(p, Len(u) + 1, Len(p)) = e
      BY <2>1, <2>6, <2>7, AfterFront
    <3>2. 2 + 1 = 3
      OBVIOUS
    <3>3. QED
      BY <2>7, <3>1, <3>2
  <2>9. Big(p) = k
    <3>1. p[1] = u[1] /\ p[2] = u[2]
      BY <2>8
    <3>2. QED
      BY <2>7, <3>1 DEF Big
  <2>10. ~(Len(p) < 2)
    BY <2>2
  <2>11. Decode(c.op, p) = DecodeValue(k, e)
    BY <1>6, <2>8, <2>9, <2>10 DEF Decode
  <2>12. DecodeValue(k, e) = Request(k, Raw(v))
    BY <2>1, <2>4, <2>5, ValueReadBack DEF e
  <2>13. Owned(Raw(v)) = v
    BY <2>1, RawOwned
  <2>14. QED
    BY <2>1, <2>3, <2>8, <2>11, <2>12, <2>13 DEF Carried, v, p
<1>7. QED
  BY <1>4, <1>5, <1>6

-----------------------------------------------------------------------------
(* Capabilities.                                                           *)

\* An ASCII string is UTF-8.
LEMMA AsciiIsText ==
  ASSUME NEW t \in Seq(Byte), \A i \in 1 .. Len(t) : t[i] < 128
  PROVE  IsUtf8(t)
<1>1. \A b \in Byte : b < 128 => Width(b) = 1 /\ b # Cont
  <2>1. Lead2 \in 128 .. 255 /\ Lead3 \in 128 .. 255 /\ Lead4 \in 128 .. 255 /\ Cont \in 128 .. 255
    BY ReaderAssumption
  <2>2. ASSUME NEW b \in Byte, b < 128
        PROVE  b # Lead2 /\ b # Lead3 /\ b # Lead4 /\ b # Cont
    <3>1. \A c \in 128 .. 255 : b # c
      BY <2>2
    <3>2. QED
      BY <2>1, <3>1
  <2>3. QED
    BY <2>2 DEF Width
<1>2. PICK n \in Nat : n = Len(t)
  BY LenProperties
<1>3. SUFFICES ASSUME NEW i \in 1 .. n
               PROVE  \E j \in 1 .. i : WellBegun(t, j) /\ i < j + Width(t[j])
                                        /\ j + Width(t[j]) - 1 <= n
  BY <1>2 DEF IsUtf8, TextUpTo
<1>4. t[i] \in Byte /\ t[i] < 128
  BY <1>2, ElementOfSeq
<1>5. Width(t[i]) = 1 /\ t[i] # Cont
  BY <1>1, <1>4
<1>6. WellBegun(t, i)
  BY <1>5 DEF WellBegun
<1>7. i \in 1 .. i /\ i < i + 1 /\ i + 1 - 1 <= n
  OBVIOUS
<1>8. QED
  BY <1>5, <1>6, <1>7

\* The places in the first m bytes where a pair begins, the pairs, and what a
\* capability string asks of them.
Odd(m) == {i \in 1 .. m : i % 2 = 1}
PairsUpTo(t, m) == {<<t[i], t[i + 1]>> : i \in Odd(m)}
GoodUpTo(t, m) ==
  \A i \in Odd(m) :
    /\ WellPaired(t[i], t[i + 1])
    /\ \A h \in Odd(m) : t[h] = t[i] => t[h + 1] = t[i + 1]

\* The bytes of t that are pairs: all but a notification mark at its end.
InPairs(t) == IF t # <<>> /\ t[Len(t)] = 33 THEN Len(t) - 1 ELSE Len(t)

\* PROTOCOL.md's definition, in terms of the pairs.
LEMMA CapsInPairs ==
  ASSUME NEW t
  PROVE  CapsReference(t) <=> InPairs(t) % 2 = 0 /\ GoodUpTo(t, InPairs(t))
<1> DEFINE m == InPairs(t)
<1>1. CapsReference(t) <=>
        /\ m % 2 = 0
        /\ \A i \in Odd(m) : Upper(t[i]) /\ Lower(t[i + 1])
        /\ \A i \in Odd(m) : KnownRequest(t[i]) => <<t[i], t[i + 1]>> \in Responses
        /\ \A i, j \in Odd(m) : t[i] = t[j] => t[i + 1] = t[j + 1]
  BY DEF CapsReference, InPairs, Odd
<1> HIDE DEF m
<1>2. QED
  BY <1>1, Zenon DEF GoodUpTo, WellPaired, m

\* One pair more.
LEMMA NextPair ==
  ASSUME NEW t, NEW m \in Nat, m % 2 = 0, GoodUpTo(t, m)
  PROVE  /\ PairsUpTo(t, m + 2) = PairsUpTo(t, m) \cup {<<t[m + 1], t[m + 2]>>}
         /\ GoodUpTo(t, m + 2) <=> PairOk(PairsUpTo(t, m), t[m + 1], t[m + 2])
<1>1. Odd(m + 2) = Odd(m) \cup {m + 1} /\ (m + 1) + 1 = m + 2
  BY DEF Odd
<1>2. PairsUpTo(t, m + 2) = PairsUpTo(t, m) \cup {<<t[m + 1], t[m + 2]>>}
  BY <1>1 DEF PairsUpTo
<1>3. PairOk(PairsUpTo(t, m), t[m + 1], t[m + 2]) <=>
        /\ WellPaired(t[m + 1], t[m + 2])
        /\ \A h \in Odd(m) : t[h] = t[m + 1] => t[h + 1] = t[m + 2]
  <2> DEFINE P == PairsUpTo(t, m)
             Agree(s) == s[1] = t[m + 1] => s[2] = t[m + 2]
  <2>1. ASSUME NEW h \in Odd(m) PROVE <<t[h], t[h + 1]>> \in P
    BY DEF PairsUpTo
  <2>2. ASSUME NEW s \in P PROVE \E h \in Odd(m) : s = <<t[h], t[h + 1]>>
    BY DEF PairsUpTo
  <2> HIDE DEF P
  <2>3. (\A s \in P : Agree(s)) <=> \A h \in Odd(m) : t[h] = t[m + 1] => t[h + 1] = t[m + 2]
    <3>1. ASSUME \A s \in P : Agree(s), NEW h \in Odd(m), t[h] = t[m + 1]
          PROVE  t[h + 1] = t[m + 2]
      <4>1. Agree(<<t[h], t[h + 1]>>)
        BY <2>1, <3>1, Zenon
      <4>2. QED
        BY <3>1, <4>1
    <3>2. ASSUME \A h \in Odd(m) : t[h] = t[m + 1] => t[h + 1] = t[m + 2], NEW s \in P
          PROVE  Agree(s)
      <4>1. PICK h \in Odd(m) : s = <<t[h], t[h + 1]>>
        BY <2>2
      <4>2. s[1] = t[h] /\ s[2] = t[h + 1]
        BY <4>1
      <4>3. QED
        BY <3>2, <4>2
    <3>3. QED
      BY <3>1, <3>2
  <2> HIDE DEF Agree
  <2>4. (\A s \in P : Agree(s)) <=> \A s \in P : s[1] = t[m + 1] => s[2] = t[m + 2]
    BY DEF Agree
  <2>5. QED
    BY <2>3, <2>4 DEF PairOk, P
<1>4. ASSUME GoodUpTo(t, m + 2)
      PROVE  PairOk(PairsUpTo(t, m), t[m + 1], t[m + 2])
  BY <1>1, <1>3, <1>4 DEF GoodUpTo
<1>5. ASSUME PairOk(PairsUpTo(t, m), t[m + 1], t[m + 2])
      PROVE  GoodUpTo(t, m + 2)
  BY <1>1, <1>3, <1>5 DEF GoodUpTo
<1>6. QED
  BY <1>2, <1>4, <1>5

\* What is good of the pairs is good of the first of them.
LEMMA FewerPairs ==
  ASSUME NEW t, NEW m \in Nat, NEW l \in Nat, l <= m, GoodUpTo(t, m)
  PROVE  GoodUpTo(t, l)
<1>1. Odd(l) \subseteq Odd(m)
  BY DEF Odd
<1>2. QED
  BY <1>1 DEF GoodUpTo

\* What the loop of CapsRef::parse keeps.
Accs == [state : {"more", "done", "malformed"}, seen : SUBSET (Byte \X Byte)]

\* A round of CapsRef::parse gives what a round starts from.
LEMMA RoundType ==
  ASSUME NEW t \in Seq(Byte), NEW acc \in Accs, NEW i \in 1 .. Len(t)
  PROVE  CapsRound(t, acc, i) \in Accs
<1>1. CASE acc.state # "more"
  BY <1>1 DEF CapsRound
<1>2. CASE acc.state = "more" /\ t[i] = 33
  <2>1. CapsRound(t, acc, i) = [acc EXCEPT !.state = IF i = Len(t) THEN "done" ELSE "malformed"]
    BY <1>2 DEF CapsRound
  <2>2. QED
    BY <2>1 DEF Accs
<1>3. CASE acc.state = "more" /\ t[i] # 33
  <2>1. CapsRound(t, acc, i) =
          IF i < Len(t) /\ PairOk(acc.seen, t[i], t[i + 1])
            THEN [acc EXCEPT !.seen = acc.seen \cup {<<t[i], t[i + 1]>>}]
            ELSE [acc EXCEPT !.state = "malformed"]
    BY <1>3 DEF CapsRound
  <2>2. CASE i < Len(t)
    <3>1. i + 1 \in 1 .. Len(t)
      BY <2>2, LenProperties
    <3>2. t[i] \in Byte /\ t[i + 1] \in Byte
      BY <3>1, ElementOfSeq
    <3>3. acc.seen \cup {<<t[i], t[i + 1]>>} \in SUBSET (Byte \X Byte)
      BY <3>2 DEF Accs
    <3>4. QED
      BY <2>1, <3>3 DEF Accs
  <2>3. QED
    BY <2>1, <2>2 DEF Accs
<1>4. QED
  BY <1>1, <1>2, <1>3

\* Every round has a byte to look at, and two rounds take three bytes at least.
LEMMA RoundsFit ==
  ASSUME NEW t \in Seq(Byte)
  PROVE  /\ Rounds(t) \in Nat
         /\ \A j \in 1 .. Rounds(t) : 2 * j - 1 \in 1 .. Len(t)
         /\ Len(t) <= 2 * Rounds(t) /\ 2 * Rounds(t) <= Len(t) + 1
<1>1. PICK n \in Nat : n = Len(t)
  BY LenProperties
<1>2. Rounds(t) = (n + 1) \div 2
  BY <1>1 DEF Rounds
<1>3. QED
  BY <1>1, <1>2

\* The recursive definition of the loop of CapsRef::parse.
LEMMA LoopDefined ==
  ASSUME NEW t \in Seq(Byte)
  PROVE  /\ CapsLoop(t)[0] = [state |-> "more", seen |-> {}]
         /\ \A j \in 1 .. Rounds(t) : CapsLoop(t)[j] = CapsRound(t, CapsLoop(t)[j - 1], 2 * j - 1)
<1> DEFINE r == Rounds(t)
           start == [state |-> "more", seen |-> {}]
           step == [p \in Nat \X Accs |->
                      IF p[1] + 1 \in 1 .. r THEN CapsRound(t, p[2], 2 * (p[1] + 1) - 1) ELSE start]
<1>1. r \in Nat /\ \A j \in 1 .. r : 2 * j - 1 \in 1 .. Len(t)
  BY RoundsFit
<1>2. start \in Accs
  BY DEF Accs
<1> HIDE DEF r, start
<1>3. step \in [Nat \X Accs -> Accs]
  <2>1. ASSUME NEW p \in Nat \X Accs, p[1] + 1 \in 1 .. r
        PROVE  CapsRound(t, p[2], 2 * (p[1] + 1) - 1) \in Accs
    <3>1. 2 * (p[1] + 1) - 1 \in 1 .. Len(t) /\ p[2] \in Accs
      BY <1>1, <2>1
    <3>2. QED
      BY <3>1, RoundType
  <2>2. QED
    BY <1>2, <2>1
<1>4. PICK g : IsIterate(Accs, start, step, r, g)
  <2> HIDE DEF step
  <2>1. QED
    BY <1>1, <1>2, <1>3, Iterates
<1>5. \A j \in 1 .. r : g[j] = CapsRound(t, g[j - 1], 2 * j - 1)
  <2> SUFFICES ASSUME NEW j \in 1 .. r PROVE g[j] = CapsRound(t, g[j - 1], 2 * j - 1)
    OBVIOUS
  <2>1. j - 1 \in Nat /\ j - 1 \in 0 .. r /\ (j - 1) + 1 = j
    BY <1>1
  <2>2. g[j - 1] \in Accs /\ g[j] = step[<<j - 1, g[j - 1]>>]
    BY <1>4, <2>1 DEF IsIterate
  <2>3. <<j - 1, g[j - 1]>> \in Nat \X Accs
    BY <2>1, <2>2
  <2>4. step[<<j - 1, g[j - 1]>>] = CapsRound(t, g[j - 1], 2 * ((j - 1) + 1) - 1)
    BY <2>1, <2>3
  <2>5. QED
    BY <2>1, <2>2, <2>4
<1>6. g = [j \in 0 .. r |-> IF j = 0 THEN start ELSE CapsRound(t, g[j - 1], 2 * j - 1)]
  <2> HIDE DEF step
  <2>1. g = [j \in 0 .. r |-> g[j]] /\ g[0] = start
    BY <1>4 DEF IsIterate
  <2>2. \A j \in 0 .. r : g[j] = IF j = 0 THEN start ELSE CapsRound(t, g[j - 1], 2 * j - 1)
    BY <1>1, <1>5, <2>1
  <2>3. QED
    BY <2>1, <2>2
<1>7. CapsLoop(t) = [j \in 0 .. r |-> IF j = 0 THEN start
                                      ELSE CapsRound(t, CapsLoop(t)[j - 1], 2 * j - 1)]
  BY <1>6, Zenon DEF CapsLoop, r, start
<1> DEFINE f == CapsLoop(t)
<1> HIDE DEF f
<1>8. f = [j \in 0 .. r |-> IF j = 0 THEN start ELSE CapsRound(t, f[j - 1], 2 * j - 1)]
  BY <1>7 DEF f
<1>9. f[0] = start /\ \A j \in 1 .. r : f[j] = CapsRound(t, f[j - 1], 2 * j - 1)
  <2>1. 0 \in 0 .. r /\ \A j \in 1 .. r : j \in 0 .. r /\ j # 0
    BY <1>1
  <2>2. QED
    BY <1>8, <2>1
<1>10. QED
  BY <1>9 DEF f, r, start

\* What the loop knows after j rounds.
LoopInv(t, j, acc) ==
  /\ acc \in Accs
  /\ acc.state = "more" => /\ 2 * j <= Len(t) /\ GoodUpTo(t, 2 * j)
                           /\ acc.seen = PairsUpTo(t, 2 * j)
  /\ acc.state = "done" => Len(t) = 2 * j - 1 /\ t[Len(t)] = 33 /\ GoodUpTo(t, 2 * j - 2)
  /\ acc.state = "malformed" => ~CapsReference(t)

\* The length of the pairs.
LEMMA PairsLength ==
  ASSUME NEW t \in Seq(Byte), NEW n \in Nat, n = Len(t)
  PROVE  /\ t = <<>> <=> n = 0
         /\ InPairs(t) = IF n # 0 /\ t[n] = 33 THEN n - 1 ELSE n
         /\ InPairs(t) \in Nat
<1>1. t = <<>> <=> n = 0
  BY EmptySeq
<1>2. QED
  BY <1>1 DEF InPairs

\* A round of CapsRef::parse keeps its invariant.
LEMMA OneRound ==
  ASSUME NEW t \in Seq(Byte), NEW j \in 1 .. Rounds(t), NEW acc, LoopInv(t, j - 1, acc)
  PROVE  LoopInv(t, j, CapsRound(t, acc, 2 * j - 1))
<1> DEFINE i == 2 * j - 1
           m == 2 * (j - 1)
           next == CapsRound(t, acc, i)
           l == InPairs(t)
<1>1. PICK n \in Nat : n = Len(t)
  BY LenProperties
<1>2. /\ i \in 1 .. n /\ i % 2 = 1 /\ m \in Nat /\ m % 2 = 0
      /\ i = m + 1 /\ 2 * j = m + 2 /\ m = 2 * j - 2 /\ i + 1 = m + 2 /\ n <= 2 * Rounds(t)
  BY <1>1, RoundsFit
<1>3. /\ l = IF n # 0 /\ t[n] = 33 THEN n - 1 ELSE n
      /\ l \in Nat
      /\ CapsReference(t) => l % 2 = 0 /\ GoodUpTo(t, l)
  BY <1>1, PairsLength, CapsInPairs
<1>4. next \in Accs
  BY <1>1, <1>2, RoundType DEF LoopInv
<1>5. CASE acc.state # "more"
  <2>1. next = acc
    BY <1>5 DEF CapsRound
  <2>2. acc.state # "done"
    <3>1. SUFFICES ASSUME acc.state = "done" PROVE FALSE
      OBVIOUS
    <3>2. n = 2 * (j - 1) - 1
      BY <1>1, <3>1 DEF LoopInv
    <3>3. QED
      BY <1>2, <3>2
  <2>3. acc.state = "malformed" /\ ~CapsReference(t)
    BY <1>5, <2>2 DEF LoopInv, Accs
  <2> HIDE DEF next
  <2>4. LoopInv(t, j, next)
    BY <1>4, <2>1, <2>3 DEF LoopInv
  <2>5. QED
    BY <2>4 DEF next
<1>6. CASE acc.state = "more" /\ t[i] = 33
  <2>1. next = [acc EXCEPT !.state = IF i = n THEN "done" ELSE "malformed"]
    BY <1>1, <1>6 DEF CapsRound
  <2>2. next.state = IF i = n THEN "done" ELSE "malformed"
    BY <2>1 DEF LoopInv, Accs
  <2> HIDE DEF next
  <2>3. CASE i = n
    <3>1. GoodUpTo(t, 2 * j - 2)
      BY <1>2, <1>6 DEF LoopInv
    <3>2. Len(t) = 2 * j - 1 /\ t[Len(t)] = 33
      BY <1>1, <1>6, <2>3
    <3>3. QED
      BY <1>4, <2>2, <2>3, <3>1, <3>2 DEF LoopInv, next
  <2>4. CASE i # n
    <3>1. i < n
      BY <1>2, <2>4
    <3>2. ~CapsReference(t)
      <4>1. SUFFICES ASSUME CapsReference(t) PROVE FALSE
        OBVIOUS
      <4>2. i \in Odd(l)
        BY <1>2, <1>3, <3>1 DEF Odd
      <4>3. Upper(t[i])
        BY <1>3, <4>1, <4>2 DEF GoodUpTo, WellPaired
      <4>4. QED
        BY <1>6, <4>3 DEF Upper
    <3>3. next.state = "malformed"
      BY <2>2, <2>4
    <3>4. QED
      BY <1>4, <3>2, <3>3 DEF LoopInv, next
  <2>5. QED
    BY <2>3, <2>4
<1>7. CASE acc.state = "more" /\ t[i] # 33
  <2> DEFINE ok == i < n /\ PairOk(acc.seen, t[i], t[i + 1])
  <2>1. next = IF ok THEN [acc EXCEPT !.seen = acc.seen \cup {<<t[i], t[i + 1]>>}]
                     ELSE [acc EXCEPT !.state = "malformed"]
    BY <1>1, <1>7 DEF CapsRound
  <2>2. GoodUpTo(t, m) /\ acc.seen = PairsUpTo(t, m)
    BY <1>7 DEF LoopInv
  <2>3. /\ PairsUpTo(t, m + 2) = PairsUpTo(t, m) \cup {<<t[m + 1], t[m + 2]>>}
        /\ GoodUpTo(t, m + 2) <=> PairOk(PairsUpTo(t, m), t[m + 1], t[m + 2])
    BY <1>2, <2>2, NextPair
  <2>4. t[i] = t[m + 1] /\ t[i + 1] = t[m + 2]
    BY <1>2
  <2>5. CASE ok
    <3>1. next.state = "more" /\ next.seen = acc.seen \cup {<<t[i], t[i + 1]>>}
      BY <1>7, <2>1, <2>5 DEF LoopInv, Accs
    <3> HIDE DEF next
    <3>2. next.seen = PairsUpTo(t, m + 2) /\ GoodUpTo(t, m + 2)
      BY <2>2, <2>3, <2>4, <2>5, <3>1
    <3>3. m + 2 <= n
      BY <1>2, <2>5
    <3> HIDE DEF m
    <3>4. 2 * j <= Len(t) /\ GoodUpTo(t, 2 * j) /\ next.seen = PairsUpTo(t, 2 * j)
      BY <1>1, <1>2, <3>2, <3>3
    <3>5. QED
      BY <1>4, <3>1, <3>4 DEF LoopInv, next
  <2>6. CASE ~ok
    <3>1. next.state = "malformed"
      BY <2>1, <2>6 DEF LoopInv, Accs
    <3>2. ~CapsReference(t)
      <4>1. SUFFICES ASSUME CapsReference(t) PROVE FALSE
        OBVIOUS
      <4>2. l % 2 = 0 /\ GoodUpTo(t, l)
        BY <1>3, <4>1
      <4> HIDE DEF l, m, i
      <4>3. i < n
        BY <1>2, <1>3, <1>7, <4>2
      <4>4. m + 2 <= l
        BY <1>2, <1>3, <4>2, <4>3
      <4>5. GoodUpTo(t, m + 2)
        BY <1>2, <1>3, <4>2, <4>4, FewerPairs
      <4>6. PairOk(acc.seen, t[i], t[i + 1])
        BY <2>2, <2>3, <2>4, <4>5
      <4>7. QED
        BY <2>6, <4>3, <4>6
    <3> HIDE DEF next
    <3>3. QED
      BY <1>4, <3>1, <3>2 DEF LoopInv, next
  <2>7. QED
    BY <2>5, <2>6
<1>8. QED
  BY <1>5, <1>6, <1>7

\* The parser takes the capabilities that the protocol defines.
THEOREM CapsParsed ==
  ASSUME NEW t \in Seq(Byte)
  PROVE  /\ CapsParse(t) <=> CapsReference(t)
         /\ CapsReference(t) => \A i \in 1 .. Len(t) : t[i] < 128 /\ t[i] # 0
<1> DEFINE r == Rounds(t)
           f == CapsLoop(t)
           l == InPairs(t)
<1>1. PICK n \in Nat : n = Len(t)
  BY LenProperties
<1>2. r \in Nat /\ n <= 2 * r /\ 2 * r <= n + 1
  BY <1>1, RoundsFit
<1>3. /\ l = IF n # 0 /\ t[n] = 33 THEN n - 1 ELSE n
      /\ l \in Nat
      /\ CapsReference(t) <=> l % 2 = 0 /\ GoodUpTo(t, l)
  BY <1>1, PairsLength, CapsInPairs
<1>4. /\ f[0] = [state |-> "more", seen |-> {}]
      /\ \A j \in 1 .. r : f[j] = CapsRound(t, f[j - 1], 2 * j - 1)
  BY LoopDefined
<1> HIDE DEF f
<1> DEFINE S == {j \in Nat : j <= r => LoopInv(t, j, f[j])}
<1>5. 0 \in S
  <2>1. f[0] \in Accs /\ f[0].state = "more" /\ f[0].seen = {}
    BY <1>4 DEF Accs
  <2>2. Odd(2 * 0) = {} /\ 2 * 0 <= Len(t)
    BY <1>1 DEF Odd
  <2>3. LoopInv(t, 0, f[0])
    BY <2>1, <2>2 DEF LoopInv, GoodUpTo, PairsUpTo
  <2>4. QED
    BY <2>3
<1>6. ASSUME NEW j \in Nat, j \in S PROVE j + 1 \in S
  <2>1. CASE j + 1 <= r
    <3>1. j + 1 \in 1 .. r /\ (j + 1) - 1 = j /\ LoopInv(t, j, f[j])
      BY <1>2, <1>6, <2>1
    <3>2. f[j + 1] = CapsRound(t, f[j], 2 * (j + 1) - 1)
      BY <1>4, <3>1
    <3>3. LoopInv(t, j + 1, CapsRound(t, f[(j + 1) - 1], 2 * (j + 1) - 1))
      <4>1. LoopInv(t, (j + 1) - 1, f[(j + 1) - 1])
        BY <3>1
      <4>2. QED
        BY <3>1, <4>1, OneRound
    <3>4. LoopInv(t, j + 1, f[j + 1])
      BY <3>1, <3>2, <3>3
    <3>5. QED
      BY <3>4
  <2>2. QED
    BY <2>1
<1>7. \A j \in Nat : j \in S
  <2> HIDE DEF S
  <2>1. QED
    BY <1>5, <1>6, Inductive
<1>8. LoopInv(t, r, f[r])
  BY <1>2, <1>7
<1> HIDE DEF r, l
<1>9. f[r].state # "malformed" <=> CapsReference(t)
  <2>1. CASE f[r].state = "more"
    <3>1. n = 2 * r /\ GoodUpTo(t, n)
      BY <1>1, <1>2, <1>8, <2>1 DEF LoopInv
    <3>2. n # 0 => t[n] # 33
      <4>1. SUFFICES ASSUME n # 0 PROVE t[n] # 33
        OBVIOUS
      <4>2. n - 1 \in Odd(n) /\ (n - 1) + 1 = n
        BY <1>2, <3>1, <4>1 DEF Odd
      <4>3. t[(n - 1) + 1] \in 97 .. 122
        BY <3>1, <4>2 DEF GoodUpTo, WellPaired, Lower
      <4>4. t[n] \in 97 .. 122
        BY <4>2, <4>3
      <4>5. \A x \in 97 .. 122 : x # 33
        OBVIOUS
      <4>6. QED
        BY <4>4, <4>5, Zenon
    <3>3. l = n /\ n % 2 = 0
      BY <1>2, <1>3, <3>1, <3>2
    <3>4. QED
      BY <1>3, <2>1, <3>1, <3>3
  <2>2. CASE f[r].state = "done"
    <3>1. n = 2 * r - 1 /\ t[n] = 33 /\ GoodUpTo(t, 2 * r - 2)
      BY <1>1, <1>8, <2>2 DEF LoopInv
    <3>2. l = 2 * r - 2 /\ l % 2 = 0
      BY <1>2, <1>3, <3>1
    <3>3. QED
      BY <1>3, <2>2, <3>1, <3>2
  <2>3. CASE f[r].state = "malformed"
    BY <1>8, <2>3 DEF LoopInv
  <2>4. QED
    BY <1>8, <2>1, <2>2, <2>3 DEF LoopInv, Accs
<1>10. CapsReference(t) => \A i \in 1 .. n : t[i] < 128 /\ t[i] # 0
  <2> SUFFICES ASSUME CapsReference(t), NEW i \in 1 .. n PROVE t[i] < 128 /\ t[i] # 0
    OBVIOUS
  <2>1. \A x \in 65 .. 90 \cup 97 .. 122 : x < 128 /\ x # 0
    OBVIOUS
  <2>2. l % 2 = 0 /\ GoodUpTo(t, l)
    BY <1>3
  <2>3. \A h \in Odd(l) : t[h] \in 65 .. 90 /\ t[h + 1] \in 97 .. 122
    BY <2>2 DEF GoodUpTo, WellPaired, Upper, Lower
  <2>4. CASE i > l
    <3>1. i = n /\ t[n] = 33
      BY <1>3, <2>4
    <3>2. QED
      BY <3>1
  <2>5. CASE i <= l /\ i % 2 = 1
    <3>1. i \in Odd(l)
      BY <1>3, <2>5 DEF Odd
    <3>2. t[i] \in 65 .. 90
      BY <2>3, <3>1
    <3>3. QED
      BY <2>1, <3>2, Zenon
  <2>6. CASE i <= l /\ i % 2 = 0
    <3>1. i - 1 \in Odd(l) /\ (i - 1) + 1 = i
      BY <1>3, <2>6 DEF Odd
    <3>2. t[(i - 1) + 1] \in 97 .. 122
      BY <2>3, <3>1
    <3>3. t[i] \in 97 .. 122
      BY <3>1, <3>2
    <3>4. QED
      BY <2>1, <3>3, Zenon
  <2>7. QED
    BY <1>3, <2>4, <2>5, <2>6
<1>11. DOMAIN t = 1 .. n
  BY <1>1, LenProperties
<1>12. QED
  BY <1>1, <1>9, <1>10, <1>11 DEF CapsParse, f, r

\* The pairs of the two nodes' own capabilities.
LEMMA BasePairs ==
  /\ BaseCaps \in Seq(Byte) /\ Len(BaseCaps) = 16
  /\ \A i \in 1 .. 16 : BaseCaps[i] \in 65 .. 122
  /\ GoodUpTo(BaseCaps, 16)
<1>1. BaseCaps \in Seq(Byte) /\ Len(BaseCaps) = 16
  BY DEF BaseCaps, Byte
<1>2. \A i \in 1 .. 16 : BaseCaps[i] \in 65 .. 122
  BY DEF BaseCaps
<1>3. ASSUME NEW i \in Odd(16)
      PROVE  /\ BaseCaps[i] \in 65 .. 90 /\ BaseCaps[i + 1] \in 97 .. 122
             /\ <<BaseCaps[i], BaseCaps[i + 1]>> \in Responses
  <2>1. i \in {1, 3, 5, 7, 9, 11, 13, 15}
    BY DEF Odd
  <2>2. /\ BaseCaps[1] = 80 /\ BaseCaps[2] = 107 /\ BaseCaps[3] = 73 /\ BaseCaps[4] = 105
        /\ BaseCaps[5] = 67 /\ BaseCaps[6] = 99 /\ BaseCaps[7] = 83 /\ BaseCaps[8] = 115
        /\ BaseCaps[9] = 71 /\ BaseCaps[10] = 103 /\ BaseCaps[11] = 87 /\ BaseCaps[12] = 119
        /\ BaseCaps[13] = 78 /\ BaseCaps[14] = 107 /\ BaseCaps[15] = 85 /\ BaseCaps[16] = 107
    BY DEF BaseCaps
  <2>3. QED
    BY <2>1, <2>2 DEF Responses
<1>4. \A r, s \in Responses : r[1] = s[1] => r[2] = s[2]
  BY DEF Responses
<1>5. ASSUME NEW i \in Odd(16), NEW h \in Odd(16), BaseCaps[h] = BaseCaps[i]
      PROVE  BaseCaps[h + 1] = BaseCaps[i + 1]
  <2>1. /\ <<BaseCaps[i], BaseCaps[i + 1]>> \in Responses
        /\ <<BaseCaps[h], BaseCaps[h + 1]>> \in Responses
    BY <1>3
  <2>2. QED
    BY <1>4, <1>5, <2>1
<1>6. \A i \in Odd(16) : WellPaired(BaseCaps[i], BaseCaps[i + 1])
  BY <1>3 DEF WellPaired, Upper, Lower
<1>7. QED
  BY <1>1, <1>2, <1>5, <1>6 DEF GoodUpTo

\* The capabilities that a node of the project sends are read back.
LEMMA CapsText ==
  /\ Caps \in Seq(Byte) /\ Len(Caps) <= 17 /\ Len(Caps) \in Nat
  /\ IsUtf8(Caps) /\ 0 \notin Elements(Caps) /\ CapsParse(Caps)
<1> DEFINE t == Caps
<1>1. t = BaseCaps \/ t = Append(BaseCaps, 33)
  BY DEF Caps
<1>2. 33 \in Byte
  BY DEF Byte
<1>3. PICK n \in 16 .. 17 : /\ t \in Seq(Byte) /\ Len(t) = n
                            /\ \A i \in 1 .. 16 : t[i] = BaseCaps[i]
                            /\ n = 17 => t[17] = 33
  <2>1. CASE t = BaseCaps
    BY <2>1, BasePairs
  <2>2. CASE t = Append(BaseCaps, 33)
    <3>1. /\ t \in Seq(Byte) /\ Len(t) = Len(BaseCaps) + 1
          /\ \A i \in 1 .. Len(BaseCaps) : t[i] = BaseCaps[i]
          /\ t[Len(BaseCaps) + 1] = 33
      <4>1. BaseCaps \in Seq(Byte)
        BY BasePairs
      <4>2. /\ Append(BaseCaps, 33) \in Seq(Byte)
            /\ Len(Append(BaseCaps, 33)) = Len(BaseCaps) + 1
            /\ \A i \in 1 .. Len(BaseCaps) : Append(BaseCaps, 33)[i] = BaseCaps[i]
            /\ Append(BaseCaps, 33)[Len(BaseCaps) + 1] = 33
        BY <1>2, <4>1, AppendProperties
      <4> HIDE DEF t
      <4>3. QED
        BY <2>2, <4>2, Zenon
    <3> HIDE DEF t
    <3>2. QED
      BY <3>1, BasePairs
  <2>3. QED
    BY <1>1, <2>1, <2>2
<1> HIDE DEF t
<1>4. \A i \in 1 .. n : t[i] \in 33 .. 122
  <2> SUFFICES ASSUME NEW i \in 1 .. n PROVE t[i] \in 33 .. 122
    OBVIOUS
  <2>1. CASE i <= 16
    <3>1. t[i] = BaseCaps[i] /\ BaseCaps[i] \in 65 .. 122
      <4>1. i \in 1 .. 16
        BY <2>1
      <4>2. QED
        BY <1>3, <4>1, BasePairs, Zenon
    <3>2. \A x \in 65 .. 122 : x \in 33 .. 122
      OBVIOUS
    <3>3. QED
      BY <3>1, <3>2, Zenon
  <2>2. CASE i = 17
    BY <1>3, <2>2
  <2>3. QED
    BY <2>1, <2>2
<1>5. \A x \in 33 .. 122 : x < 128 /\ x # 0
  OBVIOUS
<1>6. \A i \in 1 .. Len(t) : t[i] < 128 /\ t[i] # 0
  BY <1>3, <1>4, <1>5, Zenon
<1>7. IsUtf8(t)
  BY <1>3, <1>6, AsciiIsText
<1>8. 0 \notin Elements(t)
  BY <1>3, <1>6, LenProperties DEF Elements
<1>9. InPairs(t) = 16
  <2>1. n # 0 /\ n \in Nat
    OBVIOUS
  <2>2. InPairs(t) = IF n # 0 /\ t[n] = 33 THEN n - 1 ELSE n
    BY <1>3, <2>1, PairsLength
  <2>3. CASE n = 16
    <3>1. t[16] = BaseCaps[16] /\ BaseCaps[16] = 107
      BY <1>3 DEF BaseCaps
    <3>2. QED
      BY <2>2, <2>3, <3>1
  <2>4. CASE n = 17
    BY <1>3, <2>2, <2>4
  <2>5. QED
    BY <2>3, <2>4
<1>10. GoodUpTo(t, 16)
  <2>1. \A i \in Odd(16) : i \in 1 .. 16 /\ i + 1 \in 1 .. 16
    BY DEF Odd
  <2>2. \A i \in Odd(16) : t[i] = BaseCaps[i] /\ t[i + 1] = BaseCaps[i + 1]
    BY <1>3, <2>1
  <2>3. QED
    BY <2>2, BasePairs DEF GoodUpTo
<1>11. CapsReference(t)
  BY <1>9, <1>10, CapsInPairs
<1>12. CapsParse(t)
  BY <1>3, <1>11, CapsParsed
<1>13. QED
  BY <1>3, <1>7, <1>8, <1>12 DEF t

-----------------------------------------------------------------------------
(* Keys.                                                                   *)

\* What the nodes of the project know of their keys.
TableOk ==
  /\ DOMAIN Keys \subseteq Nat
  /\ \A i \in DOMAIN Keys : Keys[i].keyref \in 0 .. MaxU16 /\ IsName(Keys[i].name)

\* find_slot finds a key that has the keyref, if there is one.
LEMMA SlotFound ==
  ASSUME TableOk, NEW k \in Keyrefs
  PROVE  SlotOf(k) \in DOMAIN Keys /\ Keys[SlotOf(k)].keyref = k
<1> DEFINE S == {i \in DOMAIN Keys : Keys[i].keyref = k}
<1>1. S \subseteq Nat /\ S # {}
  BY DEF TableOk, Keyrefs
<1> HIDE DEF S
<1>2. PICK i \in S : \A j \in S : ~(<<j, i>> \in OpToRel(<, Nat))
  BY <1>1, NatLessThanWellFounded, WFMin, Zenon
<1>3. \A j \in S : i <= j
  <2> SUFFICES ASSUME NEW j \in S PROVE i <= j
    OBVIOUS
  <2>1. i \in Nat /\ j \in Nat
    BY <1>1
  <2>2. ~(j < i)
    BY <1>2, <2>1, LessThan
  <2>3. QED
    BY <2>1, <2>2
<1>4. /\ i \in DOMAIN Keys /\ Keys[i].keyref = k
      /\ \A j \in DOMAIN Keys : Keys[j].keyref = k => i <= j
  BY <1>2, <1>3 DEF S
<1>5. QED
  BY <1>4 DEF SlotOf

\* A non-empty set of numbers that is bounded has a largest one.
LEMMA Largest ==
  ASSUME NEW m \in Nat, NEW S \in SUBSET (0 .. m), S # {}
  PROVE  \E k \in S : \A j \in S : j <= k
<1> DEFINE Has(T) == \E k \in T : \A j \in T : j <= k
           N == {n \in Nat : \A T \in SUBSET (0 .. n) : T # {} => Has(T)}
<1>1. 0 \in N
  <2>1. ASSUME NEW T \in SUBSET (0 .. 0), T # {} PROVE T = {0}
    <3>1. \A x \in T : x = 0
      OBVIOUS
    <3>2. QED
      BY <2>1, <3>1
  <2>2. Has({0})
    OBVIOUS
  <2> HIDE DEF Has
  <2>3. QED
    BY <2>1, <2>2
<1>2. ASSUME NEW n \in Nat, n \in N PROVE n + 1 \in N
  <2>1. ASSUME NEW T \in SUBSET (0 .. n + 1), T # {} PROVE Has(T)
    <3>1. CASE n + 1 \in T
      <4>1. \A j \in T : j <= n + 1
        OBVIOUS
      <4>2. QED
        BY <3>1, <4>1
    <3>2. CASE n + 1 \notin T
      <4>1. T \in SUBSET (0 .. n)
        BY <3>2
      <4> HIDE DEF Has
      <4>2. QED
        BY <1>2, <2>1, <4>1
    <3>3. QED
      BY <3>1, <3>2
  <2> HIDE DEF Has
  <2>2. QED
    BY <2>1
<1>3. \A n \in Nat : n \in N
  <2> HIDE DEF N
  <2>1. QED
    BY <1>1, <1>2, Inductive
<1>4. Has(S)
  <2> HIDE DEF Has
  <2>1. QED
    BY <1>3
<1>5. QED
  BY <1>4

\* KEYCOUNT is a u16, one more than the last keyref if that can be: it is the
\* number of the keyrefs that are not refused as unknown, and these are those
\* below it.
LEMMA KeyCountCounts ==
  ASSUME TableOk
  PROVE  /\ KeyCount \in 0 .. MaxU16
         /\ \A k \in 0 .. MaxU16 : k >= KeyCount <=> Unknown(k)
         /\ Cardinality({j \in 0 .. MaxU16 : ~Unknown(j)}) = KeyCount
<1>1. MaxU16 \in Nat
  BY WidthU16
<1>2. Keyrefs \in SUBSET (0 .. MaxU16)
  BY DEF Keyrefs, TableOk
<1>3. /\ KeyCount \in 0 .. MaxU16
      /\ \A k \in 0 .. MaxU16 : k >= KeyCount <=> Unknown(k)
  <2>1. CASE Keyrefs = {}
    BY <1>1, <2>1 DEF KeyCount, Unknown
  <2>2. CASE Keyrefs # {}
    <3> DEFINE last == CHOOSE k \in Keyrefs : \A j \in Keyrefs : j <= k
    <3>1. \E k \in Keyrefs : \A j \in Keyrefs : j <= k
      BY <1>1, <1>2, <2>2, Largest
    <3>2. last \in Keyrefs /\ \A j \in Keyrefs : j <= last
      BY <3>1
    <3>3. KeyCount = IF last = MaxU16 THEN MaxU16 ELSE last + 1
      BY <2>2 DEF KeyCount
    <3> HIDE DEF last
    <3>4. last \in 0 .. MaxU16
      BY <1>2, <3>2
    <3>5. ASSUME NEW k \in 0 .. MaxU16 PROVE Unknown(k) <=> k = MaxU16 \/ last < k
      <4>1. (\A j \in Keyrefs : j < k) <=> last < k
        <5>1. \A j \in Keyrefs : j \in 0 .. MaxU16
          BY <1>2
        <5>2. QED
          BY <1>1, <3>2, <3>4, <5>1
      <4>2. QED
        BY <4>1 DEF Unknown
    <3>6. QED
      BY <1>1, <3>3, <3>4, <3>5
  <2>3. QED
    BY <2>1, <2>2
<1>4. {j \in 0 .. MaxU16 : ~Unknown(j)} = 0 .. KeyCount - 1
  <2> HIDE DEF Unknown
  <2>1. ASSUME NEW j PROVE j \in 0 .. MaxU16 /\ ~Unknown(j) <=> j \in 0 .. KeyCount - 1
    BY <1>1, <1>3
  <2>2. QED
    BY <2>1
<1>5. Cardinality(0 .. KeyCount - 1) = KeyCount
  <2>1. 0 \in Int /\ KeyCount - 1 \in Int
    BY <1>1, <1>3
  <2>2. Cardinality(0 .. KeyCount - 1) = IF 0 > KeyCount - 1 THEN 0 ELSE (KeyCount - 1) - 0 + 1
    BY <2>1, FS_Interval
  <2>3. QED
    BY <1>1, <1>3, <2>2
<1>6. QED
  BY <1>3, <1>4, <1>5

-----------------------------------------------------------------------------
(* Values at the nodes.                                                    *)

\* A value of the program is not the absence of one.
LEMMA NotNoValue ==
  ASSUME NEW v, IsValue(v)
  PROVE  v # NoValue /\ v[1] \in {"bool", "i64", "str"}
<1>1. v[1] \in {"bool", "i64", "str"}
  BY DEF IsValue
<1>2. NoValue[1] = "none"
  BY DEF NoValue
<1>3. QED
  BY <1>1, <1>2

\* The types of keys at the two nodes.
EmbassyType(t) ==
  /\ t[1] \in {"bool", "i64", "str", "enum"}
  /\ t[1] = "str"  => t[2] \in 0 .. MaxStr
  /\ t[1] = "enum" => \A name \in t[2] : IsName(name) /\ Len(name) <= MaxStr
TokioType(t) ==
  t[1] \in {"i64", "u64", "str", "never"} /\ (t[1] = "str" => t[2] \in Nat)

\* What the types of the two nodes take of a value read by the streaming reader,
\* and by the parser of whole frames, is what fits them.
LEMMA EmbassyTakes ==
  ASSUME NEW t, EmbassyType(t), NEW v, IsValue(v)
  PROVE  DecodeAs(t, Known(Raw(v))) = IF Fits(v, t) THEN v ELSE NoValue
<1>1. MaxStr \in Nat
  BY ReaderAssumption
<1>2. CASE v[1] = "bool"
  <2>1. PICK x \in {0, 1} : Raw(v) = <<"bool", x>> /\ v = <<"bool", x = 1>>
    BY <1>2, ValueKinds
  <2>2. Known(Raw(v)) = <<"bool", x>>
    BY <2>1 DEF Known
  <2>3. Fits(v, t) <=> t[1] = "bool"
    BY <1>2 DEF Fits, EmbassyType
  <2>4. DecodeAs(t, <<"bool", x>>) = IF t[1] = "bool" THEN <<"bool", x = 1>> ELSE NoValue
    BY DEF DecodeAs, DecodeEnum, EmbassyType
  <2>5. QED
    BY <2>1, <2>2, <2>3, <2>4
<1>3. CASE v[1] = "i64"
  <2>1. Raw(v) = <<"i64", I64(v[2])>> /\ v = <<"i64", FromI64(I64(v[2]))>>
    BY <1>3, ValueKinds, I64Bytes64
  <2> DEFINE b == I64(v[2])
  <2> HIDE DEF b
  <2>2. Known(Raw(v)) = <<"i64", b>>
    BY <2>1 DEF Known, b
  <2>3. Fits(v, t) <=> t[1] = "i64"
    BY <1>3 DEF Fits, EmbassyType
  <2>4. DecodeAs(t, <<"i64", b>>) = IF t[1] = "i64" THEN <<"i64", FromI64(b)>> ELSE NoValue
    BY DEF DecodeAs, DecodeEnum, EmbassyType
  <2>5. QED
    BY <2>1, <2>2, <2>3, <2>4 DEF b
<1>4. CASE v[1] = "str"
  <2>1. v = <<"str", v[2]>> /\ Raw(v) = v /\ Len(v[2]) \in Nat
    BY <1>4, ValueKinds, LenProperties DEF IsText
  <2>2. Fits(v, t) <=> \/ t[1] = "str" /\ Len(v[2]) <= t[2]
                       \/ t[1] = "enum" /\ v[2] \in t[2]
    BY <1>4 DEF Fits, EmbassyType
  <2>3. CASE Len(v[2]) <= MaxStr
    <3>1. Known(Raw(v)) = v
      BY <1>1, <2>1, <2>3 DEF Known
    <3>2. t[1] = "str" => DecodeAs(t, v) = IF Len(v[2]) <= t[2] THEN v ELSE NoValue
      BY <1>4, <2>1 DEF DecodeAs
    <3>3. t[1] = "enum" => DecodeAs(t, v) = IF v[2] \in t[2] THEN v ELSE NoValue
      BY <1>4 DEF DecodeAs, DecodeEnum
    <3>4. t[1] \in {"bool", "i64"} => DecodeAs(t, v) = NoValue
      BY <1>4 DEF DecodeAs
    <3>5. QED
      BY <2>2, <3>1, <3>2, <3>3, <3>4 DEF EmbassyType
  <2>4. CASE Len(v[2]) > MaxStr
    <3>1. Known(Raw(v)) = Oversized
      BY <1>4, <2>1, <2>4 DEF Known
    <3>2. DecodeAs(t, Oversized) = NoValue
      BY DEF DecodeAs, DecodeEnum, Oversized
    <3>3. ~Fits(v, t)
      BY <1>1, <2>1, <2>2, <2>4 DEF EmbassyType
    <3>4. QED
      BY <3>1, <3>2, <3>3
  <2>5. QED
    BY <1>1, <2>1, <2>3, <2>4
<1>5. QED
  BY <1>2, <1>3, <1>4, NotNoValue

\* The same for expect_i64, expect_u64 and expect_str of the test node.
LEMMA TokioTakes ==
  ASSUME NEW t, TokioType(t), NEW v, IsValue(v)
  PROVE  ExpectAs(t, Raw(v)) = IF Fits(v, t) THEN v ELSE NoValue
<1>1. CASE v[1] = "bool"
  <2>1. PICK x \in {0, 1} : Raw(v) = <<"bool", x>>
    BY <1>1, ValueKinds
  <2>2. ~Fits(v, t)
    BY <1>1 DEF Fits, TokioType
  <2>3. ExpectAs(t, <<"bool", x>>) = NoValue
    BY DEF ExpectAs
  <2>4. QED
    BY <2>1, <2>2, <2>3
<1>2. CASE v[1] = "i64"
  <2>1. Raw(v) = <<"i64", I64(v[2])>> /\ v = <<"i64", v[2]>> /\ FromI64(I64(v[2])) = v[2]
    BY <1>2, ValueKinds, I64Bytes64
  <2> DEFINE b == I64(v[2])
  <2> HIDE DEF b
  <2>2. Fits(v, t) <=> t[1] = "i64" \/ (t[1] = "u64" /\ v[2] >= 0)
    BY <1>2 DEF Fits, TokioType
  <2>3. ExpectAs(t, <<"i64", b>>) =
          CASE t[1] = "i64" -> <<"i64", FromI64(b)>>
            [] t[1] = "u64" -> IF FromI64(b) >= 0 THEN <<"i64", FromI64(b)>> ELSE NoValue
            [] OTHER -> NoValue
    BY DEF ExpectAs, TokioType
  <2>4. QED
    BY <2>1, <2>2, <2>3 DEF b, TokioType
<1>3. CASE v[1] = "str"
  <2>1. Raw(v) = v /\ v = <<"str", v[2]>>
    BY <1>3, ValueKinds
  <2>2. Fits(v, t) <=> t[1] = "str" /\ Len(v[2]) <= t[2]
    BY <1>3 DEF Fits, TokioType
  <2>3. ExpectAs(t, v) = IF t[1] = "str" THEN (IF Len(v[2]) <= t[2] THEN v ELSE NoValue)
                                         ELSE NoValue
    BY <1>3, <2>1 DEF ExpectAs, TokioType
  <2>4. QED
    BY <2>1, <2>2, <2>3
<1>4. QED
  BY <1>1, <1>2, <1>3, NotNoValue

=============================================================================
