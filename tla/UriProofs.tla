----------------------------- MODULE UriProofs -----------------------------
(***************************************************************************)
(* Proofs about the URI utilities, for strings of any length over any      *)
(* bytes, every table and both kinds of decoding.                          *)
(*                                                                         *)
(* The argument for the sizes: the encoder's output is as long as what was *)
(* read, and two longer for each byte that was escaped, which are the      *)
(* bytes that the counting loop counts; the decoder's output lags behind   *)
(* what was read by the bytes of the quotation that is being read.         *)
(***************************************************************************)
EXTENDS UriCodec, FiniteSetTheorems, SequenceTheorems, TLAPS

(* The bytes to escape among the first k of a string.                      *)
EscapedIn(s, k) == {i \in 1..k : escapes(escapeType, s[i])}

EscapedUpTo(k) == EscapedIn(src, k)

Counted ==
    /\ phase = "count" => n = Cardinality(EscapedUpTo(pos)) /\ dst = <<>>
    /\ phase = "escape" => /\ n = Cardinality(EscapedUpTo(Len(src)))
                           /\ Len(dst) = pos + 2 * Cardinality(EscapedUpTo(pos))
    /\ phase = "escaped" => /\ pos = Len(src)
                            /\ Len(dst) = Len(src) + 2 * n
                            /\ Len(dst) <= 3 * pos

(* Bytes of the quotation that have been read.                             *)
Lag == IF state = "usual" THEN 0 ELSE IF state = "quoted" THEN 1 ELSE 2

Lagging ==
    /\ phase \in {"count", "escape", "escaped"} => state = "usual"
    /\ phase = "unescape" => Len(dst) + Lag <= pos
    /\ phase = "done" => Len(dst) <= pos

IInv == TypeOK /\ Counted /\ Lagging

-----------------------------------------------------------------------------
(* How many bytes are escaped is a number, and no more than there are.     *)
LEMMA CountBounds ==
    ASSUME NEW s, NEW k \in Nat
    PROVE  /\ IsFiniteSet(EscapedIn(s, k))
           /\ Cardinality(EscapedIn(s, k)) \in 0..k
<1>1. IsFiniteSet(1..k) /\ Cardinality(1..k) = k
      BY FS_Interval
<1>2. EscapedIn(s, k) \in SUBSET (1..k)
      BY DEF EscapedIn
<1>3. IsFiniteSet(EscapedIn(s, k)) /\ Cardinality(EscapedIn(s, k)) <= k
      BY <1>1, <1>2, FS_Subset
<1>4. Cardinality(EscapedIn(s, k)) \in Nat
      BY <1>3, FS_CardinalityType
<1> QED
    BY <1>3, <1>4

(* One byte more, and the count grows by one if it is escaped.             *)
LEMMA OneMore ==
    ASSUME NEW s, NEW k \in Nat
    PROVE  Cardinality(EscapedIn(s, k + 1)) =
             IF escapes(escapeType, s[k + 1])
             THEN Cardinality(EscapedIn(s, k)) + 1
             ELSE Cardinality(EscapedIn(s, k))
<1>1. IsFiniteSet(EscapedIn(s, k)) /\ k + 1 \notin EscapedIn(s, k)
  <2>1. k + 1 \notin 1..k
        OBVIOUS
  <2> QED
      BY <2>1, CountBounds DEF EscapedIn
<1>2. CASE escapes(escapeType, s[k + 1])
  <2>1. EscapedIn(s, k + 1) = EscapedIn(s, k) \cup {k + 1}
        BY <1>2 DEF EscapedIn
  <2> QED
      BY <1>1, <1>2, <2>1, FS_AddElement
<1>3. CASE ~escapes(escapeType, s[k + 1])
  <2>1. EscapedIn(s, k + 1) = EscapedIn(s, k)
        BY <1>3 DEF EscapedIn
  <2> QED
      BY <1>3, <2>1
<1> QED
    BY <1>2, <1>3

(* Nothing has been counted before the first byte.                         *)
LEMMA CountsFromZero ==
    ASSUME NEW s
    PROVE  Cardinality(EscapedIn(s, 0)) = 0
    BY CountBounds

(* An escaped byte is written as three bytes, another one as itself.       *)
LEMMA EscapedBytes ==
    ASSUME NEW t, NEW b \in Byte
    PROVE  /\ Escaped(t, b) \in Seq(Byte)
           /\ Len(Escaped(t, b)) = IF escapes(t, b) THEN 3 ELSE 1
<1>1. b \div 16 \in 0..15 /\ b % 16 \in 0..15
      BY DEF Byte
<1>2. \A v \in 0..15 : hex(v) \in Byte
      BY DEF hex, Byte
<1>3. hex(b \div 16) \in Byte /\ hex(b % 16) \in Byte
      BY <1>1, <1>2
<1>4. CASE escapes(t, b)
  <2>1. Escaped(t, b) = <<Percent, hex(b \div 16), hex(b % 16)>>
        BY <1>4 DEF Escaped
  <2>2. Percent \in Byte
        BY DEF Percent, Byte
  <2> QED
      BY <1>3, <1>4, <2>1, <2>2
<1>5. CASE ~escapes(t, b)
  <2>1. Escaped(t, b) = <<b>>
        BY <1>5 DEF Escaped
  <2> QED
      BY <1>5, <2>1
<1> QED
    BY <1>4, <1>5

(* What is written is longer by what is added to it.                       *)
LEMMA Written ==
    ASSUME NEW s \in Seq(Byte), NEW t \in Seq(Byte)
    PROVE  s \o t \in Seq(Byte) /\ Len(s \o t) = Len(s) + Len(t)
    BY ConcatProperties

(* A quotation is replaced by a byte, or copied.                           *)
LEMMA DecodedBytes ==
    ASSUME NEW t, NEW b \in Byte, src[pos] \in Byte, src[pos + 1] \in Byte
    PROVE  Decoded(t, b) \in Seq(Byte) /\ Len(Decoded(t, b)) <= 3
<1>1. CASE Decoded(t, b) = <<b>>
      BY <1>1
<1>2. CASE Decoded(t, b) = <<Percent, src[pos], src[pos + 1]>>
  <2>1. Percent \in Byte
        BY DEF Percent, Byte
  <2> QED
      BY <1>2, <2>1
<1> QED
    BY <1>1, <1>2 DEF Decoded

(* Four bits are what a hexadecimal digit stands for.                      *)
LEMMA DigitValue == \A c \in HexDigits : hexValue(c) \in 0..15
<1> TAKE c \in HexDigits
<1>1. CASE c \in Digits
      BY <1>1 DEF Digits, hexValue
<1>2. CASE c \notin Digits
  <2>1. \/ c = 65 \/ c = 66 \/ c = 67 \/ c = 68 \/ c = 69 \/ c = 70
        \/ c = 97 \/ c = 98 \/ c = 99 \/ c = 100 \/ c = 101 \/ c = 102
        BY <1>2 DEF HexDigits, Letters, Digits
  <2>2. c % 32 \in 1..6
        BY <2>1
  <2> QED
      BY <1>2, <2>2 DEF hexValue
<1> QED
    BY <1>1, <1>2

-----------------------------------------------------------------------------
(* The caller begins with a string of bytes.                               *)
LEMMA InitIInv == Init => IInv
<1> SUFFICES ASSUME Init PROVE IInv
    OBVIOUS
<1>1. src \in Seq(Byte)
  <2>1. \E k \in Nat : src \in [1..k -> Byte]
    <3>1. CASE src \in [1..1 -> Byte]
          BY <3>1
    <3>2. ASSUME NEW max \in Nat, src \in BoundedSeq(Bytes, max)
          PROVE  \E k \in Nat : src \in [1..k -> Byte]
      <4>1. PICK k \in 0..max : src \in [1..k -> Bytes]
            BY <3>2 DEF BoundedSeq, SeqOf
      <4>2. src \in [1..k -> Byte]
            BY <4>1, BytesAssumption DEF Byte
      <4> QED
          BY <4>2
    <3> QED
        BY <3>1, <3>2, MaxAssumption DEF Init, Strings
  <2> QED
      BY <2>1
<1>2. TypeOK
      BY <1>1 DEF Init, TypeOK
<1>3. Counted /\ Lagging
      BY <1>1, CountsFromZero DEF EscapedUpTo, Init, Counted, Lagging, Lag
<1> QED
    BY <1>2, <1>3 DEF IInv

-----------------------------------------------------------------------------
(* Counting and escaping.                                                  *)
LEMMA EscapeIInv ==
    ASSUME IInv, CountByte \/ CountReturns \/ EscapeByte \/ EscapeReturns
    PROVE  IInv'
<1> USE DEF IInv, TypeOK, inputVars
<1>1. CASE CountByte
  <2>1. EscapedUpTo(pos)' = EscapedUpTo(pos + 1)
        BY <1>1 DEF CountByte, EscapedUpTo, EscapedIn
  <2>2. n' = Cardinality(EscapedUpTo(pos + 1)) /\ dst' = <<>>
    <3>1. /\ phase = "count" /\ pos \in Nat /\ n \in Nat /\ dst' = dst
          /\ n' = IF escapes(escapeType, src[pos + 1]) THEN n + 1 ELSE n
          BY <1>1 DEF CountByte, ch
    <3>2. n = Cardinality(EscapedUpTo(pos)) /\ dst = <<>>
          BY <3>1 DEF Counted
    <3> QED
        BY <3>1, <3>2, OneMore DEF EscapedUpTo
  <2>3. TypeOK'
        BY <1>1 DEF CountByte
  <2>4. Counted' /\ Lagging'
        BY <1>1, <2>1, <2>2 DEF CountByte, Counted, Lagging
  <2> QED
      BY <2>3, <2>4
<1>2. CASE CountReturns
  <2>1. TypeOK'
        BY <1>2 DEF CountReturns
  <2>2. EscapedUpTo(pos)' = EscapedUpTo(0) /\ EscapedUpTo(Len(src))' = EscapedUpTo(pos)
        BY <1>2 DEF CountReturns, EscapedUpTo, EscapedIn
  <2>3. Counted'
        BY <1>2, <2>2, CountsFromZero DEF EscapedUpTo, CountReturns, Counted
  <2>4. Lagging'
        BY <1>2 DEF CountReturns, Lagging
  <2> QED
      BY <2>1, <2>3, <2>4
<1>3. CASE EscapeByte
  <2> DEFINE e == Escaped(escapeType, ch)
  <2>1. /\ ch \in Byte /\ pos' = pos + 1 /\ dst' = dst \o e
        /\ phase = "escape" /\ UNCHANGED <<phase, inputVars, n, returned, state, decoded>>
        BY <1>3 DEF EscapeByte, ch
  <2>2. /\ e \in Seq(Byte)
        /\ Len(e) = IF escapes(escapeType, ch) THEN 3 ELSE 1
        BY <2>1, EscapedBytes
  <2> HIDE DEF e
  <2>3. dst' \in Seq(Byte) /\ Len(dst') = Len(dst) + Len(e)
        BY <2>1, <2>2, Written
  <2>4. /\ EscapedUpTo(pos)' = EscapedUpTo(pos + 1)
        /\ EscapedUpTo(Len(src))' = EscapedUpTo(Len(src))
        BY <2>1 DEF EscapedUpTo, EscapedIn
  <2>5. Cardinality(EscapedUpTo(pos)) \in Nat
        BY CountBounds DEF EscapedUpTo
  <2>6. Len(dst') = (pos + 1) + 2 * Cardinality(EscapedUpTo(pos + 1))
    <3>1. pos \in Nat /\ Len(dst) = pos + 2 * Cardinality(EscapedUpTo(pos))
          BY <2>1 DEF Counted
    <3>2. Cardinality(EscapedUpTo(pos + 1)) =
            IF escapes(escapeType, ch) THEN Cardinality(EscapedUpTo(pos)) + 1
            ELSE Cardinality(EscapedUpTo(pos))
          BY <3>1, OneMore DEF EscapedUpTo, ch
    <3> DEFINE c == Cardinality(EscapedUpTo(pos))
               d == Cardinality(EscapedUpTo(pos + 1))
               l == Len(dst)
               m == Len(e)
    <3>0. c \in Nat /\ l = pos + 2 * c /\ Len(dst') = l + m
          BY <2>3, <2>5, <3>1
    <3> HIDE DEF c, d, l, m
    <3>3. CASE escapes(escapeType, ch)
      <4>1. d = c + 1 /\ m = 3
            BY <2>2, <3>2, <3>3, Zenon DEF c, d, m
      <4>2. Len(dst') = (pos + 1) + 2 * d
            BY <3>0, <3>1, <4>1
      <4> QED
          BY <4>2 DEF d
    <3>4. CASE ~escapes(escapeType, ch)
      <4>1. d = c /\ m = 1
            BY <2>2, <3>2, <3>4, Zenon DEF c, d, m
      <4>2. Len(dst') = (pos + 1) + 2 * d
            BY <3>0, <3>1, <4>1
      <4> QED
          BY <4>2 DEF d
    <3> QED
        BY <3>3, <3>4
  <2>7. TypeOK'
        BY <1>3, <2>3 DEF EscapeByte
  <2>8. Counted' /\ Lagging'
        BY <2>1, <2>4, <2>6 DEF Counted, Lagging
  <2> QED
      BY <2>7, <2>8
<1>4. CASE EscapeReturns
  <2>1. TypeOK'
        BY <1>4 DEF EscapeReturns
  <2>2. Cardinality(EscapedUpTo(pos)) \in 0..pos
        BY CountBounds DEF EscapedUpTo
  <2>3. Counted'
        BY <1>4, <2>2 DEF EscapeReturns, Counted
  <2>4. Lagging'
        BY <1>4 DEF EscapeReturns, Lagging
  <2> QED
      BY <2>1, <2>3, <2>4
<1> QED
    BY <1>1, <1>2, <1>3, <1>4

(* Unescaping.                                                             *)
LEMMA UnescapeIInv ==
    ASSUME IInv,
           \/ UnescapeEscaped \/ unescapeUsual \/ unescapeQuoted
           \/ unescapeQuotedSecond \/ UnescapeReturns
    PROVE  IInv'
<1> USE DEF IInv, TypeOK, inputVars
<1>1. CASE UnescapeEscaped
      BY <1>1 DEF UnescapeEscaped, Counted, Lagging, Lag
<1>2. CASE unescapeUsual
  <2>1. ch \in Byte
        BY <1>2 DEF unescapeUsual, Reads, ch
  <2>2. /\ phase = "unescape" /\ state = "usual" /\ pos < Len(src)
        /\ pos' = pos + 1 /\ UNCHANGED <<inputVars, n, returned, decoded>>
        /\ phase' \in {"unescape", "done"}
        BY <1>2 DEF unescapeUsual, Reads, EndsAt
  <2>3. Len(dst) <= pos
        BY <2>2 DEF Lagging, Lag
  <2>4. CASE ch = Percent
    <3>1. state' = "quoted" /\ dst' = dst /\ phase' = "unescape"
          BY <1>2, <2>4 DEF unescapeUsual, EndsAt, Percent, Question
    <3> QED
        BY <2>2, <2>3, <3>1 DEF Counted, Lagging, Lag
  <2>5. CASE ch # Percent
    <3>1. state' = "usual" /\ dst' = Append(dst, ch)
          BY <1>2, <2>5 DEF unescapeUsual
    <3>2. dst' \in Seq(Byte) /\ Len(dst') = Len(dst) + 1
          BY <2>1, <3>1, AppendProperties
    <3> QED
        BY <2>2, <2>3, <3>1, <3>2 DEF Counted, Lagging, Lag
  <2> QED
      BY <2>4, <2>5
<1>3. CASE unescapeQuoted
  <2>1. ch \in Byte
        BY <1>3 DEF unescapeQuoted, Reads, ch
  <2>2. decoded' \in 0..15
        BY <1>3, DigitValue DEF unescapeQuoted
  <2>3. /\ phase = "unescape" /\ state = "quoted" /\ pos < Len(src)
        /\ pos' = pos + 1 /\ UNCHANGED <<inputVars, n, returned, phase>>
        BY <1>3 DEF unescapeQuoted, Reads
  <2>4. Len(dst) + 1 <= pos
        BY <2>3 DEF Lagging, Lag
  <2>5. CASE ch \in HexDigits
    <3>1. state' = "quoted_second" /\ dst' = dst
          BY <1>3, <2>5 DEF unescapeQuoted
    <3> QED
        BY <2>2, <2>3, <2>4, <3>1 DEF Counted, Lagging, Lag
  <2>6. CASE ch \notin HexDigits
    <3>1. state' = "usual" /\ dst' = Append(dst, ch)
          BY <1>3, <2>6 DEF unescapeQuoted
    <3>2. dst' \in Seq(Byte) /\ Len(dst') = Len(dst) + 1
          BY <2>1, <3>1, AppendProperties
    <3> QED
        BY <2>2, <2>3, <2>4, <3>1, <3>2 DEF Counted, Lagging, Lag
  <2> QED
      BY <2>5, <2>6
<1>4. CASE unescapeQuotedSecond
  <2>1. /\ phase = "unescape" /\ state = "quoted_second" /\ state' = "usual"
        /\ pos < Len(src) /\ pos' = pos + 1
        /\ UNCHANGED <<inputVars, n, returned, decoded>>
        BY <1>4 DEF unescapeQuotedSecond, Reads
  <2>2. Len(dst) + 2 <= pos
        BY <2>1 DEF Lagging, Lag
  <2>3. phase' \in {"unescape", "done"} /\ dst' \in Seq(Byte) /\ Len(dst') <= Len(dst) + 3
    <3>1. CASE ch \notin HexDigits
          BY <1>4, <2>1, <3>1 DEF unescapeQuotedSecond
    <3>2. CASE ch \in HexDigits
      <4> DEFINE b == decoded * 16 + hexValue(ch)
                 d == Decoded(unescapeType, b)
      <4>1. b \in Byte
        <5>1. hexValue(ch) \in 0..15 /\ decoded \in 0..15
              BY <3>2, DigitValue
        <5> HIDE DEF IInv, TypeOK
        <5> QED
            BY <5>1 DEF Byte
      <4>2. src[pos] \in Byte /\ src[pos + 1] \in Byte
            BY <2>1, <2>2
      <4>3. d \in Seq(Byte) /\ Len(d) <= 3
            BY <4>1, <4>2, DecodedBytes
      <4>4. dst' = dst \o d /\ phase' \in {"unescape", "done"}
            BY <1>4, <3>2 DEF unescapeQuotedSecond, EndsAt
      <4> HIDE DEF d
      <4>5. dst \o d \in Seq(Byte) /\ Len(dst \o d) = Len(dst) + Len(d)
            BY <4>3, Written
      <4> QED
          BY <4>3, <4>4, <4>5
    <3> QED
        BY <3>1, <3>2
  <2>4. TypeOK'
        BY <2>1, <2>3
  <2>5. Counted' /\ Lagging'
        BY <2>1, <2>2, <2>3 DEF Counted, Lagging, Lag
  <2> QED
      BY <2>4, <2>5
<1>5. CASE UnescapeReturns
  <2>1. Lag \in Nat
        BY DEF Lag
  <2> QED
      BY <1>5, <2>1 DEF UnescapeReturns, Counted, Lagging
<1> QED
    BY <1>1, <1>2, <1>3, <1>4, <1>5

(* The inductive invariant holds in every reachable state.                 *)
THEOREM Inductive == Spec => []IInv
<1>1. Init => IInv
      BY InitIInv
<1>2. IInv /\ [Next]_vars => IInv'
  <2>1. ASSUME IInv, UNCHANGED vars PROVE IInv'
        BY <2>1 DEF IInv, TypeOK, Counted, Lagging, Lag, EscapedUpTo, EscapedIn, vars, inputVars
  <2> QED
      BY <2>1, EscapeIInv, UnescapeIInv DEF Next
<1> QED
    BY <1>1, <1>2, PTL DEF Spec

(* Type correctness: bytes are written and counts are numbers, and the     *)
(* decoder's accumulated digit fits (TypeOK).                              *)
THEOREM TypeCorrect == Spec => []TypeOK
<1>1. IInv => TypeOK
      BY DEF IInv
<1> QED
    BY <1>1, Inductive, PTL

(* Neither loop writes past the buffer that the header asks for, at any    *)
(* iteration (ngx_escape_uri, ngx_unescape_uri).                           *)
THEOREM NoOverrun == Spec => []BuffersSuffice
<1>1. IInv => BuffersSuffice
  <2> SUFFICES ASSUME IInv PROVE BuffersSuffice
      OBVIOUS
  <2>1. Cardinality(EscapedUpTo(pos)) \in 0..pos
        BY CountBounds DEF EscapedUpTo, IInv, TypeOK
  <2>2. Lag \in Nat
        BY DEF Lag
  <2> QED
      BY <2>1, <2>2 DEF IInv, TypeOK, Counted, Lagging, BuffersSuffice
<1> QED
    BY <1>1, Inductive, PTL

(* The count of ngx_escape_uri(NULL, ...) is that of the bytes which       *)
(* ngx_escape_uri(dst, ...) writes as three (ngx_escape_uri).              *)
THEOREM ExactSize == Spec => []CountPredictsSize
<1>1. IInv => CountPredictsSize
      BY DEF IInv, Counted, CountPredictsSize
<1> QED
    BY <1>1, Inductive, PTL
=============================================================================
