-------------------------- MODULE UriContentProofs --------------------------
(***************************************************************************)
(* Proofs about what the URI utilities write, for strings of any length    *)
(* over any bytes, every table and both kinds of decoding.                 *)
(*                                                                         *)
(* The decoder's output, followed by the decoding of what it has not       *)
(* decoded yet, is the decoding of the whole input (Decoding).  That the   *)
(* recursive definition of that decoding defines something, and what, is   *)
(* shown by induction over the places of the string, with the set of the   *)
(* places where it fails, which has no least element.                      *)
(*                                                                         *)
(* For the round trip, the encoder's output holds each byte, escaped, at   *)
(* its offset (Encodes), and the decoder is at the offset of the byte it   *)
(* is about to write, or within its quotation (Undoing).                   *)
(***************************************************************************)
EXTENDS UriProofs, WellFoundedInduction

(* A set of numbers that is not empty has a least one: what the inductions *)
(* below rest on.                                                          *)
LEMMA LeastNumber ==
    ASSUME NEW T, T \subseteq Nat, T # {}
    PROVE  \E m \in T : \A k \in T : m <= k
<1>1. \E m \in T : \A k \in T : ~(<<k, m>> \in OpToRel(<, Nat))
      BY WFMin, NatLessThanWellFounded, Zenon
<1>2. \E m \in T : \A k \in T : ~(k < m)
      BY <1>1, Zenon DEF OpToRel
<1> QED
    BY <1>2

-----------------------------------------------------------------------------
(* The recursive definition of the decoding.                               *)

Places(s) == 1..(Len(s) + 3)

(* A table of the decodings from place m on.                               *)
Tabulates(g, s, t, m) ==
    g = [i \in m..(Len(s) + 3) |-> UnescapedFrom(s, t, g, i)]

(* The decoding from a place on looks only at later places.                *)
LEMMA LooksAhead ==
    ASSUME NEW s \in Seq(Byte), NEW t, NEW g, NEW h, NEW i \in Places(s),
           \A j \in Places(s) : j > i => g[j] = h[j]
    PROVE  UnescapedFrom(s, t, g, i) = UnescapedFrom(s, t, h, i)
<1>1. CASE i > Len(s)
      BY <1>1 DEF UnescapedFrom
<1>2. CASE i <= Len(s)
  <2>1. /\ i + 1 \in Places(s) /\ i + 1 > i
        /\ i + 2 \in Places(s) /\ i + 2 > i
        /\ i + 3 \in Places(s) /\ i + 3 > i
        BY <1>2 DEF Places
  <2>2. g[i + 1] = h[i + 1] /\ g[i + 2] = h[i + 2] /\ g[i + 3] = h[i + 3]
        BY <2>1
  <2> QED
      BY <2>2 DEF UnescapedFrom
<1> QED
    BY <1>1, <1>2 DEF Places

(* A table grows to the front.                                             *)
LEMMA OnePlaceMore ==
    ASSUME NEW s \in Seq(Byte), NEW t, NEW m \in Places(s),
           NEW g, Tabulates(g, s, t, m + 1)
    PROVE  \E h : Tabulates(h, s, t, m)
<1> DEFINE last == Len(s) + 3
           h == [i \in m..last |-> IF i = m THEN UnescapedFrom(s, t, g, m) ELSE g[i]]
<1>1. \A i \in m..last : i # m => h[i] = g[i]
      OBVIOUS
<1>2. \A i \in m..last : i # m => i \in (m + 1)..last
      BY DEF Places
<1>3. \A i \in m..last : h[i] = UnescapedFrom(s, t, h, i)
  <2> SUFFICES ASSUME NEW i \in m..last
               PROVE  h[i] = UnescapedFrom(s, t, h, i)
      OBVIOUS
  <2>1. i \in Places(s)
        BY DEF Places
  <2>2. \A j \in Places(s) : j > i => g[j] = h[j]
        BY <1>1 DEF Places
  <2>3. UnescapedFrom(s, t, g, i) = UnescapedFrom(s, t, h, i)
    <3> HIDE DEF h
    <3> QED
        BY <2>1, <2>2, LooksAhead
  <2>4. h[i] = UnescapedFrom(s, t, g, i)
        BY <1>2 DEF Tabulates
  <2> QED
      BY <2>3, <2>4
<1>4. h = [i \in m..last |-> h[i]]
      OBVIOUS
<1>5. [i \in m..last |-> h[i]] = [i \in m..last |-> UnescapedFrom(s, t, h, i)]
  <2> HIDE DEF h
  <2> QED
      BY <1>3
<1>6. Tabulates(h, s, t, m)
  <2> HIDE DEF h
  <2> QED
      BY <1>4, <1>5 DEF Tabulates
<1> QED
    BY <1>6

(* There is a table from any place on.                                     *)
LEMMA TablesExist ==
    ASSUME NEW s \in Seq(Byte), NEW t
    PROVE  \A k \in 0..(Len(s) + 3) : \E g : Tabulates(g, s, t, Len(s) + 4 - k)
<1> DEFINE From(k) == Len(s) + 4 - k
           T == {k \in 0..(Len(s) + 3) : ~ \E g : Tabulates(g, s, t, From(k))}
<1>1. SUFFICES ASSUME T # {} PROVE FALSE
      OBVIOUS
<1>2. PICK k \in T : \A j \in T : k <= j
  <2>1. T \subseteq Nat
        OBVIOUS
  <2> HIDE DEF T
  <2> QED
      BY <1>1, <2>1, LeastNumber
<1>3. CASE k = 0
  <2> DEFINE g == [i \in {} |-> <<>>]
  <2>1. From(0)..(Len(s) + 3) = {}
        OBVIOUS
  <2>2. g = [i \in {} |-> UnescapedFrom(s, t, g, i)]
        OBVIOUS
  <2>3. Tabulates(g, s, t, From(0))
    <3> HIDE DEF g
    <3> QED
        BY <2>1, <2>2 DEF Tabulates
  <2> QED
      BY <1>3, <2>3
<1>4. CASE k # 0
  <2>1. k - 1 \notin T /\ k - 1 \in 0..(Len(s) + 3)
        BY <1>2, <1>4
  <2>2. PICK g : Tabulates(g, s, t, From(k - 1))
        BY <2>1
  <2>3. From(k) \in Places(s) /\ From(k - 1) = From(k) + 1
        BY <1>4 DEF Places
  <2>4. \E h : Tabulates(h, s, t, From(k))
    <3> HIDE DEF From
    <3> QED
        BY <2>2, <2>3, OnePlaceMore
  <2> QED
      BY <2>4
<1> QED
    BY <1>3, <1>4

(* The definition of Unescapings has a solution, and is it.                *)
LEMMA UnescapingsDefined ==
    ASSUME NEW s \in Seq(Byte), NEW t, NEW i \in Places(s)
    PROVE  Unescapings(s, t)[i] = UnescapedFrom(s, t, Unescapings(s, t), i)
<1> DEFINE u == CHOOSE h : h = [j \in Places(s) |-> UnescapedFrom(s, t, h, j)]
<1>1. Unescapings(s, t) = u
      BY DEF Unescapings, Places
<1>2. \E h : h = [j \in Places(s) |-> UnescapedFrom(s, t, h, j)]
  <2>1. Len(s) + 3 \in 0..(Len(s) + 3) /\ Len(s) + 4 - (Len(s) + 3) = 1
        OBVIOUS
  <2>2. \E g : Tabulates(g, s, t, 1)
        BY <2>1, TablesExist
  <2> QED
      BY <2>2 DEF Tabulates, Places
<1>3. u = [j \in Places(s) |-> UnescapedFrom(s, t, u, j)]
      BY <1>2
<1> HIDE DEF u
<1>4. u[i] = UnescapedFrom(s, t, u, i)
      BY <1>3
<1> QED
    BY <1>1, <1>4

(* Two digits are a byte.                                                  *)
LEMMA DigitsValue ==
    ASSUME NEW c \in HexDigits, NEW d \in HexDigits
    PROVE  hexValue(c) * 16 + hexValue(d) \in Byte
<1>1. hexValue(c) \in 0..15 /\ hexValue(d) \in 0..15
      BY DigitValue
<1> QED
    BY <1>1 DEF Byte

(* What follows decodes to bytes, and so does what is here.                *)
LEMMA UnescapedType ==
    ASSUME NEW s \in Seq(Byte), NEW t, NEW g, NEW i \in Places(s),
           \A j \in Places(s) : j > i => g[j] \in Seq(Byte)
    PROVE  UnescapedFrom(s, t, g, i) \in Seq(Byte)
<1>1. CASE i > Len(s)
      BY <1>1 DEF UnescapedFrom
<1>2. CASE i <= Len(s)
  <2>1. /\ i + 1 \in Places(s) /\ i + 1 > i
        /\ i + 2 \in Places(s) /\ i + 2 > i
        /\ i + 3 \in Places(s) /\ i + 3 > i
        BY <1>2 DEF Places
  <2>2. g[i + 1] \in Seq(Byte) /\ g[i + 2] \in Seq(Byte) /\ g[i + 3] \in Seq(Byte)
        BY <2>1
  <2>3. i \in 1..Len(s) /\ s[i] \in Byte
        BY <1>2 DEF Places
  <2>4. <<s[i]>> \in Seq(Byte) /\ <<s[i]>> \o g[i + 1] \in Seq(Byte)
        BY <2>2, <2>3, Written
  <2>5. ASSUME i + 1 <= Len(s) PROVE <<s[i + 1]>> \o g[i + 2] \in Seq(Byte)
    <3>1. <<s[i + 1]>> \in Seq(Byte)
          BY <2>3, <2>5
    <3> QED
        BY <2>2, <3>1, Written
  <2>6. ASSUME i + 2 <= Len(s) PROVE SubSeq(s, i, i + 2) \o g[i + 3] \in Seq(Byte)
    <3>1. SubSeq(s, i, i + 2) \in Seq(Byte)
          BY <2>3, <2>6
    <3> QED
        BY <2>2, <3>1, Written
  <2>7. ASSUME NEW b \in Byte
        PROVE  <<b>> \in Seq(Byte) /\ <<b>> \o g[i + 3] \in Seq(Byte)
    <3>1. <<b>> \in Seq(Byte)
          BY <2>7
    <3> QED
        BY <2>2, <3>1, Written
  <2>8. <<s[i]>> \o <<>> \in Seq(Byte)
        BY <2>4, Written
  <2> QED
    <3>1. CASE s[i] # Percent
          BY <1>2, <2>4, <2>8, <3>1 DEF UnescapedFrom
    <3>2. CASE s[i] = Percent /\ i + 1 > Len(s)
          BY <1>2, <3>2 DEF UnescapedFrom
    <3>3. CASE s[i] = Percent /\ i + 1 <= Len(s) /\ s[i + 1] \notin HexDigits
          BY <1>2, <2>3, <2>5, <3>3 DEF UnescapedFrom
    <3>4. CASE /\ s[i] = Percent /\ i + 1 <= Len(s) /\ s[i + 1] \in HexDigits
               /\ i + 2 > Len(s) \/ s[i + 2] \notin HexDigits
          BY <1>2, <2>2, <2>3, <3>4 DEF UnescapedFrom
    <3>5. CASE /\ s[i] = Percent /\ s[i + 1] \in HexDigits
               /\ i + 2 <= Len(s) /\ s[i + 2] \in HexDigits
      <4> DEFINE b == hexValue(s[i + 1]) * 16 + hexValue(s[i + 2])
      <4>1. b \in Byte
            BY <3>5, DigitsValue
      <4>2. UnescapedFrom(s, t, g, i) =
              IF b = Question THEN <<b>>
              ELSE IF t = "REDIRECT" /\ ~Redirects(b)
              THEN SubSeq(s, i, i + 2) \o g[i + 3]
              ELSE <<b>> \o g[i + 3]
            BY <1>2, <2>3, <3>5 DEF UnescapedFrom
      <4> HIDE DEF b
      <4> QED
          BY <2>6, <2>7, <3>5, <4>1, <4>2
    <3> QED
        BY <2>3, <3>1, <3>2, <3>3, <3>4, <3>5
<1> QED
    BY <1>1, <1>2 DEF Places

(* The decoding from any place on is a string of bytes.                    *)
LEMMA UnescapingsType ==
    ASSUME NEW s \in Seq(Byte), NEW t
    PROVE  \A i \in Places(s) : Unescapings(s, t)[i] \in Seq(Byte)
<1> DEFINE u == Unescapings(s, t)
           From(k) == Len(s) + 3 - k
           T == {k \in 0..(Len(s) + 2) : u[From(k)] \notin Seq(Byte)}
<1>1. T = {}
  <2>1. SUFFICES ASSUME T # {} PROVE FALSE
        OBVIOUS
  <2>2. PICK k \in T : \A j \in T : k <= j
    <3>1. T \subseteq Nat
          OBVIOUS
    <3> HIDE DEF T
    <3> QED
        BY <2>1, <3>1, LeastNumber
  <2>3. From(k) \in Places(s)
        BY DEF Places
  <2>4. \A j \in Places(s) : j > From(k) => u[j] \in Seq(Byte)
    <3> SUFFICES ASSUME NEW j \in Places(s), j > From(k) PROVE u[j] \in Seq(Byte)
        OBVIOUS
    <3> DEFINE l == Len(s) + 3 - j
    <3>1. l \in 0..(Len(s) + 2) /\ l < k /\ From(l) = j
          BY DEF Places
    <3>2. l \notin T
          BY <2>2, <3>1
    <3> QED
        BY <3>1, <3>2
  <2>5. UnescapedFrom(s, t, u, From(k)) \in Seq(Byte)
    <3> HIDE DEF u, From
    <3> QED
        BY <2>3, <2>4, UnescapedType
  <2>6. u[From(k)] = UnescapedFrom(s, t, u, From(k))
    <3> HIDE DEF From
    <3> QED
        BY <2>3, UnescapingsDefined
  <2>7. u[From(k)] \notin Seq(Byte)
        OBVIOUS
  <2> QED
      BY <2>5, <2>6, <2>7
<1>2. ASSUME NEW i \in Places(s) PROVE u[i] \in Seq(Byte)
  <2> DEFINE k == Len(s) + 3 - i
  <2>1. k \in 0..(Len(s) + 2) /\ From(k) = i
        BY DEF Places
  <2> QED
      BY <1>1, <2>1
<1> QED
    BY <1>2

-----------------------------------------------------------------------------
(* The decoder writes what the quotations say.                             *)

(* What has been written, followed by the decoding of what has not been    *)
(* decoded yet, is the decoding of the whole input.                        *)
Decoding ==
    LET rest == Unescapings(src, unescapeType) IN
    /\ phase = "unescape" /\ state = "usual" => dst \o rest[pos + 1] = rest[1]
    /\ phase = "unescape" /\ state = "quoted" =>
         /\ src[pos] = Percent
         /\ dst \o rest[pos] = rest[1]
    /\ phase = "unescape" /\ state = "quoted_second" =>
         /\ src[pos - 1] = Percent
         /\ src[pos] \in HexDigits /\ decoded = hexValue(src[pos])
         /\ dst \o rest[pos - 1] = rest[1]
    /\ phase = "done" => dst = rest[1]

(* A byte is taken from the decoding of the rest, and written.             *)
LEMMA MovesOver ==
    ASSUME NEW d \in Seq(Byte), NEW e \in Seq(Byte), NEW r \in Seq(Byte)
    PROVE  d \o (e \o r) = (d \o e) \o r
    BY ConcatAssociative, SMTT(30)

(* Three bytes in a row.                                                   *)
LEMMA ThreeBytes ==
    ASSUME NEW q \in Seq(Byte), Len(q) = 3,
           NEW a \in Byte, NEW b \in Byte, NEW c \in Byte,
           q[1] = a, q[2] = b, q[3] = c
    PROVE  q = <<a, b, c>>
<1> DEFINE e == <<a, b, c>>
<1>1. e \in Seq(Byte) /\ Len(e) = 3 /\ \A i \in 1..3 : e[i] = q[i]
      OBVIOUS
<1> HIDE DEF e
<1>2. q = e
      BY <1>1, SeqEqual
<1> QED
    BY <1>2 DEF e

(* The decoder begins.                                                     *)
LEMMA DecodingBegins ==
    ASSUME src \in Seq(Byte), dst = <<>>, pos = 0, state = "usual", phase = "unescape"
    PROVE  Decoding
<1> DEFINE r == Unescapings(src, unescapeType)
<1>1. r[1] \in Seq(Byte)
      BY UnescapingsType DEF Places
<1> HIDE DEF r
<1>2. <<>> \o r[1] = r[1]
      BY <1>1, ConcatEmptySeq
<1>3. dst \o r[pos + 1] = r[1]
      BY <1>2
<1> QED
    BY <1>3 DEF Decoding, r

(* A byte outside of a quotation.                                          *)
LEMMA UsualDecoding ==
    ASSUME IInv, Decoding, unescapeUsual
    PROVE  Decoding'
<1> DEFINE r == Unescapings(src, unescapeType)
           i == pos + 1
<1>1. /\ phase = "unescape" /\ state = "usual"
      /\ src \in Seq(Byte) /\ dst \in Seq(Byte)
      /\ pos \in Nat /\ i \in 1..Len(src) /\ src[i] = ch /\ ch \in Byte
      /\ pos' = i /\ src' = src /\ unescapeType' = unescapeType
      BY DEF IInv, TypeOK, unescapeUsual, Reads, ch, inputVars
<1>2. i \in Places(src) /\ i + 1 \in Places(src)
      BY <1>1 DEF Places
<1>3. r[i] = UnescapedFrom(src, unescapeType, r, i) /\ r[i + 1] \in Seq(Byte)
      BY <1>1, <1>2, UnescapingsDefined, UnescapingsType
<1>4. r' = r
      BY <1>1
<1>5. dst \o r[i] = r[1]
      BY <1>1 DEF Decoding
<1> HIDE DEF r
<1>6. CASE ch = Percent
  <2>1. state' = "quoted" /\ dst' = dst /\ phase' = "unescape"
        BY <1>6 DEF unescapeUsual, EndsAt, Percent, Question
  <2> QED
      BY <1>1, <1>4, <1>5, <1>6, <2>1 DEF Decoding, r
<1>7. CASE ch # Percent
  <2>1. state' = "usual" /\ dst' = Append(dst, ch)
        BY <1>7 DEF unescapeUsual
  <2>2. dst' = dst \o <<ch>> /\ <<ch>> \in Seq(Byte) /\ dst' \in Seq(Byte)
        BY <1>1, <2>1, AppendIsConcat, AppendProperties
  <2>3. CASE ch = Question
    <3>1. phase' = "done"
          BY <2>3, <1>7 DEF unescapeUsual, EndsAt
    <3>2. r[i] = <<ch>> \o <<>>
          BY <1>1, <1>3, <1>7, <2>3 DEF UnescapedFrom
    <3>3. r[i] = <<ch>>
          BY <2>2, <3>2, ConcatEmptySeq
    <3>4. dst' = r'[1]
          BY <1>4, <1>5, <2>2, <3>3
    <3> QED
        BY <1>1, <3>1, <3>4 DEF Decoding, r
  <2>4. CASE ch # Question
    <3>1. phase' = "unescape"
          BY <2>4, <1>7 DEF unescapeUsual, EndsAt
    <3>2. r[i] = <<ch>> \o r[i + 1]
          BY <1>1, <1>3, <1>7, <2>4 DEF UnescapedFrom
    <3>3. dst \o (<<ch>> \o r[i + 1]) = (dst \o <<ch>>) \o r[i + 1]
      <4>1. dst \in Seq(Byte) /\ <<ch>> \in Seq(Byte) /\ r[i + 1] \in Seq(Byte)
            BY <1>1, <1>3, <2>2
      <4> QED
          BY <4>1, MovesOver, Zenon
    <3>4. dst' \o r[i + 1] = r[1]
          BY <1>5, <2>2, <3>2, <3>3
    <3> QED
        BY <1>1, <1>4, <2>1, <3>1, <3>4 DEF Decoding, r
  <2> QED
      BY <2>3, <2>4
<1> QED
    BY <1>6, <1>7

(* The byte after a percent sign.                                          *)
LEMMA QuotedDecoding ==
    ASSUME IInv, Decoding, unescapeQuoted
    PROVE  Decoding'
<1> DEFINE r == Unescapings(src, unescapeType)
<1>1. /\ phase = "unescape" /\ state = "quoted" /\ phase' = "unescape"
      /\ src \in Seq(Byte) /\ dst \in Seq(Byte)
      /\ pos \in Nat /\ pos + 1 \in 1..Len(src)
      /\ src[pos + 1] = ch /\ ch \in Byte
      /\ pos' = pos + 1 /\ src' = src /\ unescapeType' = unescapeType
      BY DEF IInv, TypeOK, unescapeQuoted, Reads, ch, inputVars
<1>2. pos >= 1
      BY <1>1 DEF IInv, TypeOK, Lagging, Lag
<1>3. pos \in Places(src) /\ pos + 2 \in Places(src)
      BY <1>1, <1>2 DEF Places
<1>4. r[pos] = UnescapedFrom(src, unescapeType, r, pos) /\ r[pos + 2] \in Seq(Byte)
      BY <1>1, <1>3, UnescapingsDefined, UnescapingsType
<1>5. r' = r
      BY <1>1
<1>6. src[pos] = Percent /\ dst \o r[pos] = r[1]
      BY <1>1 DEF Decoding
<1> HIDE DEF r
<1>7. CASE ch \in HexDigits
  <2>1. state' = "quoted_second" /\ dst' = dst /\ decoded' = hexValue(ch)
        BY <1>7 DEF unescapeQuoted
  <2>2. /\ pos' - 1 = pos /\ src'[pos' - 1] = Percent
        /\ src'[pos'] = ch /\ dst' \o r'[pos' - 1] = r'[1]
        BY <1>1, <1>5, <1>6, <2>1
  <2> QED
      BY <1>1, <1>7, <2>1, <2>2 DEF Decoding, r
<1>8. CASE ch \notin HexDigits
  <2>1. state' = "usual" /\ dst' = Append(dst, ch)
        BY <1>8 DEF unescapeQuoted
  <2>2. dst' = dst \o <<ch>> /\ <<ch>> \in Seq(Byte)
        BY <1>1, <2>1, AppendIsConcat
  <2>3. r[pos] = <<ch>> \o r[pos + 2]
        BY <1>1, <1>2, <1>4, <1>6, <1>8 DEF UnescapedFrom
  <2>4. dst \o (<<ch>> \o r[pos + 2]) = (dst \o <<ch>>) \o r[pos + 2]
    <3>1. dst \in Seq(Byte) /\ <<ch>> \in Seq(Byte) /\ r[pos + 2] \in Seq(Byte)
          BY <1>1, <1>4, <2>2
    <3> QED
        BY <3>1, MovesOver, Zenon
  <2>5. dst' \o r[pos + 2] = r[1]
        BY <1>6, <2>2, <2>3, <2>4
  <2>6. pos' + 1 = pos + 2
        BY <1>1
  <2> QED
      BY <1>1, <1>5, <2>1, <2>5, <2>6 DEF Decoding, r
<1> QED
    BY <1>7, <1>8

(* The second byte after a percent sign.                                   *)
LEMMA SecondDecoding ==
    ASSUME IInv, Decoding, unescapeQuotedSecond
    PROVE  Decoding'
<1> DEFINE r == Unescapings(src, unescapeType)
           i == pos - 1
<1>1. /\ phase = "unescape" /\ state = "quoted_second" /\ state' = "usual"
      /\ src \in Seq(Byte) /\ dst \in Seq(Byte)
      /\ pos \in Nat /\ pos + 1 \in 1..Len(src)
      /\ src[pos + 1] = ch /\ ch \in Byte
      /\ pos' = pos + 1 /\ src' = src /\ unescapeType' = unescapeType
      BY DEF IInv, TypeOK, unescapeQuotedSecond, Reads, ch, inputVars
<1>2. pos >= 2 /\ unescapeType \in {"URI", "REDIRECT"}
      BY <1>1 DEF IInv, TypeOK, Lagging, Lag, UnescapeTypes
<1>3. i \in Places(src) /\ i + 3 \in Places(src)
      BY <1>1, <1>2 DEF Places
<1>4. r[i] = UnescapedFrom(src, unescapeType, r, i) /\ r[i + 3] \in Seq(Byte)
  <2> HIDE DEF i
  <2> QED
      BY <1>1, <1>3, UnescapingsDefined, UnescapingsType
<1>5. r' = r
      BY <1>1
<1>6. /\ src[i] = Percent /\ dst \o r[i] = r[1]
      /\ src[pos] \in HexDigits /\ decoded = hexValue(src[pos])
      BY <1>1 DEF Decoding
<1>7. /\ i \in 1..Len(src) /\ i + 1 = pos /\ i + 2 = pos + 1
      /\ pos' + 1 = i + 3
      /\ ~(i > Len(src)) /\ ~(i + 1 > Len(src)) /\ ~(i + 2 > Len(src))
      BY <1>1, <1>2
<1> HIDE DEF r, i
<1>8. CASE ch \notin HexDigits
  <2>1. dst' = dst /\ phase' = "unescape"
        BY <1>1, <1>8 DEF unescapeQuotedSecond
  <2>2. r[i] = r[i + 3]
        BY <1>1, <1>4, <1>6, <1>7, <1>8 DEF UnescapedFrom
  <2> QED
      BY <1>1, <1>5, <1>6, <1>7, <2>1, <2>2 DEF Decoding, r
<1>9. CASE ch \in HexDigits
  <2> DEFINE b == decoded * 16 + hexValue(ch)
             d == Decoded(unescapeType, b)
  <2>1. dst' = dst \o d /\ EndsAt(b)
        BY <1>9 DEF unescapeQuotedSecond
  <2>2. b \in Byte /\ <<b>> \in Seq(Byte)
        BY <1>6, <1>9, DigitsValue
  <2>3. src[pos] \in Byte /\ src[pos + 1] \in Byte
        BY <1>1, <1>2
  <2>4. d \in Seq(Byte)
    <3> HIDE DEF b
    <3> QED
        BY <2>2, <2>3, DecodedBytes
  <2>5. r[i] = IF b = Question THEN <<b>>
               ELSE IF unescapeType = "REDIRECT" /\ ~Redirects(b)
               THEN SubSeq(src, i, i + 2) \o r[i + 3]
               ELSE <<b>> \o r[i + 3]
        BY <1>1, <1>4, <1>6, <1>7, <1>9 DEF UnescapedFrom
  <2> HIDE DEF b
  <2>6. CASE b = Question
    <3>1. phase' = "done" /\ d = <<b>>
          BY <2>1, <2>6 DEF EndsAt, Decoded
    <3>2. dst' = r'[1]
          BY <1>5, <1>6, <2>1, <2>5, <2>6, <3>1
    <3> QED
        BY <3>1, <3>2 DEF Decoding, r
  <2>7. CASE b # Question
    <3>1. phase' = "unescape"
          BY <2>1, <2>7 DEF EndsAt
    <3>2. SubSeq(src, i, i + 2) = <<Percent, src[pos], src[pos + 1]>>
      <4>1. i \in Int /\ i + 2 \in Int /\ \A j \in i..(i + 2) : src[j] \in Byte
            BY <1>1, <1>7
      <4>2. /\ SubSeq(src, i, i + 2) \in Seq(Byte) /\ Len(SubSeq(src, i, i + 2)) = 3
            /\ \A j \in 1..3 : SubSeq(src, i, i + 2)[j] = src[i + j - 1]
            BY <1>7, <4>1, SubSeqProperties
      <4> DEFINE q == SubSeq(src, i, i + 2)
      <4>3. q[1] = src[i] /\ q[2] = src[i + 1] /\ q[3] = src[i + 2]
        <5>1. /\ 1 \in 1..3 /\ i + 1 - 1 = i
              /\ 2 \in 1..3 /\ i + 2 - 1 = i + 1
              /\ 3 \in 1..3 /\ i + 3 - 1 = i + 2
              BY <1>7
        <5> QED
            BY <4>2, <5>1
      <4> HIDE DEF q
      <4>4. q \in Seq(Byte) /\ Len(q) = 3
            BY <4>2 DEF q
      <4>5. q = <<src[i], src[i + 1], src[i + 2]>>
            BY <1>1, <1>7, <4>3, <4>4, ThreeBytes
      <4> QED
          BY <1>6, <1>7, <4>5 DEF q
    <3>3. r[i] = d \o r[i + 3]
          BY <1>2, <2>5, <2>7, <3>2 DEF Decoded
    <3> HIDE DEF d
    <3>4. dst \o (d \o r[i + 3]) = (dst \o d) \o r[i + 3]
          BY <1>1, <1>4, <2>4, MovesOver
    <3>5. dst' \o r[i + 3] = r[1]
          BY <1>6, <2>1, <3>3, <3>4
    <3> QED
        BY <1>1, <1>5, <1>7, <3>1, <3>5 DEF Decoding, r
  <2> QED
      BY <2>6, <2>7
<1> QED
    BY <1>8, <1>9

(* The input ends.                                                         *)
LEMMA DecodingEnds ==
    ASSUME IInv, Decoding, UnescapeReturns
    PROVE  Decoding'
<1> DEFINE r == Unescapings(src, unescapeType)
<1>1. /\ phase = "unescape" /\ phase' = "done" /\ dst' = dst
      /\ src \in Seq(Byte) /\ dst \in Seq(Byte)
      /\ pos = Len(src) /\ pos \in Nat
      /\ src' = src /\ unescapeType' = unescapeType
      /\ state \in {"usual", "quoted", "quoted_second"}
      BY DEF IInv, TypeOK, UnescapeReturns, inputVars
<1>2. r' = r
      BY <1>1
<1>3. \A i \in Places(src) : r[i] = UnescapedFrom(src, unescapeType, r, i)
      BY <1>1, UnescapingsDefined
<1>4. \A i \in Places(src) : i > Len(src) => r[i] = <<>>
      BY <1>3 DEF UnescapedFrom
<1>5. Decoding
      OBVIOUS
<1>6. \E i \in Places(src) : dst \o r[i] = r[1] /\ r[i] = <<>>
  <2>1. CASE state = "usual"
    <3>1. dst \o r[pos + 1] = r[1]
          BY <1>1, <1>5, <2>1 DEF Decoding
    <3>2. pos + 1 \in Places(src) /\ pos + 1 > Len(src)
          BY <1>1 DEF Places
    <3> QED
        BY <1>4, <3>1, <3>2
  <2>2. CASE state = "quoted"
    <3>1. src[pos] = Percent /\ dst \o r[pos] = r[1]
          BY <1>1, <1>5, <2>2 DEF Decoding
    <3>2. pos >= 1
          BY <1>1, <2>2 DEF IInv, TypeOK, Lagging, Lag
    <3>3. pos \in Places(src) /\ ~(pos > Len(src)) /\ pos + 1 > Len(src)
          BY <1>1, <3>2 DEF Places
    <3>4. r[pos] = <<>>
          BY <1>3, <3>1, <3>3 DEF UnescapedFrom
    <3> QED
        BY <3>1, <3>3, <3>4
  <2>3. CASE state = "quoted_second"
    <3>1. src[pos - 1] = Percent /\ src[pos] \in HexDigits /\ dst \o r[pos - 1] = r[1]
          BY <1>1, <1>5, <2>3 DEF Decoding
    <3>2. pos >= 2
          BY <1>1, <2>3 DEF IInv, TypeOK, Lagging, Lag
    <3>3. /\ pos - 1 \in Places(src) /\ ~(pos - 1 > Len(src))
          /\ pos - 1 + 1 = pos /\ ~(pos > Len(src))
          /\ pos - 1 + 2 = pos + 1 /\ pos + 1 > Len(src)
          /\ pos - 1 + 3 \in Places(src) /\ pos - 1 + 3 > Len(src)
          BY <1>1, <3>2 DEF Places
    <3>4. r[pos - 1] = r[pos - 1 + 3]
          BY <1>3, <3>1, <3>3 DEF UnescapedFrom
    <3> QED
        BY <1>4, <3>1, <3>3, <3>4
  <2> QED
      BY <1>1, <2>1, <2>2, <2>3
<1>7. dst \o <<>> = dst
      BY <1>1, ConcatEmptySeq
<1>8. dst = r[1]
      BY <1>6, <1>7
<1> QED
    BY <1>1, <1>2, <1>8 DEF Decoding

(* Every step keeps what has been written in line with the quotations.     *)
LEMMA NextDecoding ==
    ASSUME IInv, Decoding, [Next]_vars
    PROVE  Decoding'
<1>1. CASE CountByte \/ CountReturns \/ EscapeByte \/ EscapeReturns
  <2>1. phase' \in {"count", "escape", "escaped"}
        BY <1>1 DEF CountByte, CountReturns, EscapeByte, EscapeReturns
  <2> QED
      BY <2>1 DEF Decoding
<1>2. CASE UnescapeEscaped
  <2>1. /\ src' \in Seq(Byte) /\ dst' = <<>> /\ pos' = 0
        /\ state' = "usual" /\ phase' = "unescape"
        BY <1>2 DEF UnescapeEscaped, IInv, TypeOK, Lagging
  <2> DEFINE r == Unescapings(src, unescapeType)'
  <2>2. r[1] \in Seq(Byte)
        BY <2>1, UnescapingsType DEF Places
  <2> HIDE DEF r
  <2>3. <<>> \o r[1] = r[1]
        BY <2>2, ConcatEmptySeq
  <2>4. dst' \o r[pos' + 1] = r[1]
        BY <2>1, <2>3
  <2> QED
      BY <2>1, <2>4 DEF Decoding, r
<1>3. CASE UNCHANGED vars
      BY <1>3 DEF vars, inputVars, Decoding
<1> QED
    BY <1>1, <1>2, <1>3, UsualDecoding, QuotedDecoding, SecondDecoding, DecodingEnds
    DEF Next

(* ngx_unescape_uri decodes any input as its quotations say, with the      *)
(* percent signs that begin no quotation, digits that end none and a       *)
(* quotation that is cut off (ngx_unescape_uri).                           *)
THEOREM Decodes == Spec => []UnescapesQuotations
<1>1. Init => Decoding
  <2> SUFFICES ASSUME Init PROVE Decoding
      OBVIOUS
  <2>1. src \in Seq(Byte)
        BY InitIInv DEF IInv, TypeOK
  <2>2. CASE phase = "count"
        BY <2>2 DEF Decoding
  <2>3. CASE phase = "unescape"
        BY <2>1, <2>3, DecodingBegins DEF Init
  <2> QED
      BY <2>2, <2>3 DEF Init
<1>2. IInv /\ Decoding /\ [Next]_vars => Decoding'
      BY NextDecoding
<1>3. Decoding => UnescapesQuotations
      BY DEF Decoding, UnescapesQuotations, Unescaped
<1> QED
    BY <1>1, <1>2, <1>3, Inductive, PTL DEF Spec

-----------------------------------------------------------------------------
(* The tables of ngx_escape_uri.                                           *)

(* The masks 1U << k.                                                      *)
LEMMA Masks ==
    /\ 2^0 = 1 /\ 2^1 = 2 /\ 2^2 = 4 /\ 2^3 = 8
    /\ 2^4 = 16 /\ 2^5 = 32 /\ 2^6 = 64 /\ 2^7 = 128
    /\ 2^8 = 256 /\ 2^9 = 512 /\ 2^10 = 1024 /\ 2^11 = 2048
    /\ 2^12 = 4096 /\ 2^13 = 8192 /\ 2^14 = 16384 /\ 2^15 = 32768
    OBVIOUS

Unreserved == (65..90) \cup (97..122) \cup Digits \cup {45, 46, 95, 126}

(* The bits of the table for URI_COMPONENT, by halves.                     *)
LEMMA ComponentBits ==
    /\ \A k \in 0..12 : Bit(40959, k)
    /\ Bit(40959, 15)
    /\ \A k \in 10..15 : Bit(64512, k)
    /\ Bit(1, 0)
    /\ \A k \in 11..14 : Bit(30720, k)
    /\ \A k \in 11..13 : Bit(47104, k)
    /\ Bit(47104, 15)
<1>1. /\ Bit(40959, 0) /\ Bit(40959, 1) /\ Bit(40959, 2) /\ Bit(40959, 3)
      /\ Bit(40959, 4) /\ Bit(40959, 5) /\ Bit(40959, 6) /\ Bit(40959, 7)
      /\ Bit(40959, 8) /\ Bit(40959, 9) /\ Bit(40959, 10) /\ Bit(40959, 11)
      /\ Bit(40959, 12) /\ Bit(40959, 15)
      BY Masks DEF Bit
<1>2. /\ Bit(64512, 10) /\ Bit(64512, 11) /\ Bit(64512, 12)
      /\ Bit(64512, 13) /\ Bit(64512, 14) /\ Bit(64512, 15)
      BY Masks DEF Bit
<1>3. /\ Bit(30720, 11) /\ Bit(30720, 12) /\ Bit(30720, 13) /\ Bit(30720, 14)
      /\ Bit(47104, 11) /\ Bit(47104, 12) /\ Bit(47104, 13) /\ Bit(47104, 15)
      /\ Bit(1, 0)
      BY Masks DEF Bit
<1>4. \A k \in 0..12 :
        \/ k = 0 \/ k = 1 \/ k = 2 \/ k = 3 \/ k = 4 \/ k = 5 \/ k = 6
        \/ k = 7 \/ k = 8 \/ k = 9 \/ k = 10 \/ k = 11 \/ k = 12
      OBVIOUS
<1>5. \A k \in 10..15 : k = 10 \/ k = 11 \/ k = 12 \/ k = 13 \/ k = 14 \/ k = 15
      OBVIOUS
<1>6. /\ \A k \in 11..14 : k = 11 \/ k = 12 \/ k = 13 \/ k = 14
      /\ \A k \in 11..13 : k = 11 \/ k = 12 \/ k = 13
      OBVIOUS
<1> QED
    BY <1>1, <1>2, <1>3, <1>4, <1>5, <1>6

(* URI_COMPONENT leaves only unreserved bytes as they are.                 *)
LEMMA ComponentTable ==
    ASSUME NEW b \in Byte, ~escapes("URI_COMPONENT", b)
    PROVE  b \in Unreserved
<1> DEFINE h == Halves["URI_COMPONENT"]
           w == (b \div 16) - 1
           k == b % 16
<1>1. /\ h[1] = 40959 /\ h[2] = 64512 /\ h[3] = 1
      /\ h[4] = 30720 /\ h[5] = 1 /\ h[6] = 47104
      BY DEF Halves
<1>2. b \in 32..127 /\ ~Bit(h[w], k)
      BY DEF escapes, Byte
<1> HIDE DEF h
<1>3. CASE b \in 32..47
  <2>1. w = 1 /\ k = b - 32
        BY <1>3
  <2>2. k \in 0..15 /\ k \notin 0..12 /\ k # 15
        BY <1>1, <1>2, <1>3, <2>1, ComponentBits
  <2>3. b = 45 \/ b = 46
        BY <2>1, <2>2, <1>3
  <2> QED
      BY <2>3 DEF Unreserved
<1>4. CASE b \in 48..63
  <2>1. w = 2 /\ k = b - 48
        BY <1>4
  <2>2. k \in 0..15 /\ k \notin 10..15
        BY <1>1, <1>2, <1>4, <2>1, ComponentBits
  <2>3. b \in 48..57
        BY <2>1, <2>2, <1>4
  <2> QED
      BY <2>3 DEF Unreserved, Digits
<1>5. CASE b \in 64..79
  <2>1. w = 3 /\ k = b - 64
        BY <1>5
  <2>2. k # 0
        BY <1>1, <1>2, <2>1, ComponentBits
  <2>3. b \in 65..90
        BY <2>1, <2>2, <1>5
  <2> QED
      BY <2>3 DEF Unreserved
<1>6. CASE b \in 80..95
  <2>1. w = 4 /\ k = b - 80
        BY <1>6
  <2>2. k \in 0..15 /\ k \notin 11..14
        BY <1>1, <1>2, <1>6, <2>1, ComponentBits
  <2>3. b \in 65..90 \/ b = 95
        BY <2>1, <2>2, <1>6
  <2> QED
      BY <2>3 DEF Unreserved
<1>7. CASE b \in 96..111
  <2>1. w = 5 /\ k = b - 96
        BY <1>7
  <2>2. k # 0
        BY <1>1, <1>2, <2>1, ComponentBits
  <2>3. b \in 97..122
        BY <2>1, <2>2, <1>7
  <2> QED
      BY <2>3 DEF Unreserved
<1>8. CASE b \in 112..127
  <2>1. w = 6 /\ k = b - 112
        BY <1>8
  <2>2. k \in 0..15 /\ k \notin 11..13 /\ k # 15
        BY <1>1, <1>2, <1>8, <2>1, ComponentBits
  <2>3. b \in 97..122 \/ b = 126
        BY <2>1, <2>2, <1>8
  <2> QED
      BY <2>3 DEF Unreserved
<1> QED
    BY <1>2, <1>3, <1>4, <1>5, <1>6, <1>7, <1>8

(* Every table but that for REFRESH escapes the percent sign.              *)
LEMMA PercentEscaped ==
    ASSUME NEW t \in EscapeTypes, t # "REFRESH"
    PROVE  escapes(t, Percent)
<1>1. Percent \in 32..127 /\ (Percent \div 16) - 1 = 1 /\ Percent % 16 = 5
      BY DEF Percent
<1>2. Halves[t][1] \in {45, 2157, 40959, 173, 33}
      BY DEF EscapeTypes, Halves
<1>3. \A h \in {45, 2157, 40959, 173, 33} : Bit(h, 5)
      BY Masks DEF Bit
<1> QED
    BY <1>1, <1>2, <1>3 DEF escapes

(* The digits written are capital, and decode to what was written.         *)
LEMMA DigitsWritten ==
    ASSUME NEW v \in 0..15
    PROVE  /\ hex(v) \in HexDigits /\ hex(v) \in Unreserved
           /\ hexValue(hex(v)) = v
<1>1. CASE v < 10
  <2>1. hex(v) \in Digits /\ hex(v) = 48 + v
        BY <1>1 DEF hex, Digits
  <2> QED
      BY <2>1 DEF hexValue, HexDigits, Unreserved
<1>2. CASE v >= 10
  <2>1. hex(v) = 55 + v /\ hex(v) \in 65..70 /\ hex(v) \notin Digits
        BY <1>2 DEF hex, Digits
  <2>2. hex(v) % 32 = v - 9
        BY <1>2, <2>1
  <2> QED
      BY <2>1, <2>2 DEF hexValue, HexDigits, Letters, Unreserved
<1> QED
    BY <1>1, <1>2

-----------------------------------------------------------------------------
(* What URI_COMPONENT leaves.                                              *)

Leaves(d) ==
    \A i \in 1..Len(d) :
        \/ d[i] \in Unreserved
        \/ d[i] = Percent /\ i + 2 <= Len(d) /\ {d[i+1], d[i+2]} \subseteq HexDigits

OnlyUnreservedInv ==
    phase \in {"escape", "escaped"} /\ escapeType = "URI_COMPONENT" => Leaves(dst)

(* The places of a string that is appended.                                *)
LEMMA Appended ==
    ASSUME NEW d \in Seq(Byte), NEW e \in Seq(Byte)
    PROVE  /\ d \o e \in Seq(Byte) /\ Len(d \o e) = Len(d) + Len(e)
           /\ Len(d) \in Nat /\ Len(e) \in Nat
           /\ \A i \in 1..Len(d) : (d \o e)[i] = d[i]
           /\ \A j \in 1..Len(e) : (d \o e)[Len(d) + j] = e[j]
<1>1. Len(d) \in Nat /\ Len(e) \in Nat
      OBVIOUS
<1>2. \A i \in 1..(Len(d) + Len(e)) :
        (d \o e)[i] = IF i <= Len(d) THEN d[i] ELSE e[i - Len(d)]
      BY ConcatProperties
<1>3. ASSUME NEW i \in 1..Len(d) PROVE (d \o e)[i] = d[i]
      BY <1>1, <1>2
<1>4. ASSUME NEW j \in 1..Len(e) PROVE (d \o e)[Len(d) + j] = e[j]
  <2>1. /\ Len(d) + j \in 1..(Len(d) + Len(e))
        /\ ~(Len(d) + j <= Len(d)) /\ Len(d) + j - Len(d) = j
        BY <1>1
  <2> QED
      BY <1>2, <2>1
<1> QED
    BY <1>1, <1>3, <1>4, Written

(* The bytes of an escaped byte.                                           *)
LEMMA EscapedPlaces ==
    ASSUME NEW t, NEW b \in Byte
    PROVE  LET e == Escaped(t, b) IN
           /\ escapes(t, b) =>
                /\ Len(e) = 3
                /\ e[1] = Percent /\ e[2] = hex(b \div 16) /\ e[3] = hex(b % 16)
           /\ ~escapes(t, b) => Len(e) = 1 /\ e[1] = b
    BY DEF Escaped

(* One byte more is escaped.                                               *)
LEMMA LeavesMore ==
    ASSUME NEW d \in Seq(Byte), Leaves(d), NEW b \in Byte
    PROVE  Leaves(d \o Escaped("URI_COMPONENT", b))
<1> DEFINE e == Escaped("URI_COMPONENT", b)
           f == d \o e
<1>1. e \in Seq(Byte)
      BY EscapedBytes
<1>2. /\ escapes("URI_COMPONENT", b) =>
           /\ Len(e) = 3
           /\ e[1] = Percent /\ e[2] = hex(b \div 16) /\ e[3] = hex(b % 16)
      /\ ~escapes("URI_COMPONENT", b) => Len(e) = 1 /\ e[1] = b
      BY EscapedPlaces
<1>3. /\ hex(b \div 16) \in HexDigits /\ hex(b \div 16) \in Unreserved
      /\ hex(b % 16) \in HexDigits /\ hex(b % 16) \in Unreserved
  <2>1. b \div 16 \in 0..15 /\ b % 16 \in 0..15
        BY DEF Byte
  <2> QED
      BY <2>1, DigitsWritten
<1> HIDE DEF e
<1>4. /\ Len(f) = Len(d) + Len(e) /\ Len(d) \in Nat /\ Len(e) \in Nat
      /\ \A i \in 1..Len(d) : f[i] = d[i]
      /\ \A j \in 1..Len(e) : f[Len(d) + j] = e[j]
      BY <1>1, Appended
<1> HIDE DEF f
<1>5. ASSUME NEW i \in 1..Len(f)
      PROVE  \/ f[i] \in Unreserved
             \/ /\ f[i] = Percent /\ i + 2 <= Len(f)
                /\ {f[i+1], f[i+2]} \subseteq HexDigits
  <2>1. CASE i <= Len(d)
    <3>1. i \in 1..Len(d) /\ f[i] = d[i]
          BY <1>4, <2>1
    <3>2. CASE d[i] = Percent /\ i + 2 <= Len(d) /\ {d[i+1], d[i+2]} \subseteq HexDigits
      <4>1. i + 1 \in 1..Len(d) /\ i + 2 \in 1..Len(d)
            BY <3>1, <3>2
      <4>2. f[i+1] = d[i+1] /\ f[i+2] = d[i+2]
            BY <1>4, <4>1
      <4> QED
          BY <1>4, <3>1, <3>2, <4>2
    <3> QED
        BY <3>1, <3>2 DEF Leaves
  <2>2. CASE i > Len(d) /\ escapes("URI_COMPONENT", b)
    <3>1. /\ f[Len(d) + 1] = Percent /\ f[Len(d) + 2] = hex(b \div 16)
          /\ f[Len(d) + 3] = hex(b % 16) /\ Len(f) = Len(d) + 3
      <4>1. /\ Len(e) = 3 /\ e[1] = Percent
            /\ e[2] = hex(b \div 16) /\ e[3] = hex(b % 16)
            BY <1>2, <2>2, Zenon
      <4>2. f[Len(d) + 1] = e[1] /\ f[Len(d) + 2] = e[2] /\ f[Len(d) + 3] = e[3]
            BY <1>4, <4>1
      <4> QED
          BY <1>4, <4>1, <4>2
    <3>2. i = Len(d) + 1 \/ i = Len(d) + 2 \/ i = Len(d) + 3
          BY <1>4, <2>2, <3>1
    <3>3. CASE i = Len(d) + 1
      <4>1. i + 1 = Len(d) + 2 /\ i + 2 = Len(d) + 3
            BY <1>4, <3>3
      <4> QED
          BY <1>3, <1>4, <3>1, <3>3, <4>1
    <3> QED
        BY <1>3, <3>1, <3>2, <3>3
  <2>3. CASE i > Len(d) /\ ~escapes("URI_COMPONENT", b)
    <3>1. f[Len(d) + 1] = b /\ Len(f) = Len(d) + 1
      <4>1. Len(e) = 1 /\ e[1] = b
            BY <1>2, <2>3, Zenon
      <4>2. f[Len(d) + 1] = e[1]
            BY <1>4, <4>1
      <4> QED
          BY <1>4, <4>1, <4>2
    <3>2. i = Len(d) + 1
          BY <1>4, <2>3, <3>1
    <3> QED
        BY <2>3, <3>1, <3>2, ComponentTable
  <2> QED
      BY <1>4, <2>1, <2>2, <2>3
<1>6. Leaves(f)
      BY <1>5 DEF Leaves
<1> QED
    BY <1>6 DEF f, e

(* The comment on uri_component holds of what is written                   *)
(* (ngx_escape_uri).                                                       *)
THEOREM LeavesUnreserved == Spec => []OnlyUnreserved
<1>1. Init => OnlyUnreservedInv
      BY DEF Init, OnlyUnreservedInv
<1>2. IInv /\ OnlyUnreservedInv /\ [Next]_vars => OnlyUnreservedInv'
  <2> SUFFICES ASSUME IInv, OnlyUnreservedInv, [Next]_vars PROVE OnlyUnreservedInv'
      OBVIOUS
  <2>1. CASE CountByte \/ UnescapeEscaped
    <3>1. phase' \in {"count", "unescape"}
          BY <2>1 DEF CountByte, UnescapeEscaped
    <3> QED
        BY <3>1 DEF OnlyUnreservedInv
  <2>2. CASE CountReturns
    <3>1. dst' = <<>>
          BY <2>2 DEF CountReturns, IInv, Counted
    <3> QED
        BY <3>1 DEF OnlyUnreservedInv, Leaves
  <2>3. CASE EscapeByte
    <3>1. /\ phase = "escape" /\ phase' = "escape" /\ escapeType' = escapeType
          /\ dst' = dst \o Escaped(escapeType, ch) /\ ch \in Byte /\ dst \in Seq(Byte)
          BY <2>3 DEF EscapeByte, IInv, TypeOK, inputVars, ch
    <3> QED
        BY <3>1, LeavesMore DEF OnlyUnreservedInv
  <2>4. CASE EscapeReturns
    <3>1. phase = "escape" /\ escapeType' = escapeType /\ dst' = dst
          BY <2>4 DEF EscapeReturns, inputVars
    <3> QED
        BY <3>1 DEF OnlyUnreservedInv
  <2>5. CASE unescapeUsual \/ unescapeQuoted \/ unescapeQuotedSecond \/ UnescapeReturns
    <3>1. phase' \in {"unescape", "done"}
          BY <2>5 DEF unescapeUsual, unescapeQuoted, unescapeQuotedSecond,
                      UnescapeReturns, Reads, EndsAt
    <3> QED
        BY <3>1 DEF OnlyUnreservedInv
  <2>6. CASE UNCHANGED vars
        BY <2>6 DEF vars, inputVars, OnlyUnreservedInv
  <2> QED
      BY <2>1, <2>2, <2>3, <2>4, <2>5, <2>6 DEF Next
<1>3. OnlyUnreservedInv => OnlyUnreserved
      BY DEF OnlyUnreservedInv, OnlyUnreserved, Leaves, Unreserved
<1> QED
    BY <1>1, <1>2, <1>3, Inductive, PTL DEF Spec

-----------------------------------------------------------------------------
(* Decoding undoes encoding.                                               *)

(* How much is written for the first k bytes of s.                         *)
Offset(s, k) == k + 2 * Cardinality(EscapedIn(s, k))

(* A byte takes one place, or three if it is escaped.                      *)
LEMMA OffsetStep ==
    ASSUME NEW s, NEW k \in Nat
    PROVE  /\ Offset(s, k) \in Nat /\ Offset(s, k) >= k
           /\ escapes(escapeType, s[k + 1]) => Offset(s, k + 1) = Offset(s, k) + 3
           /\ ~escapes(escapeType, s[k + 1]) => Offset(s, k + 1) = Offset(s, k) + 1
<1> DEFINE c == Cardinality(EscapedIn(s, k))
           d == Cardinality(EscapedIn(s, k + 1))
<1>1. c \in Nat
      BY CountBounds
<1>2. /\ escapes(escapeType, s[k + 1]) => d = c + 1
      /\ ~escapes(escapeType, s[k + 1]) => d = c
      BY OneMore
<1>3. Offset(s, k) = k + 2 * c /\ Offset(s, k + 1) = (k + 1) + 2 * d
      BY DEF Offset
<1> HIDE DEF c, d
<1>4. CASE escapes(escapeType, s[k + 1])
  <2>1. d = c + 1
        BY <1>2, <1>4, Zenon
  <2> QED
      BY <1>1, <1>3, <1>4, <2>1
<1>5. CASE ~escapes(escapeType, s[k + 1])
  <2>1. d = c
        BY <1>2, <1>5, Zenon
  <2> QED
      BY <1>1, <1>3, <1>5, <2>1
<1> QED
    BY <1>4, <1>5

(* More bytes take more places.                                            *)
LEMMA OffsetMonotone ==
    ASSUME NEW s, NEW k \in Nat, NEW m \in Nat, k <= m
    PROVE  Offset(s, k) <= Offset(s, m)
<1>1. IsFiniteSet(EscapedIn(s, m))
      BY CountBounds
<1>2. EscapedIn(s, k) \in SUBSET EscapedIn(s, m)
      BY DEF EscapedIn
<1>3. Cardinality(EscapedIn(s, k)) <= Cardinality(EscapedIn(s, m))
      BY <1>1, <1>2, FS_Subset
<1>4. Cardinality(EscapedIn(s, k)) \in Nat /\ Cardinality(EscapedIn(s, m)) \in Nat
      BY CountBounds
<1> QED
    BY <1>3, <1>4 DEF Offset

LEMMA OffsetZero ==
    ASSUME NEW s
    PROVE  Offset(s, 0) = 0
    BY CountsFromZero DEF Offset

(* d holds the first k bytes of s, escaped, at their offsets.              *)
HoldsAt(d, s, i) ==
    LET e == Escaped(escapeType, s[i]) IN
    \A j \in 1..Len(e) : d[Offset(s, i - 1) + j] = e[j]

Encodes(d, s, k) ==
    /\ Len(d) = Offset(s, k)
    /\ \A i \in 1..k : HoldsAt(d, s, i)

(* One byte more is encoded.                                               *)
LEMMA EncodesMore ==
    ASSUME NEW d \in Seq(Byte), NEW s \in Seq(Byte), NEW k \in 0..(Len(s) - 1),
           Encodes(d, s, k)
    PROVE  Encodes(d \o Escaped(escapeType, s[k + 1]), s, k + 1)
<1> DEFINE e == Escaped(escapeType, s[k + 1])
           f == d \o e
<1>1. k \in Nat /\ k + 1 \in 1..Len(s) /\ s[k + 1] \in Byte
      OBVIOUS
<1>2. e \in Seq(Byte) /\ Len(e) = IF escapes(escapeType, s[k + 1]) THEN 3 ELSE 1
      BY <1>1, EscapedBytes
<1>3. Offset(s, k) \in Nat /\ Offset(s, k + 1) = Offset(s, k) + Len(e)
  <2> HIDE DEF e
  <2>1. CASE escapes(escapeType, s[k + 1])
        BY <1>1, <1>2, <2>1, OffsetStep
  <2>2. CASE ~escapes(escapeType, s[k + 1])
        BY <1>1, <1>2, <2>2, OffsetStep
  <2> QED
      BY <2>1, <2>2
<1>4. /\ Len(f) = Len(d) + Len(e) /\ Len(d) \in Nat /\ Len(e) \in Nat
      /\ \A i \in 1..Len(d) : f[i] = d[i]
      /\ \A j \in 1..Len(e) : f[Len(d) + j] = e[j]
  <2> HIDE DEF e
  <2> QED
      BY <1>2, Appended
<1>5. Len(d) = Offset(s, k) /\ \A i \in 1..k : HoldsAt(d, s, i)
      BY DEF Encodes
<1>6. HoldsAt(f, s, k + 1)
  <2>1. k + 1 - 1 = k
        BY <1>1
  <2> HIDE DEF f
  <2> QED
      BY <1>4, <1>5, <2>1 DEF HoldsAt
<1>7. ASSUME NEW i \in 1..k PROVE HoldsAt(f, s, i)
  <2> DEFINE g == Escaped(escapeType, s[i])
  <2>1. i - 1 \in Nat /\ i \in Nat /\ i <= k /\ i - 1 + 1 = i /\ s[i] \in Byte
        BY <1>1
  <2>2. Len(g) = IF escapes(escapeType, s[i]) THEN 3 ELSE 1
        BY <2>1, EscapedBytes
  <2>3. Offset(s, i) = Offset(s, i - 1) + Len(g) /\ Offset(s, i - 1) \in Nat
    <3> HIDE DEF g
    <3>1. /\ Offset(s, i - 1) \in Nat
          /\ escapes(escapeType, s[i]) => Offset(s, i) = Offset(s, i - 1) + 3
          /\ ~escapes(escapeType, s[i]) => Offset(s, i) = Offset(s, i - 1) + 1
      <4>1. /\ Offset(s, i - 1) \in Nat
            /\ escapes(escapeType, s[i - 1 + 1]) =>
                 Offset(s, i - 1 + 1) = Offset(s, i - 1) + 3
            /\ ~escapes(escapeType, s[i - 1 + 1]) =>
                 Offset(s, i - 1 + 1) = Offset(s, i - 1) + 1
            BY <2>1, OffsetStep
      <4> QED
          BY <2>1, <4>1
    <3>2. CASE escapes(escapeType, s[i])
          BY <2>2, <3>1, <3>2
    <3>3. CASE ~escapes(escapeType, s[i])
          BY <2>2, <3>1, <3>3
    <3> QED
        BY <3>2, <3>3
  <2>4. Offset(s, i) <= Len(d)
        BY <1>1, <1>5, <2>1, OffsetMonotone
  <2>5. \A j \in 1..Len(g) : d[Offset(s, i - 1) + j] = g[j]
        BY <1>5 DEF HoldsAt
  <2>6. \A j \in 1..Len(g) : f[Offset(s, i - 1) + j] = g[j]
    <3> SUFFICES ASSUME NEW j \in 1..Len(g) PROVE f[Offset(s, i - 1) + j] = g[j]
        OBVIOUS
    <3> HIDE DEF f, g
    <3>1. Len(g) \in Nat
          BY <2>2
    <3>2. Offset(s, i - 1) + j \in 1..Len(d)
          BY <1>4, <2>3, <2>4, <3>1
    <3> QED
        BY <1>4, <2>5, <3>2
  <2> HIDE DEF f
  <2> QED
      BY <2>6 DEF HoldsAt
<1> HIDE DEF e, f
<1>8. \A i \in 1..(k + 1) : HoldsAt(f, s, i)
  <2>1. \A i \in 1..(k + 1) : i \in 1..k \/ i = k + 1
        BY <1>1
  <2> QED
      BY <1>6, <1>7, <2>1
<1>9. Len(f) = Offset(s, k + 1)
      BY <1>3, <1>4, <1>5
<1>10. Encodes(f, s, k + 1)
      BY <1>8, <1>9 DEF Encodes
<1> QED
    BY <1>10 DEF e, f

(* What is found at the offset of the byte after the first k.              *)
Writes(d, s, k) ==
    /\ Offset(s, k) \in Nat /\ Offset(s, k + 1) <= Len(d)
    /\ escapes(escapeType, s[k + 1]) =>
         /\ Offset(s, k + 1) = Offset(s, k) + 3
         /\ d[Offset(s, k) + 1] = Percent
         /\ d[Offset(s, k) + 2] = hex(s[k + 1] \div 16)
         /\ d[Offset(s, k) + 3] = hex(s[k + 1] % 16)
    /\ ~escapes(escapeType, s[k + 1]) =>
         /\ Offset(s, k + 1) = Offset(s, k) + 1
         /\ d[Offset(s, k) + 1] = s[k + 1]

LEMMA Found ==
    ASSUME NEW d, NEW s \in Seq(Byte), Encodes(d, s, Len(s)), NEW k \in 0..(Len(s) - 1)
    PROVE  Writes(d, s, k)
<1> DEFINE o == Offset(s, k)
           b == s[k + 1]
           e == Escaped(escapeType, b)
<1>1. /\ k \in Nat /\ k + 1 \in 1..Len(s) /\ b \in Byte
      /\ Len(s) \in Nat /\ k + 1 <= Len(s) /\ k + 1 - 1 = k
      OBVIOUS
<1>2. \A j \in 1..Len(e) : d[o + j] = e[j]
      BY <1>1 DEF Encodes, HoldsAt
<1>3. /\ escapes(escapeType, b) =>
           /\ Len(e) = 3
           /\ e[1] = Percent /\ e[2] = hex(b \div 16) /\ e[3] = hex(b % 16)
      /\ ~escapes(escapeType, b) => Len(e) = 1 /\ e[1] = b
      BY <1>1, EscapedPlaces
<1>4. /\ o \in Nat
      /\ escapes(escapeType, b) => Offset(s, k + 1) = o + 3
      /\ ~escapes(escapeType, b) => Offset(s, k + 1) = o + 1
      BY <1>1, OffsetStep
<1>5. Offset(s, k + 1) <= Len(d)
      BY <1>1, OffsetMonotone DEF Encodes
<1> HIDE DEF o, b, e
<1>6. CASE escapes(escapeType, b)
  <2>1. /\ Len(e) = 3 /\ Offset(s, k + 1) = o + 3
        /\ e[1] = Percent /\ e[2] = hex(b \div 16) /\ e[3] = hex(b % 16)
        BY <1>3, <1>4, <1>6, Zenon
  <2>2. d[o + 1] = e[1] /\ d[o + 2] = e[2] /\ d[o + 3] = e[3]
        BY <1>2, <2>1
  <2>3. /\ d[o + 1] = Percent /\ d[o + 2] = hex(b \div 16)
        /\ d[o + 3] = hex(b % 16)
        BY <2>1, <2>2
  <2> QED
      BY <1>4, <1>5, <1>6, <2>1, <2>3, Zenon DEF Writes, o, b
<1>7. CASE ~escapes(escapeType, b)
  <2>1. Len(e) = 1 /\ e[1] = b /\ Offset(s, k + 1) = o + 1
        BY <1>3, <1>4, <1>7, Zenon
  <2>2. d[o + 1] = b
        BY <1>2, <2>1
  <2> QED
      BY <1>4, <1>5, <1>7, <2>1, <2>2, Zenon DEF Writes, o, b
<1> QED
    BY <1>6, <1>7

(* Without a question mark all of a string is touched, otherwise what ends *)
(* with the first one.                                                     *)
LEMMA NoQuestionMark ==
    ASSUME NEW s \in Seq(Byte), \A i \in 1..Len(s) : s[i] # Question
    PROVE  UpToQuestion(s) = s
    BY DEF UpToQuestion, SelectInSeq

LEMMA FirstQuestionMark ==
    ASSUME NEW s \in Seq(Byte), NEW k \in 1..Len(s), s[k] = Question,
           \A i \in 1..(k - 1) : s[i] # Question
    PROVE  UpToQuestion(s) = SubSeq(s, 1, k)
<1> DEFINE marks == {i \in 1..Len(s) : s[i] = Question}
<1>1. k \in marks /\ (\A j \in marks : k <= j) /\ marks # {} /\ k # 0
      OBVIOUS
<1>2. Min(marks) = k
      BY <1>1 DEF Min
<1>3. SelectInSeq(s, LAMBDA b : b = Question) = k
      BY <1>1, <1>2 DEF SelectInSeq
<1> QED
    BY <1>1, <1>3 DEF UpToQuestion

(* k bytes have been decoded, none of them a question mark, and the        *)
(* quotation of the next one is being read.                                *)
Undoing(k) ==
    /\ dst = SubSeq(plain, 1, k)
    /\ \A i \in 1..k : plain[i] # Question
    /\ state = "usual" => pos = Offset(plain, k)
    /\ state # "usual" => k < Len(plain) /\ escapes(escapeType, plain[k + 1])
    /\ state = "quoted" => pos = Offset(plain, k) + 1
    /\ state = "quoted_second" =>
         pos = Offset(plain, k) + 2 /\ decoded = plain[k + 1] \div 16

(* What was escaped with one of the other tables is unescaped completely.  *)
Undoes == returned > 0 /\ unescapeType = "URI" /\ escapeType # "REFRESH"

RoundTripInv ==
    /\ phase = "escape" => Encodes(dst, src, pos)
    /\ phase = "escaped" => Encodes(dst, src, Len(src))
    /\ phase = "unescape" /\ Undoes =>
         /\ Encodes(src, plain, Len(plain))
         /\ \E k \in 0..Len(plain) : Undoing(k)
    /\ phase = "done" /\ Undoes => dst = UpToQuestion(plain)

(* The next byte of the plain string is written.                           *)
LEMMA OneByteMore ==
    ASSUME NEW s \in Seq(Byte), NEW k \in 0..(Len(s) - 1)
    PROVE  SubSeq(s, 1, k + 1) = SubSeq(s, 1, k) \o <<s[k + 1]>>
<1>1. 1 \in 1..Len(s) /\ k + 1 \in 1..Len(s) /\ k + 1 - 1 = k
      OBVIOUS
<1>2. SubSeq(s, 1, k + 1) = SubSeq(s, 1, k + 1 - 1) \o <<s[k + 1]>>
      BY <1>1, SubSeqRecursiveSecond
<1> QED
    BY <1>1, <1>2

(* After a byte of the plain string: the decoder stops at a question mark, *)
(* and goes on otherwise.                                                  *)
LEMMA ByteUndone ==
    ASSUME plain \in Seq(Byte), plain' = plain, escapeType' = escapeType,
           NEW k \in 0..(Len(plain) - 1), Undoing(k),
           dst' = dst \o <<plain[k + 1]>>,
           state' = "usual", pos' = Offset(plain, k + 1), EndsAt(plain[k + 1])
    PROVE  /\ phase' = "done" => dst' = UpToQuestion(plain)
           /\ phase' = "unescape" => Undoing(k + 1)'
<1>1. dst' = SubSeq(plain, 1, k + 1)
      BY OneByteMore DEF Undoing
<1>2. \A i \in 1..k : plain[i] # Question
      BY DEF Undoing
<1>3. CASE plain[k + 1] = Question
  <2>1. phase' = "done"
        BY <1>3 DEF EndsAt
  <2>2. k + 1 \in 1..Len(plain) /\ k + 1 - 1 = k
        OBVIOUS
  <2>3. UpToQuestion(plain) = SubSeq(plain, 1, k + 1)
        BY <1>2, <1>3, <2>2, FirstQuestionMark
  <2> QED
      BY <1>1, <2>1, <2>3
<1>4. CASE plain[k + 1] # Question
  <2>1. phase' = "unescape"
        BY <1>4 DEF EndsAt
  <2>2. \A i \in 1..(k + 1) : i \in 1..k \/ i = k + 1
        OBVIOUS
  <2>3. \A i \in 1..(k + 1) : plain'[i] # Question
        BY <1>2, <1>4, <2>2
  <2>4. Offset(plain, k + 1)' = Offset(plain, k + 1)
        BY DEF Offset, EscapedIn
  <2>5. Undoing(k + 1)'
    <3>1. /\ dst' = SubSeq(plain', 1, k + 1) /\ state' = "usual"
          /\ pos' = Offset(plain, k + 1)'
          BY <1>1, <2>4
    <3> QED
        BY <2>3, <3>1, Zenon DEF Undoing
  <2> QED
      BY <2>1, <2>5
<1> QED
    BY <1>3, <1>4

(* Escaping writes the bytes at their offsets.                             *)
LEMMA EscapeRoundTrip ==
    ASSUME IInv, RoundTripInv,
           CountByte \/ CountReturns \/ EscapeByte \/ EscapeReturns
    PROVE  RoundTripInv'
<1> USE DEF inputVars
<1>1. CASE CountByte
  <2>1. phase' = "count"
        BY <1>1 DEF CountByte
  <2> QED
      BY <2>1 DEF RoundTripInv
<1>2. CASE CountReturns
  <2>1. /\ phase' = "escape" /\ pos' = 0 /\ dst' = <<>>
        BY <1>2 DEF CountReturns, IInv, Counted
  <2>2. Len(dst') = Offset(src, 0)'
    <3>1. EscapedIn(src, 0)' = {}
          BY DEF EscapedIn
    <3> QED
        BY <2>1, <3>1, FS_EmptySet DEF Offset
  <2>3. Encodes(dst, src, pos)'
        BY <2>1, <2>2 DEF Encodes
  <2> QED
      BY <2>1, <2>3 DEF RoundTripInv
<1>3. CASE EscapeByte
  <2>1. /\ phase = "escape" /\ phase' = "escape" /\ pos' = pos + 1
        /\ escapeType' = escapeType /\ src' = src
        /\ dst' = dst \o Escaped(escapeType, src[pos + 1])
        /\ src \in Seq(Byte) /\ dst \in Seq(Byte)
        /\ pos \in 0..(Len(src) - 1)
        BY <1>3 DEF EscapeByte, IInv, TypeOK, ch
  <2>2. Encodes(dst, src, pos)
        BY <2>1 DEF RoundTripInv
  <2>3. Encodes(dst \o Escaped(escapeType, src[pos + 1]), src, pos + 1)
        BY <2>1, <2>2, EncodesMore
  <2>4. Encodes(dst', src, pos')
        BY <2>1, <2>3
  <2>5. Encodes(dst, src, pos)'
    <3>1. \A k : Offset(src, k)' = Offset(src, k)
          BY <2>1 DEF Offset, EscapedIn
    <3>2. \A i : HoldsAt(dst', src, i) => HoldsAt(dst, src, i)'
          BY <2>1, <3>1 DEF HoldsAt
    <3>3. Len(dst') = Offset(src, pos') /\ \A i \in 1..pos' : HoldsAt(dst', src, i)
          BY <2>4 DEF Encodes
    <3>4. Offset(src, pos)' = Offset(src, pos')
          BY <2>1 DEF Offset, EscapedIn
    <3> QED
        BY <3>2, <3>3, <3>4 DEF Encodes
  <2> QED
      BY <2>1, <2>5 DEF RoundTripInv
<1>4. CASE EscapeReturns
  <2>1. /\ phase = "escape" /\ phase' = "escaped" /\ pos = Len(src)
        /\ escapeType' = escapeType /\ src' = src /\ dst' = dst
        BY <1>4 DEF EscapeReturns
  <2>2. Encodes(dst, src, Len(src))
        BY <2>1 DEF RoundTripInv
  <2>3. Encodes(dst, src, Len(src))'
        BY <2>1, <2>2 DEF Encodes, HoldsAt, Offset, EscapedIn
  <2> QED
      BY <2>1, <2>3 DEF RoundTripInv
<1> QED
    BY <1>1, <1>2, <1>3, <1>4

(* What was escaped is given to the decoder.                               *)
LEMMA BeginRoundTrip ==
    ASSUME IInv, RoundTripInv, UnescapeEscaped
    PROVE  RoundTripInv'
<1>1. /\ phase = "escaped" /\ phase' = "unescape" /\ plain' = src /\ src' = dst
      /\ dst' = <<>> /\ pos' = 0 /\ state' = "usual"
      /\ escapeType' = escapeType /\ src \in Seq(Byte)
      BY DEF UnescapeEscaped, IInv, TypeOK, Lagging
<1>2. Encodes(dst, src, Len(src))
      BY <1>1 DEF RoundTripInv
<1>3. Encodes(src, plain, Len(plain))'
      BY <1>1, <1>2 DEF Encodes, HoldsAt, Offset, EscapedIn
<1>4. Undoing(0)'
  <2>1. pos' = Offset(plain, 0)'
    <3>1. EscapedIn(plain, 0)' = {}
          BY DEF EscapedIn
    <3>2. Offset(plain, 0)' = 0
          BY <3>1, FS_EmptySet DEF Offset
    <3> QED
        BY <1>1, <3>2
  <2>2. dst' = SubSeq(plain', 1, 0)
        BY <1>1, SubSeqEmpty
  <2>3. \A i \in 1..0 : plain'[i] # Question
        OBVIOUS
  <2> QED
      BY <1>1, <2>1, <2>2, <2>3 DEF Undoing
<1>5. 0 \in 0..Len(plain')
      BY <1>1
<1> QED
    BY <1>1, <1>3, <1>4, <1>5 DEF RoundTripInv

(* A step of the decoder within the escaped string.                        *)
LEMMA UnescapeRoundTrip ==
    ASSUME IInv, RoundTripInv, phase = "unescape", Undoes,
           unescapeUsual \/ unescapeQuoted \/ unescapeQuotedSecond
    PROVE  /\ phase' \in {"unescape", "done"}
           /\ phase' = "done" => dst' = UpToQuestion(plain)
           /\ phase' = "unescape" => \E k \in 0..Len(plain) : Undoing(k)'
<1>1. /\ plain \in Seq(Byte) /\ src \in Seq(Byte) /\ dst \in Seq(Byte)
      /\ pos \in Nat /\ pos < Len(src) /\ pos' = pos + 1
      /\ plain' = plain /\ src' = src /\ escapeType' = escapeType
      /\ escapeType \in EscapeTypes /\ ch = src[pos + 1]
      BY DEF IInv, TypeOK, unescapeUsual, unescapeQuoted, unescapeQuotedSecond,
             Reads, inputVars, ch
<1>2. Encodes(src, plain, Len(plain))
      BY DEF RoundTripInv
<1>3. PICK k \in 0..Len(plain) : Undoing(k)
      BY DEF RoundTripInv
<1>4. k \in 0..(Len(plain) - 1)
  <2>1. ASSUME k = Len(plain) PROVE FALSE
    <3>1. state = "usual" /\ pos = Offset(plain, k)
          BY <1>1, <1>3, <2>1 DEF Undoing, IInv, TypeOK
    <3>2. pos = Len(src)
          BY <1>2, <2>1, <3>1 DEF Encodes
    <3> QED
        BY <1>1, <3>2
  <2> QED
      BY <1>1, <2>1
<1> DEFINE o == Offset(plain, k)
           b == plain[k + 1]
<1>5. /\ o \in Nat /\ Offset(plain, k + 1) <= Len(src)
      /\ escapes(escapeType, b) =>
           /\ Offset(plain, k + 1) = o + 3
           /\ src[o + 1] = Percent
           /\ src[o + 2] = hex(b \div 16)
           /\ src[o + 3] = hex(b % 16)
      /\ ~escapes(escapeType, b) => Offset(plain, k + 1) = o + 1 /\ src[o + 1] = b
  <2>1. Writes(src, plain, k)
        BY <1>1, <1>2, <1>4, Found
  <2> QED
      BY <2>1 DEF Writes
<1>6. /\ b \in Byte /\ b \div 16 \in 0..15 /\ b % 16 \in 0..15
      /\ b = (b \div 16) * 16 + (b % 16)
  <2>1. b \in Byte
        BY <1>1, <1>4
  <2> HIDE DEF b
  <2> QED
      BY <2>1 DEF Byte
<1>7. <<b>> \in Seq(Byte) /\ k \in 0..Len(plain) /\ k + 1 \in 0..Len(plain)
      BY <1>1, <1>4, <1>6
<1>8. Offset(plain, k)' = o
      BY <1>1 DEF Offset, EscapedIn
<1> HIDE DEF o
<1>9. CASE unescapeUsual
  <2>1. state = "usual" /\ pos = o /\ ch = src[o + 1]
        BY <1>1, <1>3, <1>9 DEF Undoing, unescapeUsual, Reads, o
  <2>2. CASE escapes(escapeType, b)
    <3>1. ch = Percent
          BY <1>5, <2>1, <2>2, Zenon
    <3>2. /\ state' = "quoted" /\ dst' = dst /\ phase' = "unescape"
          BY <1>9, <3>1 DEF unescapeUsual, EndsAt, Percent, Question
    <3>3. Undoing(k)'
      <4>1. dst' = SubSeq(plain', 1, k) /\ \A i \in 1..k : plain'[i] # Question
            BY <1>1, <1>3, <3>2 DEF Undoing
      <4>2. pos' = Offset(plain, k)' + 1
            BY <1>1, <1>8, <2>1
      <4>3. k < Len(plain')
            BY <1>1, <1>4
      <4>4. escapes(escapeType, plain[k + 1])'
            BY <1>1, <2>2 DEF escapes
      <4> QED
          BY <3>2, <4>1, <4>2, <4>3, <4>4 DEF Undoing
    <3> QED
        BY <1>7, <3>2, <3>3
  <2>3. CASE ~escapes(escapeType, b)
    <3>1. ch = b /\ Offset(plain, k + 1) = o + 1
          BY <1>5, <2>1, <2>3, Zenon
    <3>2. b # Percent
          BY <1>1, <2>3, PercentEscaped DEF Undoes
    <3>3. /\ state' = "usual" /\ dst' = Append(dst, b) /\ EndsAt(b)
          BY <1>9, <3>1, <3>2 DEF unescapeUsual
    <3>4. dst' = dst \o <<b>>
          BY <1>1, <1>6, <3>3, AppendIsConcat
    <3>5. pos' = Offset(plain, k + 1)
          BY <1>1, <2>1, <3>1
    <3>6. /\ phase' = "done" => dst' = UpToQuestion(plain)
          /\ phase' = "unescape" => Undoing(k + 1)'
          BY <1>1, <1>3, <1>4, <3>3, <3>4, <3>5, ByteUndone
    <3>7. phase' \in {"unescape", "done"}
          BY <3>3 DEF EndsAt
    <3> QED
        BY <1>7, <3>6, <3>7
  <2> QED
      BY <2>2, <2>3
<1>10. CASE unescapeQuoted
  <2>1. state = "quoted" /\ phase' = "unescape"
        BY <1>10 DEF unescapeQuoted, Reads
  <2>2. escapes(escapeType, b) /\ pos = o + 1
        BY <1>3, <2>1 DEF Undoing, o
  <2>3. ch = hex(b \div 16)
    <3>1. src[o + 2] = hex(b \div 16)
          BY <1>5, <2>2, Zenon
    <3>2. pos + 1 = o + 2
          BY <1>5, <2>2
    <3> QED
        BY <1>1, <3>1, <3>2
  <2>4. ch \in HexDigits /\ hexValue(ch) = b \div 16
        BY <1>6, <2>3, DigitsWritten
  <2>5. state' = "quoted_second" /\ decoded' = b \div 16 /\ dst' = dst
        BY <1>10, <2>4 DEF unescapeQuoted
  <2>6. Undoing(k)'
    <3>1. dst' = SubSeq(plain', 1, k) /\ \A i \in 1..k : plain'[i] # Question
          BY <1>1, <1>3, <2>5 DEF Undoing
    <3>2. pos' = Offset(plain, k)' + 2
          BY <1>1, <1>5, <1>8, <2>2
    <3>3. k < Len(plain') /\ decoded' = plain'[k + 1] \div 16
          BY <1>1, <1>4, <2>5
    <3>4. escapes(escapeType, plain[k + 1])'
          BY <1>1, <2>2 DEF escapes
    <3> QED
        BY <2>5, <3>1, <3>2, <3>3, <3>4 DEF Undoing
  <2> QED
      BY <1>7, <2>1, <2>6
<1>11. CASE unescapeQuotedSecond
  <2>1. state = "quoted_second" /\ state' = "usual"
        BY <1>11 DEF unescapeQuotedSecond, Reads
  <2>2. escapes(escapeType, b) /\ pos = o + 2 /\ decoded = b \div 16
        BY <1>3, <2>1 DEF Undoing, o
  <2>3. ch = hex(b % 16) /\ Offset(plain, k + 1) = o + 3
    <3>1. src[o + 3] = hex(b % 16) /\ Offset(plain, k + 1) = o + 3
          BY <1>5, <2>2, Zenon
    <3>2. pos + 1 = o + 3
          BY <1>5, <2>2
    <3> QED
        BY <1>1, <3>1, <3>2
  <2>4. ch \in HexDigits /\ decoded * 16 + hexValue(ch) = b
        BY <1>6, <2>2, <2>3, DigitsWritten
  <2>5. dst' = dst \o Decoded(unescapeType, b) /\ EndsAt(b)
        BY <1>11, <2>4 DEF unescapeQuotedSecond
  <2>6. dst' = dst \o <<b>>
        BY <2>5 DEF Decoded, Undoes
  <2>7. pos' = Offset(plain, k + 1)
        BY <1>1, <1>5, <2>2, <2>3
  <2>8. /\ phase' = "done" => dst' = UpToQuestion(plain)
        /\ phase' = "unescape" => Undoing(k + 1)'
        BY <1>1, <1>3, <1>4, <2>1, <2>5, <2>6, <2>7, ByteUndone
  <2>9. phase' \in {"unescape", "done"}
        BY <2>5 DEF EndsAt
  <2> QED
      BY <1>7, <2>8, <2>9
<1> QED
    BY <1>9, <1>10, <1>11

(* The escaped string ends between two bytes, after the last of them.      *)
LEMMA EndRoundTrip ==
    ASSUME IInv, RoundTripInv, Undoes, UnescapeReturns
    PROVE  dst = UpToQuestion(plain)
<1>1. /\ plain \in Seq(Byte) /\ pos = Len(src) /\ pos \in Nat /\ phase = "unescape"
      /\ state \in {"usual", "quoted", "quoted_second"}
      BY DEF IInv, TypeOK, UnescapeReturns
<1>2. Encodes(src, plain, Len(plain))
      BY <1>1 DEF RoundTripInv
<1>3. PICK k \in 0..Len(plain) : Undoing(k)
      BY <1>1 DEF RoundTripInv
<1>4. ASSUME k # Len(plain) PROVE FALSE
  <2>1. k \in 0..(Len(plain) - 1)
        BY <1>1, <1>4
  <2>2. /\ Offset(plain, k) \in Nat /\ Offset(plain, k + 1) <= Len(src)
        /\ escapes(escapeType, plain[k + 1]) =>
             Offset(plain, k + 1) = Offset(plain, k) + 3
        /\ ~escapes(escapeType, plain[k + 1]) =>
             Offset(plain, k + 1) = Offset(plain, k) + 1
    <3>1. Writes(src, plain, k)
          BY <1>1, <1>2, <2>1, Found
    <3> QED
        BY <3>1 DEF Writes
  <2>3. CASE state = "usual"
    <3>1. pos = Offset(plain, k)
          BY <1>3, <2>3 DEF Undoing
    <3>2. Offset(plain, k + 1) > Offset(plain, k)
      <4>1. CASE escapes(escapeType, plain[k + 1])
            BY <2>2, <4>1
      <4>2. CASE ~escapes(escapeType, plain[k + 1])
            BY <2>2, <4>2
      <4> QED
          BY <4>1, <4>2
    <3> QED
        BY <1>1, <2>2, <3>1, <3>2
  <2>4. CASE state # "usual"
    <3>1. escapes(escapeType, plain[k + 1])
          BY <1>3, <2>4 DEF Undoing
    <3>2. pos = Offset(plain, k) + 1 \/ pos = Offset(plain, k) + 2
          BY <1>1, <1>3, <2>4 DEF Undoing
    <3>3. Offset(plain, k + 1) = Offset(plain, k) + 3
          BY <2>2, <3>1
    <3> QED
        BY <1>1, <2>2, <3>2, <3>3
  <2> QED
      BY <2>3, <2>4
<1>5. dst = SubSeq(plain, 1, Len(plain)) /\ \A i \in 1..Len(plain) : plain[i] # Question
      BY <1>3, <1>4 DEF Undoing
<1>6. dst = plain
      BY <1>1, <1>5, SubSeqFull
<1> QED
    BY <1>1, <1>5, <1>6, NoQuestionMark

(* Every step keeps the string encoded, and undone up to a byte.           *)
LEMMA NextRoundTrip ==
    ASSUME IInv, RoundTripInv, [Next]_vars
    PROVE  RoundTripInv'
<1>1. CASE unescapeUsual \/ unescapeQuoted \/ unescapeQuotedSecond \/ UnescapeReturns
  <2>1. /\ phase = "unescape" /\ phase' \in {"unescape", "done"}
        /\ plain' = plain /\ src' = src /\ escapeType' = escapeType
        /\ Undoes' = Undoes /\ (UnescapeReturns => dst' = dst /\ phase' = "done")
        BY <1>1 DEF unescapeUsual, unescapeQuoted, unescapeQuotedSecond,
                    UnescapeReturns, Reads, EndsAt, inputVars, Undoes
  <2>2. CASE ~Undoes
        BY <2>1, <2>2 DEF RoundTripInv
  <2>3. CASE Undoes
    <3>1. Encodes(src, plain, Len(plain))'
      <4>1. Encodes(src, plain, Len(plain))
            BY <2>1, <2>3 DEF RoundTripInv
      <4>2. escapeType' = escapeType /\ src' = src /\ plain' = plain
            BY <2>1
      <4>3. \A i : HoldsAt(src, plain, i)' = HoldsAt(src, plain, i)
            BY <4>2, Zenon DEF HoldsAt, Offset, EscapedIn
      <4>4. Offset(plain, Len(plain))' = Offset(plain, Len(plain))
            BY <4>2, Zenon DEF Offset, EscapedIn
      <4> QED
          BY <4>1, <4>2, <4>3, <4>4, Zenon DEF Encodes
    <3>2. UpToQuestion(plain)' = UpToQuestion(plain)
          BY <2>1
    <3>3. CASE UnescapeReturns
      <4>1. dst' = UpToQuestion(plain)'
            BY <2>1, <2>3, <3>2, <3>3, EndRoundTrip
      <4> QED
          BY <2>1, <3>3, <4>1 DEF RoundTripInv
    <3>4. CASE unescapeUsual \/ unescapeQuoted \/ unescapeQuotedSecond
      <4>1. /\ phase' = "done" => dst' = UpToQuestion(plain)'
            /\ phase' = "unescape" => \E k \in 0..Len(plain) : Undoing(k)'
            BY <2>1, <2>3, <3>2, <3>4, UnescapeRoundTrip
      <4>2. phase' = "unescape" => \E k \in 0..Len(plain') : Undoing(k)'
            BY <2>1, <4>1
      <4> QED
          BY <2>1, <3>1, <4>1, <4>2 DEF RoundTripInv
    <3> QED
        BY <1>1, <3>3, <3>4
  <2> QED
      BY <2>2, <2>3
<1>2. CASE UNCHANGED vars
  <2>1. /\ UNCHANGED <<phase, plain, src, dst, pos, returned, state, decoded>>
        /\ escapeType' = escapeType /\ unescapeType' = unescapeType
        BY <1>2 DEF vars, inputVars
  <2>2. Undoes' = Undoes /\ UpToQuestion(plain)' = UpToQuestion(plain)
        BY <2>1 DEF Undoes
  <2>3. /\ Encodes(dst, src, pos)' = Encodes(dst, src, pos)
        /\ Encodes(dst, src, Len(src))' = Encodes(dst, src, Len(src))
        /\ Encodes(src, plain, Len(plain))' = Encodes(src, plain, Len(plain))
        BY <2>1 DEF Encodes, HoldsAt, Offset, EscapedIn
  <2>4. \A k \in 0..Len(plain) : Undoing(k)' = Undoing(k)
        BY <2>1 DEF Undoing, Offset, EscapedIn
  <2> QED
      BY <2>1, <2>2, <2>3, <2>4 DEF RoundTripInv
<1> QED
    BY <1>1, <1>2, EscapeRoundTrip, BeginRoundTrip DEF Next

(* Decoding undoes encoding, up to the first question mark, for every      *)
(* table that escapes the percent sign (example_uri_encode,                *)
(* example_uri_decode).                                                    *)
THEOREM DecodingUndoesEncoding == Spec => []RoundTrip
<1>1. Init => RoundTripInv
  <2>1. Init => phase \in {"count", "unescape"} /\ ~Undoes
        BY DEF Init, Undoes
  <2> QED
      BY <2>1 DEF RoundTripInv
<1>2. IInv /\ RoundTripInv /\ [Next]_vars => RoundTripInv'
      BY NextRoundTrip
<1>3. RoundTripInv => RoundTrip
      BY DEF RoundTripInv, RoundTrip, Undoes
<1> QED
    BY <1>1, <1>2, <1>3, Inductive, PTL DEF Spec
=============================================================================
