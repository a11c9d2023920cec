------------------------------ MODULE UriCodec ------------------------------
(***************************************************************************)
(* The URI utilities (protocol_examples_utils.c of                         *)
(* protocol_examples_common): ngx_escape_uri and ngx_unescape_uri, which   *)
(* example_uri_encode and example_uri_decode call with URI_COMPONENT and   *)
(* URI.  One step is one iteration of a loop.  A caller counts what is to  *)
(* be escaped (dst is NULL), escapes it, and unescapes the result; or it   *)
(* unescapes a string of its own.  Bytes are numbers.                      *)
(***************************************************************************)
EXTENDS Integers, SequencesExt

CONSTANTS
    Bytes,        \* the bytes of longer strings
    MaxEscape,    \* their length, for a caller that escapes first
    MaxUnescape   \* their length, for a caller that only unescapes

ASSUME BytesAssumption == Bytes \subseteq 0..255
ASSUME MaxAssumption == MaxEscape \in Nat /\ MaxUnescape \in Nat

VARIABLES
    phase,          \* the loop that runs
    escapeType, unescapeType,
    plain,          \* history: the string that was escaped, if any
    src, dst,       \* the input, and what has been written
    pos,            \* bytes of the input that have been read
    n,              \* the count of ngx_escape_uri(NULL, ...)
    returned,       \* what example_uri_encode returned
    state, decoded  \* the state of ngx_unescape_uri

inputVars == <<escapeType, unescapeType, plain, src>>
vars == <<phase, inputVars, dst, pos, n, returned, state, decoded>>

EscapeTypes == {"URI", "ARGS", "URI_COMPONENT", "HTML", "REFRESH",
                "MEMCACHED", "MAIL_AUTH"}
UnescapeTypes == {"URI", "REDIRECT"}
Byte == 0..255
Percent == 37
Question == 63

TypeOK ==
    /\ phase \in {"count", "escape", "escaped", "unescape", "done"}
    /\ escapeType \in EscapeTypes
    /\ unescapeType \in UnescapeTypes
    /\ plain \in Seq(Byte)
    /\ src \in Seq(Byte)
    /\ dst \in Seq(Byte)
    /\ pos \in 0..Len(src)
    /\ n \in Nat
    /\ returned \in Nat
    /\ state \in {"usual", "quoted", "quoted_second"}
    /\ decoded \in 0..15

(* Every single byte is tried, and every short string over Bytes.          *)
Strings(max) == BoundedSeq(Bytes, max) \cup [1..1 -> Byte]

Init ==
    /\ escapeType \in EscapeTypes
    /\ unescapeType \in UnescapeTypes
    /\ plain = <<>>
    /\ \/ phase = "count" /\ src \in Strings(MaxEscape)
       \/ phase = "unescape" /\ src \in Strings(MaxUnescape)
    /\ dst = <<>>
    /\ pos = 0
    /\ n = 0
    /\ returned = 0
    /\ state = "usual"
    /\ decoded = 0

ch == src[pos + 1]

-----------------------------------------------------------------------------
(* ngx_escape_uri.                                                         *)

(* Words 1 to 3 of the tables, by halves, the lower half first.            *)
Halves ==
    LET memcached == <<33, 0, 0, 0, 0, 0>> IN
    [ URI           |-> <<45, 53248, 0, 20480, 1, 47104>>,
      ARGS          |-> <<2157, 55296, 0, 20480, 1, 47104>>,
      URI_COMPONENT |-> <<40959, 64512, 1, 30720, 1, 47104>>,
      HTML          |-> <<173, 20480, 0, 20480, 1, 47104>>,
      REFRESH       |-> <<133, 20480, 0, 20480, 1, 55296>>,
      MEMCACHED     |-> memcached,
      MAIL_AUTH     |-> memcached ]

Bit(half, k) == (half \div 2^k) % 2 = 1

(* A broken variant: the bit is taken from the other half of the word.     *)
escapesOtherHalf(t, b) ==
    \/ b < 32
    \/ b \in 32..127 /\ Bit(Halves[t][(7 - (b \div 16)) + 1], b % 16)
    \/ b > 127 /\ t \notin {"MEMCACHED", "MAIL_AUTH"}

(* escape[b >> 5] & (1U << (b & 0x1f)).                                    *)
escapes(t, b) ==
    \/ b < 32
    \/ b \in 32..127 /\ Bit(Halves[t][(b \div 16) - 1], b % 16)
    \/ b > 127 /\ t \notin {"MEMCACHED", "MAIL_AUTH"}

hex(v) == IF v < 10 THEN 48 + v ELSE 55 + v

(* A broken variant: the second digit is lost.                             *)
EscapedOneDigit(t, b) ==
    IF escapes(t, b) THEN <<Percent, hex(b \div 16)>> ELSE <<b>>

Escaped(t, b) ==
    IF escapes(t, b) THEN <<Percent, hex(b \div 16), hex(b % 16)>> ELSE <<b>>

CountByte ==
    /\ phase = "count"
    /\ pos < Len(src)
    /\ n' = IF escapes(escapeType, ch) THEN n + 1 ELSE n
    /\ pos' = pos + 1
    /\ UNCHANGED <<phase, inputVars, dst, returned, state, decoded>>

CountReturns ==
    /\ phase = "count"
    /\ pos = Len(src)
    /\ phase' = "escape"
    /\ pos' = 0
    /\ UNCHANGED <<inputVars, dst, n, returned, state, decoded>>

EscapeByte ==
    /\ phase = "escape"
    /\ pos < Len(src)
    /\ dst' = dst \o Escaped(escapeType, ch)
    /\ pos' = pos + 1
    /\ UNCHANGED <<phase, inputVars, n, returned, state, decoded>>

(* example_uri_encode returns the difference of the two pointers.          *)
EscapeReturns ==
    /\ phase = "escape"
    /\ pos = Len(src)
    /\ phase' = "escaped"
    /\ returned' = Len(dst)
    /\ UNCHANGED <<inputVars, dst, pos, n, state, decoded>>

(* The caller unescapes what was escaped.                                  *)
UnescapeEscaped ==
    /\ phase = "escaped"
    /\ phase' = "unescape"
    /\ plain' = src
    /\ src' = dst
    /\ dst' = <<>>
    /\ pos' = 0
    /\ UNCHANGED <<escapeType, unescapeType, n, returned, state, decoded>>

-----------------------------------------------------------------------------
(* ngx_unescape_uri.                                                       *)

Digits == 48..57
Letters == (65..70) \cup (97..102)
HexDigits == Digits \cup Letters

(* A broken variant: letters count from 11.                                *)
hexValueOffByOne(c) == IF c \in Digits THEN c - 48 ELSE (c % 32) + 10

hexValue(c) == IF c \in Digits THEN c - 48 ELSE (c % 32) + 9

(* One iteration reads a byte.                                             *)
Reads(st) ==
    /\ phase = "unescape"
    /\ pos < Len(src)
    /\ state = st
    /\ pos' = pos + 1
    /\ UNCHANGED <<inputVars, n, returned>>

(* goto done.                                                              *)
EndsAt(b) == phase' = IF b = Question THEN "done" ELSE "unescape"

unescapeUsual ==
    /\ Reads("usual")
    /\ state' = IF ch = Percent THEN "quoted" ELSE "usual"
    /\ dst' = IF ch = Percent THEN dst ELSE Append(dst, ch)
    /\ EndsAt(ch)
    /\ UNCHANGED decoded

(* A broken variant: a byte that cannot be quoted is dropped.              *)
unescapeQuotedDrops ==
    /\ Reads("quoted")
    /\ IF ch \in HexDigits
       THEN state' = "quoted_second" /\ decoded' = hexValue(ch)
       ELSE state' = "usual" /\ UNCHANGED decoded
    /\ UNCHANGED <<phase, dst>>

unescapeQuoted ==
    /\ Reads("quoted")
    /\ \/ /\ ch \in HexDigits
          /\ state' = "quoted_second"
          /\ decoded' = hexValue(ch)
          /\ UNCHANGED dst
       \/ /\ ch \notin HexDigits
          /\ state' = "usual"
          /\ dst' = Append(dst, ch)
          /\ UNCHANGED decoded
    /\ UNCHANGED phase

(* What REDIRECT decodes; it leaves the rest as it was.                    *)
Redirects(b) == b > Percent /\ b < 127

(* A broken variant: without the break, the byte follows its quotation.    *)
DecodedFallsThrough(t, b) ==
    IF t = "URI" \/ b = Question \/ Redirects(b)
    THEN <<b>>
    ELSE <<Percent, src[pos], src[pos + 1], b>>

(* What is written for a quoted byte; the quotation is read up to pos + 1. *)
Decoded(t, b) ==
    IF t = "URI" \/ b = Question \/ Redirects(b)
    THEN <<b>>
    ELSE <<Percent, src[pos], src[pos + 1]>>

(* An invalid second digit is dropped together with the first.             *)
unescapeQuotedSecond ==
    /\ Reads("quoted_second")
    /\ state' = "usual"
    /\ \/ /\ ch \in HexDigits
          /\ LET b == decoded * 16 + hexValue(ch) IN
                /\ dst' = dst \o Decoded(unescapeType, b)
                /\ EndsAt(b)
       \/ ch \notin HexDigits /\ UNCHANGED <<phase, dst>>
    /\ UNCHANGED decoded

(* The loop ends with the input; a quotation that is cut off is dropped.   *)
UnescapeReturns ==
    /\ phase = "unescape"
    /\ pos = Len(src)
    /\ phase' = "done"
    /\ UNCHANGED <<inputVars, dst, pos, n, returned, state, decoded>>

Next ==
    \/ CountByte
    \/ CountReturns
    \/ EscapeByte
    \/ EscapeReturns
    \/ UnescapeEscaped
    \/ unescapeUsual
    \/ unescapeQuoted
    \/ unescapeQuotedSecond
    \/ UnescapeReturns

Spec == Init /\ [][Next]_vars

-----------------------------------------------------------------------------
(* The destination buffers that the header asks for suffice at every       *)
(* iteration: three times what was read for encoding, as much as was read  *)
(* for decoding, which may therefore be done in place.                     *)
BuffersSuffice ==
    /\ phase \in {"escape", "escaped"} => Len(dst) <= 3 * pos
    /\ phase \in {"unescape", "done"} => Len(dst) <= pos

(* The two modes of ngx_escape_uri agree: a buffer of the size computed    *)
(* from its count is filled exactly.                                       *)
CountPredictsSize == phase = "escaped" => Len(dst) = Len(src) + 2 * n

(* The comment on uri_component: nothing but ALPHA, DIGIT, "-", ".", "_",  *)
(* "~" is left, outside the quotations and in them.                        *)
OnlyUnreserved ==
    phase \in {"escape", "escaped"} /\ escapeType = "URI_COMPONENT" =>
        \A i \in 1..Len(dst) :
            \/ dst[i] \in (65..90) \cup (97..122) \cup Digits \cup {45, 46, 95, 126}
            \/ dst[i] = Percent /\ i + 2 <= Len(dst) /\ {dst[i+1], dst[i+2]} \subseteq HexDigits

(* The part of a URI that ngx_unescape_uri touches.                        *)
UpToQuestion(s) ==
    LET q == SelectInSeq(s, LAMBDA b : b = Question)
    IN  IF q = 0 THEN s ELSE SubSeq(s, 1, q)

(* Decoding undoes encoding for every table that quotes the percent sign,  *)
(* up to the first question mark: example_uri_decode stops there even when *)
(* the question mark was quoted, and loses what follows.                   *)
RoundTrip ==
    /\ phase = "done" /\ returned > 0
    /\ unescapeType = "URI" /\ escapeType # "REFRESH"
    => dst = UpToQuestion(plain)

(* The decoding of s from its i-th byte on, by quotations instead of       *)
(* states; rest decodes it from the later bytes on.                        *)
UnescapedFrom(s, t, rest, i) ==
    IF i > Len(s) THEN <<>>
    ELSE IF s[i] # Percent
    THEN <<s[i]>> \o IF s[i] = Question THEN <<>> ELSE rest[i + 1]
    ELSE IF i + 1 > Len(s) THEN <<>>
    ELSE IF s[i + 1] \notin HexDigits
    THEN <<s[i + 1]>> \o rest[i + 2]
    ELSE IF i + 2 > Len(s) \/ s[i + 2] \notin HexDigits
    THEN rest[i + 3]
    ELSE LET b == hexValue(s[i + 1]) * 16 + hexValue(s[i + 2])
         IN  IF b = Question THEN <<b>>
             ELSE IF t = "REDIRECT" /\ ~Redirects(b)
             THEN SubSeq(s, i, i + 2) \o rest[i + 3]
             ELSE <<b>> \o rest[i + 3]

Unescapings(s, t) ==
    LET rest[i \in 1..(Len(s) + 3)] == UnescapedFrom(s, t, rest, i) IN rest

Unescaped(s, t) == Unescapings(s, t)[1]

(* ngx_unescape_uri decodes any input, well formed or not, as its          *)
(* quotations say.                                                         *)
UnescapesQuotations == phase = "done" => dst = Unescaped(src, unescapeType)
=============================================================================
