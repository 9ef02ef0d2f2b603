----------------------------- MODULE AlertText ------------------------------
(***************************************************************************)
(* The texts of an alert that another program parses: a header line, a     *)
(* mail's body, a form field and a line of curl's config file. Rule names  *)
(* and messages are any bytes. A frame of fixed text around them is left   *)
(* out; a header is a sequence of encoded words, or plain bytes.           *)
(***************************************************************************)
EXTENDS Integers, Sequences, SequencesExt

(* core/json_text.cpp: what makes any bytes UTF-8, and a JSON string's     *)
(* escapes written and read. A string is a sequence of bytes, 0 .. 255.    *)

Hex == [d \in 0 .. 15 |-> IF d < 10 THEN 48 + d ELSE 97 + d - 10]

\* The value of a hex digit of either case, or -1.
Digit(b) ==
    CASE b \in 48 .. 57  -> b - 48
      [] b \in 97 .. 102 -> b - 97 + 10
      [] b \in 65 .. 70  -> b - 65 + 10
      [] OTHER           -> -1

hex4(s, at) ==
    LET d == [k \in 0 .. 3 |-> Digit(s[at + k])]
    IN  IF \E k \in 0 .. 3 : d[k] = -1 THEN 65533
        ELSE d[0] * 4096 + d[1] * 256 + d[2] * 16 + d[3]

\* The continuation byte that holds the six bits of code above the low k.
Cont(code, k) == 128 + ((code \div 2^k) % 64)

append_utf8(code) ==
    CASE code < 128                      -> <<code>>
      [] code \in 128 .. 2^11 - 1        -> <<192 + code \div 64, Cont(code, 0)>>
      [] code \in 2^11 .. 2^16 - 1       -> <<224 + code \div 2^12, Cont(code, 6), Cont(code, 0)>>
      [] OTHER -> <<240 + code \div 2^18, Cont(code, 12), Cont(code, 6), Cont(code, 0)>>

\* The length a first byte announces, and the range of the byte after it.

utf8_form(c) ==
    CASE c \in 194 .. 223        -> [n |-> 2, lo |-> 128, hi |-> 191]
      [] c = 224                 -> [n |-> 3, lo |-> 160, hi |-> 191]
      [] c = 237                 -> [n |-> 3, lo |-> 128, hi |-> 159]
      [] c \in 225 .. 239 \ {237} -> [n |-> 3, lo |-> 128, hi |-> 191]
      [] c = 240                 -> [n |-> 4, lo |-> 144, hi |-> 191]
      [] c \in 241 .. 243        -> [n |-> 4, lo |-> 128, hi |-> 191]
      [] c = 244                 -> [n |-> 4, lo |-> 128, hi |-> 143]
      [] OTHER                   -> [n |-> 0, lo |-> 1, hi |-> 0]

utf8_len(s, i) ==
    LET f == utf8_form(s[i])
    IN  IF /\ f.n > 0 /\ i + f.n - 1 <= Len(s)
           /\ s[i + 1] \in f.lo .. f.hi
           /\ \A k \in 2 .. f.n - 1 : s[i + k] \in 128 .. 191
        THEN f.n ELSE 0

\* What a walk over s writes for the character or the byte at i, and how far
\* it steps; `plain` is what it writes for an ASCII byte, `bad` for a byte
\* that is no part of UTF-8.
Walk(s, plain, bad) ==
    LET at[i \in 1 .. Len(s) + 1] ==
            IF i > Len(s) THEN <<>>
            ELSE IF s[i] < 128 THEN plain[s[i]] \o at[i + 1]
            ELSE LET n == utf8_len(s, i)
                 IN  IF n = 0 THEN bad \o at[i + 1]
                     ELSE SubSeq(s, i, i + n - 1) \o at[i + n]
    IN  at[1]

utf8_sanitize(s) == Walk(s, [c \in 0 .. 127 |-> <<c>>], <<239, 191, 189>>)

escape_char(c) ==
    CASE c \in {34, 92} -> <<92, c>>
      [] c = 8          -> <<92, 98>>
      [] c = 12         -> <<92, 102>>
      [] c = 10         -> <<92, 110>>
      [] c = 13         -> <<92, 114>>
      [] c = 9          -> <<92, 116>>
      [] c < 32 /\ c \notin {8, 9, 10, 12, 13} ->
                           <<92, 117, 48, 48, Hex[c \div 16], Hex[c % 16]>>
      [] OTHER          -> <<c>>

json_escape(s) == Walk(s, [c \in 0 .. 127 |-> escape_char(c)], <<92, 117, 102, 102, 102, 100>>)

High(code) == code \in 55296 .. 56319
Low(code)  == code \in 56320 .. 57343

Escaped == [b \in {34, 92, 47, 98, 102, 110, 114, 116} |->
               CASE b = 98  -> 8  [] b = 102 -> 12 [] b = 110 -> 10
                 [] b = 114 -> 13 [] b = 116 -> 9  [] OTHER   -> b]

\* \uXXXX at i: the code point, and the bytes it takes. Two surrogates, high
\* then low, are one character; one alone is U+FFFD.

code_at(s, i) ==
    LET code == hex4(s, i + 2)
        lo   == IF i + 11 <= Len(s) /\ s[i + 6] = 92 /\ s[i + 7] = 117 THEN hex4(s, i + 8) ELSE 0
    IN  CASE High(code) /\ Low(lo) ->
                 [code |-> 65536 + (code - 55296) * 1024 + (lo - 56320), n |-> 12]
          [] (High(code) /\ ~Low(lo)) \/ Low(code) -> [code |-> 65533, n |-> 6]
          [] OTHER -> [code |-> code, n |-> 6]

json_unescape(s) ==
    LET at[i \in 1 .. Len(s) + 1] ==
            CASE i > Len(s) -> <<>>
              [] i <= Len(s) /\ (s[i] # 92 \/ i = Len(s)) -> <<s[i]>> \o at[i + 1]
              [] i < Len(s) /\ s[i] = 92 /\ s[i + 1] = 117 ->
                     IF i + 5 > Len(s) THEN <<92>> \o at[i + 1]
                     ELSE LET u == code_at(s, i) IN append_utf8(u.code) \o at[i + u.n]
              [] OTHER -> LET c == s[i + 1]
                          IN  <<IF c \in DOMAIN Escaped THEN Escaped[c] ELSE c>> \o at[i + 2]
    IN  at[1]

-----------------------------------------------------------------------------
(* Texts of up to MaxEdges bytes at the edges of UTF-8's ranges, and JSON  *)
(* strings of up to MaxItems items, one state a text.                      *)

CONSTANTS MaxEdges, MaxItems

VARIABLE in

\* ASCII, a control character, a quote, a backslash; the continuation bytes
\* and the first bytes on both sides of every limit.
Edges == {9, 31, 34, 92, 97, 127, 128, 143, 144, 159, 160, 191, 193, 194, 224, 237, 240, 244, 245}

Items == {<<97>>, <<92>>, <<92, 110>>, <<92, 47>>, <<92, 120>>, <<92, 117>>,
          <<92, 117, 48, 48, 52, 49>>,        \* backslash u0041
          <<92, 117, 50, 48, 65, 99>>,        \* 20Ac
          <<92, 117, 48, 120, 52, 49>>,       \* 0x41: no hex digit
          <<92, 117, 100, 56, 51, 100>>,      \* d83d, a high surrogate
          <<92, 117, 68, 69, 48, 48>>}        \* DE00, a low one

\* The texts of four bytes are those a first byte of a four-byte form begins.
Texts == UNION {[1 .. n -> Edges] : n \in 0 .. MaxEdges} \cup {<<b>> \o t : b \in {240, 244, 245}, t \in [1 .. 3 -> Edges]}
Lists == UNION {[1 .. n -> Items] : n \in 0 .. MaxItems}

JsonCalls == [kind : {"text"}, s : Texts] \cup [kind : {"json"}, list : Lists]

-----------------------------------------------------------------------------
\* The code point a sequence of two to four bytes would stand for.
Bits(b) == b % 64
Decoded(t) ==
    CASE Len(t) = 2 -> (t[1] % 32) * 64 + Bits(t[2])
      [] Len(t) = 3 -> (t[1] % 16) * 2^12 + Bits(t[2]) * 64 + Bits(t[3])
      [] OTHER      -> (t[1] % 8) * 2^18 + Bits(t[2]) * 2^12 + Bits(t[3]) * 64 + Bits(t[4])
Character(t) ==
    \/ Len(t) = 1 /\ t[1] < 128
    \/ /\ Len(t) \in 2 .. 4
       /\ LET c == Decoded(t)
          IN  c < 1114112 /\ ~High(c) /\ ~Low(c) /\ append_utf8(c) = t
WellFormed(s) ==
    LET ok[i \in 1 .. Len(s) + 1] ==
            \/ i = Len(s) + 1
            \/ \E n \in 1 .. 4 : i + n - 1 <= Len(s) /\ Character(SubSeq(s, i, i + n - 1)) /\ ok[i + n]
    IN  ok[1]

\* utf8_sanitize() accepts by the ranges of the first two bytes exactly what
\* encodes a code point: its result is always UTF-8, and a text that was
\* already is left alone. (A frame or an answer that is not UTF-8 closes the
\* dashboard's socket.)
SanitizeRight ==
    in.kind = "text" =>
        /\ WellFormed(utf8_sanitize(in.s))
        /\ WellFormed(in.s) => utf8_sanitize(in.s) = in.s

\* What json_escape() writes stands inside a JSON string (no quote, no control
\* character, no half escape), and reads back as the text, its broken bytes
\* replaced: a process name survives the way to the page and a suggestion's.
EscapeRight ==
    in.kind = "text" =>
        LET e == json_escape(in.s)
        IN  /\ \A i \in 1 .. Len(e) : e[i] >= 32
            /\ \A i \in 1 .. Len(e) : e[i] = 34 => i > 1 /\ e[i - 1] = 92
            /\ json_unescape(e) = utf8_sanitize(in.s)

\* Escapes read by json_unescape() never make broken UTF-8, and a pair of
\* surrogates is the one character that its sender meant.
UnescapeRight ==
    in.kind = "json" =>
        LET s == FlattenSeq(in.list)
        IN  /\ WellFormed(json_unescape(s))
            /\ s = <<92, 117, 100, 56, 51, 100, 92, 117, 68, 69, 48, 48>> =>
                  json_unescape(s) = <<240, 159, 152, 128>>

-----------------------------------------------------------------------------

CONSTANT kWordBytes   \* bytes of text in an encoded word (45 in the code)

AlertTextAssumption == kWordBytes \in Nat /\ kWordBytes % 3 = 0 /\ kWordBytes >= 6

CR == 13
LF == 10
Control(b) == b < 32 \/ b = 127

header_value(s) == [i \in 1 .. Len(s) |-> IF Control(s[i]) THEN 32 ELSE s[i]]

ascii(s) == \A i \in 1 .. Len(s) : s[i] < 128

\* base64 of n bytes of t from i: digits 0 .. 63, and 64 for the padding.
Base64(t, i, n) ==
    LET b(k) == IF k < n THEN t[i + k] ELSE 0
        four(k) == LET triple == b(k) * 65536 + b(k + 1) * 256 + b(k + 2)
                   IN  <<triple \div 2^18, (triple \div 2^12) % 64,
                         IF k + 1 < n THEN (triple \div 64) % 64 ELSE 64,
                         IF k + 2 < n THEN triple % 64 ELSE 64>>
    IN  FlattenSeq([q \in 1 .. (n + 2) \div 3 |-> four(3 * (q - 1))])

\* The bytes of the word that begins at i: as many as fit, less those of a
\* character that would be split.

\* Faulty form: as many as fit.
word_len_Fixed(t, i) == LET m == Len(t) - i + 1 IN IF m < kWordBytes THEN m ELSE kWordBytes

word_len(t, i) ==
    LET m == Len(t) - i + 1
        n0 == IF m < kWordBytes THEN m ELSE kWordBytes
        Splits(n) == n > 1 /\ i + n <= Len(t) /\ t[i + n] \in 128 .. 191
    IN  CHOOSE n \in 1 .. n0 : ~Splits(n) /\ \A k \in n + 1 .. n0 : Splits(k)

header_text(s) ==
    LET v == header_value(s)
        t == utf8_sanitize(v)
        from[i \in 1 .. Len(t) + 1] ==
            IF i > Len(t) THEN <<>>
            ELSE <<Base64(t, i, word_len(t, i))>> \o from[i + word_len(t, i)]
    IN  IF ascii(v) THEN [words |-> <<>>, plain |-> v]
                    ELSE [words |-> from[1], plain |-> <<>>]

\* The body of a mail: CR LF for every CR, LF and CR LF of the message, and
\* one at the end.

smtp_body(s) ==
    LET t == utf8_sanitize(s)
    IN  FlattenSeq([i \in 1 .. Len(t) |->
            CASE t[i] = CR                           -> <<CR, LF>>
              [] t[i] = LF /\ i > 1 /\ t[i - 1] = CR -> <<>>
              [] t[i] = LF /\ (i = 1 \/ t[i - 1] # CR) -> <<CR, LF>>
              [] OTHER                               -> <<t[i]>>]) \o <<CR, LF>>

HexUpper == [d \in 0 .. 15 |-> IF d < 10 THEN 48 + d ELSE 65 + d - 10]

Unreserved == (65 .. 90) \cup (97 .. 122) \cup (48 .. 57) \cup {45, 95, 46, 126}

url_encode(s) ==
    FlattenSeq([i \in 1 .. Len(s) |->
        CASE s[i] \in Unreserved -> <<s[i]>>
          [] s[i] = 32           -> <<43>>
          [] OTHER               -> <<37, HexUpper[s[i] \div 16], HexUpper[s[i] % 16]>>])

\* The value between the quotes of `key = "value"`, and the quote and line end
\* after it.

config_line(s) ==
    FlattenSeq([i \in 1 .. Len(s) |->
        CASE s[i] \in {92, 34} -> <<92, s[i]>>
          [] s[i] = LF         -> <<92, 110>>
          [] s[i] = CR         -> <<92, 114>>
          [] s[i] = 9          -> <<92, 116>>
          [] OTHER             -> <<s[i]>>]) \o <<34, LF>>

-----------------------------------------------------------------------------
(* Texts put together from characters of one to four bytes, broken bytes,  *)
(* line ends and the characters the formats reserve; and how the programs  *)
(* at the other end read them.                                             *)

CONSTANTS MaxChars, MaxBytes

Chars == {<<97>>, <<195, 169>>, <<226, 130, 172>>, <<240, 159, 152, 128>>, <<128>>, <<10>>}
Special == {13, 10, 9, 32, 34, 37, 43, 46, 92, 97, 110, 200}

NoCall == [kind |-> "none"]
TextInit == in = NoCall
TextNext ==
    \/ /\ in = NoCall
       /\ in' \in [kind : {"header"}, s : {FlattenSeq(l) : l \in UNION {[1 .. n -> Chars] : n \in 0 .. MaxChars}}]
                  \cup [kind : {"bytes"}, s : UNION {[1 .. n -> Special] : n \in 0 .. MaxBytes}]
                  \cup JsonCalls
    \/ in # NoCall /\ in' = NoCall

-----------------------------------------------------------------------------
\* A mail reader's base64.
Unbase64(w) ==
    FlattenSeq([q \in 1 .. Len(w) \div 4 |->
        LET d(k) == LET x == w[4 * (q - 1) + k] IN IF x = 64 THEN 0 ELSE x
            t == d(1) * 2^18 + d(2) * 2^12 + d(3) * 64 + d(4)
            n == IF w[4 * q - 1] = 64 THEN 1 ELSE IF w[4 * q] = 64 THEN 2 ELSE 3
        IN  SubSeq(<<t \div 65536, (t \div 256) % 256, t % 256>>, 1, n)])

\* The Subject and the Title read back as the rule's name, control characters
\* as blanks; each encoded word is UTF-8 by itself, so a reader that shows the
\* words one by one shows no half character, and stays within RFC 2047's 75
\* characters (12 of them the frame, 75 being 12 and the base64 of 45 bytes).
HeaderReadsBack ==
    in.kind = "header" =>
        LET h == header_text(in.s)
        IN  /\ \A i \in 1 .. Len(h.plain) : ~Control(h.plain[i]) /\ h.plain[i] < 128
            /\ h.plain \o FlattenSeq([w \in 1 .. Len(h.words) |-> Unbase64(h.words[w])])
                  = utf8_sanitize(header_value(in.s))
            /\ \A w \in 1 .. Len(h.words) :
                  /\ Len(h.words[w]) \in 1 .. (kWordBytes \div 3) * 4
                  /\ utf8_sanitize(Unbase64(h.words[w])) = Unbase64(h.words[w])

\* The lines of a text whose lines end in CR, LF or CR LF.
Lines(s) ==
    LET from[i \in 1 .. Len(s) + 1] ==
            IF i > Len(s) THEN <<<<>>>>
            ELSE IF s[i] \notin {CR, LF}
            THEN LET r == from[i + 1] IN <<<<s[i]>> \o Head(r)>> \o Tail(r)
            ELSE <<<<>>>> \o from[IF s[i] = CR /\ i < Len(s) /\ s[i + 1] = LF THEN i + 2 ELSE i + 1]
    IN  from[1]

\* A mail's body has no bare CR and no bare LF (a server that ends the message
\* at one would cut it there), and its lines are the message's, the last one
\* ended.
BodyLines ==
    in.kind = "bytes" =>
        LET b == smtp_body(in.s)
        IN  /\ \A i \in 1 .. Len(b) : b[i] = CR => i < Len(b) /\ b[i + 1] = LF
            /\ \A i \in 1 .. Len(b) : b[i] = LF => i > 1 /\ b[i - 1] = CR
            /\ Lines(b) = Lines(utf8_sanitize(in.s)) \o <<<<>>>>

\* A form's reader: '+' is a blank, %XX a byte.
Unform(s) ==
    LET from[i \in 1 .. Len(s) + 1] ==
            CASE i > Len(s)                  -> <<>>
              [] i <= Len(s) /\ s[i] = 43    -> <<32>> \o from[i + 1]
              [] i <= Len(s) /\ s[i] = 37    -> <<Digit(s[i + 1]) * 16 + Digit(s[i + 2])>> \o from[i + 3]
              [] OTHER                       -> <<s[i]>> \o from[i + 1]
    IN  from[1]

\* An SMS says what the rule said: no byte of it is taken for the form's own.
FormReadsBack == in.kind = "bytes" => Unform(url_encode(in.s)) = in.s

\* curl's reader of a quoted value: it ends at the first quote no backslash
\* precedes.
Unquoted(s) ==
    LET from[i \in 1 .. Len(s) + 1] ==
            CASE i > Len(s) \/ (i <= Len(s) /\ s[i] = 34) -> <<>>
              [] i < Len(s) /\ s[i] = 92 ->
                     <<CASE s[i + 1] = 110 -> LF [] s[i + 1] = 114 -> CR
                         [] s[i + 1] = 116 -> 9  [] OTHER -> s[i + 1]>> \o from[i + 2]
              [] OTHER -> <<s[i]>> \o from[i + 1]
    IN  from[1]

\* A URL or a password reaches curl as it was configured, whatever it holds,
\* and its line of the config file stays one line.
ConfigReadsBack ==
    in.kind = "bytes" =>
        LET l == config_line(in.s)
        IN  Unquoted(l) = in.s /\ \A i \in 1 .. Len(l) - 1 : l[i] \notin {CR, LF}
=============================================================================
