-------------------------------- MODULE Text --------------------------------
(***************************************************************************)
(* The pure functions of ngx_string.c: comparing, reading numbers, base64, *)
(* UTF-8, escaping, and the stable sort.  A byte is a number, a string the *)
(* sequence of its bytes; what ends a string in C is At's zero behind it.  *)
(***************************************************************************)
EXTENDS Integers, Sequences, SequencesExt, FiniteSetsExt

CONSTANTS MaxInt,   \* NGX_MAX_INT_T_VALUE, 2147483647 whatever ngx_int_t holds
          MaxWide   \* NGX_MAX_SIZE_T_VALUE and those of off_t and time_t, 2^63 - 1

ASSUME ValueAssumption == MaxInt \in Nat /\ MaxInt % 16 = 15 /\ MaxWide \in Nat

NGX_ERROR == -1

At(s, i) == IF i \in DOMAIN s THEN s[i] ELSE 0
IsDigit(c) == c \in 48..57
IsUpper(c) == c \in 65..90
IsLower(c) == c \in 97..122
ngx_tolower(c) == IF IsUpper(c) THEN c + 32 ELSE c
ngx_toupper(c) == IF IsLower(c) THEN c - 32 ELSE c

\* c | 0x20
WithBit5(c) == IF (c \div 32) % 2 = 0 THEN c + 32 ELSE c

\* The value of a hexadecimal digit in either case, NGX_ERROR for other bytes.
HexValue(c) == IF IsDigit(c) THEN c - 48
               ELSE IF WithBit5(c) \in 97..102 THEN WithBit5(c) - 87 ELSE NGX_ERROR

-----------------------------------------------------------------------------
(* Comparing.  The result's sign tells the order.                          *)

\* Positions among the first n at which s and t differ once Fold is applied.
Differ(s, t, n, Fold(_)) == {i \in 1..n : Fold(At(s, i)) # Fold(At(t, i))}

LongerLen(s, t) == Max({Len(s), Len(t)})
Same(c) == c

\* Neither string has a zero before its end, so the loop ends where they
\* differ, or where both have ended.
ngx_strncasecmp(s, t, n) ==
    LET d == Differ(s, t, n, ngx_tolower)
    IN IF d = {} THEN 0
       ELSE ngx_tolower(At(s, Min(d))) - ngx_tolower(At(t, Min(d)))

ngx_strcasecmp(s, t) == ngx_strncasecmp(s, t, LongerLen(s, t))

\* From the end, for strings of n bytes at least.
ngx_rstrncmp(s, t, n) ==
    LET d == Differ(s, t, n, Same)
    IN IF d = {} THEN 0 ELSE s[Max(d)] - t[Max(d)]

ngx_rstrncasecmp(s, t, n) ==
    LET d == Differ(s, t, n, ngx_toupper)
    IN IF d = {} THEN 0 ELSE ngx_toupper(s[Max(d)]) - ngx_toupper(t[Max(d)])

\* memcmp over the shorter length, then the shorter one first.
ngx_memn2cmp(s, t) ==
    LET n == Min({Len(s), Len(t)})
        d == Differ(s, t, n, Same)
    IN IF d # {} THEN s[Min(d)] - t[Min(d)]
       ELSE IF Len(s) = Len(t) THEN 0
       ELSE IF Len(s) < Len(t) THEN -1 ELSE 1

\* Fault: dots are not moved to the front.
dns_strcmp_bytes(s, t) == ngx_strcasecmp(s, t)

ngx_dns_strcmp(s, t) ==
    LET d == Differ(s, t, LongerLen(s, t), ngx_tolower)
        Rank(c) == IF c = 46 THEN 32 ELSE ngx_tolower(c)
    IN IF d = {} THEN 0 ELSE Rank(At(s, Min(d))) - Rank(At(t, Min(d)))

\* Built without NGX_HAVE_CASELESS_FILESYSTEM.
ngx_filename_cmp(s, t, n) ==
    LET d == Differ(s, t, n, Same)
        c == At(s, Min(d))
        e == At(t, Min(d))
        Rank(b) == IF b = 47 THEN 0 ELSE b
    IN IF d = {} THEN 0
       ELSE IF c = 0 \/ e = 0 THEN c - e
       ELSE Rank(c) - Rank(e)

\* One round of the insertion sort, with cmp a function of two elements: p goes in
\* front of the elements at the end of the sorted part that are larger.
Inserted(cmp, sorted, p) ==
    LET stay == {i \in DOMAIN sorted : cmp[sorted[i], p] <= 0}
        at   == IF stay = {} THEN 1 ELSE Max(stay) + 1
    IN InsertAt(sorted, at, p)

\* Without the memory for one element base stays as it is.
ngx_sort(base, cmp, memory) ==
    IF memory THEN FoldLeft(LAMBDA sorted, p : Inserted(cmp, sorted, p), <<>>, base) ELSE base

-----------------------------------------------------------------------------
(* Numbers.  Every step refuses a digit that would pass the limit max.     *)

\* Fault: the last digit of the limit is not looked at.
NextWithoutLimit(value, d, max) ==
    IF value = NGX_ERROR \/ value > max \div 10 THEN NGX_ERROR ELSE value * 10 + d

NextValue(value, d, max) ==
    IF value = NGX_ERROR \/ value > max \div 10 \/ (value = max \div 10 /\ d > max % 10)
    THEN NGX_ERROR ELSE value * 10 + d

\* One loop, of which the source has four copies.
Decimal(line, max) ==
    IF line = <<>> THEN NGX_ERROR
    ELSE FoldLeft(LAMBDA v, c : IF IsDigit(c) THEN NextValue(v, c - 48, max) ELSE NGX_ERROR,
                  0, line)

ngx_atoi(line)  == Decimal(line, MaxInt)
ngx_atosz(line) == Decimal(line, MaxWide)
ngx_atoof(line) == Decimal(line, MaxWide)
ngx_atotm(line) == Decimal(line, MaxWide)

\* A number with up to point decimals, in units of the last of them.
ngx_atofp(line, point) ==
    LET Refuse(s) == [s EXCEPT !.value = NGX_ERROR]
        Take(s, c) ==
            IF s.value = NGX_ERROR \/ s.point = 0 THEN Refuse(s)
            ELSE IF c = 46 THEN IF s.dot = 1 THEN Refuse(s) ELSE [s EXCEPT !.dot = 1]
            ELSE IF ~IsDigit(c) THEN Refuse(s)
            ELSE [s EXCEPT !.value = NextValue(s.value, c - 48, MaxInt), !.point = @ - s.dot]
        read == FoldLeft(Take, [value |-> 0, dot |-> 0, point |-> point], line)
    IN IF line = <<>> THEN NGX_ERROR
       ELSE FoldLeft(LAMBDA v, k : IF v = NGX_ERROR \/ v > MaxInt \div 10
                                  THEN NGX_ERROR ELSE v * 10,
                     read.value, [k \in 1..read.point |-> k])

\* The value may grow by any digit while it is at most a sixteenth.
ngx_hextoi(line) ==
    LET Take(v, c) == IF v = NGX_ERROR \/ v > MaxInt \div 16 \/ HexValue(c) = NGX_ERROR
                      THEN NGX_ERROR ELSE v * 16 + HexValue(c)
    IN IF line = <<>> THEN NGX_ERROR ELSE FoldLeft(Take, 0, line)

-----------------------------------------------------------------------------
(* Base64.                                                                 *)

\* The 62 letters and digits, and the two bytes in which the alphabets differ.
Basis(last) == [k \in 1..26 |-> 64 + k] \o [k \in 1..26 |-> 96 + k]
                   \o [k \in 1..10 |-> 47 + k] \o last
basis64 == Basis(<<43, 47>>)
basis64url == Basis(<<45, 95>>)
Equals == 61

\* The sextets of a group of one, two or three bytes.
Sextets(b) == CASE Len(b) = 1 -> <<b[1] \div 4, (b[1] % 4) * 16>>
                [] Len(b) = 2 -> <<b[1] \div 4, (b[1] % 4) * 16 + b[2] \div 16,
                                   (b[2] % 16) * 4>>
                [] Len(b) = 3 -> <<b[1] \div 4, (b[1] % 4) * 16 + b[2] \div 16,
                                   (b[2] % 16) * 4 + b[3] \div 64, b[3] % 64>>

\* s cut into groups of n, the last of which may be shorter.
Groups(s, n) == [g \in 1..((Len(s) + n - 1) \div n) |->
                    SubSeq(s, n * (g - 1) + 1, Min({n * g, Len(s)}))]

ngx_encode_base64_internal(src, basis, padding) ==
    LET Letters(b) == [k \in DOMAIN Sextets(b) |-> basis[Sextets(b)[k] + 1]]
        Padded(b)  == Letters(b) \o IF padding THEN [k \in 1..(3 - Len(b)) |-> Equals] ELSE <<>>
    IN FlattenSeq([g \in DOMAIN Groups(src, 3) |-> Padded(Groups(src, 3)[g])])

ngx_encode_base64(src) == ngx_encode_base64_internal(src, basis64, TRUE)
ngx_encode_base64url(src) == ngx_encode_base64_internal(src, basis64url, FALSE)

\* The decoding table: 77 for what is not in the alphabet.
Sextet(c, basis) == LET at == {k \in 1..64 : basis[k] = c}
                    IN IF at = {} THEN 77 ELSE Min(at) - 1

\* Bytes of a group of two to four letters.
Octets(v) == SubSeq(<<(v[1] * 4 + v[2] \div 16) % 256,
                      IF Len(v) > 2 THEN (v[2] * 16 + v[3] \div 4) % 256 ELSE 0,
                      IF Len(v) > 3 THEN (v[3] * 64 + v[4]) % 256 ELSE 0>>, 1, Len(v) - 1)

\* Letters up to the first =, which must all be in the alphabet.
ngx_decode_base64_internal(src, basis) ==
    LET ends == {i \in DOMAIN src : src[i] = Equals}
        len  == IF ends = {} THEN Len(src) ELSE Min(ends) - 1
        v    == [i \in 1..len |-> Sextet(src[i], basis)]
    IN IF (\E i \in 1..len : v[i] = 77) \/ len % 4 = 1
       THEN [rc |-> NGX_ERROR, dst |-> <<>>]
       ELSE [rc |-> 0,
             dst |-> FlattenSeq([g \in DOMAIN Groups(v, 4) |-> Octets(Groups(v, 4)[g])])]

ngx_decode_base64(src) == ngx_decode_base64_internal(src, basis64)
ngx_decode_base64url(src) == ngx_decode_base64_internal(src, basis64url)

ngx_base64_encoded_length(len) == ((len + 2) \div 3) * 4
ngx_base64_decoded_length(len) == ((len + 3) \div 4) * 3

-----------------------------------------------------------------------------
(* UTF-8.                                                                  *)

LastChar == 1114111  \* 0x10ffff

\* 0xfffffffe and 0xffffffff in the code: above any value of four bytes.
Incomplete == 2097152
DecodeError == 2097153

\* The code point that starts with s[1], a byte from 0x80 on, and the bytes
\* consumed.  Any byte from 0x80 on continues; 0xf8 to 0xff lead like 0xf0.
ngx_utf8_decode(s) ==
    LET lead == s[1]
        form == IF lead >= 240 THEN [len |-> 3, bits |-> lead % 8, valid |-> 65535]
                ELSE IF lead >= 224 THEN [len |-> 2, bits |-> lead % 16, valid |-> 2047]
                ELSE [len |-> 1, bits |-> lead % 32, valid |-> 127]
        last == form.len + 1
        ascii == {i \in 2..last : s[i] < 128}
        u == FoldLeft(LAMBDA v, c : v * 64 + (c % 64), form.bits, SubSeq(s, 2, last))
    IN IF lead < 194           THEN [char |-> DecodeError, used |-> 1]
       ELSE IF Len(s) < last   THEN [char |-> Incomplete,  used |-> 0]
       ELSE IF ascii # {}      THEN [char |-> DecodeError, used |-> Min(ascii)]
       ELSE IF u > form.valid  THEN [char |-> u,           used |-> last]
       ELSE [char |-> DecodeError, used |-> last]

From(s, i) == SubSeq(s, i, Len(s))

\* Characters, or the number of bytes when one is invalid.
ngx_utf8_length(s) ==
    LET count[i \in 1..(Len(s) + 1)] ==  \* from byte i on, -1 when invalid
          LET d == IF s[i] < 128 THEN [char |-> s[i], used |-> 1]
                   ELSE ngx_utf8_decode(From(s, i))
          IN IF i > Len(s) THEN 0
             ELSE IF d.char > LastChar \/ count[i + d.used] = -1 THEN -1
             ELSE 1 + count[i + d.used]
    IN IF count[1] = -1 THEN Len(s) ELSE count[1]

\* Fault: n counts bytes.
utf8_cpystrn_bytes(s, n) == SubSeq(s, 1, Min({n - 1, Len(s)}))

\* What is written in front of the zero: fewer than n characters, up to the
\* first zero or invalid one.
ngx_utf8_cpystrn(s, n) ==
    LET end[i \in 1..(Len(s) + 1), m \in 0..n] ==  \* first byte not copied
          LET d == IF s[i] < 128 THEN [char |-> s[i], used |-> 1]
                   ELSE ngx_utf8_decode(From(s, i))
          IN IF m <= 1 \/ At(s, i) = 0 \/ d.char > LastChar THEN i
             ELSE end[i + d.used, m - 1]
    IN SubSeq(s, 1, end[1, n] - 1)

-----------------------------------------------------------------------------
(* Escaping.                                                               *)

Percent == 37
Question == 63
Controls == 0..31
AlphaNumeric == {c \in 0..127 : IsDigit(c) \/ IsUpper(c) \/ IsLower(c)}

\* The bytes that the bit map of each type marks.
Escape == [uri           |-> Controls \cup {32, 35, Percent, Question} \cup 127..255,
           args          |-> Controls \cup {32, 35, Percent, 38, 43, 59, Question}
                                \cup 127..255,
           uri_component |-> (0..255) \ (AlphaNumeric \cup {45, 46, 95, 126}),
           html          |-> Controls \cup {32, 34, 35, Percent, 39} \cup 127..255,
           refresh       |-> Controls \cup {32, 34, 39} \cup 127..255,
           memcached     |-> Controls \cup {32, Percent}]

HexDigit(v) == IF v < 10 THEN 48 + v ELSE 55 + v
Quoted(c) == <<Percent, HexDigit(c \div 16), HexDigit(c % 16)>>

\* With dst NULL: how many bytes are to be escaped.
ngx_escape_uri_count(src, type) == Len(SelectSeq(src, LAMBDA c : c \in Escape[type]))

ngx_escape_uri(src, type) ==
    FlattenSeq([i \in DOMAIN src |->
        IF src[i] \in Escape[type] THEN Quoted(src[i]) ELSE <<src[i]>>])

\* Fault: the quoted byte is compared before its second digit is looked at.
StopsAtAnyByte(m, c) == \/ m.state = "usual" /\ c = Question
                        \/ m.state = "quoted_second" /\ m.decoded * 16 + HexValue(c) = Question

\* c is a ? as it stands, or the second digit of one, which is a letter.
StopsAt(m, c) == \/ m.state = "usual" /\ c = Question
                 \/ m.state = "quoted_second" /\ HexValue(c) > 9
                    /\ m.decoded * 16 + HexValue(c) = Question

\* One step of the machine that reads byte by byte: dst is what is written, old
\* the byte before c, used how many have been read.  Behind %, a byte that is no
\* digit is written; behind % and one digit it is dropped with them.
Unescaped(m, c, flag) ==
    LET read == [m EXCEPT !.used = @ + 1, !.old = c]
        Write(b, next) == [read EXCEPT !.dst = @ \o b, !.state = next]
        byte == m.decoded * 16 + HexValue(c)
    IN  IF m.state = "done" THEN m
        ELSE IF StopsAt(m, c) /\ flag # "none" THEN Write(<<Question>>, "done")
        ELSE IF m.state = "usual"
        THEN IF c = Percent THEN Write(<<>>, "quoted") ELSE Write(<<c>>, "usual")
        ELSE IF m.state = "quoted"
        THEN IF HexValue(c) = NGX_ERROR THEN Write(<<c>>, "usual")
             ELSE [Write(<<>>, "quoted_second") EXCEPT !.decoded = HexValue(c)]
        ELSE IF HexValue(c) = NGX_ERROR THEN Write(<<>>, "usual")
        ELSE IF flag = "redirect" /\ byte \notin 38..126
        THEN Write(<<Percent, m.old, c>>, "usual")
        ELSE Write(<<byte>>, "usual")

\* flag: none, uri (stop behind ?) or redirect (keep what is not printable).
ngx_unescape_uri(src, flag) ==
    LET end == FoldLeft(LAMBDA m, c : Unescaped(m, c, flag),
                        [dst |-> <<>>, state |-> "usual", decoded |-> 0,
                         old |-> 0, used |-> 0], src)
    IN [dst |-> end.dst, src |-> From(src, end.used + 1)]

Lt == 60
Gt == 62
Amp == 38
Quote == 34
Backslash == 92

\* Two passes each: with dst NULL the bytes to be added, else what is written.
ngx_escape_html_count(src) ==
    LET Extra(c) == IF c \in {Lt, Gt} THEN 3 ELSE IF c = Amp THEN 4 ELSE IF c = Quote THEN 5 ELSE 0
    IN FoldLeft(LAMBDA len, c : len + Extra(c), 0, src)

ngx_escape_html(src) ==
    LET Entity(c) == CASE c = Lt    -> <<Amp, 108, 116, 59>>
                       [] c = Gt    -> <<Amp, 103, 116, 59>>
                       [] c = Amp   -> <<Amp, 97, 109, 112, 59>>
                       [] c = Quote -> <<Amp, 113, 117, 111, 116, 59>>
                       [] OTHER     -> <<c>>
    IN FlattenSeq([i \in DOMAIN src |-> Entity(src[i])])

\* \n, \r, \t, \b and \f, and the letters that stand for them.
Short == {10, 13, 9, 8, 12}
ShortFor(c) == CASE c = 10 -> 110 [] c = 13 -> 114 [] c = 9 -> 116 [] c = 8 -> 98 [] c = 12 -> 102

\* Fault: the first pass takes no control for a short one.
escape_json_count_long(src) ==
    LET Extra(c) == IF c \in {Backslash, Quote} THEN 1 ELSE IF c <= 31 THEN 5 ELSE 0
    IN FoldLeft(LAMBDA len, c : len + Extra(c), 0, src)

ngx_escape_json_count(src) ==
    LET Extra(c) == IF c \in {Backslash, Quote} \cup Short THEN 1 ELSE IF c <= 31 THEN 5 ELSE 0
    IN FoldLeft(LAMBDA len, c : len + Extra(c), 0, src)

ngx_escape_json(src) ==
    LET Coded(c) == IF c \in {Backslash, Quote} THEN <<Backslash, c>>
                    ELSE IF c > 31 THEN <<c>>
                    ELSE IF c \in Short THEN <<Backslash, ShortFor(c)>>
                    ELSE <<Backslash, 117, 48, 48, 48 + c \div 16, HexDigit(c % 16)>>
    IN FlattenSeq([i \in DOMAIN src |-> Coded(src[i])])
=============================================================================
