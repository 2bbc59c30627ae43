----------------------------- MODULE TextProps -----------------------------
(***************************************************************************)
(* Texts typed byte by byte, and what the functions of module Text promise *)
(* of each of them, against references told without their loops.           *)
(***************************************************************************)
EXTENDS Text

CONSTANTS Subjects,   \* kinds of text: number, code, byte, utf8, name
          Alphabet,   \* bytes that each kind is made of
          MaxLength   \* bound: length of a text of each kind

ASSUME SubjectAssumption ==
    \A k \in Subjects : Alphabet[k] \subseteq 0..255 /\ MaxLength[k] \in Nat

VARIABLES subject, text, other  \* other: what a name is compared with

vars == <<subject, text, other>>

Init == subject \in Subjects /\ text = <<>> /\ other = <<>>

Type(c) == /\ Len(text) < MaxLength[subject]
           /\ text' = Append(text, c)
           /\ UNCHANGED <<subject, other>>

TypeOther(c) == /\ subject = "name" /\ Len(other) < MaxLength[subject]
                /\ other' = Append(other, c)
                /\ UNCHANGED <<subject, text>>

Next == \E c \in Alphabet[subject] : Type(c) \/ TypeOther(c)

Spec == Init /\ [][Next]_vars

-----------------------------------------------------------------------------
(* Numbers.                                                                *)

Power(b, n) == FoldLeft(LAMBDA v, k : v * b, 1, [k \in 1..n |-> k])

\* The value of digits d in base b.
Value(d, b) == MapThenSumSet(LAMBDA i : d[i] * Power(b, Len(d) - i), DOMAIN d)

\* The number line spells in base b, if it is one and no larger than max.
Exact(line, b, DigitOf(_), max) ==
    LET d == [i \in DOMAIN line |-> DigitOf(line[i])]
    IN IF line = <<>> \/ (\E i \in DOMAIN d : d[i] \notin 0..(b - 1)) \/ Value(d, b) > max
       THEN NGX_ERROR ELSE Value(d, b)

DecimalDigit(c) == c - 48
HexadecimalDigit(c) == CASE c \in 48..57 -> c - 48 [] c \in 65..70 -> c - 55
                         [] c \in 97..102 -> c - 87 [] OTHER -> -1

\* The number a text with a dot and up to point decimals spells.
Fixed(line, point) ==
    LET dots == {i \in DOMAIN line : line[i] = 46}
        digits == SelectSeq(line, LAMBDA c : c # 46)
        decimals == IF dots = {} THEN 0 ELSE Len(line) - Max(dots)
        zeros == [k \in 1..(point - decimals) |-> 48]
    IN IF line = <<>> \/ point = 0 \/ Cardinality(dots) > 1 \/ decimals > point
       THEN NGX_ERROR
       ELSE Exact(<<48>> \o digits \o zeros, 10, DecimalDigit, MaxInt)

\* A number is read exactly, or refused exactly when it is none or passes the
\* limit of its function: the test in front of each digit neither lets an overflow
\* by nor refuses the limit itself, with decimals and zeros to be added as well.
\* The limit of ngx_atosz, ngx_atoof and ngx_atotm is the largest value of their
\* type; that of ngx_atoi, ngx_atofp and ngx_hextoi is not, and numbers that
\* ngx_int_t would hold are refused.
NumbersAreExact ==
    subject = "number" =>
        /\ ngx_atoi(text) = Exact(text, 10, DecimalDigit, MaxInt)
        /\ \A v \in {ngx_atosz(text), ngx_atoof(text), ngx_atotm(text)} :
               v = Exact(text, 10, DecimalDigit, MaxWide)
        /\ ngx_hextoi(text) = Exact(text, 16, HexadecimalDigit, MaxInt)
        /\ \A point \in 0..3 : ngx_atofp(text, point) = Fixed(text, point)

-----------------------------------------------------------------------------
(* Codes.                                                                  *)

\* The text up to and with the first ?, behind which unescaping may stop.
ToQuestion(s) == LET at == {i \in DOMAIN s : s[i] = Question}
                 IN IF at = {} THEN s ELSE SubSeq(s, 1, Min(at))

\* What is encoded is decoded to itself, by base64 in both alphabets and by
\* escaping for each use followed by unescaping; unescaping for a location stops
\* behind the first ?, escaped or not, and for a redirect decodes only what may
\* stand in one.  Escaping for refresh is left out, whose map has no %.
Base64RoundTrips(s) ==
    /\ ngx_decode_base64(ngx_encode_base64(s)) = [rc |-> 0, dst |-> s]
    /\ ngx_decode_base64url(ngx_encode_base64url(s)) = [rc |-> 0, dst |-> s]

EscapingRoundTrips(s) ==
    \A type \in DOMAIN Escape \ {"refresh"} :
        LET escaped == ngx_escape_uri(s, type)
            Printable(c) == IF c \in Escape[type] /\ c \notin 38..126 THEN Quoted(c) ELSE <<c>>
        IN /\ ngx_unescape_uri(escaped, "none") = [dst |-> s, src |-> <<>>]
           /\ ngx_unescape_uri(escaped, "uri") =
                [dst |-> ToQuestion(s),
                 src |-> ngx_escape_uri(From(s, Len(ToQuestion(s)) + 1), type)]
           /\ ngx_unescape_uri(escaped, "redirect").dst =
                FlattenSeq([i \in DOMAIN ToQuestion(s) |-> Printable(s[i])])

\* How a text is to be read from its i-th byte on: the bytes of the next unit and
\* what it stands for.  A quote without a digit stands for the byte in its place;
\* one with a single digit, or cut off by the end, stands for nothing.
Unit(s, i) ==
    LET Digit(k) == k <= Len(s) /\ HexadecimalDigit(s[k]) >= 0
        Bytes(n) == SubSeq(s, i, Min({i + n - 1, Len(s)}))
    IN CASE s[i] # Percent                  -> [bytes |-> Bytes(1), is |-> Bytes(1)]
         [] s[i] = Percent /\ ~Digit(i + 1) -> [bytes |-> Bytes(2), is |-> Tail(Bytes(2))]
         [] s[i] = Percent /\ Digit(i + 1) /\ Digit(i + 2) ->
              [bytes |-> Bytes(3),
               is |-> <<16 * HexadecimalDigit(s[i + 1]) + HexadecimalDigit(s[i + 2])>>]
         [] OTHER                           -> [bytes |-> Bytes(3), is |-> <<>>]

\* The text read so, up to and with the first ? that is not the byte in place of a
\* digit, if flag says so, where redirect leaves a quote of what is not printable.
Meaning(s, flag) ==
    LET from[i \in 1..(Len(s) + 3)] ==
          LET u    == Unit(s, i)
              rest == from[i + Len(u.bytes)]
              stop == flag # "none" /\ u.is = <<Question>> /\ Len(u.bytes) # 2
              keep == flag = "redirect" /\ Len(u.bytes) = 3 /\ u.is # <<>> /\ u.is[1] \notin 38..126
          IN IF i > Len(s) THEN [dst |-> <<>>, src |-> <<>>]
             ELSE IF stop THEN [dst |-> u.is, src |-> From(s, i + Len(u.bytes))]
             ELSE [rest EXCEPT !.dst = (IF keep THEN u.bytes ELSE u.is) \o @]
    IN from[1]

\* Any text, escaped by somebody else or not at all, is unescaped as it reads unit
\* by unit: an invalid or unfinished quote is dropped and the text behind it is
\* read on, for a location too, where only a ? that is one may stop; and what is
\* written never passes what has been read, which callers that unescape in place
\* rely on.
UnescapedAsRead(s) ==
    \A flag \in {"none", "uri", "redirect"} :
        LET got == ngx_unescape_uri(s, flag)
        IN got = Meaning(s, flag) /\ Len(got.dst) + Len(got.src) <= Len(s)

\* The codings of ngx_string.c lose nothing: what they write is read back by their
\* counterparts, and what anybody else has written, valid or not, is unescaped
\* for what it says.
CodingsAreExact ==
    subject \in {"code", "byte"} =>
        Base64RoundTrips(text) /\ EscapingRoundTrips(text) /\ UnescapedAsRead(text)

\* The pass that only counts and the one that writes agree on every text, so that
\* a buffer made for the first is filled exactly by the second; base64 keeps to
\* the lengths of its macros, decoding to no more than one byte each 4/3 letters
\* of any text; and what is escaped for JSON never ends its string early.
SizesAgree ==
    subject \in {"code", "byte"} =>
        /\ \A type \in DOMAIN Escape :
             Len(ngx_escape_uri(text, type)) =
                 Len(text) + 2 * ngx_escape_uri_count(text, type)
        /\ Len(ngx_escape_html(text)) = Len(text) + ngx_escape_html_count(text)
        /\ Len(ngx_escape_json(text)) = Len(text) + ngx_escape_json_count(text)
        /\ Len(ngx_encode_base64(text)) = ngx_base64_encoded_length(Len(text))
        /\ Len(ngx_encode_base64url(text)) <= ngx_base64_encoded_length(Len(text))
        /\ Len(ngx_decode_base64(text).dst) <= ngx_base64_decoded_length(Len(text))
        /\ FoldLeft(LAMBDA state, c :
                        CASE state = "inside" /\ c = Backslash           -> "escape"
                          [] state = "inside" /\ (c = Quote \/ c <= 31)  -> "broken"
                          [] state = "escape"                            -> "inside"
                          [] OTHER                                       -> state,
                    "inside", ngx_escape_json(text)) = "inside"

-----------------------------------------------------------------------------
(* UTF-8.                                                                  *)

\* The bytes of s are one character: shortest form, up to 0x10ffff, where the
\* code takes any byte from 0x80 on for one that continues.
IsChar(s) ==
    LET tail == MapThenSumSet(LAMBDA i : (s[i] % 64) * Power(64, Len(s) - i), 2..Len(s))
        u    == tail + (s[1] % Power(2, 7 - Len(s))) * Power(64, Len(s) - 1)
    IN /\ \A i \in 2..Len(s) : s[i] >= 128
       /\ CASE Len(s) = 1 -> s[1] < 128
            [] Len(s) = 2 -> s[1] \in 192..223 /\ u >= 128
            [] Len(s) = 3 -> s[1] \in 224..239 /\ u >= 2048
            [] Len(s) = 4 -> s[1] \in 240..247 /\ u \in 65536..1114111

\* How many bytes each first few characters of s take.
Boundaries(s) ==
    LET at[i \in 0..Len(s)] == \/ i = 0
                               \/ \E k \in 1..Min({i, 4}) :
                                      at[i - k] /\ IsChar(SubSeq(s, i - k + 1, i))
    IN {i \in 0..Len(s) : at[i]}

\* Characters are counted as such when all of the text is valid, and a copy ends
\* between two of them: never inside one that is cut off at the end of the text
\* or longer than its value needs, and after at most n - 1, whatever their
\* lengths (ngx_utf8_length, ngx_utf8_cpystrn).
Utf8InWholeCharacters ==
    subject = "utf8" =>
        /\ ngx_utf8_length(text) = IF Len(text) \in Boundaries(text)
                                   THEN Cardinality(Boundaries(text)) - 1 ELSE Len(text)
        /\ \A n \in 1..(Len(text) + 2) :
             LET copy == ngx_utf8_cpystrn(text, n)
                 cuts == {i \in Boundaries(text) :
                             Cardinality({j \in Boundaries(text) : j < i}) < n}
             IN copy = SubSeq(text, 1, Max(cuts))

-----------------------------------------------------------------------------
(* Names.                                                                  *)

\* s comes before t where the elements are ordered by Less.
LexBefore(s, t, Less(_, _)) ==
    \E k \in 1..(Len(s) + 1) :
        /\ k <= Len(t)
        /\ \A i \in 1..(k - 1) : s[i] = t[i]
        /\ k <= Len(s) => Less(s[k], t[k])

BytesBefore(s, t) == LexBefore(s, t, <)

\* The parts of s between the bytes sep.
Parts(s, sep) ==
    LET cuts == SetToSortSeq({0, Len(s) + 1} \cup {i \in DOMAIN s : s[i] = sep}, <)
    IN [k \in 1..(Len(cuts) - 1) |-> SubSeq(s, cuts[k] + 1, cuts[k + 1] - 1)]

PartsBefore(s, t, sep) == LexBefore(Parts(s, sep), Parts(t, sep), BytesBefore)

Mapped(s, F(_)) == [i \in DOMAIN s |-> F(s[i])]

\* A comparison of s and t, and of t and s, that says which is before which.
Tells(forth, back, before, after) ==
    (forth < 0 <=> before) /\ (forth > 0 <=> after) /\ (back < 0 <=> after) /\ (back > 0 <=> before)

\* Each comparison orders names as a list of its parts would be ordered: a
\* domain comes right before what is below it and a directory before what is
\* in it although - and ! are less than . and /; the others as their bytes, folded
\* to lower or to upper case, from the front or from the back; and what is sorted
\* by one of them keeps the order of those that it does not tell apart.
NamesInOrder ==
    subject = "name" =>
        LET low == Mapped(text, ngx_tolower)
            lowOther == Mapped(other, ngx_tolower)
            n == Min({Len(text), Len(other)})
            Rear(s) == Reverse(SubSeq(s, 1, n))
            RearUp(s) == Mapped(Rear(s), ngx_toupper)
            caseless == [c, e \in Range(text) |-> ngx_strcasecmp(<<c>>, <<e>>)]
            sorted == ngx_sort(text, caseless, TRUE)
            Alike(s, c) == SelectSeq(s, LAMBDA e : ngx_tolower(e) = c)
        IN
        /\ Tells(ngx_dns_strcmp(text, other), ngx_dns_strcmp(other, text),
                 PartsBefore(low, lowOther, 46), PartsBefore(lowOther, low, 46))
        /\ Tells(ngx_filename_cmp(text, other, LongerLen(text, other)),
                 ngx_filename_cmp(other, text, LongerLen(text, other)),
                 PartsBefore(text, other, 47), PartsBefore(other, text, 47))
        /\ Tells(ngx_strcasecmp(text, other), ngx_strcasecmp(other, text),
                 BytesBefore(low, lowOther), BytesBefore(lowOther, low))
        /\ Tells(ngx_memn2cmp(text, other), ngx_memn2cmp(other, text),
                 BytesBefore(text, other), BytesBefore(other, text))
        /\ Tells(ngx_rstrncmp(text, other, n), ngx_rstrncmp(other, text, n),
                 BytesBefore(Rear(text), Rear(other)), BytesBefore(Rear(other), Rear(text)))
        /\ Tells(ngx_rstrncasecmp(text, other, n), ngx_rstrncasecmp(other, text, n),
                 BytesBefore(RearUp(text), RearUp(other)),
                 BytesBefore(RearUp(other), RearUp(text)))
        /\ IsSorted(Mapped(sorted, ngx_tolower), <=)
        /\ \A c \in ToSet(low) \cup ToSet(Mapped(sorted, ngx_tolower)) :
               Alike(sorted, c) = Alike(text, c)
=============================================================================
