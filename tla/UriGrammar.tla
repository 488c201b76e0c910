----------------------------- MODULE UriGrammar -----------------------------
(***************************************************************************)
(* The URI grammars of the crate as pure operators: the split into scheme  *)
(* and rest and the percent-decoder (uri.rs), and the three typed values,  *)
(* each with its constructor, its formatter and its parser (slice.rs,      *)
(* concat.rs, data.rs).                                                    *)
(*                                                                         *)
(* A text is a sequence of bytes, as a str is: all the grammars look at    *)
(* are ASCII characters, and what is beyond them passes through.  What a   *)
(* call answers is a record: kind "ok" and the value, or the kind of the   *)
(* error.  Loops over a text are functions defined by recursion.           *)
(*                                                                         *)
(* An operator named Buggy... is the one that follows it with a plausible  *)
(* mistake, kept to check that the properties notice.                      *)
(***************************************************************************)
EXTENDS Naturals, SequencesExt

CONSTANT MaxU64        \* the largest u64 (scaled down for TLC)

ASSUME MaxU64Assumption == MaxU64 \in Nat

Ok(value)  == [kind |-> "ok", value |-> value]
Err(kind)  == [kind |-> kind, value |-> <<>>]
Invalid    == Err("Invalid")
IsOk(r)    == r.kind = "ok"

(* What r answers, behind bytes that are decoded already.                  *)
Then(bytes, r) == IF IsOk(r) THEN Ok(bytes \o r.value) ELSE r

-----------------------------------------------------------------------------
(* Characters and bytes.                                                   *)

Byte == 0 .. 255
Text == Seq(Byte)

Space == 32    Bang == 33     Percent == 37    Plus == 43      Comma == 44
Minus == 45    Dot == 46      Slash == 47      Zero == 48      Colon == 58
Semicolon == 59               Equals == 61     Underscore == 95
Bar == 124     Tilde == 126
Blank == {Space, 9, 10, 13}

Upper  == 65 .. 90
Letter == Upper \union 97 .. 122
Digit  == 48 .. 57

Lower(c)     == IF c \in Upper THEN c + 32 ELSE c
LowerCase(s) == [i \in DOMAIN s |-> Lower(s[i])]

Buggy_hex_nibble == [c \in Digit |-> c - 48] @@ [c \in Letter |-> c - 55]
hex_nibble ==
    [c \in Digit \union 65 .. 70 \union 97 .. 102 |->
        IF c \in Digit THEN c - 48 ELSE IF c \in Upper THEN c - 55 ELSE c - 87]
HexDigit == DOMAIN hex_nibble

(* "%02X"                                                                  *)
HexOf(n)   == IF n < 10 THEN n + 48 ELSE n + 55
Escaped(b) == <<Percent, HexOf(b \div 16), HexOf(b % 16)>>

(* The place of the first c, or 0.                                         *)
Has(s, c)  == \E i \in DOMAIN s : s[i] = c
Find(s, c) ==
    IF Has(s, c)
      THEN CHOOSE i \in DOMAIN s : s[i] = c /\ \A j \in 1 .. i - 1 : s[j] # c
      ELSE 0
Before(s, i)    == SubSeq(s, 1, i - 1)
After(s, i)     == SubSeq(s, i + 1, Len(s))
TwoSlashes      == <<Slash, Slash>>
StripSlashes(s) == IF IsPrefix(TwoSlashes, s) THEN After(s, 2) ELSE s

-----------------------------------------------------------------------------
(* uri.rs                                                                  *)

FILE   == <<102, 105, 108, 101>>             \* file
MEM    == <<109, 101, 109>>                  \* mem
DATA   == <<100, 97, 116, 97>>               \* data
SLICE  == <<115, 108, 105, 99, 101>>         \* slice
CONCAT == <<99, 111, 110, 99, 97, 116>>      \* concat

IsDriveLetter(scheme) == Len(scheme) = 1 /\ scheme[1] \in Letter
IsScheme(scheme) ==
    /\ scheme # <<>> /\ scheme[1] \in Letter
    /\ ToSet(scheme) \subseteq Letter \union Digit \union {Plus, Minus, Dot}

(* The scheme, and what follows it; a path is all rest, under "file".      *)
split(uri) ==
    LET colon  == Find(uri, Colon)
        scheme == Before(uri, colon)
    IN  IF colon = 0 \/ IsDriveLetter(scheme) \/ ~IsScheme(scheme)
          THEN [scheme |-> FILE, rest |-> uri]
          ELSE [scheme |-> scheme, rest |-> StripSlashes(After(uri, colon))]

scheme_is(scheme, want) == LowerCase(scheme) = want

has_file_scheme(uri) ==
    /\ Len(uri) >= 5
    /\ scheme_is(SubSeq(uri, 1, 4), FILE) /\ uri[5] = Colon

(* From the left, every escape is a byte and every other byte itself.      *)
percent_decode_bytes[s \in Text] ==
    IF s = <<>>               THEN Ok(<<>>)
    ELSE IF s[1] # Percent    THEN Then(<<s[1]>>, percent_decode_bytes[Tail(s)])
    ELSE IF Len(s) < 3 \/ ~({s[2], s[3]} \subseteq HexDigit) THEN Invalid
    ELSE Then(<<16 * hex_nibble[s[2]] + hex_nibble[s[3]]>>,
              percent_decode_bytes[After(s, 3)])

(* String::from_utf8: no byte astray, no longer form than needed, no       *)
(* surrogate, and nothing beyond U+10FFFF.                                 *)
Continued(s, n) == Len(s) >= n /\ \A i \in 2 .. n : s[i] \in 128 .. 191
IsUtf8[s \in Text] ==
    \/ s = <<>>
    \/ s[1] < 128 /\ IsUtf8[Tail(s)]
    \/ s[1] \in 194 .. 223 /\ Continued(s, 2) /\ IsUtf8[After(s, 2)]
    \/ /\ s[1] \in 224 .. 239 /\ Continued(s, 3) /\ IsUtf8[After(s, 3)]
       /\ (s[1] = 224 => s[2] >= 160) /\ (s[1] = 237 => s[2] < 160)
    \/ /\ s[1] \in 240 .. 244 /\ Continued(s, 4) /\ IsUtf8[After(s, 4)]
       /\ (s[1] = 240 => s[2] >= 144) /\ (s[1] = 244 => s[2] < 144)

percent_decode_path(s) ==
    LET r == percent_decode_bytes[s]
    IN  IF IsOk(r) /\ ~IsUtf8[r.value] THEN Invalid ELSE r

-----------------------------------------------------------------------------
(* slice.rs                                                                *)

(* A u64 as Display writes it, and what str::parse makes of digits.        *)
Numeral[n \in Nat] ==
    IF n < 10 THEN <<Zero + n>> ELSE Append(Numeral[n \div 10], Zero + (n % 10))
NumeralValue[s \in Seq(Digit)] ==
    IF s = <<>> THEN 0 ELSE 10 * NumeralValue[Front(s)] + (Last(s) - Zero)

Buggy_IsCanonical(s) == s # <<>> /\ ToSet(s) \subseteq Digit
IsCanonical(s) ==
    /\ s # <<>> /\ ToSet(s) \subseteq Digit
    /\ Len(s) > 1 => s[1] # Zero

parse_canonical_u64(s) ==
    IF IsCanonical(s) /\ NumeralValue[s] <= MaxU64
      THEN Ok(NumeralValue[s]) ELSE Invalid

SliceUri(offset, length, inner) ==
    [offset |-> offset, length |-> length, inner |-> inner]

SliceUri_new(offset, length, inner) ==
    IF inner = <<>> \/ Has(inner, Bang) THEN Invalid
                                        ELSE Ok(SliceUri(offset, length, inner))

SliceUri_format(x) ==
    SLICE \o <<Colon>> \o Numeral[x.offset] \o <<Plus>> \o Numeral[x.length]
          \o <<Bang>> \o x.inner

parse_header(rest) ==
    LET bang   == Find(rest, Bang)
        range  == Before(rest, bang)
        plus   == Find(range, Plus)
        offset == parse_canonical_u64(Before(range, plus))
        length == parse_canonical_u64(After(range, plus))
        inner  == After(rest, bang)
    IN  IF bang = 0 \/ plus = 0 \/ ~IsOk(offset) \/ ~IsOk(length) \/ inner = <<>>
          THEN Invalid
          ELSE Ok(SliceUri(offset.value, length.value, inner))

parse_slice_uri(uri) ==
    LET s == split(uri)
    IN  IF scheme_is(s.scheme, SLICE) THEN parse_header(s.rest) ELSE Invalid

-----------------------------------------------------------------------------
(* concat.rs                                                               *)

Cut[s \in Text] ==
    LET bar == Find(s, Bar)
    IN  IF bar = 0 THEN <<s>> ELSE <<Before(s, bar)>> \o Cut[After(s, bar)]

Joined[parts \in Seq(Text)] ==
    IF parts = <<>>            THEN <<>>
    ELSE IF Tail(parts) = <<>> THEN Head(parts)
    ELSE Head(parts) \o <<Bar>> \o Joined[Tail(parts)]

(* The first segment must not look like an authority once it is formatted. *)
Buggy_ReadsAsAuthority(segments) == FALSE
ReadsAsAuthority(segments)       == IsPrefix(TwoSlashes, segments[1])

Buggy_ConcatUri_new(segments) ==
    IF \/ segments = <<>> \/ \E i \in DOMAIN segments : segments[i] = <<>>
       \/ ReadsAsAuthority(segments)
      THEN Invalid ELSE Ok(segments)
ConcatUri_new(segments) ==
    IF \/ segments = <<>>
       \/ \E i \in DOMAIN segments : segments[i] = <<>> \/ Has(segments[i], Bar)
       \/ ReadsAsAuthority(segments)
      THEN Invalid ELSE Ok(segments)

ConcatUri_format(segments) == CONCAT \o <<Colon>> \o Joined[segments]

parse_concat_uri(uri) ==
    LET s        == split(uri)
        segments == Cut[s.rest]
    IN  IF \/ ~scheme_is(s.scheme, CONCAT)
           \/ \E i \in DOMAIN segments : segments[i] = <<>>
           \/ ReadsAsAuthority(segments)
          THEN Invalid ELSE Ok(segments)

-----------------------------------------------------------------------------
(* data.rs                                                                 *)

(* The 64 characters of base64, and their values.                          *)
ALPHA ==
    [v \in 0 .. 63 |-> CASE v < 26 -> v + 65
                         [] v \in 26 .. 51 -> v + 71
                         [] v \in 52 .. 61 -> v - 4
                         [] v = 62 -> Plus
                         [] v = 63 -> Slash]
Alphabet == Letter \union Digit \union {Plus, Slash}
b64_value ==
    [c \in Alphabet |-> CASE c \in Upper -> c - 65
                          [] c \in Letter \ Upper -> c - 71
                          [] c \in Digit -> c + 4
                          [] c = Plus -> 62
                          [] c = Slash -> 63]

(* Three bytes are four characters; a last group of one or two is padded.  *)
encode_group(g) ==
    LET at(i) == IF i <= Len(g) THEN g[i] ELSE 0
        t     == at(1) * 65536 + at(2) * 256 + at(3)
    IN  <<ALPHA[t \div 262144], ALPHA[(t \div 4096) % 64],
          IF Len(g) < 2 THEN Equals ELSE ALPHA[(t \div 64) % 64],
          IF Len(g) < 3 THEN Equals ELSE ALPHA[t % 64]>>

encode_base64[bytes \in Text] ==
    IF bytes = <<>> THEN <<>>
    ELSE IF Len(bytes) < 3 THEN encode_group(bytes)
    ELSE encode_group(SubSeq(bytes, 1, 3)) \o encode_base64[After(bytes, 3)]

(* Padding ends a group, which is then the last, and is two at most.       *)
Pads(g) == IF g[4] # Equals THEN 0 ELSE IF g[3] # Equals THEN 1 ELSE 2
IsGroup(g, last) ==
    /\ ~last => Pads(g) = 0
    /\ \A i \in 1 .. 4 - Pads(g) : g[i] \in Alphabet

decode_group(g) ==
    LET at(i) == IF g[i] = Equals THEN 0 ELSE b64_value[g[i]]
        t     == at(1) * 262144 + at(2) * 4096 + at(3) * 64 + at(4)
    IN  SubSeq(<<t \div 65536, (t \div 256) % 256, t % 256>>, 1, 3 - Pads(g))

decode_groups[s \in Text] ==
    IF s = <<>> THEN Ok(<<>>)
    ELSE IF Len(s) < 4 \/ ~IsGroup(SubSeq(s, 1, 4), Len(s) = 4) THEN Invalid
    ELSE Then(decode_group(SubSeq(s, 1, 4)), decode_groups[After(s, 4)])

WithoutBlanks[s \in Text] ==
    IF s = <<>> THEN <<>>
    ELSE (IF s[1] \in Blank THEN <<>> ELSE <<s[1]>>) \o WithoutBlanks[Tail(s)]

decode_base64(s) == decode_groups[WithoutBlanks[s]]

MARKER == <<Semicolon, 98, 97, 115, 101, 54, 52>>      \* ;base64

ends_with_base64_marker(header) ==
    /\ Len(header) >= Len(MARKER)
    /\ scheme_is(After(header, Len(header) - Len(MARKER)), MARKER)

DataUri(mediatype, base64, data) ==
    [mediatype |-> mediatype, base64 |-> base64, data |-> data]

(* What the formatted value would not be read back as.                     *)
Buggy_Misread(mediatype, base64) ==
    Has(mediatype, Comma) \/ IsPrefix(TwoSlashes, mediatype)
Misread(mediatype, base64) ==
    \/ Has(mediatype, Comma)
    \/ ~base64 /\ ends_with_base64_marker(mediatype)
    \/ IsPrefix(TwoSlashes, mediatype)

DataUri_new(mediatype, base64, data) ==
    IF Misread(mediatype, base64) THEN Invalid
                                  ELSE Ok(DataUri(mediatype, base64, data))

Unreserved == Letter \union Digit \union {Minus, Dot, Underscore, Tilde}
Spelled[data \in Text] ==
    IF data = <<>> THEN <<>>
    ELSE (IF data[1] \in Unreserved THEN <<data[1]>> ELSE Escaped(data[1]))
            \o Spelled[Tail(data)]

DataUri_format(x) ==
    DATA \o <<Colon>> \o x.mediatype
         \o (IF x.base64 THEN MARKER \o <<Comma>> \o encode_base64[x.data]
                         ELSE <<Comma>> \o Spelled[x.data])

parse_data_uri(uri) ==
    LET s         == split(uri)
        comma     == Find(s.rest, Comma)
        header    == Before(s.rest, comma)
        payload   == After(s.rest, comma)
        base64    == ends_with_base64_marker(header)
        mediatype == IF base64 THEN SubSeq(header, 1, Len(header) - Len(MARKER))
                               ELSE header
        data      == IF base64 THEN decode_base64(payload)
                               ELSE percent_decode_bytes[payload]
    IN  IF \/ ~scheme_is(s.scheme, DATA) \/ comma = 0
           \/ IsPrefix(TwoSlashes, mediatype) \/ ~IsOk(data)
          THEN Invalid ELSE Ok(DataUri(mediatype, base64, data.value))
=============================================================================
