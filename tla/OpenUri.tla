------------------------------ MODULE OpenUri -------------------------------
(***************************************************************************)
(* Opening a URI without a registry (open_bytes, lib.rs): the dispatch on  *)
(* the scheme and the five drivers behind it, slice: and concat: coming    *)
(* back to the dispatch for the URIs they carry.  What a successful open   *)
(* answers stands for the stream: its bytes.                               *)
(*                                                                         *)
(* The behaviours are the two ways the repository's own fuzzers make URIs: *)
(* text typed piece by piece after a prefix, most of it malformed          *)
(* (uri_parse, hostile_input), and valid URIs composed around a leaf along *)
(* with a model of the bytes they stand for (compose_open).                *)
(***************************************************************************)
EXTENDS UriGrammar

CONSTANTS
    Files,      \* the files there are: path, in bytes, to content
    Buffers,    \* the mem: table: id to content
    Soups,      \* what is typed: records of a prefix, pieces, and how many
    Leaves,     \* what is composed: records of a uri and its content
    MaxSteps,   \* bound on compositions
    MaxContent, \* bound on the bytes a leaf stands for
    NoSoup, NoModel

ASSUME OpenUriAssumption ==
    /\ \A p \in DOMAIN Files   : Files[p] \in Text
    /\ \A b \in DOMAIN Buffers : Buffers[b] \in Text
    /\ \A s \in Soups : s.prefix \in Text /\ s.pieces \subseteq Text
    /\ NoSoup \notin Soups

VARIABLES
    text,       \* the URI
    soup,       \* the soup it is typed from, or NoSoup
    model,      \* the bytes it was composed to stand for, or NoModel
    steps       \* pieces typed, or compositions made

vars == <<text, soup, model, steps>>

-----------------------------------------------------------------------------
(* The drivers.                                                            *)

(* A bare path reaches the file system as it is.                           *)
open_file(uri) ==
    LET s    == split(uri)
        path == IF has_file_scheme(uri) THEN percent_decode_path(s.rest)
                                        ELSE Ok(s.rest)
    IN  IF ~scheme_is(s.scheme, FILE) \/ ~IsOk(path) THEN Invalid
        ELSE IF path.value \notin DOMAIN Files       THEN Err("NotFound")
        ELSE Ok(Files[path.value])

open_mem(uri) ==
    LET s == split(uri)
    IN  IF ~scheme_is(s.scheme, MEM) \/ s.rest = <<>> \/ Has(s.rest, Slash)
          THEN Invalid
        ELSE IF s.rest \notin DOMAIN Buffers THEN Err("NotFound")
        ELSE Ok(Buffers[s.rest])

open_data(uri) ==
    LET parsed == parse_data_uri(uri)
    IN  IF IsOk(parsed) THEN Ok(parsed.value.data) ELSE parsed

(* SubSource::new on a stream of these bytes.                              *)
Buggy_Window(bytes, offset, length) ==
    LET end == (offset + length) % (MaxU64 + 1)
    IN  IF end > Len(bytes)
          THEN Invalid ELSE Ok(SubSeq(bytes, offset + 1, end))
Window(bytes, offset, length) ==
    IF offset + length > MaxU64 \/ offset + length > Len(bytes)
      THEN Invalid ELSE Ok(SubSeq(bytes, offset + 1, offset + length))

(* open is open_bytes, to which slice: and concat: come back.              *)
open_slice(open, uri) ==
    LET parsed == parse_slice_uri(uri)
        inner  == open[parsed.value.inner]
    IN  IF ~IsOk(parsed) THEN parsed
        ELSE IF ~IsOk(inner) THEN inner
        ELSE Window(inner.value, parsed.value.offset, parsed.value.length)

open_segment(open, segment) ==
    IF scheme_is(split(segment).scheme, CONCAT) THEN Invalid ELSE open[segment]

(* The first segment that fails to open is the answer.                     *)
Gathered(answers) ==
    LET opened[k \in 0 .. Len(answers)] ==
            IF k = 0 THEN Ok(<<>>)
            ELSE IF ~IsOk(opened[k - 1]) THEN opened[k - 1]
            ELSE Then(opened[k - 1].value, answers[k])
    IN  opened[Len(answers)]

(* ConcatSource::new adds the lengths up.                                  *)
Whole(r) == IF IsOk(r) /\ Len(r.value) > MaxU64 THEN Invalid ELSE r

open_concat(open, uri) ==
    LET parsed  == parse_concat_uri(uri)
        answers == [i \in DOMAIN parsed.value |-> open_segment(open, parsed.value[i])]
    IN  IF IsOk(parsed) THEN Whole(Gathered(answers)) ELSE parsed

open_bytes[uri \in Text] ==
    LET scheme == split(uri).scheme
    IN  CASE scheme_is(scheme, FILE)   -> open_file(uri)
          [] scheme_is(scheme, MEM)    -> open_mem(uri)
          [] scheme_is(scheme, DATA)   -> open_data(uri)
          [] scheme_is(scheme, SLICE)  -> open_slice(open_bytes, uri)
          [] scheme_is(scheme, CONCAT) -> open_concat(open_bytes, uri)
          [] OTHER                     -> Err("Unsupported")

-----------------------------------------------------------------------------
(* The fuzzers.                                                            *)

(* A leaf opens to its content, and can be a segment: neither an authority *)
(* nor a concatenation, and without a separator.  All that is composed     *)
(* from leaves has a length that is a u64.                                 *)
ASSUME LeafAssumption ==
    /\ MaxSteps \in Nat /\ MaxContent \in Nat
    /\ (MaxSteps + 1) * MaxContent <= MaxU64
    /\ \A l \in Leaves :
          /\ l.uri \in Text \ {<<>>} /\ ~Has(l.uri, Bar)
          /\ ~IsPrefix(TwoSlashes, l.uri)
          /\ ~scheme_is(split(l.uri).scheme, CONCAT)
          /\ l.content \in Text /\ Len(l.content) <= MaxContent
          /\ open_bytes[l.uri] = Ok(l.content)

Init ==
    /\ steps = 0
    /\ \/ \E s \in Soups  : text = s.prefix /\ soup = s /\ model = NoModel
       \/ \E l \in Leaves : text = l.uri /\ soup = NoSoup /\ model = l.content

Type ==
    /\ soup # NoSoup /\ steps < soup.size
    /\ \E piece \in soup.pieces : text' = text \o piece
    /\ steps' = steps + 1
    /\ UNCHANGED <<soup, model>>

SliceText(offset, length, inner) ==
    SliceUri_format(SliceUri(offset, length, inner))

(* A window of the composite.                                              *)
WrapInSlice ==
    /\ soup = NoSoup /\ steps < MaxSteps
    /\ \E offset \in 0 .. Len(model) : \E length \in 0 .. Len(model) - offset :
          /\ text'  = SliceText(offset, length, text)
          /\ model' = SubSeq(model, offset + 1, offset + length)
    /\ steps' = steps + 1
    /\ UNCHANGED soup

(* A leaf behind the composite or before it, which has no separator yet.   *)
ConcatLeaf ==
    /\ soup = NoSoup /\ steps < MaxSteps /\ ~Has(text, Bar)
    /\ \E leaf \in Leaves :
          \/ /\ text'  = ConcatUri_format(<<text, leaf.uri>>)
             /\ model' = model \o leaf.content
          \/ /\ text'  = ConcatUri_format(<<leaf.uri, text>>)
             /\ model' = leaf.content \o model
    /\ steps' = steps + 1
    /\ UNCHANGED soup

Next == Type \/ WrapInSlice \/ ConcatLeaf

Spec == Init /\ [][Next]_vars

-----------------------------------------------------------------------------
(* Properties.                                                             *)

TypeOK ==
    /\ text \in Text
    /\ soup \in Soups \union {NoSoup}
    /\ model = NoModel \/ model \in Text
    /\ LET r == open_bytes[text]
       IN  /\ r.kind \in {"ok", "Invalid", "NotFound", "Unsupported"}
           /\ r.value \in Text

(* The ends of a typed text: what a caller may hand to a constructor.      *)
Words == {After(text, i) : i \in {i \in 0 .. Len(text) : soup # NoSoup}}

(* A value that was parsed, formatted and parsed again is the same value,  *)
(* and slice: and concat: texts in canonical spelling come back unchanged: *)
(* nothing the grammars accept reads differently the second time           *)
(* (slice.rs:80-86, concat.rs:222-228, data.rs:53-57).                     *)
IsCanonicalText(scheme) ==
    /\ IsPrefix(scheme \o <<Colon>>, text)
    /\ ~IsPrefix(scheme \o <<Colon>> \o TwoSlashes, text)
FormatInverts ==
    LET slice  == parse_slice_uri(text)
        concat == parse_concat_uri(text)
        data   == parse_data_uri(text)
    IN  /\ IsOk(slice) =>
              LET again == SliceUri_format(slice.value)
              IN  /\ parse_slice_uri(again) = slice
                  /\ IsCanonicalText(SLICE) => again = text
        /\ IsOk(concat) =>
              LET again == ConcatUri_format(concat.value)
              IN  /\ parse_concat_uri(again) = concat
                  /\ IsCanonicalText(CONCAT) => again = text
        /\ IsOk(data) => parse_data_uri(DataUri_format(data.value)) = data

(* What is read back as it was formatted.                                  *)
SliceReadBack(x) == parse_slice_uri(SliceUri_format(x)) = Ok(x)

(* DataUri::new and ConcatUri::new take exactly the parts whose formatted  *)
(* text is read back as those parts: their guards and the parsers' agree,  *)
(* none too lax and none too strict (data.rs:73-84, README.md:160-164).    *)
(* What SliceUri::new takes is read back, and it takes what the parser     *)
(* answers without a "!" (fuzz_targets/uri_parse.rs:47-53).                *)
ConstructorsAgree ==
    \A word \in Words :
        /\ \A parts \in {<<>>, <<word>>, <<word, word>>, Cut[word]} :
              IsOk(ConcatUri_new(parts))
                <=> parse_concat_uri(ConcatUri_format(parts)) = Ok(parts)
        /\ LET x == SliceUri(MaxU64, 0, word)
           IN  /\ IsOk(SliceUri_new(MaxU64, 0, word)) => SliceReadBack(x)
               /\ SliceReadBack(x) /\ ~Has(word, Bang)
                    => IsOk(SliceUri_new(MaxU64, 0, word))
        /\ \A base64 \in BOOLEAN :
              LET x == DataUri(word, base64, <<0, 255>>)
              IN  IsOk(DataUri_new(word, base64, <<0, 255>>))
                    <=> parse_data_uri(DataUri_format(x)) = Ok(x)

(* SliceUri::new, too, takes exactly what is read back as it is: it        *)
(* refuses an empty inner text and one with a "!", which would be cut at   *)
(* the wrong place (README.md:160-162, slice.rs:103-108, data.rs:72-74).   *)
(* Expected to fail: the parser cuts at the first "!", which ends the      *)
(* length, and one inside comes back where it was.                         *)
SliceGuardAgrees ==
    \A word \in Words :
        IsOk(SliceUri_new(MaxU64, 0, word))
          <=> SliceReadBack(SliceUri(MaxU64, 0, word))

(* What the texts should be, stated without parsing: what follows the      *)
(* scheme, one "//" apart, in any case the scheme is written.              *)
Heads(scheme) == {scheme \o <<Colon>>, scheme \o <<Colon>> \o TwoSlashes}
Rests(scheme) ==
    {After(text, Len(h)) :
        h \in {h \in Heads(scheme) : IsPrefix(h, LowerCase(text))}}
PlainRests(scheme) == {r \in Rests(scheme) : ~IsPrefix(TwoSlashes, r)}

(* Every way to write the numbers of a slice.                              *)
Ranges ==
    {[offset |-> o, length |-> l, text |-> After(SliceText(o, l, <<>>), 6)] :
        o \in 0 .. MaxU64, l \in 0 .. MaxU64}
SliceReadings ==
    UNION {{SliceUri(g.offset, g.length, After(r, Len(g.text))) :
                g \in {g \in Ranges : IsStrictPrefix(g.text, r)}} :
           r \in Rests(SLICE)}

Separated(rest) ==
    /\ rest # <<>> /\ rest[1] # Bar /\ rest[Len(rest)] # Bar
    /\ \A i \in 2 .. Len(rest) : rest[i] = Bar => rest[i - 1] # Bar

(* The kth of a set of places.                                             *)
Nth(places, k) ==
    CHOOSE i \in places : Cardinality({j \in places : j <= i}) = k

(* RFC 3986 2.1: a "%" is followed by two hex digits, and the three spell  *)
(* a byte.                                                                 *)
IsEscapedText(payload) ==
    \A i \in DOMAIN payload : payload[i] = Percent =>
        /\ i + 2 <= Len(payload)
        /\ {payload[i + 1], payload[i + 2]} \subseteq HexDigit
Units(payload) ==
    {i \in DOMAIN payload : \A d \in {1, 2} : i > d => payload[i - d] # Percent}
SpelledAt(payload, i) ==
    IF payload[i] = Percent
      THEN 16 * hex_nibble[payload[i + 1]] + hex_nibble[payload[i + 2]]
      ELSE payload[i]
AreSpelledBy(bytes, payload) ==
    /\ Len(bytes) = Cardinality(Units(payload))
    /\ \A k \in DOMAIN bytes : bytes[k] = SpelledAt(payload, Nth(Units(payload), k))

(* RFC 4648 4: characters of six bits each, filled up with "=" to a        *)
(* multiple of four; the bits that do not fill a byte are dropped.         *)
NonBlanks(payload) == {i \in DOMAIN payload : payload[i] \notin Blank}
Padding(payload)   == {i \in DOMAIN payload : payload[i] = Equals}
IsBase64Text(payload) ==
    /\ \A i \in NonBlanks(payload) : payload[i] \in Alphabet \union {Equals}
    /\ Cardinality(NonBlanks(payload)) % 4 = 0 /\ Cardinality(Padding(payload)) < 3
    /\ \A i \in Padding(payload) : \A j \in NonBlanks(payload) :
          i < j => j \in Padding(payload)

(* The jth bit of bytes, and of a payload.                                 *)
Weights == <<128, 64, 32, 16, 8, 4, 2, 1>>
ByteBit(bytes, j) == (bytes[(j \div 8) + 1] \div Weights[(j % 8) + 1]) % 2
CharBit(payload, j) ==
    LET place == Nth(NonBlanks(payload), (j \div 6) + 1)
    IN  (b64_value[payload[place]] \div Weights[(j % 6) + 3]) % 2
AreBitsOf(bytes, payload) ==
    /\ Len(bytes) = (6 * Cardinality(NonBlanks(payload) \ Padding(payload))) \div 8
    /\ \A j \in 0 .. 8 * Len(bytes) - 1 : ByteBit(bytes, j) = CharBit(payload, j)

Payload(rest)  == After(rest, Find(rest, Comma))
InBase64(rest) == ends_with_base64_marker(Before(rest, Find(rest, Comma)))
IsDataText(rest) ==
    /\ Has(rest, Comma)
    /\ IF InBase64(rest) THEN IsBase64Text(Payload(rest))
                         ELSE IsEscapedText(Payload(rest))

(* The parsers accept exactly the texts of their grammar: canonical u64    *)
(* numbers up to the largest and no further, no empty segment, padding of  *)
(* base64 only where it belongs, no leading "//" left after the split; a   *)
(* slice has the one reading there is, a payload is the bytes or the bits  *)
(* it spells; and the decoding of a path goes with the scheme the split    *)
(* took off                                                                *)
(* (slice.rs:224-233, concat.rs:174-176, data.rs:276-277, uri.rs:52-55).   *)
ParsersFollowGrammar ==
    LET slice  == parse_slice_uri(text)
        concat == parse_concat_uri(text)
        data   == parse_data_uri(text)
        s      == split(text)
    IN  /\ SliceReadings = IF IsOk(slice) THEN {slice.value} ELSE {}
        /\ IsOk(concat) <=> \E r \in PlainRests(CONCAT) : Separated(r)
        /\ IsOk(data) <=> \E r \in PlainRests(DATA) : IsDataText(r)
        /\ \A r \in PlainRests(DATA) :
              IsDataText(r) =>
                  IF InBase64(r) THEN AreBitsOf(data.value.data, Payload(r))
                                 ELSE AreSpelledBy(data.value.data, Payload(r))
        /\ has_file_scheme(text) <=> scheme_is(s.scheme, FILE) /\ s.rest # text

(* However slices and concatenations are nested, the whole opens, and to   *)
(* the bytes of its leaves, while a window that starts or ends past them   *)
(* is refused (compose_open.rs:137-179).                                   *)
OpensAsModel ==
    model # NoModel =>
        /\ open_bytes[text] = Ok(model)
        /\ open_bytes[SliceText(Len(model), 1, text)] = Invalid
        /\ open_bytes[SliceText(Len(model) + 1, 0, text)] = Invalid
        /\ open_bytes[SliceText(MaxU64, 1, text)] = Invalid

-----------------------------------------------------------------------------
(* The inductive invariant: what is typed is a text, and what is composed  *)
(* can be part of what is composed next, which OpensAsModel does not say:  *)
(* it is no authority, a concatenation has a separator that keeps it from  *)
(* becoming a segment, and its length is a u64.                            *)
Typing ==
    /\ text \in Text /\ steps \in Nat
    /\ soup \in Soups \union {NoSoup}
    /\ soup # NoSoup => model = NoModel

Composed ==
    soup = NoSoup =>
        /\ steps <= MaxSteps /\ model \in Text
        /\ Len(model) <= (steps + 1) * MaxContent
        /\ text # <<>> /\ ~IsPrefix(TwoSlashes, text)
        /\ ~Has(text, Bar) => ~scheme_is(split(text).scheme, CONCAT)
        /\ open_bytes[text] = Ok(model)

IInv == Typing /\ Composed
=============================================================================
