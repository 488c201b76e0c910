---------------------------- MODULE OpenUriProofs ---------------------------
(***************************************************************************)
(* Proofs about OpenUri: open_bytes answers every text, what the grammars  *)
(* accept is read back as it was, constructors and parsers agree, parsers  *)
(* and decoders follow their grammars, and what is composed opens to its   *)
(* model, for every instance of the fuzzers.                               *)
(***************************************************************************)
EXTENDS OpenUri, UriGrammarProofs, FiniteSetTheorems

-----------------------------------------------------------------------------
(* Answers, and the texts that are opened.                                 *)

(* What an open answers.                                                   *)
Answer == [kind : {"ok", "Invalid", "NotFound", "Unsupported"}, value : Text]

(* Answers of the drivers stay answers behind bytes that are open.         *)
LEMMA AnswerFacts ==
    /\ Bytes \subseteq Answer /\ Invalid \in Answer
    /\ Err("NotFound") \in Answer /\ Err("Unsupported") \in Answer
    /\ \A v \in Text : Ok(v) \in Answer
    /\ \A v \in Text : \A r \in Answer : Then(v, r) \in Answer
    /\ \A r \in Answer : r.value \in Text
<1>1. <<>> \in Text
  BY EmptyText
<1>2. Bytes \subseteq Answer
  BY DEF Bytes, Answer
<1>3. Invalid \in Answer /\ Err("NotFound") \in Answer /\ Err("Unsupported") \in Answer
  BY <1>1 DEF Invalid, Err, Answer
<1>4. \A v \in Text : Ok(v) \in Answer
  BY DEF Ok, Answer
<1>5. ASSUME NEW v \in Text, NEW r \in Answer PROVE Then(v, r) \in Answer
  <2>1. r.value \in Text
    BY DEF Answer
  <2>2. v \o r.value \in Text
    BY <2>1, ConcatProperties DEF Text
  <2>3. QED
    BY <1>4, <2>2 DEF Then
<1>6. \A r \in Answer : r.value \in Text
  BY DEF Answer
<1>7. QED
  BY <1>2, <1>3, <1>4, <1>5, <1>6

(* No scheme is another.                                                   *)
LEMMA SchemesApart ==
    /\ FILE # MEM /\ FILE # DATA /\ FILE # SLICE /\ FILE # CONCAT
    /\ MEM # DATA /\ MEM # SLICE /\ MEM # CONCAT
    /\ DATA # SLICE /\ DATA # CONCAT /\ SLICE # CONCAT
<1>1. /\ FILE[1] = 102 /\ MEM[1] = 109 /\ DATA[1] = 100 /\ SLICE[1] = 115
      /\ CONCAT[1] = 99
  BY DEF FILE, MEM, DATA, SLICE, CONCAT
<1>2. QED
  BY <1>1

(* What a scheme is taken off is longer than what is left.                 *)
LEMMA RestIsShorter ==
    ASSUME NEW uri \in Text, ~scheme_is(split(uri).scheme, FILE)
    PROVE  Len(split(uri).rest) < Len(uri)
<1>1. Len(uri) \in Nat /\ uri \in Seq(Byte)
  BY DEF Text
<1>2. PICK k : k = Find(uri, Colon)
  OBVIOUS
<1>3. k # 0 => k \in 1 .. Len(uri)
  BY <1>1, <1>2, FindFacts
<1>4. scheme_is(FILE, FILE)
  BY NamesOfSchemes, NameFacts DEF scheme_is
<1>5. k # 0 /\ split(uri).rest = StripSlashes(After(uri, k))
  <2>1. \/ split(uri) = [scheme |-> FILE, rest |-> uri]
        \/ (/\ k # 0
            /\ split(uri) = [scheme |-> Before(uri, k),
                             rest   |-> StripSlashes(After(uri, k))])
    BY <1>2 DEF split
  <2>2. QED
    BY <1>4, <2>1
<1>6. k \in Nat \ {0} /\ k <= Len(uri)
  BY <1>1, <1>3, <1>5
<1>7. After(uri, k) \in Text /\ Len(After(uri, k)) < Len(uri)
  BY <1>6, AfterText
<1>8. /\ StripSlashes(After(uri, k)) \in Text
      /\ Len(StripSlashes(After(uri, k))) <= Len(After(uri, k))
  BY <1>7, SlashesFacts
<1>9. Len(After(uri, k)) \in Nat /\ Len(StripSlashes(After(uri, k))) \in Nat
  BY <1>7, <1>8 DEF Text
<1>10. QED
  BY <1>1, <1>5, <1>7, <1>8, <1>9

(* What is refused is refused as invalid.                                  *)
LEMMA RefusedIsInvalid ==
    ASSUME NEW uri \in Text
    PROVE  /\ ~IsOk(parse_slice_uri(uri)) => parse_slice_uri(uri) = Invalid
           /\ ~IsOk(parse_concat_uri(uri)) => parse_concat_uri(uri) = Invalid
           /\ ~IsOk(parse_data_uri(uri)) => parse_data_uri(uri) = Invalid
<1>1. \A rest : parse_header(rest) = Invalid \/ \E v : parse_header(rest) = Ok(v)
  BY DEF parse_header
<1>2. parse_slice_uri(uri) = Invalid \/ \E v : parse_slice_uri(uri) = Ok(v)
  BY <1>1 DEF parse_slice_uri
<1>3. parse_concat_uri(uri) = Invalid \/ \E v : parse_concat_uri(uri) = Ok(v)
  BY ConcatGuards
<1>4. \A h, p : ParsedData(h, p) = Invalid \/ \E v : ParsedData(h, p) = Ok(v)
  BY DEF ParsedData
<1>5. parse_data_uri(uri) = Invalid \/ \E v : parse_data_uri(uri) = Ok(v)
  BY <1>4, DataSteps
<1>6. QED
  BY <1>2, <1>3, <1>5, KindFacts

-----------------------------------------------------------------------------
(* The answers of several opens.                                           *)

Gathering(answers, opened, k) ==
    IF k = 0 THEN Ok(<<>>)
    ELSE IF ~IsOk(opened[k - 1]) THEN opened[k - 1]
    ELSE Then(opened[k - 1].value, answers[k])

(* The answers are gathered one by one.                                    *)
LEMMA GatheredStepwise ==
    ASSUME NEW answers \in Seq(Answer)
    PROVE  \E opened \in [0 .. Len(answers) -> Answer] :
              /\ Gathered(answers) = opened[Len(answers)]
              /\ \A k \in 0 .. Len(answers) : opened[k] = Gathering(answers, opened, k)
<1>1. PICK n : n = Len(answers)
  OBVIOUS
<1>2. n \in Nat /\ \A k \in 1 .. n : answers[k] \in Answer
  BY <1>1
<1>3. PICK T : T = 0 .. n
  OBVIOUS
<1>4. PICK V : V = Answer
  OBVIOUS
<1>5. PICK size : size = [k \in T |-> k]
  OBVIOUS
<1>6. size \in [T -> Nat] /\ \A k \in T : size[k] = k
  BY <1>2, <1>3, <1>5
<1>7. PICK H : H = [k \in T |-> [f \in [T -> V] |-> Gathering(answers, f, k)]]
  OBVIOUS
<1>8. ASSUME NEW k \in T, NEW f \in [T -> V] PROVE H[k][f] = Gathering(answers, f, k)
  BY <1>7
<1>9. ASSUME NEW k \in T, NEW f \in [T -> V] PROVE Gathering(answers, f, k) \in V
  <2>1. CASE k = 0
    BY <1>4, <2>1, EmptyText, AnswerFacts DEF Gathering
  <2>2. CASE k # 0
    <3>1. k \in 1 .. n /\ k - 1 \in T
      BY <1>2, <1>3, <2>2
    <3>2. f[k - 1] \in Answer /\ answers[k] \in Answer
      BY <1>2, <1>4, <3>1
    <3>3. QED
      BY <1>4, <2>2, <3>2, AnswerFacts DEF Gathering
  <2>3. QED
    BY <2>1, <2>2
<1>10. ASSUME NEW k \in T, NEW f \in [T -> V], NEW g \in [T -> V],
              \A u \in T : size[u] < size[k] => f[u] = g[u]
       PROVE  Gathering(answers, f, k) = Gathering(answers, g, k)
  <2>1. CASE k = 0
    BY <2>1 DEF Gathering
  <2>2. CASE k # 0
    <3>1. k - 1 \in T /\ k - 1 < k
      BY <1>2, <1>3, <2>2
    <3>2. f[k - 1] = g[k - 1]
      BY <1>6, <1>10, <3>1
    <3>3. QED
      BY <2>2, <3>2 DEF Gathering
  <2>3. QED
    BY <2>1, <2>2
<1>11. Descends(H, T, size, V)
  <2>1. V # {}
    BY <1>4, AnswerFacts
  <2>2. ASSUME NEW k \in T, NEW f \in [T -> V], NEW g \in [T -> V]
        PROVE  /\ H[k][f] \in V
               /\ (\A u \in T : size[u] < size[k] => f[u] = g[u]) => H[k][f] = H[k][g]
    BY <1>8, <1>9, <1>10
  <2>3. QED
    BY <1>6, <2>1, <2>2 DEF Descends
<1>12. \E f : Solves(f, H, T, V)
  BY <1>11, Recursion
<1>13. PICK f : f \in [T -> V] /\ \A k \in T : f[k] = Gathering(answers, f, k)
  BY <1>8, <1>12 DEF Solves
<1>14. f = [k \in 0 .. Len(answers) |-> Gathering(answers, f, k)]
  BY <1>1, <1>3, <1>13
<1>15. PICK c : c = CHOOSE g : g = [k \in 0 .. Len(answers) |-> Gathering(answers, g, k)]
  OBVIOUS
<1>16. c = [k \in 0 .. Len(answers) |-> Gathering(answers, c, k)]
  BY <1>14, <1>15
<1>17. Gathered(answers) = c[Len(answers)]
  BY <1>15 DEF Gathered, Gathering
<1>18. \A k \in T : c[k] = Gathering(answers, c, k)
  BY <1>1, <1>3, <1>16
<1>19. \A k \in Nat : k \in T => c[k] \in V
  <2> DEFINE P == {k \in Nat : k \in T => c[k] \in V}
  <2>1. ASSUME NEW k \in Nat, \A m \in Nat : m < k => m \in P
        PROVE  k \in P
    <3>1. CASE k = 0
      BY <1>4, <1>18, <3>1, EmptyText, AnswerFacts DEF Gathering
    <3>2. CASE k # 0 /\ k \in T
      <4>1. k \in 1 .. n /\ k - 1 \in T /\ k - 1 \in Nat /\ k - 1 < k
        BY <1>2, <1>3, <3>2
      <4>2. c[k - 1] \in Answer /\ answers[k] \in Answer
        BY <1>2, <1>4, <2>1, <4>1
      <4>3. c[k] \in Answer
        BY <1>18, <3>2, <4>2, AnswerFacts DEF Gathering
      <4>4. QED
        BY <1>4, <4>3
    <3>3. QED
      BY <3>1, <3>2
  <2>2. Inherited(P)
    BY <2>1 DEF Inherited
  <2>3. HoldsOfNat(P)
    <3> HIDE DEF P
    <3>1. QED
      BY <2>2, NumberInduction
  <2>4. QED
    BY <2>3 DEF HoldsOfNat
<1>20. c \in [0 .. Len(answers) -> Answer]
  <2>1. \A k \in 0 .. Len(answers) : c[k] \in Answer
    BY <1>1, <1>2, <1>3, <1>4, <1>19
  <2>2. PICK e : e = [k \in 0 .. Len(answers) |-> Gathering(answers, c, k)]
    OBVIOUS
  <2>3. c = e /\ \A k \in 0 .. Len(answers) : e[k] \in Answer
    BY <1>16, <2>1, <2>2
  <2>4. e \in [0 .. Len(answers) -> Answer]
    BY <2>2, <2>3
  <2>5. QED
    BY <2>3, <2>4
<1>21. QED
  BY <1>1, <1>3, <1>17, <1>18, <1>20

(* Several answers make one.                                               *)
LEMMA GatheredTyped ==
    ASSUME NEW answers \in Seq(Answer) PROVE Gathered(answers) \in Answer
<1>1. PICK opened \in [0 .. Len(answers) -> Answer] :
        Gathered(answers) = opened[Len(answers)]
  BY GatheredStepwise
<1>2. Len(answers) \in 0 .. Len(answers)
  OBVIOUS
<1>3. QED
  BY <1>1, <1>2

(* Two streams, one behind the other.                                      *)
LEMMA GatheredTwo ==
    ASSUME NEW v \in Text, NEW w \in Text
    PROVE  Gathered(<<Ok(v), Ok(w)>>) = Ok(v \o w)
<1>1. PICK answers : answers = <<Ok(v), Ok(w)>>
  OBVIOUS
<1>2. /\ answers \in Seq(Answer) /\ Len(answers) = 2
      /\ answers[1] = Ok(v) /\ answers[2] = Ok(w)
  BY <1>1, AnswerFacts
<1>3. PICK opened \in [0 .. 2 -> Answer] :
        /\ Gathered(answers) = opened[2]
        /\ \A k \in 0 .. 2 : opened[k] = Gathering(answers, opened, k)
  BY <1>2, GatheredStepwise
<1>4. opened[0] = Ok(<<>>)
  BY <1>3 DEF Gathering
<1>5. opened[1] = Ok(v)
  <2>1. opened[1] = IF ~IsOk(opened[0]) THEN opened[0] ELSE Then(opened[0].value, answers[1])
    <3>1. 1 \in 0 .. 2 /\ 1 # 0 /\ 1 - 1 = 0
      OBVIOUS
    <3>2. QED
      BY <1>3, <3>1 DEF Gathering
  <2>2. opened[1] = Ok(<<>> \o v)
    <3>1. PICK empty : empty = <<>>
      OBVIOUS
    <3>2. opened[0] = Ok(empty)
      BY <1>4, <3>1
    <3>3. opened[1] = Then(empty, Ok(v))
      BY <1>2, <2>1, <3>2, KindFacts
    <3>4. QED
      BY <3>1, <3>3, BytesFacts
  <2>3. QED
    BY <2>2, ConcatEmptySeq DEF Text
<1>6. opened[2] = Ok(v \o w)
  <2>1. opened[2] = IF ~IsOk(opened[1]) THEN opened[1] ELSE Then(opened[1].value, answers[2])
    <3>1. 2 \in 0 .. 2 /\ 2 # 0 /\ 2 - 1 = 1
      OBVIOUS
    <3>2. QED
      BY <1>3, <3>1 DEF Gathering
  <2>2. QED
    BY <1>2, <1>5, <2>1, KindFacts, BytesFacts
<1>7. QED
  BY <1>1, <1>3, <1>6

-----------------------------------------------------------------------------
(* The dispatch.                                                           *)

OpenOf(uri, f) ==
    LET scheme == split(uri).scheme
    IN  CASE scheme_is(scheme, FILE)   -> open_file(uri)
          [] scheme_is(scheme, MEM)    -> open_mem(uri)
          [] scheme_is(scheme, DATA)   -> open_data(uri)
          [] scheme_is(scheme, SLICE)  -> open_slice(f, uri)
          [] scheme_is(scheme, CONCAT) -> open_concat(f, uri)
          [] OTHER                     -> Err("Unsupported")

(* The cases of the dispatch are apart.                                    *)
LEMMA Dispatch ==
    ASSUME NEW uri, NEW f
    PROVE  LET scheme == split(uri).scheme
           IN  /\ scheme_is(scheme, FILE)   => OpenOf(uri, f) = open_file(uri)
               /\ scheme_is(scheme, MEM)    => OpenOf(uri, f) = open_mem(uri)
               /\ scheme_is(scheme, DATA)   => OpenOf(uri, f) = open_data(uri)
               /\ scheme_is(scheme, SLICE)  => OpenOf(uri, f) = open_slice(f, uri)
               /\ scheme_is(scheme, CONCAT) => OpenOf(uri, f) = open_concat(f, uri)
               /\ \/ \E w \in {FILE, MEM, DATA, SLICE, CONCAT} : scheme_is(scheme, w)
                  \/ OpenOf(uri, f) = Err("Unsupported")
<1>1. PICK low : low = LowerCase(split(uri).scheme)
  OBVIOUS
<1>2. \A w : scheme_is(split(uri).scheme, w) <=> low = w
  BY <1>1 DEF scheme_is
<1>3. OpenOf(uri, f) =
        CASE low = FILE   -> open_file(uri)
          [] low = MEM    -> open_mem(uri)
          [] low = DATA   -> open_data(uri)
          [] low = SLICE  -> open_slice(f, uri)
          [] low = CONCAT -> open_concat(f, uri)
          [] OTHER        -> Err("Unsupported")
  BY <1>1 DEF OpenOf, scheme_is
<1>4. low = FILE => OpenOf(uri, f) = open_file(uri)
  BY <1>3, SchemesApart
<1>5. low = MEM => OpenOf(uri, f) = open_mem(uri)
  BY <1>3, SchemesApart
<1>6. low = DATA => OpenOf(uri, f) = open_data(uri)
  BY <1>3, SchemesApart
<1>7. low = SLICE => OpenOf(uri, f) = open_slice(f, uri)
  BY <1>3, SchemesApart
<1>8. low = CONCAT => OpenOf(uri, f) = open_concat(f, uri)
  BY <1>3, SchemesApart
<1>9. low \notin {FILE, MEM, DATA, SLICE, CONCAT} => OpenOf(uri, f) = Err("Unsupported")
  BY <1>3
<1>10. QED
  BY <1>2, <1>4, <1>5, <1>6, <1>7, <1>8, <1>9

(* The drivers that open nothing else.                                     *)
LEMMA LeavesTyped ==
    ASSUME NEW uri \in Text
    PROVE  open_file(uri) \in Answer /\ open_mem(uri) \in Answer /\ open_data(uri) \in Answer
<1>1. PICK s : s = split(uri)
  OBVIOUS
<1>2. s.rest \in Text
  BY <1>1, SplitFacts
<1>3. open_file(uri) \in Answer
  <2>1. PICK path : path = IF has_file_scheme(uri) THEN percent_decode_path(s.rest)
                                                   ELSE Ok(s.rest)
    OBVIOUS
  <2>2. open_file(uri) =
          IF ~scheme_is(s.scheme, FILE) \/ ~IsOk(path) THEN Invalid
          ELSE IF path.value \notin DOMAIN Files       THEN Err("NotFound")
          ELSE Ok(Files[path.value])
    BY <1>1, <2>1 DEF open_file
  <2>3. path.value \in DOMAIN Files => Ok(Files[path.value]) \in Answer
    BY OpenUriAssumption, AnswerFacts
  <2>4. QED
    BY <2>2, <2>3, AnswerFacts
<1>4. open_mem(uri) \in Answer
  <2>1. open_mem(uri) =
          IF ~scheme_is(s.scheme, MEM) \/ s.rest = <<>> \/ Has(s.rest, Slash)
            THEN Invalid
          ELSE IF s.rest \notin DOMAIN Buffers THEN Err("NotFound")
          ELSE Ok(Buffers[s.rest])
    BY <1>1 DEF open_mem
  <2>2. s.rest \in DOMAIN Buffers => Ok(Buffers[s.rest]) \in Answer
    BY OpenUriAssumption, AnswerFacts
  <2>3. QED
    BY <2>1, <2>2, AnswerFacts
<1>5. open_data(uri) \in Answer
  <2>1. CASE IsOk(parse_data_uri(uri))
    <3>1. PICK m, b, d : d \in Text /\ parse_data_uri(uri) = Ok(DataUri(m, b, d))
      BY <2>1, DataParsed
    <3>2. parse_data_uri(uri).value.data = d
      BY <3>1 DEF Ok, DataUri
    <3>3. open_data(uri) = Ok(d)
      BY <2>1, <3>2 DEF open_data
    <3>4. QED
      BY <3>1, <3>3, AnswerFacts
  <2>2. CASE ~IsOk(parse_data_uri(uri))
    BY <2>2, RefusedIsInvalid, AnswerFacts DEF open_data
  <2>3. QED
    BY <2>1, <2>2
<1>6. QED
  BY <1>3, <1>4, <1>5

(* A window of a stream.                                                   *)
LEMMA WindowTyped ==
    ASSUME NEW bytes \in Text, NEW offset \in 0 .. MaxU64, NEW length \in 0 .. MaxU64
    PROVE  Window(bytes, offset, length) \in Answer
<1>1. /\ bytes \in Seq(Byte) /\ Len(bytes) \in Nat /\ offset \in Nat /\ length \in Nat
  BY MaxU64Assumption DEF Text
<1>2. CASE offset + length > MaxU64 \/ offset + length > Len(bytes)
  BY <1>2, AnswerFacts DEF Window
<1>3. CASE ~(offset + length > MaxU64 \/ offset + length > Len(bytes))
  <2>1. SubSeq(bytes, offset + 1, offset + length) \in Seq(Byte)
    <3>1. \A i \in offset + 1 .. offset + length : bytes[i] \in Byte
      BY <1>1, <1>3
    <3>2. QED
      BY <1>1, <3>1, SubSeqProperties
  <2>2. Window(bytes, offset, length) = Ok(SubSeq(bytes, offset + 1, offset + length))
    BY <1>3 DEF Window
  <2>3. QED
    BY <2>1, <2>2, AnswerFacts DEF Text
<1>4. QED
  BY <1>2, <1>3

(* slice: and concat: answer as the dispatch does for shorter texts.       *)
Typed(f, uri)   == \A u \in Text : Len(u) < Len(uri) => f[u] \in Answer
Same(f, g, uri) == \A u \in Text : Len(u) < Len(uri) => f[u] = g[u]

(* slice: comes back to the dispatch for its inner text only.              *)
LEMMA SliceOpens ==
    ASSUME NEW uri \in Text, NEW f
    PROVE  /\ Typed(f, uri) => open_slice(f, uri) \in Answer
           /\ \A g : Same(f, g, uri) => open_slice(f, uri) = open_slice(g, uri)
<1>1. CASE IsOk(parse_slice_uri(uri))
  <2>1. PICK offset \in 0 .. MaxU64, length \in 0 .. MaxU64, inner \in Text \ {<<>>} :
          /\ parse_slice_uri(uri) = Ok(SliceUri(offset, length, inner))
          /\ Len(inner) < Len(uri)
    BY <1>1, SliceParsed
  <2>2. PICK x : x = SliceUri(offset, length, inner)
    OBVIOUS
  <2>3. /\ parse_slice_uri(uri).value = x
        /\ x.offset = offset /\ x.length = length /\ x.inner = inner
    BY <2>1, <2>2, KindFacts DEF SliceUri
  <2>4. \A h : open_slice(h, uri) =
                  IF ~IsOk(h[inner]) THEN h[inner] ELSE Window(h[inner].value, offset, length)
    BY <1>1, <2>3 DEF open_slice
  <2>5. ASSUME Typed(f, uri) PROVE open_slice(f, uri) \in Answer
    <3>1. f[inner] \in Answer
      BY <2>1, <2>5 DEF Typed
    <3>2. Window(f[inner].value, offset, length) \in Answer
      BY <3>1, AnswerFacts, WindowTyped
    <3>3. QED
      BY <2>4, <3>1, <3>2
  <2>6. ASSUME NEW g, Same(f, g, uri) PROVE open_slice(f, uri) = open_slice(g, uri)
    <3>1. f[inner] = g[inner]
      BY <2>1, <2>6 DEF Same
    <3>2. QED
      BY <2>4, <3>1
  <2>7. QED
    BY <2>5, <2>6
<1>2. CASE ~IsOk(parse_slice_uri(uri))
  <2>1. \A h : open_slice(h, uri) = parse_slice_uri(uri)
    BY <1>2 DEF open_slice
  <2>2. QED
    BY <1>2, <2>1, RefusedIsInvalid, AnswerFacts
<1>3. QED
  BY <1>1, <1>2

(* concat: comes back to the dispatch for its segments only.               *)
LEMMA ConcatOpens ==
    ASSUME NEW uri \in Text, NEW f
    PROVE  /\ Typed(f, uri) => open_concat(f, uri) \in Answer
           /\ \A g : Same(f, g, uri) => open_concat(f, uri) = open_concat(g, uri)
<1>1. CASE IsOk(parse_concat_uri(uri))
  <2>1. PICK segments : segments = Cut[split(uri).rest]
    OBVIOUS
  <2>2. /\ parse_concat_uri(uri) = Ok(segments) /\ segments \in Seq(Text)
        /\ \A i \in 1 .. Len(segments) : Len(segments[i]) <= Len(split(uri).rest)
        /\ scheme_is(split(uri).scheme, CONCAT)
    BY <1>1, <2>1, ConcatParsed
  <2>3. parse_concat_uri(uri).value = segments
    BY <2>2, KindFacts
  <2>4. DOMAIN segments = 1 .. Len(segments)
    BY <2>2, LenProperties
  <2>5. \A h : open_concat(h, uri) =
                  Whole(Gathered([i \in 1 .. Len(segments) |-> open_segment(h, segments[i])]))
    BY <1>1, <2>3, <2>4 DEF open_concat
  <2>6. ASSUME NEW i \in 1 .. Len(segments)
        PROVE  segments[i] \in Text /\ Len(segments[i]) < Len(uri)
    <3>1. segments[i] \in Text /\ Len(segments[i]) <= Len(split(uri).rest)
      BY <2>2, <2>6
    <3>2. ~scheme_is(split(uri).scheme, FILE)
      BY <2>2, SchemesApart DEF scheme_is
    <3>3. Len(split(uri).rest) < Len(uri)
      BY <3>2, RestIsShorter
    <3>4. Len(segments[i]) \in Nat /\ Len(split(uri).rest) \in Nat /\ Len(uri) \in Nat
      BY <3>1, SplitFacts DEF Text
    <3>5. QED
      BY <3>1, <3>3, <3>4
  <2>7. ASSUME Typed(f, uri) PROVE open_concat(f, uri) \in Answer
    <3>1. ASSUME NEW i \in 1 .. Len(segments) PROVE open_segment(f, segments[i]) \in Answer
      <4>1. f[segments[i]] \in Answer
        BY <2>6, <2>7 DEF Typed
      <4>2. QED
        BY <4>1, AnswerFacts DEF open_segment
    <3>2. PICK answers : answers = [i \in 1 .. Len(segments) |-> open_segment(f, segments[i])]
      OBVIOUS
    <3>3. Len(segments) \in Nat
      BY <2>2
    <3>4. answers \in Seq(Answer)
      BY <3>1, <3>2, <3>3
    <3>5. Whole(Gathered(answers)) \in Answer
      BY <3>4, GatheredTyped, AnswerFacts DEF Whole
    <3>6. QED
      BY <2>5, <3>2, <3>5
  <2>8. ASSUME NEW g, Same(f, g, uri) PROVE open_concat(f, uri) = open_concat(g, uri)
    <3>1. ASSUME NEW i \in 1 .. Len(segments)
          PROVE  open_segment(f, segments[i]) = open_segment(g, segments[i])
      <4>1. f[segments[i]] = g[segments[i]]
        BY <2>6, <2>8 DEF Same
      <4>2. QED
        BY <4>1 DEF open_segment
    <3>2. PICK a : a = [i \in 1 .. Len(segments) |-> open_segment(f, segments[i])]
      OBVIOUS
    <3>3. a = [i \in 1 .. Len(segments) |-> open_segment(g, segments[i])]
      BY <3>1, <3>2
    <3>4. QED
      BY <2>5, <3>2, <3>3
  <2>9. QED
    BY <2>7, <2>8
<1>2. CASE ~IsOk(parse_concat_uri(uri))
  <2>1. \A h : open_concat(h, uri) = parse_concat_uri(uri)
    BY <1>2 DEF open_concat
  <2>2. QED
    BY <1>2, <2>1, RefusedIsInvalid, AnswerFacts
<1>3. QED
  BY <1>1, <1>2

(* The dispatch looks at shorter texts only.                               *)
LEMMA OpensOf ==
    ASSUME NEW uri \in Text, NEW f
    PROVE  /\ Typed(f, uri) => OpenOf(uri, f) \in Answer
           /\ \A g : Same(f, g, uri) => OpenOf(uri, f) = OpenOf(uri, g)
<1>1. PICK scheme : scheme = split(uri).scheme
  OBVIOUS
<1>2. CASE scheme_is(scheme, FILE) \/ scheme_is(scheme, MEM) \/ scheme_is(scheme, DATA)
  BY <1>1, <1>2, Dispatch, LeavesTyped
<1>3. CASE scheme_is(scheme, SLICE)
  BY <1>1, <1>3, Dispatch, SliceOpens
<1>4. CASE scheme_is(scheme, CONCAT)
  BY <1>1, <1>4, Dispatch, ConcatOpens
<1>5. CASE ~\E w \in {FILE, MEM, DATA, SLICE, CONCAT} : scheme_is(scheme, w)
  BY <1>1, <1>5, Dispatch, AnswerFacts
<1>6. QED
  BY <1>2, <1>3, <1>4, <1>5

(* open_bytes is what its definition says, whatever nests.                 *)
LEMMA OpenEquation == \A uri \in Text : open_bytes[uri] = OpenOf(uri, open_bytes)
<1>1. PICK V : V = Answer
  OBVIOUS
<1>2. PICK H : H = [s \in Text |-> [f \in [Text -> V] |-> OpenOf(s, f)]]
  OBVIOUS
<1>3. ASSUME NEW s \in Text, NEW f \in [Text -> V] PROVE H[s][f] = OpenOf(s, f)
  BY <1>2
<1>4. Shortens(H, V)
  <2>1. V # {}
    BY <1>1, AnswerFacts
  <2>2. ASSUME NEW s \in Text, NEW f \in [Text -> V], NEW g \in [Text -> V]
        PROVE  /\ H[s][f] \in V
               /\ (\A u \in Text : Len(u) < Len(s) => f[u] = g[u]) => H[s][f] = H[s][g]
    <3>1. Typed(f, s)
      BY <1>1 DEF Typed
    <3>2. OpenOf(s, f) \in V
      BY <1>1, <3>1, OpensOf
    <3>3. Same(f, g, s) => OpenOf(s, f) = OpenOf(s, g)
      BY OpensOf
    <3>4. QED
      BY <1>3, <3>2, <3>3 DEF Same
  <2>3. QED
    BY <2>1, <2>2 DEF Shortens
<1>5. PICK f : Solves(f, H, Text, V)
  BY <1>4, TextRecursion
<1>6. f = [s \in Text |-> OpenOf(s, f)]
  BY <1>3, <1>5 DEF Solves
<1>7. open_bytes = [s \in Text |-> OpenOf(s, open_bytes)]
  BY <1>6 DEF open_bytes, OpenOf
<1>8. QED
  BY <1>7

(* Every text opens, or is refused, with an answer of the right kind.      *)
LEMMA OpensTyped == \A uri \in Text : open_bytes[uri] \in Answer
<1> DEFINE P == {s \in Text : open_bytes[s] \in Answer}
<1>1. ASSUME NEW s \in Text, \A u \in Text : Len(u) < Len(s) => open_bytes[u] \in Answer
      PROVE  open_bytes[s] \in Answer
  <2>1. Typed(open_bytes, s)
    BY <1>1 DEF Typed
  <2>2. QED
    BY <2>1, OpensOf, OpenEquation
<1>2. Settles(P)
  BY <1>1 DEF Settles
<1>3. Text \subseteq P
  <2> HIDE DEF P
  <2>1. QED
    BY <1>2, TextInduction
<1>4. QED
  BY <1>3

-----------------------------------------------------------------------------
(* What is composed.                                                       *)

(* A text behind a scheme is one that can be composed further.             *)
LEMMA NamedText ==
    ASSUME NEW w, IsName(w), NEW r \in Text
    PROVE  LET uri == (w \o <<Colon>>) \o r
           IN  /\ uri \in Text /\ uri # <<>> /\ ~IsPrefix(TwoSlashes, uri)
               /\ \A u : u # w => ~scheme_is(split(uri).scheme, u)
               /\ scheme_is(split(uri).scheme, w)
<1>1. PICK h : h = w \o <<Colon>>
  OBVIOUS
<1>2. PICK uri : uri = h \o r
  OBVIOUS
<1>3. uri \in Text /\ scheme_is(split(uri).scheme, w)
  BY <1>1, <1>2, SplitBehind
<1>4. \A u : u # w => ~scheme_is(split(uri).scheme, u)
  BY <1>3 DEF scheme_is
<1>5. w \in Seq(97 .. 122) /\ Len(w) >= 2 /\ Len(w) \in Nat /\ w \in Seq(Byte)
  BY NameFacts DEF IsName, Text
<1>6. /\ h \in Seq(Byte) /\ Len(h) = Len(w) + 1
      /\ \A i \in 1 .. Len(w) + 1 : h[i] = IF i <= Len(w) THEN w[i] ELSE <<Colon>>[i - Len(w)]
  <2>1. <<Colon>> \in Seq(Byte) /\ Len(<<Colon>>) = 1
    BY DEF Colon, Byte
  <2>2. QED
    BY <1>1, <1>5, <2>1, ConcatProperties
<1>7. h[1] = w[1] /\ w[1] \in 97 .. 122
  <2>1. 1 \in 1 .. Len(w) + 1 /\ 1 <= Len(w) /\ 1 \in 1 .. Len(w)
    BY <1>5
  <2>2. h[1] = w[1]
    BY <1>6, <2>1
  <2>3. \A S : w \in Seq(S) /\ 1 \in 1 .. Len(w) => w[1] \in S
    OBVIOUS
  <2>4. w[1] \in 97 .. 122
    BY <1>5, <2>1, <2>3
  <2>5. QED
    BY <2>2, <2>4
<1>8. uri[1] = h[1] /\ Len(uri) >= 1
  <2>1. r \in Seq(Byte) /\ Len(r) \in Nat /\ Len(h) \in Nat /\ Len(h) >= 1
    BY <1>5, <1>6 DEF Text
  <2>2. /\ Len(uri) = Len(h) + Len(r)
        /\ \A i \in 1 .. Len(h) + Len(r) : uri[i] = IF i <= Len(h) THEN h[i] ELSE r[i - Len(h)]
    BY <1>2, <1>6, <2>1, ConcatProperties
  <2>3. 1 \in 1 .. Len(h) + Len(r) /\ 1 <= Len(h)
    BY <2>1
  <2>4. QED
    BY <2>1, <2>2, <2>3
<1>9. ~IsPrefix(TwoSlashes, uri)
  <2>1. uri[1] # Slash
    <3>1. Slash \notin 97 .. 122
      BY DEF Slash
    <3>2. QED
      BY <1>7, <1>8, <3>1
  <2>2. QED
    BY <1>3, <2>1, SlashesFacts
<1>10. uri # <<>>
  BY <1>8
<1>11. QED
  BY <1>1, <1>2, <1>3, <1>4, <1>9, <1>10

(* What a slice of a text answers.                                         *)
LEMMA SliceAnswers ==
    ASSUME NEW offset \in Nat, NEW length \in Nat, NEW inner \in Text, inner # <<>>,
           NEW bytes \in Text, open_bytes[inner] = Ok(bytes)
    PROVE  LET uri == SliceText(offset, length, inner)
           IN  /\ uri \in Text /\ uri # <<>> /\ ~IsPrefix(TwoSlashes, uri)
               /\ ~scheme_is(split(uri).scheme, CONCAT)
               /\ open_bytes[uri] =
                    IF offset <= MaxU64 /\ length <= MaxU64
                      THEN Window(bytes, offset, length) ELSE Invalid
<1>1. PICK rest : rest = Header(offset, length, inner)
  OBVIOUS
<1>2. PICK uri : uri = SliceText(offset, length, inner)
  OBVIOUS
<1>3. PICK x : x = SliceUri(offset, length, inner)
  OBVIOUS
<1>4. rest \in Text /\ uri = (SLICE \o <<Colon>>) \o rest
  BY <1>1, <1>2, HeaderFacts DEF SliceText
<1>5. /\ uri \in Text /\ uri # <<>> /\ ~IsPrefix(TwoSlashes, uri)
      /\ ~scheme_is(split(uri).scheme, CONCAT)
      /\ scheme_is(split(uri).scheme, SLICE)
  BY <1>4, NamesOfSchemes, SchemesApart, NamedText
<1>6. parse_slice_uri(uri) = IF offset <= MaxU64 /\ length <= MaxU64 THEN Ok(x) ELSE Invalid
  BY <1>2, <1>3, SliceIsReadBack DEF SliceText
<1>7. open_bytes[uri] = open_slice(open_bytes, uri)
  BY <1>5, OpenEquation, Dispatch
<1>8. x.offset = offset /\ x.length = length /\ x.inner = inner
  BY <1>3 DEF SliceUri
<1>9. CASE offset <= MaxU64 /\ length <= MaxU64
  <2>1. IsOk(parse_slice_uri(uri)) /\ parse_slice_uri(uri).value = x
    BY <1>6, <1>9, KindFacts
  <2>2. open_slice(open_bytes, uri) =
          IF ~IsOk(open_bytes[inner]) THEN open_bytes[inner]
          ELSE Window(open_bytes[inner].value, offset, length)
    BY <1>8, <2>1 DEF open_slice
  <2>3. open_slice(open_bytes, uri) = Window(bytes, offset, length)
    BY <2>2, KindFacts
  <2>4. QED
    BY <1>2, <1>5, <1>7, <1>9, <2>3
<1>10. CASE ~(offset <= MaxU64 /\ length <= MaxU64)
  <2>1. ~IsOk(parse_slice_uri(uri)) /\ parse_slice_uri(uri) = Invalid
    BY <1>6, <1>10, KindFacts
  <2>2. open_slice(open_bytes, uri) = Invalid
    BY <2>1 DEF open_slice
  <2>3. QED
    BY <1>2, <1>5, <1>7, <1>10, <2>2
<1>11. QED
  BY <1>9, <1>10

(* What can be a segment, and what stands for bytes.                       *)
IsSegment(uri, bytes) ==
    /\ uri \in Text \ {<<>>} /\ ~Has(uri, Bar) /\ ~IsPrefix(TwoSlashes, uri)
    /\ ~scheme_is(split(uri).scheme, CONCAT)
    /\ bytes \in Text /\ open_bytes[uri] = Ok(bytes)

(* What a concatenation of two texts answers.                              *)
LEMMA ConcatAnswers ==
    ASSUME NEW c, NEW v, IsSegment(c, v), NEW d, NEW w, IsSegment(d, w),
           ~(Len(v \o w) > MaxU64)
    PROVE  LET uri == ConcatUri_format(<<c, d>>)
           IN  /\ uri \in Text /\ uri # <<>> /\ ~IsPrefix(TwoSlashes, uri)
               /\ Has(uri, Bar)
               /\ open_bytes[uri] = Ok(v \o w)
<1>1. PICK segments : segments = <<c, d>>
  OBVIOUS
<1>2. /\ c \in Text /\ d \in Text /\ c # <<>> /\ d # <<>>
      /\ v \in Text /\ w \in Text
  BY DEF IsSegment
<1>3. /\ segments \in Seq(Text) /\ Len(segments) = 2
      /\ segments[1] = c /\ segments[2] = d /\ segments # <<>>
  BY <1>1, <1>2
<1>4. \A i \in 1 .. Len(segments) : i = 1 \/ i = 2
  BY <1>3
<1>5. Acceptable(segments) /\ Barless(segments)
  BY <1>3, <1>4 DEF Acceptable, Barless, IsSegment, ReadsAsAuthority
<1>6. PICK uri : uri = ConcatUri_format(segments)
  OBVIOUS
<1>7. PICK r : r = Joined[segments]
  OBVIOUS
<1>8. r = c \o (<<Bar>> \o d) /\ r \in Text
  <2>1. segments = <<c>> \o <<d>> /\ <<d>> \in Seq(Text) /\ <<d>> # <<>>
    BY <1>1, <1>2
  <2>2. Joined[segments] = c \o (<<Bar>> \o Joined[<<d>>])
    BY <1>2, <2>1, JoinedCons
  <2>3. Joined[<<d>>] = d
    <3>1. PICK empty : empty = <<>>
      OBVIOUS
    <3>2. empty \in Seq(Text) /\ <<d>> = <<d>> \o empty
      BY <1>2, <3>1
    <3>3. QED
      BY <1>2, <3>1, <3>2, JoinedCons
  <2>4. <<Bar>> \o d \in Seq(Byte)
    BY <1>2, BarFacts, ConcatProperties DEF Text
  <2>5. c \o (<<Bar>> \o d) \in Seq(Byte)
    BY <1>2, <2>4, ConcatProperties DEF Text
  <2>6. QED
    BY <1>7, <2>2, <2>3, <2>5 DEF Text
<1>9. uri = (CONCAT \o <<Colon>>) \o r
  BY <1>6, <1>7 DEF ConcatUri_format
<1>10. /\ uri \in Text /\ uri # <<>> /\ ~IsPrefix(TwoSlashes, uri)
       /\ scheme_is(split(uri).scheme, CONCAT)
  BY <1>8, <1>9, NamesOfSchemes, NamedText
<1>11. Has(uri, Bar)
  <2>1. PICK h : h = CONCAT \o <<Colon>>
    OBVIOUS
  <2>2. h \in Seq(Byte)
    <3>1. CONCAT \in Seq(Byte) /\ <<Colon>> \in Seq(Byte)
      BY NamesOfSchemes, NameFacts DEF Text, Colon, Byte
    <3>2. QED
      BY <2>1, <3>1, ConcatProperties
  <2>3. Has(<<Bar>>, Bar)
    BY DEF Has
  <2>4. c \in Seq(Byte) /\ d \in Seq(Byte) /\ r \in Seq(Byte) /\ <<Bar>> \o d \in Seq(Byte)
    BY <1>2, <1>8, BarFacts, ConcatProperties DEF Text
  <2>5. Has(<<Bar>> \o d, Bar)
    BY <2>3, <2>4, BarFacts, HasConcat
  <2>6. Has(r, Bar)
    BY <1>8, <2>4, <2>5, HasConcat
  <2>7. QED
    BY <1>9, <2>1, <2>2, <2>4, <2>6, HasConcat
<1>12. parse_concat_uri(uri) = Ok(segments)
  BY <1>3, <1>5, <1>6, ConcatGuards, KindFacts, ConcatConstructorAgrees DEF ConcatAgrees
<1>13. open_bytes[uri] = open_concat(open_bytes, uri)
  BY <1>10, OpenEquation, Dispatch
<1>14. open_concat(open_bytes, uri) =
         Whole(Gathered([i \in DOMAIN segments |-> open_segment(open_bytes, segments[i])]))
  <2>1. IsOk(parse_concat_uri(uri)) /\ parse_concat_uri(uri).value = segments
    BY <1>12, KindFacts
  <2>2. QED
    BY <2>1 DEF open_concat
<1>15. /\ open_segment(open_bytes, c) = Ok(v)
       /\ open_segment(open_bytes, d) = Ok(w)
  BY DEF open_segment, IsSegment
<1>16. [i \in DOMAIN segments |-> open_segment(open_bytes, segments[i])] = <<Ok(v), Ok(w)>>
  <2>1. PICK a : a = [i \in DOMAIN segments |-> open_segment(open_bytes, segments[i])]
    OBVIOUS
  <2>2. PICK b : b = <<Ok(v), Ok(w)>>
    OBVIOUS
  <2>3. DOMAIN segments = 1 .. 2
    BY <1>1
  <2>4. a = [i \in 1 .. 2 |-> open_segment(open_bytes, segments[i])]
    BY <2>1, <2>3
  <2>5. a[1] = b[1] /\ a[2] = b[2]
    BY <1>3, <1>15, <2>2, <2>4
  <2>6. b = [i \in 1 .. 2 |-> b[i]]
    BY <2>2
  <2>7. \A i \in 1 .. 2 : a[i] = b[i]
    <3>1. \A i \in 1 .. 2 : i = 1 \/ i = 2
      OBVIOUS
    <3>2. QED
      BY <2>5, <3>1
  <2>8. a = b
    BY <2>4, <2>6, <2>7
  <2>9. QED
    BY <2>1, <2>2, <2>8
<1>17. open_bytes[uri] = Ok(v \o w)
  <2>1. open_bytes[uri] = Whole(Ok(v \o w))
    BY <1>2, <1>13, <1>14, <1>16, GatheredTwo
  <2>2. QED
    BY <2>1, KindFacts DEF Whole
<1>18. QED
  BY <1>1, <1>6, <1>10, <1>11, <1>17

-----------------------------------------------------------------------------
(* The invariant.                                                          *)

(* One more leaf is no more than its share.                                *)
LEMMA Shares ==
    ASSUME NEW n \in Nat, n < MaxSteps
    PROVE  /\ (n + 1) * MaxContent \in Nat
           /\ (n + 1 + 1) * MaxContent = (n + 1) * MaxContent + MaxContent
           /\ (n + 1) * MaxContent <= (n + 1 + 1) * MaxContent
<1>1. MaxContent \in Nat /\ MaxSteps \in Nat
  BY LeafAssumption
<1>2. (n + 1) * MaxContent \in Nat
  BY <1>1
<1>3. (n + 1 + 1) * MaxContent = (n + 1) * MaxContent + MaxContent
  BY <1>1
<1>4. QED
  BY <1>1, <1>2, <1>3

(* Nor is what all the leaves may add up to more than a u64.               *)
LEMMA ShareIsU64 ==
    ASSUME NEW n \in Nat, n <= MaxSteps
    PROVE  (n + 1) * MaxContent \in Nat /\ (n + 1) * MaxContent <= MaxU64
<1>1. /\ MaxSteps \in Nat /\ MaxContent \in Nat /\ MaxU64 \in Nat
      /\ (MaxSteps + 1) * MaxContent <= MaxU64
  BY LeafAssumption, MaxU64Assumption
<1>2. PICK d : d = MaxSteps - n
  OBVIOUS
<1>3. d \in Nat /\ MaxSteps = n + d
  BY <1>1, <1>2
<1>4. (n + d + 1) * MaxContent = (n + 1) * MaxContent + d * MaxContent
  BY <1>1, <1>3
<1>5. d * MaxContent \in Nat /\ (n + 1) * MaxContent \in Nat
  BY <1>1, <1>3
<1>6. QED
  BY <1>1, <1>3, <1>4, <1>5

(* What is composed has a length that is a u64.                            *)
LEMMA LengthIsU64 ==
    ASSUME IInv, soup = NoSoup
    PROVE  /\ text \in Text \ {<<>>} /\ model \in Text /\ Len(model) \in 0 .. MaxU64
           /\ open_bytes[text] = Ok(model)
<1>1. PICK n : n = steps
  OBVIOUS
<1>2. /\ n \in Nat /\ n <= MaxSteps /\ MaxSteps \in Nat /\ MaxContent \in Nat
      /\ (MaxSteps + 1) * MaxContent <= MaxU64 /\ MaxU64 \in Nat
      /\ model \in Text /\ Len(model) <= (n + 1) * MaxContent
  BY <1>1, LeafAssumption, MaxU64Assumption DEF IInv, Typing, Composed
<1>3. (n + 1) * MaxContent \in Nat /\ (n + 1) * MaxContent <= MaxU64
  BY <1>2, ShareIsU64
<1>4. Len(model) \in Nat
  BY <1>2 DEF Text
<1>5. Len(model) <= MaxU64
  BY <1>2, <1>3, <1>4
<1>6. QED
  BY <1>2, <1>4, <1>5 DEF IInv, Typing, Composed

(* A soup's prefix is a text, and a leaf can be composed.                  *)
LEMMA InitInv == Init => IInv
<1> SUFFICES ASSUME Init PROVE IInv
  OBVIOUS
<1>1. CASE \E s \in Soups : text = s.prefix /\ soup = s /\ model = NoModel
  BY <1>1, OpenUriAssumption DEF Init, IInv, Typing, Composed
<1>2. CASE \E l \in Leaves : text = l.uri /\ soup = NoSoup /\ model = l.content
  <2>1. PICK l \in Leaves : text = l.uri /\ soup = NoSoup /\ model = l.content
    BY <1>2
  <2>2. /\ l.uri \in Text \ {<<>>} /\ ~IsPrefix(TwoSlashes, l.uri)
        /\ ~scheme_is(split(l.uri).scheme, CONCAT)
        /\ l.content \in Text /\ Len(l.content) <= MaxContent
        /\ open_bytes[l.uri] = Ok(l.content)
        /\ MaxSteps \in Nat /\ MaxContent \in Nat
    BY LeafAssumption
  <2>3. steps = 0 /\ steps <= MaxSteps /\ (steps + 1) * MaxContent = MaxContent
    BY <2>2 DEF Init
  <2>4. Typing
    BY <2>1, <2>2, <2>3 DEF Typing
  <2>5. Composed
    BY <2>1, <2>2, <2>3 DEF Composed
  <2>6. QED
    BY <2>4, <2>5 DEF IInv
<1>3. QED
  BY <1>1, <1>2 DEF Init

(* A piece typed behind a text.                                            *)
LEMMA TypeInv == ASSUME IInv, Type PROVE IInv'
<1>1. PICK piece \in soup.pieces : text' = text \o piece
  BY DEF Type
<1>2. soup \in Soups /\ soup' = soup /\ model' = model /\ soup # NoSoup
  BY DEF Type, IInv, Typing
<1>3. piece \in Text
  BY <1>1, <1>2, OpenUriAssumption
<1>4. text \o piece \in Text
  BY <1>3, ConcatProperties DEF IInv, Typing, Text
<1>5. steps' \in Nat
  BY DEF Type, IInv, Typing
<1>6. Typing'
  BY <1>1, <1>2, <1>4, <1>5 DEF IInv, Typing
<1>7. QED
  BY <1>2, <1>6 DEF IInv, Composed

(* A window of a text is a text, and as long as it says.                   *)
LEMMA WindowFacts ==
    ASSUME NEW s \in Text, NEW o \in Nat, NEW l \in Nat, o + l <= Len(s)
    PROVE  /\ SubSeq(s, o + 1, o + l) \in Text
           /\ Len(SubSeq(s, o + 1, o + l)) = l
<1>1. PICK a \in Nat : a = o + 1
  OBVIOUS
<1>2. PICK b \in Nat : b = o + l
  OBVIOUS
<1>3. s \in Seq(Byte) /\ a >= 1 /\ b <= Len(s)
  BY <1>1, <1>2 DEF Text
<1>4. SubSeq(s, a, b) \in Seq(Byte)
  BY <1>3
<1>5. Len(SubSeq(s, a, b)) = IF a <= b THEN b - a + 1 ELSE 0
  BY <1>3
<1>6. (IF a <= b THEN b - a + 1 ELSE 0) = l
  BY <1>1, <1>2
<1>7. QED
  BY <1>1, <1>2, <1>4, <1>5, <1>6 DEF Text

(* A window of what is composed.                                           *)
LEMMA WrapInSliceInv == ASSUME IInv, WrapInSlice PROVE IInv'
<1>0. PICK offset \in 0 .. Len(model) : \E length \in 0 .. Len(model) - offset :
        /\ text'  = SliceText(offset, length, text)
        /\ model' = SubSeq(model, offset + 1, offset + length)
  BY DEF WrapInSlice
<1>1. PICK length \in 0 .. Len(model) - offset :
        /\ text'  = SliceText(offset, length, text)
        /\ model' = SubSeq(model, offset + 1, offset + length)
  BY <1>0
<1>2. /\ soup = NoSoup /\ soup' = soup /\ steps < MaxSteps /\ steps' = steps + 1
      /\ steps \in Nat
  BY DEF WrapInSlice, IInv, Typing
<1>3. PICK n : n = Len(model)
  OBVIOUS
<1>4. /\ text \in Text \ {<<>>} /\ model \in Text /\ n \in 0 .. MaxU64
      /\ open_bytes[text] = Ok(model)
  BY <1>2, <1>3, LengthIsU64
<1>5. /\ n \in Nat /\ n <= MaxU64 /\ MaxU64 \in Nat
  BY <1>4, MaxU64Assumption
<1>6. /\ offset \in Nat /\ length \in Nat /\ offset + length <= n
      /\ offset <= MaxU64 /\ length <= MaxU64 /\ ~(offset + length > MaxU64)
      /\ ~(offset + length > n)
  BY <1>1, <1>3, <1>5
<1>7. Window(model, offset, length) = Ok(model')
  BY <1>1, <1>3, <1>6 DEF Window
<1>8. /\ text' \in Text /\ text' # <<>> /\ ~IsPrefix(TwoSlashes, text')
      /\ ~scheme_is(split(text').scheme, CONCAT)
      /\ open_bytes[text'] = Ok(model')
  BY <1>1, <1>4, <1>6, <1>7, SliceAnswers
<1>9. model' \in Text /\ Len(model') <= n
  <2>1. PICK m : m = model
    OBVIOUS
  <2>2. m \in Text /\ Len(m) = n
    BY <1>3, <1>4, <2>1
  <2>3. SubSeq(m, offset + 1, offset + length) \in Text
        /\ Len(SubSeq(m, offset + 1, offset + length)) = length
    BY <1>6, <2>2, WindowFacts
  <2>4. model' = SubSeq(m, offset + 1, offset + length)
    BY <1>1, <2>1
  <2>5. QED
    BY <1>5, <1>6, <2>3, <2>4
<1>10. Len(model') <= (steps' + 1) * MaxContent
  <2>1. PICK k : k = steps
    OBVIOUS
  <2>2. PICK a : a = (k + 1) * MaxContent
    OBVIOUS
  <2>3. PICK b : b = (k + 1 + 1) * MaxContent
    OBVIOUS
  <2>4. a \in Nat /\ a <= b /\ b = a + MaxContent /\ MaxContent \in Nat
    BY <1>2, <2>1, <2>2, <2>3, Shares, LeafAssumption
  <2>5. n <= a
    BY <1>2, <1>3, <2>1, <2>2 DEF IInv, Composed
  <2>6. Len(model') \in Nat
    BY <1>9 DEF Text
  <2>7. Len(model') <= b
    BY <1>5, <1>9, <2>4, <2>5, <2>6
  <2>8. QED
    BY <1>2, <2>1, <2>3, <2>7
<1>11. steps' \in Nat /\ steps' <= MaxSteps
  BY <1>2, LeafAssumption
<1>12. Typing'
  BY <1>2, <1>8, <1>11 DEF Typing
<1>13. Composed'
  BY <1>8, <1>9, <1>10, <1>11 DEF Composed
<1>14. QED
  BY <1>12, <1>13 DEF IInv

(* A leaf behind what is composed or before it.                            *)
LEMMA ConcatLeafInv == ASSUME IInv, ConcatLeaf PROVE IInv'
<1>1. /\ soup = NoSoup /\ soup' = soup /\ steps < MaxSteps /\ steps' = steps + 1
      /\ steps \in Nat /\ ~Has(text, Bar)
  BY DEF ConcatLeaf, IInv, Typing
<1>2. PICK leaf \in Leaves :
        \/ /\ text'  = ConcatUri_format(<<text, leaf.uri>>)
           /\ model' = model \o leaf.content
        \/ /\ text'  = ConcatUri_format(<<leaf.uri, text>>)
           /\ model' = leaf.content \o model
  BY DEF ConcatLeaf
<1>3. IsSegment(text, model)
  BY <1>1, LengthIsU64 DEF IsSegment, IInv, Composed
<1>4. IsSegment(leaf.uri, leaf.content) /\ Len(leaf.content) <= MaxContent
  BY LeafAssumption DEF IsSegment
<1>5. model' \in Text /\ Len(model') = Len(model) + Len(leaf.content)
  <2>1. model \in Seq(Byte) /\ leaf.content \in Seq(Byte)
    BY <1>3, <1>4 DEF IsSegment, Text
  <2>2. Len(model) \in Nat /\ Len(leaf.content) \in Nat
    BY <2>1
  <2>3. \A s, t \in Seq(Byte) : s \o t \in Seq(Byte) /\ Len(s \o t) = Len(s) + Len(t)
    BY ConcatProperties
  <2>4. \/ model' = model \o leaf.content
        \/ model' = leaf.content \o model
    BY <1>2
  <2>5. model' \in Seq(Byte)
    BY <2>1, <2>3, <2>4
  <2>6. Len(model') = Len(model) + Len(leaf.content)
    <3>1. CASE model' = model \o leaf.content
      BY <2>1, <2>3, <3>1
    <3>2. CASE model' = leaf.content \o model
      BY <2>1, <2>2, <2>3, <3>2
    <3>3. QED
      BY <2>4, <3>1, <3>2
  <2>7. QED
    BY <2>5, <2>6 DEF Text
<1>6. Len(model') <= (steps' + 1) * MaxContent
  <2>1. PICK k : k = steps
    OBVIOUS
  <2>2. PICK a : a = (k + 1) * MaxContent
    OBVIOUS
  <2>3. PICK b : b = (k + 1 + 1) * MaxContent
    OBVIOUS
  <2>4. a \in Nat /\ b = a + MaxContent /\ MaxContent \in Nat
    BY <1>1, <2>1, <2>2, <2>3, Shares, LeafAssumption
  <2>5. Len(model) <= a
    BY <1>1, <2>1, <2>2 DEF IInv, Composed
  <2>6. Len(model) \in Nat /\ Len(leaf.content) \in Nat
    BY <1>3, <1>4 DEF IsSegment, Text
  <2>7. Len(model') <= b
    BY <1>4, <1>5, <2>4, <2>5, <2>6
  <2>8. QED
    BY <1>1, <2>1, <2>3, <2>7
<1>7. steps' \in Nat /\ steps' <= MaxSteps
  BY <1>1, LeafAssumption
<1>8. ~(Len(model') > MaxU64)
  <2>1. PICK k : k = steps'
    OBVIOUS
  <2>2. PICK a : a = (k + 1) * MaxContent
    OBVIOUS
  <2>3. a \in Nat /\ a <= MaxU64 /\ MaxU64 \in Nat
    BY <1>7, <2>1, <2>2, ShareIsU64, MaxU64Assumption
  <2>4. Len(model') <= a /\ Len(model') \in Nat
    BY <1>5, <1>6, <2>1, <2>2 DEF Text
  <2>5. QED
    BY <2>3, <2>4
<1>9. /\ text' \in Text /\ text' # <<>> /\ ~IsPrefix(TwoSlashes, text')
      /\ Has(text', Bar) /\ open_bytes[text'] = Ok(model')
  <2>1. PICK c, v : c = text /\ v = model
    OBVIOUS
  <2>2. PICK d, w : d = leaf.uri /\ w = leaf.content
    OBVIOUS
  <2>3. IsSegment(c, v) /\ IsSegment(d, w)
    BY <1>3, <1>4, <2>1, <2>2
  <2>4. CASE text' = ConcatUri_format(<<c, d>>) /\ model' = v \o w
    <3>1. ~(Len(v \o w) > MaxU64)
      BY <1>8, <2>4
    <3>2. QED
      BY <2>3, <2>4, <3>1, ConcatAnswers
  <2>5. CASE text' = ConcatUri_format(<<d, c>>) /\ model' = w \o v
    <3>1. ~(Len(w \o v) > MaxU64)
      BY <1>8, <2>5
    <3>2. QED
      BY <2>3, <2>5, <3>1, ConcatAnswers
  <2>6. QED
    BY <1>2, <2>1, <2>2, <2>4, <2>5
<1>10. Typing'
  BY <1>1, <1>7, <1>9 DEF Typing
<1>11. Composed'
  BY <1>5, <1>6, <1>7, <1>9 DEF Composed
<1>12. QED
  BY <1>10, <1>11 DEF IInv

(* Every step keeps the invariant.                                         *)
LEMMA StepInv == IInv /\ [Next]_vars => IInv'
<1> SUFFICES ASSUME IInv, [Next]_vars PROVE IInv'
  OBVIOUS
<1>1. CASE Type
  BY <1>1, TypeInv
<1>2. CASE WrapInSlice
  BY <1>2, WrapInSliceInv
<1>3. CASE ConcatLeaf
  BY <1>3, ConcatLeafInv
<1>4. CASE UNCHANGED vars
  BY <1>4 DEF vars, IInv, Typing, Composed
<1>5. QED
  BY <1>1, <1>2, <1>3, <1>4 DEF Next

-----------------------------------------------------------------------------
(* What the split takes off, and what the grammar does.                    *)

(* A prefix, place by place.                                               *)
LEMMA PrefixAt ==
    ASSUME NEW p \in Text, NEW s \in Text
    PROVE  IsPrefix(p, s) <=>
              Len(p) <= Len(s) /\ \A i \in 1 .. Len(p) : s[i] = p[i]
BY DEF IsPrefix, Text

(* Lowering keeps the length, the colons and the slashes, and only a       *)
(* letter becomes a lower-case one.                                        *)
LEMMA LowerFacts ==
    ASSUME NEW t \in Text
    PROVE  /\ LowerCase(t) \in Text /\ Len(LowerCase(t)) = Len(t)
           /\ \A i \in 1 .. Len(t) :
                 /\ LowerCase(t)[i] = Lower(t[i])
                 /\ t[i] = Colon <=> Lower(t[i]) = Colon
                 /\ t[i] = Slash <=> Lower(t[i]) = Slash
                 /\ Lower(t[i]) \in 97 .. 122 => t[i] \in Letter
<1>0. t \in Seq(Byte)
  BY DEF Text
<1>1. DOMAIN t = 1 .. Len(t) /\ \A i \in 1 .. Len(t) : t[i] \in 0 .. 255
  <2>1. DOMAIN t = 1 .. Len(t)
    BY <1>0
  <2>2. \A i \in 1 .. Len(t) : t[i] \in Byte
    BY <1>0
  <2>3. QED
    BY <2>1, <2>2 DEF Byte
<1>2. \A c \in 0 .. 255 :
         /\ Lower(c) \in 0 .. 255
         /\ c = Colon <=> Lower(c) = Colon
         /\ c = Slash <=> Lower(c) = Slash
         /\ Lower(c) \in 97 .. 122 => c \in Letter
  BY DEF Lower, Upper, Letter, Colon, Slash
<1>3. Len(t) \in Nat
  BY DEF Text
<1>4. LowerCase(t) = [i \in 1 .. Len(t) |-> Lower(t[i])]
  BY <1>1 DEF LowerCase
<1>5. LowerCase(t) \in Text /\ Len(LowerCase(t)) = Len(t)
  <2>1. PICK n \in Nat : n = Len(t)
    BY <1>3
  <2>2. \A i \in 1 .. n : Lower(t[i]) \in Byte
    BY <1>1, <1>2, <2>1 DEF Byte
  <2>3. [i \in 1 .. n |-> Lower(t[i])] \in Seq(Byte)
    BY <2>2
  <2>4. Len([i \in 1 .. n |-> Lower(t[i])]) = n
    BY <2>3
  <2>5. QED
    BY <1>4, <2>1, <2>3, <2>4 DEF Text
<1>6. QED
  BY <1>1, <1>2, <1>4, <1>5

(* A scheme and its colon start a text, in any case; and what is behind    *)
(* them.                                                                   *)
Follows(w, t) == IsPrefix(w \o <<Colon>>, LowerCase(t))
Rest(w, t)    == After(t, Len(w) + 1)

(* That a scheme starts a text, place by place.                            *)
LEMMA FollowsAt ==
    ASSUME NEW w, IsName(w), NEW t \in Text
    PROVE  Follows(w, t) <=>
              /\ Len(w) + 1 <= Len(t) /\ t[Len(w) + 1] = Colon
              /\ \A i \in 1 .. Len(w) : Lower(t[i]) = w[i]
<1>1. w \in Seq(Byte) /\ Len(w) \in Nat
  BY NameFacts DEF Text, IsName
<1>2. Colon \in Byte
  BY DEF Colon, Byte
<1>3. PICK p : p = w \o <<Colon>>
  OBVIOUS
<1>4. /\ p \in Text /\ Len(p) = Len(w) + 1 /\ p[Len(w) + 1] = Colon
      /\ \A i \in 1 .. Len(w) : p[i] = w[i]
  BY <1>1, <1>2, <1>3 DEF Text
<1>5. /\ LowerCase(t) \in Text /\ Len(LowerCase(t)) = Len(t)
      /\ \A i \in 1 .. Len(t) : LowerCase(t)[i] = Lower(t[i])
      /\ \A i \in 1 .. Len(t) : t[i] = Colon <=> Lower(t[i]) = Colon
      /\ Len(t) \in Nat
  BY LowerFacts DEF Text
<1>6. Follows(w, t) <=>
         Len(w) + 1 <= Len(t) /\ \A i \in 1 .. Len(w) + 1 : LowerCase(t)[i] = p[i]
  BY <1>3, <1>4, <1>5, PrefixAt DEF Follows
<1>7. ASSUME Len(w) + 1 <= Len(t)
      PROVE  (\A i \in 1 .. Len(w) + 1 : LowerCase(t)[i] = p[i])
               <=> /\ t[Len(w) + 1] = Colon
                   /\ \A i \in 1 .. Len(w) : Lower(t[i]) = w[i]
  <2>1. 1 .. Len(w) + 1 = 1 .. Len(w) \union {Len(w) + 1}
    BY <1>1
  <2>2. /\ Len(w) + 1 \in 1 .. Len(t) /\ \A i \in 1 .. Len(w) : i \in 1 .. Len(t)
    BY <1>1, <1>5, <1>7
  <2>3. LowerCase(t)[Len(w) + 1] = p[Len(w) + 1] <=> t[Len(w) + 1] = Colon
    BY <1>4, <1>5, <2>2
  <2>4. \A i \in 1 .. Len(w) : LowerCase(t)[i] = p[i] <=> Lower(t[i]) = w[i]
    BY <1>4, <1>5, <2>2
  <2>5. QED
    BY <2>1, <2>3, <2>4
<1>8. QED
  BY <1>6, <1>7

(* The split takes off the scheme that starts a text, and "//" behind it   *)
(* (uri.rs:12-26).                                                         *)
LEMMA SplitFollows ==
    ASSUME NEW w, IsName(w), NEW t \in Text, Follows(w, t)
    PROVE  /\ split(t) = [scheme |-> Before(t, Len(w) + 1),
                          rest |-> StripSlashes(Rest(w, t))]
           /\ scheme_is(Before(t, Len(w) + 1), w)
           /\ Rest(w, t) \in Text /\ Len(Rest(w, t)) < Len(t)
<1>1. /\ w \in Seq(97 .. 122) /\ Len(w) >= 2 /\ Len(w) \in Nat
      /\ \A i \in 1 .. Len(w) : w[i] \in 97 .. 122
  <2>1. w \in Seq(97 .. 122) /\ Len(w) >= 2
    BY DEF IsName
  <2>2. PICK S : S = 97 .. 122
    OBVIOUS
  <2>3. w \in Seq(S)
    BY <2>1, <2>2
  <2>4. Len(w) \in Nat /\ \A i \in 1 .. Len(w) : w[i] \in S
    BY <2>3, ElementOfSeq, LenProperties
  <2>5. QED
    BY <2>1, <2>2, <2>4
<1>2. /\ Len(w) + 1 \in 1 .. Len(t) /\ t[Len(w) + 1] = Colon /\ Len(t) \in Nat
      /\ \A i \in 1 .. Len(w) : Lower(t[i]) = w[i]
  BY FollowsAt, <1>1 DEF Text
<1>3. PICK s : s = Before(t, Len(w) + 1)
  OBVIOUS
<1>4. s \in Text /\ Len(s) = Len(w) /\ \A i \in 1 .. Len(w) : s[i] = t[i]
  <2>1. PICK n : n = Len(w) + 1
    OBVIOUS
  <2>2. n \in 1 .. Len(t) + 1 /\ n - 1 = Len(w)
    BY <1>1, <1>2, <2>1
  <2>3. /\ Before(t, n) \in Seq(Byte) /\ Len(Before(t, n)) = n - 1
        /\ \A i \in 1 .. n - 1 : Before(t, n)[i] = t[i]
    BY <2>2, BeforeFacts DEF Text
  <2>4. QED
    BY <1>3, <2>1, <2>2, <2>3 DEF Text
<1>5. \A i \in 1 .. Len(w) : s[i] \in Letter /\ t[i] # Colon
  <2>1. TAKE i \in 1 .. Len(w)
  <2>2. i \in 1 .. Len(t)
    BY <1>1, <1>2
  <2>5. Lower(t[i]) = w[i] /\ w[i] \in 97 .. 122
    BY <1>1, <1>2, <2>1
  <2>6. Lower(t[i]) \in 97 .. 122
    BY <2>5
  <2>3. t[i] \in Letter
    BY <2>2, <2>6, LowerFacts
  <2>4. QED
    <3>1. Colon \notin Letter
      BY DEF Letter, Upper, Colon
    <3>2. QED
      BY <1>4, <2>1, <2>3, <3>1
<1>6. Find(t, Colon) = Len(w) + 1
  <2>1. Has(t, Colon)
    BY <1>2 DEF Has, Text
  <2>2. /\ Find(t, Colon) \in 1 .. Len(t) /\ t[Find(t, Colon)] = Colon
        /\ \A j \in 1 .. Find(t, Colon) - 1 : t[j] # Colon
    BY <2>1, FindFacts DEF Text
  <2>3. PICK f : f = Find(t, Colon)
    OBVIOUS
  <2>4. QED
    BY <1>1, <1>2, <1>5, <2>2, <2>3
<1>7. IsScheme(s) /\ ~IsDriveLetter(s)
  <2>1. s # <<>> /\ s[1] \in Letter /\ Len(s) # 1
    BY <1>1, <1>4, <1>5 DEF Text
  <2>2. DOMAIN s = 1 .. Len(w)
    BY <1>4 DEF Text
  <2>3. ToSet(s) \subseteq Letter
    BY <2>2, <1>5 DEF ToSet
  <2>4. QED
    BY <2>1, <2>3 DEF IsScheme, IsDriveLetter
<1>8. LowerCase(s) = w
  <2>1. /\ LowerCase(s) \in Seq(Byte) /\ Len(LowerCase(s)) = Len(w)
        /\ \A i \in 1 .. Len(w) : LowerCase(s)[i] = Lower(s[i])
    BY <1>4, LowerFacts DEF Text
  <2>2. \A i \in 1 .. Len(w) : LowerCase(s)[i] = w[i]
    BY <2>1, <1>2, <1>4
  <2>3. w \in Seq(Byte)
    BY NameFacts DEF Text
  <2>4. QED
    BY <2>1, <2>2, <2>3
<1>9. Rest(w, t) \in Text /\ Len(Rest(w, t)) < Len(t)
  <2>1. Len(w) + 1 \in 0 .. Len(t)
    BY <1>1, <1>2
  <2>2. /\ After(t, Len(w) + 1) \in Seq(Byte)
        /\ Len(After(t, Len(w) + 1)) = Len(t) - (Len(w) + 1)
    BY <2>1, AfterFacts DEF Text
  <2>3. QED
    BY <1>1, <1>2, <2>2 DEF Rest, Text
<1>10. Len(w) + 1 # 0
  BY <1>1
<1>11. QED
  BY <1>3, <1>6, <1>7, <1>8, <1>9, <1>10 DEF split, scheme_is, Rest

(* A scheme the text does not start with is found by the split only as the *)
(* file scheme of a bare path.                                             *)
LEMMA SplitUnlessFollows ==
    ASSUME NEW w, IsName(w), NEW t \in Text, ~Follows(w, t),
           scheme_is(split(t).scheme, w)
    PROVE  w = FILE /\ split(t).rest = t
<1>1. PICK f : f = Find(t, Colon)
  OBVIOUS
<1>2. CASE f = 0 \/ IsDriveLetter(Before(t, f)) \/ ~IsScheme(Before(t, f))
  <2>1. split(t) = [scheme |-> FILE, rest |-> t]
    BY <1>1, <1>2 DEF split
  <2>2. LowerCase(FILE) = FILE
    BY NameFacts, NamesOfSchemes
  <2>3. QED
    BY <2>1, <2>2 DEF scheme_is
<1>3. CASE ~(f = 0 \/ IsDriveLetter(Before(t, f)) \/ ~IsScheme(Before(t, f)))
  <2>1. split(t).scheme = Before(t, f)
    BY <1>1, <1>3 DEF split
  <2>2. /\ Has(t, Colon) /\ f \in 1 .. Len(t) /\ t[f] = Colon /\ Len(t) \in Nat
    BY <1>1, <1>3, FindFacts DEF Text
  <2>3. PICK s : s = Before(t, f)
    OBVIOUS
  <2>4. s \in Text /\ Len(s) = f - 1 /\ \A i \in 1 .. f - 1 : s[i] = t[i]
    BY <2>2, <2>3, BeforeFacts DEF Text
  <2>5. LowerCase(s) = w
    BY <2>1, <2>3 DEF scheme_is
  <2>6. Len(w) = f - 1 /\ \A i \in 1 .. f - 1 : w[i] = Lower(t[i])
    BY <2>4, <2>5, LowerFacts
  <2>7. Len(w) + 1 = f
    BY <2>2, <2>6
  <2>8. Follows(w, t)
    BY <2>2, <2>6, <2>7, FollowsAt
  <2>9. QED
    BY <2>8
<1>4. QED
  BY <1>2, <1>3

(* What the grammar reads, of a text and of a scheme.                      *)
HeadsIn(t, w) == {h \in Heads(w) : IsPrefix(h, LowerCase(t))}
RestsIn(t, w) == {After(t, Len(h)) : h \in HeadsIn(t, w)}
PlainIn(t, w) == {r \in RestsIn(t, w) : ~IsPrefix(TwoSlashes, r)}

(* The grammar leaves nothing of a text without the scheme, and else what  *)
(* is behind the colon and, behind "//", that too.                         *)
LEMMA RestsFacts ==
    ASSUME NEW w, IsName(w), NEW t \in Text
    PROVE  /\ ~Follows(w, t) => RestsIn(t, w) = {}
           /\ Follows(w, t) =>
                RestsIn(t, w) = {Rest(w, t)}
                  \union (IF IsPrefix(TwoSlashes, Rest(w, t))
                             THEN {After(Rest(w, t), 2)} ELSE {})
<1>1. w \in Seq(Byte) /\ Len(w) \in Nat /\ LowerCase(t) \in Text
  BY NameFacts, LowerFacts DEF Text, IsName
<1>2. Colon \in Byte /\ TwoSlashes \in Seq(Byte) /\ Len(TwoSlashes) = 2
  BY DEF Colon, Byte, Slash, TwoSlashes
<1>3. PICK p : p = w \o <<Colon>>
  OBVIOUS
<1>4. PICK q : q = p \o TwoSlashes
  OBVIOUS
<1>5. p \in Text /\ q \in Text /\ Len(p) = Len(w) + 1 /\ Len(q) = Len(w) + 3
  <2>1. p \in Seq(Byte) /\ Len(p) = Len(w) + 1
    BY <1>1, <1>2, <1>3
  <2>2. q \in Seq(Byte) /\ Len(q) = Len(p) + 2
    <3>1. \A x, y \in Seq(Byte) : x \o y \in Seq(Byte) /\ Len(x \o y) = Len(x) + Len(y)
      OBVIOUS
    <3>2. p \o TwoSlashes \in Seq(Byte) /\ Len(p \o TwoSlashes) = Len(p) + Len(TwoSlashes)
      BY <1>2, <2>1, <3>1
    <3>3. QED
      BY <1>2, <1>4, <3>2
  <2>3. QED
    BY <1>1, <2>1, <2>2 DEF Text
<1>6. Heads(w) = {p, q}
  BY <1>3, <1>4 DEF Heads
<1>7. IsPrefix(q, LowerCase(t)) => IsPrefix(p, LowerCase(t))
  <2>1. \A i \in 1 .. Len(p) : q[i] = p[i]
    BY <1>2, <1>4, <1>5 DEF Text
  <2>2. \A i \in 1 .. Len(p) : i \in 1 .. Len(q)
    BY <1>1, <1>5
  <2>3. Len(LowerCase(t)) \in Nat
    BY <1>1 DEF Text
  <2>4. QED
    BY <1>1, <1>5, <2>1, <2>2, <2>3, PrefixAt
<1>8. CASE ~Follows(w, t)
  <2>1. HeadsIn(t, w) = {}
    BY <1>3, <1>6, <1>7, <1>8 DEF HeadsIn, Follows
  <2>2. QED
    BY <1>8, <2>1 DEF RestsIn
<1>9. CASE Follows(w, t)
  <2>1. IsPrefix(p, LowerCase(t))
    BY <1>3, <1>9 DEF Follows
  <2>2. PICK b : b = Rest(w, t)
    OBVIOUS
  <2>3. b \in Text /\ b = After(t, Len(p))
    BY <1>5, <1>9, <2>2, SplitFollows DEF Rest
  <2>4. PICK n \in Nat : n = Len(w) + 1
    BY <1>1
  <2>5. PICK m \in Nat : m = Len(t)
    BY DEF Text
  <2>6. n <= m /\ Len(b) = m - n /\ \A i \in 1 .. m - n : b[i] = t[n + i]
    <3>1. n <= m
      BY <1>1, <1>9, <2>4, <2>5, FollowsAt
    <3>2. n \in 0 .. Len(t)
      BY <2>5, <3>1
    <3>3. /\ Len(After(t, n)) = Len(t) - n
          /\ \A i \in 1 .. Len(t) - n : After(t, n)[i] = t[n + i]
      BY <3>2, AfterFacts DEF Text
    <3>4. b = After(t, n)
      BY <1>5, <2>3, <2>4
    <3>5. QED
      BY <2>5, <3>1, <3>3, <3>4
  <2>7. IsPrefix(q, LowerCase(t)) <=> IsPrefix(TwoSlashes, b)
    <3>1. /\ LowerCase(t) \in Text /\ Len(LowerCase(t)) = m
          /\ \A i \in 1 .. m : LowerCase(t)[i] = Lower(t[i])
          /\ \A i \in 1 .. m : t[i] = Slash <=> Lower(t[i]) = Slash
      BY <2>5, LowerFacts
    <3>2. /\ \A i \in 1 .. n : q[i] = p[i]
          /\ q[n + 1] = Slash /\ q[n + 2] = Slash /\ Len(q) = n + 2 /\ Len(p) = n
      BY <1>2, <1>4, <1>5, <2>4 DEF Text, TwoSlashes
    <3>3. \A i \in 1 .. n : LowerCase(t)[i] = p[i]
      BY <1>5, <2>1, <3>1, <3>2, PrefixAt
    <3>4. IsPrefix(q, LowerCase(t)) <=>
             n + 2 <= m /\ LowerCase(t)[n + 1] = Slash /\ LowerCase(t)[n + 2] = Slash
      <4>1. 1 .. n + 2 = 1 .. n \union {n + 1, n + 2}
        OBVIOUS
      <4>2. IsPrefix(q, LowerCase(t)) <=>
               n + 2 <= m /\ \A i \in 1 .. n + 2 : LowerCase(t)[i] = q[i]
        BY <1>5, <3>1, <3>2, PrefixAt
      <4>3. QED
        BY <3>2, <3>3, <4>1, <4>2
    <3>5. IsPrefix(TwoSlashes, b) <=> m - n >= 2 /\ b[1] = Slash /\ b[2] = Slash
      BY <2>3, <2>6, SlashesFacts
    <3>6. ASSUME n + 2 <= m
          PROVE  /\ b[1] = Slash <=> LowerCase(t)[n + 1] = Slash
                 /\ b[2] = Slash <=> LowerCase(t)[n + 2] = Slash
      <4>1. n + 1 \in 1 .. m /\ n + 2 \in 1 .. m /\ 1 \in 1 .. m - n /\ 2 \in 1 .. m - n
        BY <3>6
      <4>2. b[1] = t[n + 1] /\ b[2] = t[n + 2]
        BY <2>6, <4>1
      <4>3. QED
        BY <3>1, <4>1, <4>2
    <3>7. n + 2 <= m <=> m - n >= 2
      OBVIOUS
    <3>8. QED
      BY <3>4, <3>5, <3>6, <3>7
  <2>8. IsPrefix(TwoSlashes, b) => After(t, Len(q)) = After(b, 2)
    <3>1. SUFFICES ASSUME IsPrefix(TwoSlashes, b) PROVE After(t, Len(q)) = After(b, 2)
      OBVIOUS
    <3>2. m - n >= 2
      BY <2>3, <2>6, <3>1, SlashesFacts
    <3>3. PICK k \in Nat : k = n + 2
      OBVIOUS
    <3>4. k \in 0 .. Len(t) /\ Len(q) = k /\ 2 \in 0 .. Len(b)
      BY <1>5, <2>4, <2>5, <2>6, <3>2, <3>3
    <3>5. /\ After(t, k) \in Seq(Byte) /\ Len(After(t, k)) = m - k
          /\ \A i \in 1 .. m - k : After(t, k)[i] = t[k + i]
      BY <2>5, <3>4, AfterFacts DEF Text
    <3>6. /\ After(b, 2) \in Seq(Byte) /\ Len(After(b, 2)) = (m - n) - 2
          /\ \A i \in 1 .. (m - n) - 2 : After(b, 2)[i] = b[2 + i]
      <4>1. PICK two : two = 2
        OBVIOUS
      <4>2. two \in 0 .. Len(b)
        BY <3>4, <4>1
      <4>3. /\ After(b, two) \in Seq(Byte) /\ Len(After(b, two)) = Len(b) - two
            /\ \A i \in 1 .. Len(b) - two : After(b, two)[i] = b[two + i]
        BY <2>3, <4>2, AfterFacts DEF Text
      <4>4. QED
        BY <2>6, <4>1, <4>3
    <3>7. \A i \in 1 .. m - k : After(t, k)[i] = After(b, 2)[i]
      <4>1. TAKE i \in 1 .. m - k
      <4>2. i \in 1 .. (m - n) - 2 /\ 2 + i \in 1 .. m - n /\ n + (2 + i) = k + i
        BY <3>3
      <4>3. b[2 + i] = t[k + i]
        BY <2>6, <4>2
      <4>4. QED
        BY <3>5, <3>6, <4>2, <4>3
    <3>8. (m - n) - 2 = m - k
      BY <3>3
    <3>9. QED
      BY <3>4, <3>5, <3>6, <3>7, <3>8
  <2>9. HeadsIn(t, w) = {p} \union (IF IsPrefix(TwoSlashes, b) THEN {q} ELSE {})
    BY <1>6, <2>1, <2>7 DEF HeadsIn
  <2>10. QED
    BY <1>9, <2>2, <2>3, <2>8, <2>9 DEF RestsIn
<1>10. QED
  BY <1>8, <1>9

(* The split takes off what the grammar does: there is a plain rest just   *)
(* when the scheme is found and what it leaves does not start with "//".   *)
LEMMA PlainFacts ==
    ASSUME NEW w, IsName(w), w # FILE, NEW t \in Text
    PROVE  /\ scheme_is(split(t).scheme, w) <=> Follows(w, t)
           /\ PlainIn(t, w) =
                {r \in {split(t).rest} : /\ scheme_is(split(t).scheme, w)
                                        /\ ~IsPrefix(TwoSlashes, r)}
<1>1. scheme_is(split(t).scheme, w) <=> Follows(w, t)
  BY SplitFollows, SplitUnlessFollows
<1>2. CASE ~Follows(w, t)
  BY <1>1, <1>2, RestsFacts DEF PlainIn
<1>3. CASE Follows(w, t)
  <2>1. PICK b : b = Rest(w, t)
    OBVIOUS
  <2>2. split(t).rest = StripSlashes(b)
    BY <1>3, <2>1, SplitFollows
  <2>3. RestsIn(t, w) = {b} \union (IF IsPrefix(TwoSlashes, b) THEN {After(b, 2)} ELSE {})
    BY <1>3, <2>1, RestsFacts
  <2>4. QED
    BY <1>1, <1>3, <2>2, <2>3 DEF PlainIn, StripSlashes
<1>4. QED
  BY <1>1, <1>2, <1>3

(* has_file_scheme and the split agree: the path is percent-decoded just   *)
(* when the split took "file:" off (uri.rs:52-55, file.rs:36).             *)
LEMMA FileSchemes ==
    ASSUME NEW t \in Text
    PROVE  has_file_scheme(t)
             <=> scheme_is(split(t).scheme, FILE) /\ split(t).rest # t
<1>1. has_file_scheme(t) <=> Follows(FILE, t)
  <2>1. FILE \in Seq(Byte) /\ Len(FILE) = 4 /\ IsName(FILE)
    BY NamesOfSchemes DEF FILE, Byte
  <2>2. Follows(FILE, t) <=> /\ 5 <= Len(t) /\ t[5] = Colon
                             /\ \A i \in 1 .. 4 : Lower(t[i]) = FILE[i]
    <3>1. PICK n : n = Len(FILE)
      OBVIOUS
    <3>2. Follows(FILE, t) <=> /\ n + 1 <= Len(t) /\ t[n + 1] = Colon
                               /\ \A i \in 1 .. n : Lower(t[i]) = FILE[i]
      BY <2>1, <3>1, FollowsAt
    <3>3. n = 4 /\ n + 1 = 5
      BY <2>1, <3>1
    <3>4. QED
      BY <3>2, <3>3
  <2>3. PICK m \in Nat : m = Len(t)
    BY DEF Text
  <2>4. ASSUME 5 <= m
        PROVE  scheme_is(SubSeq(t, 1, 4), FILE)
                 <=> \A i \in 1 .. 4 : Lower(t[i]) = FILE[i]
    <3>1. PICK g : g = SubSeq(t, 1, 4)
      OBVIOUS
    <3>2. g \in Text /\ Len(g) = 4 /\ \A i \in 1 .. 4 : g[i] = t[i]
      BY <2>3, <2>4, <3>1 DEF Text
    <3>3. /\ LowerCase(g) \in Seq(Byte) /\ Len(LowerCase(g)) = 4
          /\ \A i \in 1 .. 4 : LowerCase(g)[i] = Lower(t[i])
      <4>1. /\ LowerCase(g) \in Text /\ Len(LowerCase(g)) = Len(g)
            /\ \A i \in 1 .. Len(g) : LowerCase(g)[i] = Lower(g[i])
        BY <3>2, LowerFacts
      <4>2. QED
        BY <3>2, <4>1 DEF Text
    <3>4. LowerCase(g) = FILE <=> \A i \in 1 .. 4 : LowerCase(g)[i] = FILE[i]
      BY <2>1, <3>3
    <3>5. QED
      BY <3>1, <3>3, <3>4 DEF scheme_is
  <2>5. QED
    BY <2>2, <2>3, <2>4 DEF has_file_scheme
<1>2. ASSUME Follows(FILE, t)
      PROVE  scheme_is(split(t).scheme, FILE) /\ split(t).rest # t
  <2>1. PICK b : b = Rest(FILE, t)
    OBVIOUS
  <2>2. /\ split(t).rest = StripSlashes(b) /\ scheme_is(split(t).scheme, FILE)
        /\ b \in Text /\ Len(b) < Len(t)
    BY <1>2, <2>1, SplitFollows, NamesOfSchemes
  <2>3. Len(StripSlashes(b)) <= Len(b) /\ StripSlashes(b) \in Text
    BY <2>2, SlashesFacts
  <2>4. Len(t) \in Nat /\ Len(b) \in Nat /\ Len(StripSlashes(b)) \in Nat
    BY <2>2, <2>3 DEF Text
  <2>5. QED
    BY <2>2, <2>3, <2>4
<1>3. QED
  BY <1>1, <1>2, SplitUnlessFollows, NamesOfSchemes

-----------------------------------------------------------------------------
(* Slices: the readings of a text.                                         *)

(* A slice header without a text, and one in front of a text.              *)
LEMMA HeaderGrows ==
    ASSUME NEW o \in Nat, NEW l \in Nat, NEW x \in Text
    PROVE  /\ Header(o, l, <<>>) \in Text
           /\ Header(o, l, <<>>) \o x = Header(o, l, x)
<1>1. Numeral[o] \in Seq(Byte) /\ Numeral[l] \in Seq(Byte)
  BY NumeralFacts
<1>2. <<Plus>> \in Seq(Byte) /\ <<Bang>> \in Seq(Byte) /\ <<>> \in Seq(Byte)
  BY DEF Plus, Bang, Byte
<1>3. \A q, s \in Seq(Byte) : q \o s \in Seq(Byte)
  OBVIOUS
<1>4. \A q, s, t \in Seq(Byte) : (q \o s) \o t = q \o (s \o t)
  OBVIOUS
<1>5. PICK h : h = Numeral[o] \o (<<Plus>> \o Numeral[l])
  OBVIOUS
<1>6. h \in Seq(Byte)
  BY <1>1, <1>2, <1>3, <1>5
<1>7. PICK b \in Seq(Byte) : b = <<Bang>>
  BY <1>2
<1>8. b \o <<>> = b
  BY <1>7
<1>9. (h \o b) \o x = h \o (b \o x)
  BY <1>4, <1>6, <1>7 DEF Text
<1>10. Header(o, l, <<>>) = h \o b /\ Header(o, l, x) = h \o (b \o x)
  BY <1>5, <1>7, <1>8 DEF Header
<1>11. QED
  BY <1>3, <1>6, <1>9, <1>10 DEF Text

(* A header is in front of what is left of a text just when the text is    *)
(* the header and something behind it.                                     *)
LEMMA HeadersRead ==
    ASSUME NEW o \in Nat, NEW l \in Nat, NEW r \in Text
    PROVE  LET h == Header(o, l, <<>>)
           IN  /\ IsStrictPrefix(h, r) =>
                    /\ After(r, Len(h)) \in Text \ {<<>>}
                    /\ r = Header(o, l, After(r, Len(h)))
               /\ \A x \in Text \ {<<>>} : r = Header(o, l, x) =>
                    IsStrictPrefix(h, r) /\ After(r, Len(h)) = x
<1>1. PICK h : h = Header(o, l, <<>>)
  OBVIOUS
<1>2. h \in Text /\ \A x \in Text : h \o x = Header(o, l, x)
  BY <1>1, HeaderGrows, EmptyText
<1>3. ASSUME IsStrictPrefix(h, r)
      PROVE  /\ After(r, Len(h)) \in Text \ {<<>>}
             /\ r = Header(o, l, After(r, Len(h)))
  <2>1. IsPrefix(h, r) /\ h # r
    BY <1>3 DEF IsStrictPrefix
  <2>2. PICK x : x = After(r, Len(h))
    OBVIOUS
  <2>3. r = h \o x /\ x \in Text
    BY <1>2, <2>1, <2>2, BehindPrefix
  <2>4. x # <<>>
    BY <1>2, <2>1, <2>3 DEF Text
  <2>5. QED
    BY <1>2, <2>2, <2>3, <2>4
<1>4. ASSUME NEW x \in Text \ {<<>>}, r = Header(o, l, x)
      PROVE  IsStrictPrefix(h, r) /\ After(r, Len(h)) = x
  <2>1. r = h \o x /\ x \in Seq(Byte) /\ h \in Seq(Byte) /\ x # <<>>
    BY <1>2, <1>4 DEF Text
  <2>2. IsPrefix(h, r)
    BY <1>2, <2>1, IsPrefixOf
  <2>3. Len(r) = Len(h) + Len(x) /\ Len(x) # 0 /\ Len(h) \in Nat
    BY <2>1
  <2>4. QED
    BY <2>1, <2>2, <2>3, ConcatApart DEF IsStrictPrefix
<1>5. QED
  BY <1>1, <1>3, <1>4

(* Every header the grammar knows is parsed as its two numbers.            *)
LEMMA HeaderParsed ==
    ASSUME NEW o \in 0 .. MaxU64, NEW l \in 0 .. MaxU64, NEW x \in Text \ {<<>>}
    PROVE  parse_header(Header(o, l, x)) = Ok(SliceUri(o, l, x))
<1>1. o \in Nat /\ l \in Nat /\ o <= MaxU64 /\ l <= MaxU64
  BY MaxU64Assumption
<1>2. PICK u : u = SliceUri_format(SliceUri(o, l, x))
  OBVIOUS
<1>3. PICK rest : rest = Header(o, l, x)
  OBVIOUS
<1>4. rest \in Text /\ ~IsPrefix(TwoSlashes, rest) /\ u = (SLICE \o <<Colon>>) \o rest
  BY <1>1, <1>2, <1>3, HeaderFacts
<1>5. split(u).rest = StripSlashes(rest) /\ scheme_is(split(u).scheme, SLICE)
  <2>1. PICK w : w = SLICE
    OBVIOUS
  <2>2. IsName(w) /\ u = (w \o <<Colon>>) \o rest
    BY <1>4, <2>1, NamesOfSchemes
  <2>3. split(u) = [scheme |-> w, rest |-> StripSlashes(rest)] /\ scheme_is(split(u).scheme, w)
    BY <1>4, <2>2, SplitBehind
  <2>4. QED
    BY <2>1, <2>3
<1>6. parse_slice_uri(u) = Ok(SliceUri(o, l, x))
  BY <1>1, <1>2, SliceIsReadBack
<1>7. parse_slice_uri(u) = parse_header(rest)
  BY <1>4, <1>5 DEF parse_slice_uri, StripSlashes
<1>8. QED
  BY <1>3, <1>6, <1>7

(* The ranges of the grammar are the headers without what is behind them.  *)
RangeOf(o, l) == [offset |-> o, length |-> l, text |-> Header(o, l, <<>>)]

(* The grammar enumerates the headers of all pairs of u64 numbers.         *)
LEMMA RangesFacts ==
    Ranges = {RangeOf(o, l) : o \in 0 .. MaxU64, l \in 0 .. MaxU64}
<1>1. ASSUME NEW o \in 0 .. MaxU64, NEW l \in 0 .. MaxU64
      PROVE  After(SliceText(o, l, <<>>), 6) = Header(o, l, <<>>)
  <2>1. o \in Nat /\ l \in Nat
    BY MaxU64Assumption
  <2>2. PICK p : p = SLICE \o <<Colon>>
    OBVIOUS
  <2>3. p \in Seq(Byte) /\ Len(p) = 6
    BY <2>2 DEF SLICE, Colon, Byte
  <2>4. PICK h : h = Header(o, l, <<>>)
    OBVIOUS
  <2>5. h \in Seq(Byte) /\ SliceText(o, l, <<>>) = p \o h
    BY <2>1, <2>2, <2>4, HeaderFacts, EmptyText DEF Text, SliceText
  <2>6. QED
    BY <2>3, <2>4, <2>5, ConcatApart
<1>2. QED
  BY <1>1 DEF Ranges, RangeOf

(* The readings of a text as a slice.                                      *)
ReadingsIn(t) ==
    UNION {{SliceUri(g.offset, g.length, After(r, Len(g.text))) :
                g \in {g \in Ranges : IsStrictPrefix(g.text, r)}} :
           r \in RestsIn(t, SLICE)}

(* The slice: parser accepts a text just when it has a reading, and then   *)
(* answers the only one.                                                   *)
THEOREM SliceFollows ==
    ASSUME NEW t \in Text
    PROVE  ReadingsIn(t) = IF IsOk(parse_slice_uri(t)) THEN {parse_slice_uri(t).value} ELSE {}
<1>1. SLICE # FILE /\ IsName(SLICE)
  BY NamesOfSchemes DEF SLICE, FILE
<1>2. PICK slice : slice = parse_slice_uri(t)
  OBVIOUS
<1>3. PICK rest : rest = split(t).rest
  OBVIOUS
<1>4. ASSUME IsOk(slice) PROVE slice.value \in ReadingsIn(t)
  <2>1. PICK o \in 0 .. MaxU64, l \in 0 .. MaxU64 : \E x \in Text \ {<<>>} :
           slice = Ok(SliceUri(o, l, x)) /\ rest = Header(o, l, x)
    BY <1>2, <1>3, <1>4, SliceParsed
  <2>2. PICK x \in Text \ {<<>>} : slice = Ok(SliceUri(o, l, x)) /\ rest = Header(o, l, x)
    BY <2>1
  <2>3. scheme_is(split(t).scheme, SLICE)
    BY <1>2, <1>4, KindFacts DEF parse_slice_uri
  <2>4. o \in Nat /\ l \in Nat
    BY MaxU64Assumption
  <2>5. rest \in Text /\ ~IsPrefix(TwoSlashes, rest)
    BY <2>2, <2>4, HeaderFacts
  <2>6. rest \in RestsIn(t, SLICE)
    <3>1. rest \in PlainIn(t, SLICE)
      BY <1>1, <1>3, <2>3, <2>5, PlainFacts
    <3>2. QED
      BY <3>1 DEF PlainIn
  <2>7. PICK g : g = RangeOf(o, l)
    OBVIOUS
  <2>8. g \in Ranges /\ g.offset = o /\ g.length = l /\ g.text = Header(o, l, <<>>)
    BY <2>7, RangesFacts DEF RangeOf
  <2>9. IsStrictPrefix(g.text, rest) /\ After(rest, Len(g.text)) = x
    <3>1. PICK h : h = Header(o, l, <<>>)
      OBVIOUS
    <3>2. \A y \in Text \ {<<>>} : rest = Header(o, l, y) =>
             IsStrictPrefix(h, rest) /\ After(rest, Len(h)) = y
      BY <2>4, <2>5, <3>1, HeadersRead
    <3>3. IsStrictPrefix(h, rest) /\ After(rest, Len(h)) = x
      BY <2>2, <3>2
    <3>4. QED
      BY <2>8, <3>1, <3>3
  <2>10. slice.value = SliceUri(g.offset, g.length, After(rest, Len(g.text)))
    BY <2>2, <2>8, <2>9, KindFacts
  <2>11. QED
    BY <2>6, <2>8, <2>9, <2>10 DEF ReadingsIn
<1>5. ASSUME NEW y \in ReadingsIn(t) PROVE IsOk(slice) /\ y = slice.value
  <2>1. PICK r \in RestsIn(t, SLICE) :
           \E g \in Ranges : /\ IsStrictPrefix(g.text, r)
                             /\ y = SliceUri(g.offset, g.length, After(r, Len(g.text)))
    BY <1>5 DEF ReadingsIn
  <2>2. PICK o \in 0 .. MaxU64, l \in 0 .. MaxU64 :
           /\ IsStrictPrefix(RangeOf(o, l).text, r)
           /\ y = SliceUri(RangeOf(o, l).offset, RangeOf(o, l).length,
                           After(r, Len(RangeOf(o, l).text)))
    BY <2>1, RangesFacts
  <2>3. PICK h : h = Header(o, l, <<>>)
    OBVIOUS
  <2>4. IsStrictPrefix(h, r) /\ y = SliceUri(o, l, After(r, Len(h)))
    BY <2>2, <2>3 DEF RangeOf
  <2>5. o \in Nat /\ l \in Nat
    BY MaxU64Assumption
  <2>6. r \in Text
    <3>1. Follows(SLICE, t)
      BY <1>1, <2>1, RestsFacts
    <3>2. Rest(SLICE, t) \in Text
      BY <1>1, <3>1, SplitFollows
    <3>3. r = Rest(SLICE, t) \/ (IsPrefix(TwoSlashes, Rest(SLICE, t))
                                   /\ r = After(Rest(SLICE, t), 2))
      BY <1>1, <2>1, <3>1, RestsFacts
    <3>4. IsPrefix(TwoSlashes, Rest(SLICE, t)) => After(Rest(SLICE, t), 2) \in Text
      BY <3>2, SlashesFacts DEF StripSlashes
    <3>5. QED
      BY <3>2, <3>3, <3>4
  <2>7. PICK x : x = After(r, Len(h))
    OBVIOUS
  <2>8. x \in Text \ {<<>>} /\ r = Header(o, l, x)
    BY <2>3, <2>4, <2>5, <2>6, <2>7, HeadersRead
  <2>9. ~IsPrefix(TwoSlashes, r)
    BY <2>5, <2>8, HeaderFacts
  <2>10. r = rest /\ scheme_is(split(t).scheme, SLICE)
    <3>1. r \in PlainIn(t, SLICE)
      BY <2>1, <2>9 DEF PlainIn
    <3>2. QED
      BY <1>1, <1>3, <3>1, PlainFacts
  <2>11. slice = Ok(SliceUri(o, l, x))
    BY <1>2, <1>3, <2>8, <2>10, HeaderParsed DEF parse_slice_uri
  <2>12. QED
    BY <2>4, <2>7, <2>11, KindFacts
<1>6. QED
  BY <1>2, <1>4, <1>5

-----------------------------------------------------------------------------
(* No segment is empty just when the bars are separated.                   *)
AllFull(parts) == \A i \in 1 .. Len(parts) : parts[i] # <<>>
CutsFull(s)    == AllFull(Cut[s]) <=> Separated(s)

(* Bars are separated when the first has something in front of it and the  *)
(* others are separated behind it.                                         *)
LEMMA SeparatedAt ==
    ASSUME NEW s \in Text, Has(s, Bar)
    PROVE  LET bar == Find(s, Bar)
           IN  Separated(s) <=> Before(s, bar) # <<>> /\ Separated(After(s, bar))
<1>1. PICK bar : bar = Find(s, Bar)
  OBVIOUS
<1>2. /\ bar \in 1 .. Len(s) /\ s[bar] = Bar /\ Len(s) \in Nat
      /\ \A j \in 1 .. bar - 1 : s[j] # Bar
  BY <1>1, FindFacts DEF Text
<1>3. PICK a : a = After(s, bar)
  OBVIOUS
<1>4. PICK n \in Nat : n = Len(s) - bar
  BY <1>2
<1>5. a \in Seq(Byte) /\ Len(a) = n /\ \A i \in 1 .. n : a[i] = s[bar + i]
  <2>1. bar \in 0 .. Len(s)
    BY <1>2
  <2>2. QED
    BY <1>3, <1>4, <2>1, AfterFacts DEF Text
<1>6. Before(s, bar) # <<>> <=> bar >= 2
  <2>1. bar \in 1 .. Len(s) + 1
    BY <1>2
  <2>2. Before(s, bar) \in Seq(Byte) /\ Len(Before(s, bar)) = bar - 1
    BY <2>1, BeforeFacts DEF Text
  <2>3. QED
    BY <1>2, <2>2
<1>7. ASSUME Separated(s) PROVE bar >= 2 /\ Separated(a)
  <2>1. /\ s[1] # Bar /\ s[Len(s)] # Bar
        /\ \A i \in 2 .. Len(s) : s[i] = Bar => s[i - 1] # Bar
    BY <1>7 DEF Separated
  <2>2. bar >= 2 /\ bar # Len(s)
    BY <1>2, <2>1
  <2>3. n >= 1
    BY <1>2, <1>4, <2>2
  <2>4. a # <<>>
    BY <1>5, <2>3
  <2>5. a[1] # Bar
    <3>1. bar + 1 \in 2 .. Len(s) /\ (bar + 1) - 1 = bar /\ 1 \in 1 .. n
      BY <1>2, <1>4, <2>3
    <3>2. s[bar + 1] # Bar
      BY <1>2, <2>1, <3>1
    <3>3. QED
      BY <1>5, <3>1, <3>2
  <2>6. a[Len(a)] # Bar
    <3>1. n \in 1 .. n /\ bar + n = Len(s)
      BY <1>2, <1>4, <2>3
    <3>2. QED
      BY <1>5, <2>1, <3>1
  <2>7. ASSUME NEW i \in 2 .. Len(a), a[i] = Bar PROVE a[i - 1] # Bar
    <3>1. i \in 1 .. n /\ i - 1 \in 1 .. n
      BY <1>5
    <3>2. bar + i \in 2 .. Len(s) /\ (bar + i) - 1 = bar + (i - 1)
      BY <1>2, <1>4, <3>1
    <3>3. s[bar + i] = Bar /\ a[i - 1] = s[bar + (i - 1)]
      BY <1>5, <2>7, <3>1
    <3>4. QED
      BY <2>1, <3>2, <3>3
  <2>8. QED
    BY <2>2, <2>4, <2>5, <2>6, <2>7 DEF Separated
<1>8. ASSUME bar >= 2, Separated(a) PROVE Separated(s)
  <2>1. /\ a # <<>> /\ a[1] # Bar /\ a[n] # Bar
        /\ \A i \in 2 .. n : a[i] = Bar => a[i - 1] # Bar
    BY <1>5, <1>8 DEF Separated
  <2>2. n >= 1
    BY <1>5, <2>1
  <2>3. s # <<>> /\ s[1] # Bar
    BY <1>2, <1>8
  <2>4. s[Len(s)] # Bar
    <3>1. n \in 1 .. n /\ bar + n = Len(s)
      BY <1>2, <1>4, <2>2
    <3>2. QED
      BY <1>5, <2>1, <3>1
  <2>5. ASSUME NEW i \in 2 .. Len(s), s[i] = Bar PROVE s[i - 1] # Bar
    <3>1. i >= bar
      <4>1. ~(i \in 1 .. bar - 1)
        BY <1>2, <2>5
      <4>2. QED
        BY <1>2, <4>1
    <3>2. CASE i = bar
      <4>1. i - 1 \in 1 .. bar - 1
        BY <1>2, <3>2
      <4>2. QED
        BY <1>2, <4>1
    <3>3. CASE i > bar
      <4>1. PICK j \in 1 .. n : i = bar + j
        <5>1. i - bar \in 1 .. n /\ i = bar + (i - bar)
          BY <1>2, <1>4, <3>3
        <5>2. QED
          BY <5>1
      <4>2. a[j] = Bar
        BY <1>5, <2>5, <4>1
      <4>3. j # 1 /\ j \in 2 .. n
        BY <2>1, <4>1, <4>2
      <4>4. a[j - 1] # Bar /\ j - 1 \in 1 .. n /\ i - 1 = bar + (j - 1)
        BY <1>2, <2>1, <4>1, <4>2, <4>3
      <4>5. QED
        BY <1>5, <4>4
    <3>4. QED
      BY <1>2, <3>1, <3>2, <3>3
  <2>6. QED
    BY <2>3, <2>4, <2>5 DEF Separated
<1>9. QED
  BY <1>1, <1>3, <1>6, <1>7, <1>8

(* One more segment.                                                       *)
LEMMA FullCons ==
    ASSUME NEW c \in Text, NEW parts \in Seq(Text)
    PROVE  AllFull(<<c>> \o parts) <=> c # <<>> /\ AllFull(parts)
<1>1. PICK t : t = <<c>> \o parts
  OBVIOUS
<1>2. PICK n \in Nat : n = Len(parts)
  OBVIOUS
<1>3. Len(t) = n + 1 /\ t[1] = c /\ \A i \in 1 .. n : t[i + 1] = parts[i]
  BY <1>1, <1>2, ConsFacts
<1>4. \A i \in 1 .. n : i + 1 \in 1 .. n + 1
  OBVIOUS
<1>5. \A i \in 1 .. n + 1 : i = 1 \/ (i - 1 \in 1 .. n /\ i = (i - 1) + 1)
  OBVIOUS
<1>6. ASSUME AllFull(t) PROVE c # <<>> /\ AllFull(parts)
  <2>1. 1 \in 1 .. Len(t)
    BY <1>3
  <2>2. QED
    BY <1>2, <1>3, <1>4, <1>6, <2>1 DEF AllFull
<1>7. ASSUME c # <<>>, AllFull(parts) PROVE AllFull(t)
  <2>1. \A i \in 1 .. n : parts[i] # <<>>
    BY <1>2, <1>7 DEF AllFull
  <2>2. ASSUME NEW i \in 1 .. n + 1 PROVE t[i] # <<>>
    <3>1. CASE i = 1
      BY <1>3, <1>7, <3>1
    <3>2. CASE i # 1
      <4>1. PICK j \in 1 .. n : i = j + 1
        BY <1>5, <3>2
      <4>2. QED
        BY <1>3, <2>1, <4>1
    <3>3. QED
      BY <3>1, <3>2
  <2>3. QED
    BY <1>3, <2>2 DEF AllFull
<1>8. QED
  BY <1>1, <1>6, <1>7

(* Cutting at the bars leaves no empty segment just when the grammar says  *)
(* so, by induction over the length.                                       *)
LEMMA CutsFullAll == \A s \in Text : CutsFull(s)
<1> DEFINE P == {s \in Text : CutsFull(s)}
<1>1. ASSUME NEW s \in Text, \A u \in Text : Len(u) < Len(s) => u \in P
      PROVE  s \in P
  <2>1. Cut[s] = CutOf(s, Cut)
    BY CutEquation
  <2>2. CASE ~Has(s, Bar)
    <3>1. Find(s, Bar) = 0
      BY <2>2, FindFacts DEF Text
    <3>2. Cut[s] = <<s>>
      BY <2>1, <3>1 DEF CutOf
    <3>3. AllFull(Cut[s]) <=> s # <<>>
      BY <3>2 DEF AllFull
    <3>4. Separated(s) <=> s # <<>>
      BY <2>2 DEF Separated, Has, Text
    <3>5. QED
      BY <3>3, <3>4 DEF CutsFull
  <2>3. CASE Has(s, Bar)
    <3>1. PICK bar : bar = Find(s, Bar)
      OBVIOUS
    <3>2. bar # 0
      BY <2>3, <3>1, FindFacts DEF Text
    <3>3. PICK b \in Text : b = Before(s, bar)
      BY <3>1, <3>2, PartsAt
    <3>4. PICK a \in Text : a = After(s, bar) /\ Len(a) < Len(s)
      BY <3>1, <3>2, PartsAt
    <3>5. Cut[s] = <<b>> \o Cut[a]
      BY <2>1, <3>1, <3>2, <3>3, <3>4 DEF CutOf
    <3>6. Cut[a] \in Seq(Text)
      BY CutsWell DEF CutWell
    <3>7. AllFull(Cut[s]) <=> b # <<>> /\ AllFull(Cut[a])
      BY <3>5, <3>6, FullCons
    <3>8. AllFull(Cut[a]) <=> Separated(a)
      BY <1>1, <3>4 DEF CutsFull
    <3>9. Separated(s) <=> b # <<>> /\ Separated(a)
      BY <2>3, <3>1, <3>3, <3>4, SeparatedAt
    <3>10. QED
      BY <3>7, <3>8, <3>9 DEF CutsFull
  <2>4. QED
    BY <2>2, <2>3
<1>2. Settles(P)
  BY <1>1 DEF Settles
<1>3. Text \subseteq P
  <2> HIDE DEF P
  <2>1. QED
    BY <1>2, TextInduction
<1>4. QED
  BY <1>3

(* The first segment starts as the whole does.                             *)
LEMMA FirstCut ==
    ASSUME NEW s \in Text, AllFull(Cut[s])
    PROVE  IsPrefix(TwoSlashes, Cut[s][1]) <=> IsPrefix(TwoSlashes, s)
<1>1. PICK parts : parts = Cut[s]
  OBVIOUS
<1>2. parts \in Seq(Text) /\ parts # <<>> /\ Joined[parts] = s
  BY <1>1, CutsWell DEF CutWell
<1>3. 1 \in 1 .. Len(parts) /\ parts[1] \in Text
  BY <1>2
<1>4. parts[1] # <<>>
  BY <1>1, <1>3 DEF AllFull
<1>5. IsPrefix(TwoSlashes, s) => IsPrefix(TwoSlashes, parts[1])
  BY <1>2, <1>4, JoinedStart
<1>6. IsPrefix(parts[1], s)
  <2>1. CASE Find(s, Bar) = 0
    <3>1. Cut[s] = <<s>>
      BY <2>1, CutEquation DEF CutOf
    <3>2. parts[1] = s
      BY <1>1, <3>1
    <3>3. QED
      BY <3>2 DEF IsPrefix
  <2>2. CASE Find(s, Bar) # 0
    <3>1. PICK b \in Text : b = Before(s, Find(s, Bar))
      BY <2>2, PartsAt
    <3>2. PICK a \in Text : a = After(s, Find(s, Bar))
      BY <2>2, PartsAt
    <3>3. s = b \o (<<Bar>> \o a)
      BY <2>2, <3>1, <3>2, PartsAt
    <3>4. Cut[s] = <<b>> \o Cut[a]
      BY <2>2, <3>1, <3>2, CutEquation DEF CutOf
    <3>5. Cut[a] \in Seq(Text)
      BY CutsWell DEF CutWell
    <3>6. parts[1] = b
      BY <1>1, <3>4, <3>5, ConsFacts
    <3>7. PICK c \in Text : c = <<Bar>> \o a
      BY ConsFacts, BarFacts DEF Text
    <3>8. QED
      BY <3>3, <3>6, <3>7, IsPrefixOf
  <2>3. QED
    BY <2>1, <2>2
<1>7. IsPrefix(TwoSlashes, parts[1]) => IsPrefix(TwoSlashes, s)
  <2>1. SUFFICES ASSUME IsPrefix(TwoSlashes, parts[1]) PROVE IsPrefix(TwoSlashes, s)
    OBVIOUS
  <2>2. PICK c \in Text : c = parts[1]
    BY <1>3
  <2>3. Len(c) \in Nat /\ Len(s) \in Nat
    BY DEF Text
  <2>4. Len(c) >= 2 /\ c[1] = Slash /\ c[2] = Slash
    BY <2>1, <2>2, SlashesFacts
  <2>5. Len(c) <= Len(s) /\ \A i \in 1 .. Len(c) : s[i] = c[i]
    BY <1>6, <2>2, PrefixAt
  <2>6. 1 \in 1 .. Len(c) /\ 2 \in 1 .. Len(c)
    BY <2>3, <2>4
  <2>7. QED
    BY <2>3, <2>4, <2>5, <2>6, SlashesFacts
<1>8. QED
  BY <1>1, <1>5, <1>7

(* The concat: parser accepts a text just when no segment is empty.        *)
THEOREM ConcatFollows ==
    ASSUME NEW t \in Text
    PROVE  IsOk(parse_concat_uri(t)) <=> \E r \in PlainIn(t, CONCAT) : Separated(r)
<1>1. CONCAT # FILE /\ IsName(CONCAT)
  BY NamesOfSchemes DEF CONCAT, FILE
<1>2. PICK rest : rest = split(t).rest
  OBVIOUS
<1>3. rest \in Text
  BY <1>2, SplitFacts
<1>4. PICK parts : parts = Cut[rest]
  OBVIOUS
<1>5. Acceptable(parts) <=> Separated(rest) /\ ~IsPrefix(TwoSlashes, rest)
  <2>1. parts # <<>>
    BY <1>3, <1>4, CutsWell DEF CutWell
  <2>2. AllFull(parts) <=> Separated(rest)
    BY <1>3, <1>4, CutsFullAll DEF CutsFull
  <2>3. AllFull(parts) => (IsPrefix(TwoSlashes, parts[1]) <=> IsPrefix(TwoSlashes, rest))
    BY <1>3, <1>4, FirstCut
  <2>4. QED
    BY <2>1, <2>2, <2>3 DEF Acceptable, ReadsAsAuthority, AllFull
<1>6. IsOk(parse_concat_uri(t)) <=> scheme_is(split(t).scheme, CONCAT) /\ Acceptable(parts)
  BY <1>2, <1>4, ConcatGuards, KindFacts
<1>7. QED
  BY <1>1, <1>2, <1>5, <1>6, PlainFacts

-----------------------------------------------------------------------------
(* Counting places.                                                        *)

(* Places, in rising order.                                                *)
Place == Nat \ {0}
Rising(e) ==
    e \in Seq(Place) /\ \A i, j \in 1 .. Len(e) : i < j => e[i] < e[j]

(* A rising sequence is one to one and tells the order of its places.      *)
LEMMA RisingApart ==
    ASSUME NEW e, Rising(e), NEW i \in 1 .. Len(e), NEW j \in 1 .. Len(e)
    PROVE  /\ e[i] \in Place
           /\ e[i] = e[j] <=> i = j
           /\ e[i] <= e[j] <=> i <= j
<1>1. e \in Seq(Place) /\ \A k, l \in 1 .. Len(e) : k < l => e[k] < e[l]
  BY DEF Rising
<1>2. e[i] \in Place /\ e[j] \in Place
  BY <1>1
<1>3. i < j => e[i] < e[j]
  BY <1>1
<1>4. j < i => e[j] < e[i]
  BY <1>1
<1>5. i = j => e[i] = e[j]
  OBVIOUS
<1>6. e[i] \in Int /\ e[j] \in Int /\ i \in Int /\ j \in Int
  BY <1>2 DEF Place
<1>7. QED
  BY <1>2, <1>3, <1>4, <1>5, <1>6

(* A part of a rising sequence has as many places as it is long.           *)
PartOf(e, a, n) == {e[i] : i \in a + 1 .. a + n}

LEMMA PartCounts ==
    ASSUME NEW e, Rising(e), NEW a \in Nat, NEW n \in Nat, a + n <= Len(e)
    PROVE  Cardinality(PartOf(e, a, n)) = n
<1>1. PICK S : S = PartOf(e, a, n)
  OBVIOUS
<1>2. PICK f : f = [k \in 1 .. n |-> e[a + k]]
  OBVIOUS
<1>3. Len(e) \in Nat
  BY DEF Rising
<1>4. \A k \in 1 .. n : a + k \in 1 .. Len(e) /\ a + k \in a + 1 .. a + n
  BY <1>3
<1>5. f \in [1 .. n -> S]
  BY <1>1, <1>2, <1>4 DEF PartOf
<1>6. \A k, l \in 1 .. n : f[k] = f[l] => k = l
  <2>1. TAKE k, l \in 1 .. n
  <2>2. a + k \in 1 .. Len(e) /\ a + l \in 1 .. Len(e)
    BY <1>4
  <2>3. PICK x \in 1 .. Len(e) : x = a + k
    BY <2>2
  <2>4. PICK y \in 1 .. Len(e) : y = a + l
    BY <2>2
  <2>5. e[x] = e[y] <=> x = y
    BY RisingApart
  <2>6. QED
    BY <1>2, <2>3, <2>4, <2>5
<1>7. \A s \in S : \E k \in 1 .. n : f[k] = s
  <2>1. TAKE s \in S
  <2>2. PICK i \in a + 1 .. a + n : s = e[i]
    BY <1>1 DEF PartOf
  <2>3. i - a \in 1 .. n /\ a + (i - a) = i
    OBVIOUS
  <2>4. f[i - a] = s
    BY <1>2, <2>2, <2>3
  <2>5. QED
    BY <2>3, <2>4
<1>8. f \in Bijection(1 .. n, S)
  BY <1>5, <1>6, <1>7 DEF Bijection, Injection, Surjection, IsInjective
<1>9. ExistsBijection(1 .. n, S)
  BY <1>8 DEF ExistsBijection
<1>10. QED
  BY <1>1, <1>9, FS_CountingElements

(* A rising sequence onto a set of places counts it, and tells the kth.    *)
Onto(e, S) == Rising(e) /\ S = {e[i] : i \in 1 .. Len(e)}

(* What is counted by a rising sequence: how many places there are, and    *)
(* which is the kth.                                                       *)
LEMMA OntoCounts ==
    ASSUME NEW e, NEW S, Onto(e, S)
    PROVE  /\ Cardinality(S) = Len(e)
           /\ \A k \in 1 .. Len(e) : Nth(S, k) = e[k]
<1>1. Rising(e) /\ S = {e[i] : i \in 1 .. Len(e)}
  BY DEF Onto
<1>2. PICK n \in Nat : n = Len(e)
  BY <1>1 DEF Rising
<1>3. Cardinality(S) = n
  <2>1. PartOf(e, 0, n) = S
    BY <1>1, <1>2 DEF PartOf
  <2>2. 0 \in Nat /\ 0 + n <= Len(e)
    BY <1>2
  <2>3. Cardinality(PartOf(e, 0, n)) = n
    BY <1>1, <1>2, <2>2, PartCounts
  <2>4. QED
    BY <2>1, <2>3
<1>4. ASSUME NEW k \in 1 .. n PROVE Cardinality({j \in S : j <= e[k]}) = k
  <2>1. {j \in S : j <= e[k]} = PartOf(e, 0, k)
    <3>1. ASSUME NEW j \in S, j <= e[k] PROVE j \in PartOf(e, 0, k)
      <4>1. PICK i \in 1 .. n : j = e[i]
        BY <1>1, <1>2
      <4>2. i <= k
        BY <1>1, <1>2, <3>1, <4>1, RisingApart
      <4>3. i \in 0 + 1 .. 0 + k
        BY <4>2
      <4>4. QED
        BY <4>1, <4>3 DEF PartOf
    <3>2. ASSUME NEW j \in PartOf(e, 0, k) PROVE j \in S /\ j <= e[k]
      <4>1. PICK i \in 0 + 1 .. 0 + k : j = e[i]
        BY DEF PartOf
      <4>2. i \in 1 .. n /\ i <= k
        BY <4>1
      <4>3. QED
        BY <1>1, <1>2, <4>1, <4>2, RisingApart
    <3>3. QED
      BY <3>1, <3>2
  <2>2. k \in Nat /\ 0 + k <= Len(e)
    BY <1>2
  <2>3. QED
    BY <1>1, <2>1, <2>2, PartCounts
<1>5. ASSUME NEW k \in 1 .. n PROVE Nth(S, k) = e[k]
  <2>1. e[k] \in S
    BY <1>1, <1>2
  <2>2. \A i \in S : Cardinality({j \in S : j <= i}) = k => i = e[k]
    <3>1. TAKE i \in S
    <3>2. PICK l \in 1 .. n : i = e[l]
      BY <1>1, <1>2
    <3>3. Cardinality({j \in S : j <= e[l]}) = l
      BY <1>4
    <3>4. QED
      BY <3>2, <3>3
  <2>3. QED
    BY <1>4, <2>1, <2>2 DEF Nth
<1>6. QED
  BY <1>2, <1>3, <1>5

-----------------------------------------------------------------------------
(* A list of what a function tells at the places of a set, in their order. *)
Lists(v, e, S, f) ==
    /\ Onto(e, S) /\ Len(v) = Len(e)
    /\ \A k \in 1 .. Len(e) : v[k] = f[e[k]]
Listed(v, S, f) == \E e : Lists(v, e, S, f)

(* Places behind d more.                                                   *)
Shifted(S, d) == {i + d : i \in S}

(* The empty list.                                                         *)
LEMMA NothingListed == \A f : Listed(<<>>, {}, f)
<1>1. TAKE f
<1>0. <<>> \in Seq(Place)
  OBVIOUS
<1>2. PICK e \in Seq(Place) : e = <<>>
  BY <1>0
<1>3. Len(e) = 0
  BY <1>2
<1>4. Onto(e, {})
  BY <1>2, <1>3 DEF Onto, Rising
<1>5. Lists(<<>>, e, {}, f)
  BY <1>2, <1>3, <1>4 DEF Lists
<1>6. QED
  BY <1>5 DEF Listed

(* A list of what stands behind d more places.                             *)
LEMMA ShiftListed ==
    ASSUME NEW v, NEW S, NEW f, NEW g, NEW d \in Nat, Listed(v, S, f),
           \A i \in S : g[i + d] = f[i]
    PROVE  Listed(v, Shifted(S, d), g)
<1>1. PICK e : Lists(v, e, S, f)
  BY DEF Listed
<1>2. /\ Rising(e) /\ S = {e[i] : i \in 1 .. Len(e)}
      /\ Len(v) = Len(e) /\ \A k \in 1 .. Len(e) : v[k] = f[e[k]]
  BY <1>1 DEF Lists, Onto
<1>3. PICK n \in Nat : n = Len(e)
  BY <1>2 DEF Rising
<1>4. PICK h : h = [k \in 1 .. n |-> e[k] + d]
  OBVIOUS
<1>5. \A k \in 1 .. n : e[k] \in Place
  BY <1>2, <1>3 DEF Rising
<1>6. \A k \in 1 .. n : e[k] + d \in Place
  BY <1>5 DEF Place
<1>7. h \in Seq(Place) /\ Len(h) = n /\ \A k \in 1 .. n : h[k] = e[k] + d
  BY <1>4, <1>6
<1>8. Rising(h)
  <2>1. ASSUME NEW i \in 1 .. n, NEW j \in 1 .. n, i < j PROVE h[i] < h[j]
    <3>1. e[i] < e[j]
      BY <1>2, <1>3, <2>1 DEF Rising
    <3>2. e[i] \in Nat /\ e[j] \in Nat
      BY <1>5 DEF Place
    <3>3. QED
      BY <1>7, <3>1, <3>2
  <2>2. QED
    BY <1>7, <2>1 DEF Rising
<1>9. Shifted(S, d) = {h[i] : i \in 1 .. Len(h)}
  BY <1>2, <1>3, <1>7 DEF Shifted
<1>10. \A k \in 1 .. n : v[k] = g[h[k]]
  BY <1>2, <1>3, <1>7
<1>11. Lists(v, h, Shifted(S, d), g)
  BY <1>2, <1>3, <1>7, <1>8, <1>9, <1>10 DEF Lists, Onto
<1>12. QED
  BY <1>11 DEF Listed

(* A list with one more place in front.                                    *)
LEMMA GrowListed ==
    ASSUME NEW v, NEW S, NEW g, NEW c, NEW V, c \in V, v \in Seq(V),
           Listed(v, S, g), \A i \in S : i > 1, g[1] = c
    PROVE  Listed(<<c>> \o v, {1} \union S, g)
<1>1. PICK e : Lists(v, e, S, g)
  BY DEF Listed
<1>2. /\ Rising(e) /\ S = {e[i] : i \in 1 .. Len(e)}
      /\ Len(v) = Len(e) /\ \A k \in 1 .. Len(e) : v[k] = g[e[k]]
  BY <1>1 DEF Lists, Onto
<1>3. PICK n \in Nat : n = Len(e)
  BY <1>2 DEF Rising
<1>4. PICK h : h = <<1>> \o e
  OBVIOUS
<1>5. 1 \in Place /\ e \in Seq(Place)
  BY <1>2 DEF Place, Rising
<1>6. h \in Seq(Place) /\ Len(h) = n + 1 /\ h[1] = 1 /\ \A i \in 1 .. n : h[i + 1] = e[i]
  BY <1>3, <1>4, <1>5, ConsFacts
<1>7. PICK w : w = <<c>> \o v
  OBVIOUS
<1>8. Len(w) = n + 1 /\ w[1] = c /\ \A i \in 1 .. n : w[i + 1] = v[i]
  BY <1>2, <1>3, <1>7, ConsFacts
<1>9. \A i \in 1 .. n + 1 : i = 1 \/ \E j \in 1 .. n : i = j + 1
  <2>1. \A i \in 1 .. n + 1 : i = 1 \/ (i - 1 \in 1 .. n /\ i = (i - 1) + 1)
    OBVIOUS
  <2>2. QED
    BY <2>1
<1>10. \A i \in 1 .. n : e[i] \in Nat /\ e[i] > 1
  BY <1>2, <1>3, <1>5 DEF Place
<1>11. Rising(h)
  <2>1. ASSUME NEW i \in 1 .. n + 1, NEW j \in 1 .. n + 1, i < j PROVE h[i] < h[j]
    <3>1. PICK l \in 1 .. n : j = l + 1
      BY <1>9, <2>1
    <3>2. CASE i = 1
      BY <1>6, <1>10, <3>1, <3>2
    <3>3. CASE i # 1
      <4>1. PICK k \in 1 .. n : i = k + 1
        BY <1>9, <3>3
      <4>2. k < l
        BY <2>1, <3>1, <4>1
      <4>3. e[k] < e[l]
        BY <1>2, <1>3, <4>2 DEF Rising
      <4>4. QED
        BY <1>6, <3>1, <4>1, <4>3
    <3>4. QED
      BY <3>2, <3>3
  <2>2. QED
    BY <1>6, <2>1 DEF Rising
<1>12. {1} \union S = {h[i] : i \in 1 .. Len(h)}
  <2>1. ASSUME NEW x \in {1} \union S PROVE \E i \in 1 .. n + 1 : x = h[i]
    <3>1. CASE x = 1
      <4>1. 1 \in 1 .. n + 1
        OBVIOUS
      <4>2. QED
        BY <1>6, <3>1, <4>1
    <3>2. CASE x \in S
      <4>1. PICK i \in 1 .. n : x = e[i]
        BY <1>2, <1>3, <3>2
      <4>2. i + 1 \in 1 .. n + 1 /\ x = h[i + 1]
        BY <1>6, <4>1
      <4>3. QED
        BY <4>2
    <3>3. QED
      BY <3>1, <3>2
  <2>2. ASSUME NEW i \in 1 .. n + 1 PROVE h[i] \in {1} \union S
    <3>1. CASE i = 1
      BY <1>6, <3>1
    <3>2. CASE i # 1
      <4>1. PICK j \in 1 .. n : i = j + 1
        BY <1>9, <3>2
      <4>2. h[i] = e[j] /\ e[j] \in S
        BY <1>2, <1>3, <1>6, <4>1
      <4>3. QED
        BY <4>2
    <3>3. QED
      BY <3>1, <3>2
  <2>3. QED
    BY <1>6, <2>1, <2>2
<1>13. \A k \in 1 .. n + 1 : w[k] = g[h[k]]
  <2>1. TAKE k \in 1 .. n + 1
  <2>2. CASE k = 1
    BY <1>6, <1>8, <2>2
  <2>3. CASE k # 1
    <3>1. PICK j \in 1 .. n : k = j + 1
      BY <1>9, <2>3
    <3>2. QED
      BY <1>2, <1>3, <1>6, <1>8, <3>1
  <2>4. QED
    BY <2>2, <2>3
<1>14. Lists(w, h, {1} \union S, g)
  BY <1>6, <1>8, <1>11, <1>12, <1>13 DEF Lists, Onto
<1>15. QED
  BY <1>7, <1>14 DEF Listed

-----------------------------------------------------------------------------
(* Percent-encoded payloads.                                               *)

(* The tail of a text.                                                     *)
LEMMA TailPlaces ==
    ASSUME NEW s \in Text, s # <<>>
    PROVE  /\ Tail(s) = After(s, 1) /\ Len(s) \in Nat /\ 1 <= Len(s)
           /\ DOMAIN s = 1 .. Len(s)
BY DEF After, Text

(* What stands behind the first d places.                                  *)
LEMMA BehindAt ==
    ASSUME NEW s \in Text, NEW d \in Nat, d <= Len(s)
    PROVE  /\ After(s, d) \in Text /\ Len(s) \in Nat /\ Len(After(s, d)) = Len(s) - d
           /\ DOMAIN After(s, d) = 1 .. Len(s) - d
           /\ \A i \in 1 .. Len(s) - d : After(s, d)[i] = s[i + d]
<1>1. PICK n \in Nat : n = Len(s)
  BY DEF Text
<1>2. d \in 0 .. Len(s)
  BY <1>1
<1>3. /\ After(s, d) \in Seq(Byte) /\ Len(After(s, d)) = n - d
      /\ \A i \in 1 .. n - d : After(s, d)[i] = s[d + i]
  BY <1>1, <1>2, AfterFacts DEF Text
<1>4. \A i \in 1 .. n - d : d + i = i + d
  OBVIOUS
<1>5. DOMAIN After(s, d) = 1 .. n - d
  BY <1>3
<1>6. QED
  BY <1>1, <1>3, <1>4, <1>5 DEF Text

(* A payload is decoded when the answer lists the bytes its units spell.   *)
SpelledIn(s) == [i \in Place |-> SpelledAt(s, i)]

Decodes(s) ==
    LET r == percent_decode_bytes[s]
    IN  /\ IsOk(r) <=> IsEscapedText(s)
        /\ IsOk(r) => Listed(r.value, Units(s), SpelledIn(s))

(* An escape is in front.                                                  *)
HexAt(s) ==
    /\ 3 <= Len(s) /\ s[1] = Percent /\ {s[2], s[3]} \subseteq HexDigit

(* A "%" is no hex digit, so no escape starts within another.              *)
LEMMA HexApart == Percent \notin HexDigit
BY DEF Percent, HexDigit, hex_nibble, Digit

(* A unit is one place, or three.                                          *)
UnitOf(s) == IF s[1] = Percent THEN 3 ELSE 1

(* A payload starts with a unit: a byte that is no "%", or an escape.      *)
Starts(s) == s # <<>> /\ (s[1] = Percent => HexAt(s))

(* Behind the first unit of a payload the places, the grammar and the      *)
(* bytes are those of the rest.                                            *)
LEMMA StartsFacts ==
    ASSUME NEW s \in Text, Starts(s)
    PROVE  LET d == UnitOf(s)
               a == After(s, d)
           IN  /\ d \in {1, 3} /\ d <= Len(s)
               /\ a \in Text /\ Len(a) < Len(s)
               /\ Units(s) = {1} \union Shifted(Units(a), d)
               /\ IsEscapedText(s) <=> IsEscapedText(a)
               /\ IsEscapedText(s) =>
                    \A i \in Units(a) : SpelledIn(s)[i + d] = SpelledIn(a)[i]
<1>1. PICK d : d = UnitOf(s)
  OBVIOUS
<1>2. PICK n \in Nat : n = Len(s)
  BY DEF Text
<1>3. d \in {1, 3} /\ 1 <= n /\ d <= n /\ d \in Nat
  BY <1>1, <1>2, TailPlaces DEF UnitOf, Starts, HexAt
<1>4. PICK a : a = After(s, d)
  OBVIOUS
<1>5. PICK m \in Nat : m = n - d
  BY <1>3
<1>6. /\ a \in Text /\ Len(a) = m /\ DOMAIN a = 1 .. m /\ m < n /\ n = m + d
      /\ \A i \in 1 .. m : a[i] = s[i + d]
  <2>1. d <= Len(s)
    BY <1>2, <1>3
  <2>2. /\ a \in Text /\ Len(a) = n - d /\ DOMAIN a = 1 .. n - d
        /\ \A i \in 1 .. n - d : a[i] = s[i + d]
    BY <1>2, <1>3, <1>4, <2>1, BehindAt
  <2>3. m < n /\ n = m + d
    BY <1>3, <1>5
  <2>4. QED
    BY <1>5, <2>2, <2>3
<1>7. DOMAIN s = 1 .. n
  BY <1>2 DEF Text
<1>8. \A i \in 2 .. d : s[i] # Percent
  BY <1>1, <1>3, HexApart DEF UnitOf, Starts, HexAt
<1>9. d = 1 => s[1] # Percent
  BY <1>1 DEF UnitOf
<1>10. d = 3 => s[1] = Percent /\ {s[2], s[3]} \subseteq HexDigit
  BY <1>1 DEF UnitOf, Starts, HexAt
<1>11. s[d] # Percent /\ (d = 3 => s[2] # Percent /\ s[3] # Percent)
  BY <1>3, <1>8, <1>9
<1>12. ASSUME NEW i \in 1 .. m
       PROVE  i + d \in Units(s) <=> i \in Units(a)
  <2>1. i + d \in 1 .. n
    BY <1>3, <1>6
  <2>2. i + d \in Units(s) <=> /\ i + d > 1 => s[i + d - 1] # Percent
                               /\ i + d > 2 => s[i + d - 2] # Percent
    <3>1. PICK j \in 1 .. n : j = i + d
      BY <2>1
    <3>2. j \in Units(s) <=> (j > 1 => s[j - 1] # Percent) /\ (j > 2 => s[j - 2] # Percent)
      BY <1>7 DEF Units
    <3>3. j - 1 = i + d - 1 /\ j - 2 = i + d - 2
      BY <1>3, <3>1
    <3>4. QED
      BY <3>1, <3>2, <3>3
  <2>3. i \in Units(a) <=> /\ i > 1 => a[i - 1] # Percent
                           /\ i > 2 => a[i - 2] # Percent
    BY <1>6 DEF Units
  <2>4. i > 1 => a[i - 1] = s[i + d - 1]
    <3>1. SUFFICES ASSUME i > 1 PROVE a[i - 1] = s[i + d - 1]
      OBVIOUS
    <3>2. i - 1 \in 1 .. m /\ (i - 1) + d = i + d - 1
      BY <1>3, <3>1
    <3>3. QED
      BY <1>6, <3>2
  <2>5. i > 2 => a[i - 2] = s[i + d - 2]
    <3>1. SUFFICES ASSUME i > 2 PROVE a[i - 2] = s[i + d - 2]
      OBVIOUS
    <3>2. i - 2 \in 1 .. m /\ (i - 2) + d = i + d - 2
      BY <1>3, <3>1
    <3>3. QED
      BY <1>6, <3>2
  <2>6. i = 1 => s[i + d - 1] # Percent
    <3>1. i = 1 => i + d - 1 = d
      BY <1>3
    <3>2. QED
      BY <1>11, <3>1
  <2>7. i = 1 /\ d = 3 => s[i + d - 2] # Percent
    BY <1>11
  <2>8. i = 2 => s[i + d - 2] # Percent
    <3>1. i = 2 => i + d - 2 = d
      BY <1>3
    <3>2. QED
      BY <1>11, <3>1
  <2>9. /\ i = 1 \/ i = 2 \/ i > 2
        /\ i + d > 1 /\ (i > 1 => i + d > 2) /\ (d = 3 => i + d > 2)
        /\ (i = 1 /\ d = 1 => ~(i + d > 2)) /\ ~(1 > 1) /\ ~(1 > 2) /\ 2 > 1 /\ ~(2 > 2)
        /\ i > 2 => i > 1
    BY <1>3
  <2>10. CASE i = 1
    BY <1>3, <2>2, <2>3, <2>6, <2>7, <2>9, <2>10
  <2>11. CASE i = 2
    BY <1>3, <2>2, <2>3, <2>4, <2>8, <2>9, <2>11
  <2>12. CASE i > 2
    BY <2>2, <2>3, <2>4, <2>5, <2>9, <2>12
  <2>13. QED
    BY <2>9, <2>10, <2>11, <2>12
<1>13. Units(s) = {1} \union Shifted(Units(a), d)
  <2>1. 1 \in Units(s)
    BY <1>3, <1>7 DEF Units
  <2>2. ASSUME NEW i \in 2 .. n, i <= d PROVE i \notin Units(s)
    <3>1. d = 3 /\ i \in {2, 3}
      BY <1>3, <2>2
    <3>2. s[1] = Percent
      BY <1>10, <3>1
    <3>3. CASE i = 2
      BY <3>2, <3>3 DEF Units
    <3>4. CASE i = 3
      BY <3>2, <3>4 DEF Units
    <3>5. QED
      BY <3>1, <3>3, <3>4
  <2>3. ASSUME NEW i \in 1 .. n, ~(i <= d)
        PROVE  i \in Units(s) <=> i \in Shifted(Units(a), d)
    <3>1. PICK j \in 1 .. m : i = j + d
      <4>1. i - d \in 1 .. m /\ i = (i - d) + d
        BY <1>3, <1>6, <2>3
      <4>2. QED
        BY <4>1
    <3>2. i \in Shifted(Units(a), d) <=> j \in Units(a)
      <4>1. \A k \in Units(a) : k + d = j + d => k = j
        BY <1>3, <1>6 DEF Units
      <4>2. QED
        BY <3>1, <4>1 DEF Shifted
    <3>3. QED
      BY <1>12, <3>1, <3>2
  <2>4. \A i \in Shifted(Units(a), d) : i \in 1 .. n /\ ~(i <= d)
    <3>1. \A k \in Units(a) : k \in 1 .. m
      BY <1>6 DEF Units
    <3>2. \A k \in 1 .. m : k + d \in 1 .. n /\ ~(k + d <= d)
      BY <1>3, <1>6
    <3>3. QED
      BY <3>1, <3>2 DEF Shifted
  <2>5. \A i \in Units(s) : i \in 1 .. n
    BY <1>7 DEF Units
  <2>6. \A i \in 1 .. n : i = 1 \/ (i \in 2 .. n /\ i <= d) \/ ~(i <= d)
    BY <1>3
  <2>7. QED
    BY <1>3, <2>1, <2>2, <2>3, <2>4, <2>5, <2>6
<1>14. ASSUME NEW i \in 1 .. m
       PROVE  (s[i + d] = Percent =>
                 i + d + 2 <= n /\ {s[i + d + 1], s[i + d + 2]} \subseteq HexDigit)
                <=> (a[i] = Percent =>
                       i + 2 <= m /\ {a[i + 1], a[i + 2]} \subseteq HexDigit)
  <2>1. i + d + 2 <= n <=> i + 2 <= m
    BY <1>3, <1>6
  <2>2. i + 2 <= m => a[i + 1] = s[i + d + 1] /\ a[i + 2] = s[i + d + 2]
    <3>1. SUFFICES ASSUME i + 2 <= m
          PROVE a[i + 1] = s[i + d + 1] /\ a[i + 2] = s[i + d + 2]
      OBVIOUS
    <3>2. /\ i + 1 \in 1 .. m /\ (i + 1) + d = i + d + 1
          /\ i + 2 \in 1 .. m /\ (i + 2) + d = i + d + 2
      BY <1>3, <3>1
    <3>3. QED
      BY <1>6, <3>2
  <2>3. QED
    BY <1>6, <2>1, <2>2
<1>15. IsEscapedText(s) <=> IsEscapedText(a)
  <2>1. IsEscapedText(a) <=> \A i \in 1 .. m : a[i] = Percent =>
           i + 2 <= m /\ {a[i + 1], a[i + 2]} \subseteq HexDigit
    BY <1>6 DEF IsEscapedText
  <2>2. IsEscapedText(s) <=> \A i \in 1 .. n : s[i] = Percent =>
           i + 2 <= n /\ {s[i + 1], s[i + 2]} \subseteq HexDigit
    BY <1>2, <1>7 DEF IsEscapedText
  <2>3. \A i \in 1 .. m : i + d \in 1 .. n
    BY <1>3, <1>6
  <2>4. IsEscapedText(s) => IsEscapedText(a)
    BY <1>14, <2>1, <2>2, <2>3
  <2>5. ASSUME IsEscapedText(a), NEW i \in 1 .. n, s[i] = Percent
        PROVE  i + 2 <= n /\ {s[i + 1], s[i + 2]} \subseteq HexDigit
    <3>1. CASE i <= d
      <4>1. i = 1
        BY <1>3, <1>8, <2>5, <3>1
      <4>2. d = 3
        BY <1>3, <1>9, <2>5, <4>1
      <4>3. QED
        BY <1>3, <1>10, <4>1, <4>2
    <3>2. CASE ~(i <= d)
      <4>1. PICK j \in 1 .. m : i = j + d
        <5>1. i - d \in 1 .. m /\ i = (i - d) + d
          BY <1>3, <1>6, <3>2
        <5>2. QED
          BY <5>1
      <4>2. QED
        BY <1>14, <2>1, <2>5, <4>1
    <3>3. QED
      BY <3>1, <3>2
  <2>6. QED
    BY <2>2, <2>4, <2>5
<1>16. ASSUME IsEscapedText(s), NEW i \in Units(a)
       PROVE  SpelledIn(s)[i + d] = SpelledIn(a)[i]
  <2>1. i \in 1 .. m /\ i \in Place /\ i + d \in Place /\ i + d \in 1 .. n
    BY <1>3, <1>6 DEF Units, Place
  <2>2. a[i] = s[i + d]
    BY <1>6, <2>1
  <2>3. a[i] = Percent => i + 2 <= m
    BY <1>6, <1>15, <1>16, <2>1 DEF IsEscapedText
  <2>4. i + 2 <= m => a[i + 1] = s[i + d + 1] /\ a[i + 2] = s[i + d + 2]
    <3>1. SUFFICES ASSUME i + 2 <= m
          PROVE a[i + 1] = s[i + d + 1] /\ a[i + 2] = s[i + d + 2]
      OBVIOUS
    <3>2. /\ i + 1 \in 1 .. m /\ (i + 1) + d = i + d + 1
          /\ i + 2 \in 1 .. m /\ (i + 2) + d = i + d + 2
      BY <1>3, <2>1, <3>1
    <3>3. QED
      BY <1>6, <3>2
  <2>5. SpelledAt(s, i + d) = SpelledAt(a, i)
    BY <2>2, <2>3, <2>4 DEF SpelledAt
  <2>6. QED
    BY <2>1, <2>5 DEF SpelledIn
<1>17. QED
  BY <1>1, <1>2, <1>3, <1>4, <1>6, <1>13, <1>15, <1>16

(* A payload that starts with half an escape is refused by grammar and     *)
(* decoder.                                                                *)
LEMMA NotStarting ==
    ASSUME NEW s \in Text, s # <<>>, ~Starts(s)
    PROVE  ~IsEscapedText(s) /\ percent_decode_bytes[s] = Invalid
<1>1. s[1] = Percent /\ (Len(s) < 3 \/ ~({s[2], s[3]} \subseteq HexDigit))
  BY LengthFacts DEF Starts, HexAt
<1>2. 1 \in DOMAIN s /\ (1 + 2 <= Len(s) => ~(Len(s) < 3))
  BY TailPlaces
<1>3. ~IsEscapedText(s)
  BY <1>1, <1>2 DEF IsEscapedText
<1>4. QED
  BY <1>1, <1>3, DecodedEquation DEF DecodedOf

(* The decoder takes off one unit at a time (uri.rs).                      *)
LEMMA StartDecoded ==
    ASSUME NEW s \in Text, Starts(s)
    PROVE  /\ percent_decode_bytes[s] =
                Then(<<SpelledAt(s, 1)>>, percent_decode_bytes[After(s, UnitOf(s))])
           /\ SpelledAt(s, 1) \in Byte
<1>1. s # <<>>
  BY DEF Starts
<1>2. percent_decode_bytes[s] = DecodedOf(s, percent_decode_bytes)
  BY DecodedEquation
<1>3. CASE s[1] # Percent
  <2>1. UnitOf(s) = 1 /\ SpelledAt(s, 1) = s[1]
    BY <1>3 DEF UnitOf, SpelledAt
  <2>2. Tail(s) = After(s, 1) /\ s[1] \in Byte
    BY <1>1, TailPlaces, TailAfter
  <2>3. QED
    BY <1>1, <1>2, <1>3, <2>1, <2>2 DEF DecodedOf
<1>4. CASE s[1] = Percent
  <2>1. HexAt(s)
    BY <1>4 DEF Starts
  <2>2. ~(Len(s) < 3) /\ {s[2], s[3]} \subseteq HexDigit
    BY <2>1, LengthFacts DEF HexAt
  <2>3. 1 + 1 = 2 /\ 1 + 2 = 3
    OBVIOUS
  <2>4. UnitOf(s) = 3 /\ SpelledAt(s, 1) = 16 * hex_nibble[s[2]] + hex_nibble[s[3]]
    BY <1>4, <2>3 DEF UnitOf, SpelledAt
  <2>5. hex_nibble[s[2]] \in 0 .. 15 /\ hex_nibble[s[3]] \in 0 .. 15
    BY <2>2, HexFacts
  <2>6. SpelledAt(s, 1) \in Byte
    BY <2>4, <2>5 DEF Byte
  <2>7. QED
    BY <1>1, <1>2, <1>4, <2>2, <2>4, <2>6 DEF DecodedOf
<1>5. QED
  BY <1>3, <1>4

(* Nothing spells no bytes.                                                *)
LEMMA EmptyDecodes == Decodes(<<>>)
<1>1. PICK s \in Text : s = <<>>
  BY EmptyText
<1>2. DOMAIN s = {}
  BY <1>1 DEF Text
<1>3. IsEscapedText(s) /\ Units(s) = {}
  BY <1>2 DEF IsEscapedText, Units
<1>4. percent_decode_bytes[s] = Ok(<<>>)
  BY <1>1, DecodedEquation DEF DecodedOf
<1>5. QED
  BY <1>1, <1>3, <1>4, KindFacts, NothingListed DEF Decodes

(* Every payload, by induction over its length.                            *)
LEMMA DecodesAll == \A s \in Text : Decodes(s)
<1> DEFINE P == {s \in Text : Decodes(s)}
<1>1. ASSUME NEW s \in Text, \A u \in Text : Len(u) < Len(s) => u \in P
      PROVE  s \in P
  <2>1. CASE s = <<>>
    BY <2>1, EmptyDecodes
  <2>2. CASE s # <<>> /\ ~Starts(s)
    BY <2>2, NotStarting, KindFacts DEF Decodes
  <2>3. CASE Starts(s)
    <3>1. PICK d : d = UnitOf(s)
      OBVIOUS
    <3>2. PICK a : a = After(s, d)
      OBVIOUS
    <3>3. /\ d \in {1, 3} /\ a \in Text /\ Len(a) < Len(s)
          /\ Units(s) = {1} \union Shifted(Units(a), d)
          /\ IsEscapedText(s) <=> IsEscapedText(a)
          /\ IsEscapedText(s) =>
               \A i \in Units(a) : SpelledIn(s)[i + d] = SpelledIn(a)[i]
      BY <2>3, <3>1, <3>2, StartsFacts
    <3>4. Decodes(a)
      BY <1>1, <3>3
    <3>5. PICK b \in Byte : b = SpelledAt(s, 1)
      BY <2>3, StartDecoded
    <3>6. PICK r \in Bytes : r = percent_decode_bytes[a]
      BY <3>3, DecodedTyped
    <3>7. percent_decode_bytes[s] = Then(<<b>>, r)
      BY <2>3, <3>1, <3>2, <3>5, <3>6, StartDecoded
    <3>8. IsOk(percent_decode_bytes[s]) <=> IsOk(r)
      BY <3>7, KindFacts DEF Then
    <3>9. IsOk(r) <=> IsEscapedText(a)
      BY <3>4, <3>6 DEF Decodes
    <3>10. ASSUME IsOk(r)
           PROVE  Listed(percent_decode_bytes[s].value, Units(s), SpelledIn(s))
      <4>1. percent_decode_bytes[s].value = <<b>> \o r.value /\ r.value \in Seq(Byte)
        BY <3>6, <3>7, <3>10, KindFacts, BytesFacts DEF Then, Text
      <4>2. Listed(r.value, Units(a), SpelledIn(a))
        BY <3>4, <3>6, <3>10 DEF Decodes
      <4>3. \A i \in Units(a) : SpelledIn(s)[i + d] = SpelledIn(a)[i]
        BY <3>3, <3>9, <3>10
      <4>4. d \in Nat
        BY <3>3
      <4>5. PICK S : S = Shifted(Units(a), d)
        OBVIOUS
      <4>6. Listed(r.value, S, SpelledIn(s))
        BY <4>2, <4>3, <4>4, <4>5, ShiftListed
      <4>7. \A i \in S : i > 1
        <5>1. \A i \in Units(a) : i \in Nat /\ i >= 1
          BY <3>3, BehindAt DEF Units, Text
        <5>2. QED
          BY <3>3, <4>5, <5>1 DEF Shifted
      <4>8. SpelledIn(s)[1] = b
        BY <3>5 DEF SpelledIn, Place
      <4>9. Listed(<<b>> \o r.value, {1} \union S, SpelledIn(s))
        BY <4>1, <4>6, <4>7, <4>8, GrowListed
      <4>10. QED
        BY <3>3, <4>1, <4>5, <4>9
    <3>11. QED
      BY <3>3, <3>8, <3>9, <3>10 DEF Decodes
  <2>4. QED
    BY <2>1, <2>2, <2>3
<1>2. Settles(P)
  BY <1>1 DEF Settles
<1>3. Text \subseteq P
  <2> HIDE DEF P
  <2>1. QED
    BY <1>2, TextInduction
<1>4. QED
  BY <1>3

(* The percent-decoder takes the escaped texts and answers the bytes they  *)
(* spell.                                                                  *)
THEOREM PercentFollows ==
    ASSUME NEW s \in Text
    PROVE  LET r == percent_decode_bytes[s]
           IN  /\ IsOk(r) <=> IsEscapedText(s)
               /\ IsOk(r) => AreSpelledBy(r.value, s)
<1>1. PICK r \in Bytes : r = percent_decode_bytes[s]
  BY DecodedTyped
<1>2. Decodes(s)
  BY DecodesAll
<1>3. ASSUME IsOk(r) PROVE AreSpelledBy(r.value, s)
  <2>1. Listed(r.value, Units(s), SpelledIn(s))
    BY <1>1, <1>2, <1>3 DEF Decodes
  <2>2. PICK e : Lists(r.value, e, Units(s), SpelledIn(s))
    BY <2>1 DEF Listed
  <2>3. /\ Len(r.value) = Cardinality(Units(s)) /\ Len(r.value) = Len(e)
        /\ \A k \in 1 .. Len(e) : Nth(Units(s), k) = e[k]
        /\ \A k \in 1 .. Len(e) : r.value[k] = SpelledIn(s)[e[k]]
    BY <2>2, OntoCounts DEF Lists
  <2>4. \A k \in 1 .. Len(e) : e[k] \in Place
    BY <2>2 DEF Lists, Onto, Rising
  <2>5. \A k \in 1 .. Len(e) : SpelledIn(s)[e[k]] = SpelledAt(s, e[k])
    BY <2>4 DEF SpelledIn
  <2>6. DOMAIN r.value = 1 .. Len(r.value)
    BY <1>1, BytesFacts DEF Text
  <2>7. QED
    BY <2>3, <2>5, <2>6 DEF AreSpelledBy
<1>4. QED
  BY <1>1, <1>2, <1>3 DEF Decodes

-----------------------------------------------------------------------------
(* Bits.                                                                   *)
LEMMA WeightsAre ==
    /\ Weights[1] = 128 /\ Weights[2] = 64 /\ Weights[3] = 32 /\ Weights[4] = 16
    /\ Weights[5] = 8 /\ Weights[6] = 4 /\ Weights[7] = 2 /\ Weights[8] = 1
BY DEF Weights

(* The bit of a weight; and the number eight bits of a row make.           *)
Bit(x, w) == (x \div w) % 2

EightOf(b, i) ==
    128 * b[i] + 64 * b[i + 1] + 32 * b[i + 2] + 16 * b[i + 3]
      + 8 * b[i + 4] + 4 * b[i + 5] + 2 * b[i + 6] + b[i + 7]

(* A number made of eight bits has just these bits.                        *)
LEMMA EightAre ==
    ASSUME NEW n \in Nat, NEW b, NEW i \in Nat, i + 7 <= n,
           \A j \in 0 .. n : b[j] \in 0 .. 1
    PROVE  /\ EightOf(b, i) \in 0 .. 255
           /\ \A r \in 0 .. 7 : Bit(EightOf(b, i), Weights[r + 1]) = b[i + r]
<1>1. PICK b0 \in 0 .. 1 : b0 = b[i]
  OBVIOUS
<1>2. PICK b1 \in 0 .. 1 : b1 = b[i + 1]
  OBVIOUS
<1>3. PICK b2 \in 0 .. 1 : b2 = b[i + 2]
  OBVIOUS
<1>4. PICK b3 \in 0 .. 1 : b3 = b[i + 3]
  OBVIOUS
<1>5. PICK b4 \in 0 .. 1 : b4 = b[i + 4]
  OBVIOUS
<1>6. PICK b5 \in 0 .. 1 : b5 = b[i + 5]
  OBVIOUS
<1>7. PICK b6 \in 0 .. 1 : b6 = b[i + 6]
  OBVIOUS
<1>8. PICK b7 \in 0 .. 1 : b7 = b[i + 7]
  OBVIOUS
<1>9. PICK x : x = EightOf(b, i)
  OBVIOUS
<1>10. x = 128 * b0 + 64 * b1 + 32 * b2 + 16 * b3 + 8 * b4 + 4 * b5 + 2 * b6 + b7
  BY <1>1, <1>2, <1>3, <1>4, <1>5, <1>6, <1>7, <1>8, <1>9 DEF EightOf
<1>11. x \in 0 .. 255
  BY <1>10
<1>12. Bit(x, 128) = b0
  BY <1>10 DEF Bit
<1>13. Bit(x, 64) = b1
  BY <1>10 DEF Bit
<1>14. Bit(x, 32) = b2
  BY <1>10 DEF Bit
<1>15. Bit(x, 16) = b3
  BY <1>10 DEF Bit
<1>16. Bit(x, 8) = b4
  BY <1>10 DEF Bit
<1>17. Bit(x, 4) = b5
  BY <1>10 DEF Bit
<1>18. Bit(x, 2) = b6
  BY <1>10 DEF Bit
<1>19. Bit(x, 1) = b7
  BY <1>10 DEF Bit
<1>20. ASSUME NEW r \in 0 .. 7 PROVE Bit(x, Weights[r + 1]) = b[i + r]
  <2>1. CASE r = 0
    <3>1. r + 1 = 1 /\ i + r = i
      BY <2>1
    <3>2. QED
      BY <1>1, <1>12, <3>1, WeightsAre
  <2>2. CASE r = 1
    <3>1. r + 1 = 2 /\ i + r = i + 1
      BY <2>2
    <3>2. QED
      BY <1>2, <1>13, <3>1, WeightsAre
  <2>3. CASE r = 2
    <3>1. r + 1 = 3 /\ i + r = i + 2
      BY <2>3
    <3>2. QED
      BY <1>3, <1>14, <3>1, WeightsAre
  <2>4. CASE r = 3
    <3>1. r + 1 = 4 /\ i + r = i + 3
      BY <2>4
    <3>2. QED
      BY <1>4, <1>15, <3>1, WeightsAre
  <2>5. CASE r = 4
    <3>1. r + 1 = 5 /\ i + r = i + 4
      BY <2>5
    <3>2. QED
      BY <1>5, <1>16, <3>1, WeightsAre
  <2>6. CASE r = 5
    <3>1. r + 1 = 6 /\ i + r = i + 5
      BY <2>6
    <3>2. QED
      BY <1>6, <1>17, <3>1, WeightsAre
  <2>7. CASE r = 6
    <3>1. r + 1 = 7 /\ i + r = i + 6
      BY <2>7
    <3>2. QED
      BY <1>7, <1>18, <3>1, WeightsAre
  <2>8. CASE r = 7
    <3>1. r + 1 = 8 /\ i + r = i + 7
      BY <2>8
    <3>2. QED
      BY <1>8, <1>19, <3>1, WeightsAre
  <2>9. QED
    BY <2>1, <2>2, <2>3, <2>4, <2>5, <2>6, <2>7, <2>8
<1>21. QED
  BY <1>9, <1>11, <1>20

(* The number six bits make.                                               *)
SixOf(a, b, c, d, e, f) == 32 * a + 16 * b + 8 * c + 4 * d + 2 * e + f

(* A number of six bits is made of them.                                   *)
LEMMA SixSum ==
    \A q \in 0 .. 63 :
        /\ q = SixOf(Bit(q, 32), Bit(q, 16), Bit(q, 8), Bit(q, 4), Bit(q, 2), Bit(q, 1))
        /\ \A w \in {32, 16, 8, 4, 2, 1} : Bit(q, w) \in 0 .. 1
BY DEF SixOf, Bit

(* The bits of four sixes, in a row, are the bits of three bytes.          *)
SixAt(Q, j) == Bit(Q[(j \div 6) + 1], Weights[(j % 6) + 3])

(* Four numbers of six bits, as one row of 24 bits.                        *)
LEMMA RowOfBits ==
    ASSUME NEW Q, \A i \in 1 .. 4 : Q[i] \in 0 .. 63,
           NEW b, b = [j \in 0 .. 23 |-> SixAt(Q, j)]
    PROVE  /\ \A j \in 0 .. 23 : b[j] \in 0 .. 1
           /\ Q[1] = SixOf(b[0], b[1], b[2], b[3], b[4], b[5])
           /\ Q[2] = SixOf(b[6], b[7], b[8], b[9], b[10], b[11])
           /\ Q[3] = SixOf(b[12], b[13], b[14], b[15], b[16], b[17])
           /\ Q[4] = SixOf(b[18], b[19], b[20], b[21], b[22], b[23])
<1>1. ASSUME NEW i \in 0 .. 3, NEW r \in 0 .. 5
      PROVE  /\ b[6 * i + r] = Bit(Q[i + 1], Weights[r + 3])
             /\ b[6 * i + r] \in 0 .. 1
  <2>1. PICK j \in 0 .. 23 : j = 6 * i + r
    OBVIOUS
  <2>2. j \div 6 = i /\ j % 6 = r
    BY <2>1
  <2>3. b[j] = Bit(Q[i + 1], Weights[r + 3])
    BY <2>2 DEF SixAt
  <2>4. Weights[r + 3] \in {32, 16, 8, 4, 2, 1}
    <3>1. r + 3 \in {3, 4, 5, 6, 7, 8}
      OBVIOUS
    <3>2. QED
      BY <3>1, WeightsAre
  <2>5. i + 1 \in 1 .. 4
    OBVIOUS
  <2>6. Bit(Q[i + 1], Weights[r + 3]) \in 0 .. 1
    BY <2>4, <2>5, SixSum
  <2>7. QED
    BY <2>1, <2>3, <2>6
<1>2. \A j \in 0 .. 23 : b[j] \in 0 .. 1
  <2>1. TAKE j \in 0 .. 23
  <2>2. j \div 6 \in 0 .. 3 /\ j % 6 \in 0 .. 5 /\ j = 6 * (j \div 6) + (j % 6)
    OBVIOUS
  <2>3. QED
    BY <1>1, <2>2
<1>3. ASSUME NEW i \in 0 .. 3
      PROVE  Q[i + 1] = SixOf(b[6 * i], b[6 * i + 1], b[6 * i + 2], b[6 * i + 3],
                              b[6 * i + 4], b[6 * i + 5])
  <2>1. PICK q \in 0 .. 63 : q = Q[i + 1]
    OBVIOUS
  <2>2. q = SixOf(Bit(q, 32), Bit(q, 16), Bit(q, 8), Bit(q, 4), Bit(q, 2), Bit(q, 1))
    BY SixSum
  <2>3. /\ b[6 * i + 0] = Bit(q, Weights[0 + 3]) /\ b[6 * i + 1] = Bit(q, Weights[1 + 3])
        /\ b[6 * i + 2] = Bit(q, Weights[2 + 3]) /\ b[6 * i + 3] = Bit(q, Weights[3 + 3])
        /\ b[6 * i + 4] = Bit(q, Weights[4 + 3]) /\ b[6 * i + 5] = Bit(q, Weights[5 + 3])
    BY <1>1, <2>1
  <2>4. /\ 0 + 3 = 3 /\ 1 + 3 = 4 /\ 2 + 3 = 5 /\ 3 + 3 = 6 /\ 4 + 3 = 7 /\ 5 + 3 = 8
        /\ 6 * i + 0 = 6 * i
    OBVIOUS
  <2>5. /\ b[6 * i] = Bit(q, 32) /\ b[6 * i + 1] = Bit(q, 16)
        /\ b[6 * i + 2] = Bit(q, 8) /\ b[6 * i + 3] = Bit(q, 4)
        /\ b[6 * i + 4] = Bit(q, 2) /\ b[6 * i + 5] = Bit(q, 1)
    BY <2>3, <2>4, WeightsAre
  <2>6. QED
    BY <2>1, <2>2, <2>5
<1>4. Q[1] = SixOf(b[0], b[1], b[2], b[3], b[4], b[5])
  <2>1. Q[0 + 1] = SixOf(b[6 * 0], b[6 * 0 + 1], b[6 * 0 + 2], b[6 * 0 + 3],
                         b[6 * 0 + 4], b[6 * 0 + 5])
    BY <1>3
  <2>2. /\ 0 + 1 = 1 /\ 6 * 0 = 0 /\ 6 * 0 + 1 = 1 /\ 6 * 0 + 2 = 2
        /\ 6 * 0 + 3 = 3 /\ 6 * 0 + 4 = 4 /\ 6 * 0 + 5 = 5
    OBVIOUS
  <2>3. QED
    BY <2>1, <2>2
<1>5. Q[2] = SixOf(b[6], b[7], b[8], b[9], b[10], b[11])
  <2>1. Q[1 + 1] = SixOf(b[6 * 1], b[6 * 1 + 1], b[6 * 1 + 2], b[6 * 1 + 3],
                         b[6 * 1 + 4], b[6 * 1 + 5])
    BY <1>3
  <2>2. /\ 1 + 1 = 2 /\ 6 * 1 = 6 /\ 6 * 1 + 1 = 7 /\ 6 * 1 + 2 = 8
        /\ 6 * 1 + 3 = 9 /\ 6 * 1 + 4 = 10 /\ 6 * 1 + 5 = 11
    OBVIOUS
  <2>3. QED
    BY <2>1, <2>2
<1>6. Q[3] = SixOf(b[12], b[13], b[14], b[15], b[16], b[17])
  <2>1. Q[2 + 1] = SixOf(b[6 * 2], b[6 * 2 + 1], b[6 * 2 + 2], b[6 * 2 + 3],
                         b[6 * 2 + 4], b[6 * 2 + 5])
    BY <1>3
  <2>2. /\ 2 + 1 = 3 /\ 6 * 2 = 12 /\ 6 * 2 + 1 = 13 /\ 6 * 2 + 2 = 14
        /\ 6 * 2 + 3 = 15 /\ 6 * 2 + 4 = 16 /\ 6 * 2 + 5 = 17
    OBVIOUS
  <2>3. QED
    BY <2>1, <2>2
<1>7. Q[4] = SixOf(b[18], b[19], b[20], b[21], b[22], b[23])
  <2>1. Q[3 + 1] = SixOf(b[6 * 3], b[6 * 3 + 1], b[6 * 3 + 2], b[6 * 3 + 3],
                         b[6 * 3 + 4], b[6 * 3 + 5])
    BY <1>3
  <2>2. /\ 3 + 1 = 4 /\ 6 * 3 = 18 /\ 6 * 3 + 1 = 19 /\ 6 * 3 + 2 = 20
        /\ 6 * 3 + 3 = 21 /\ 6 * 3 + 4 = 22 /\ 6 * 3 + 5 = 23
    OBVIOUS
  <2>3. QED
    BY <2>1, <2>2
<1>8. QED
  BY <1>2, <1>4, <1>5, <1>6, <1>7

(* A bit of bytes; and bytes that have the bits of four sixes.             *)
EightAt(w, j) == Bit(w[(j \div 8) + 1], Weights[(j % 8) + 1])
AgreeOn(w, Q) == \A j \in 0 .. 23 : EightAt(w, j) = SixAt(Q, j)

(* The three bytes of a group of four characters have the bits of the      *)
(* characters, in their order (data.rs:327-337).                           *)
LEMMA QuadBits ==
    ASSUME NEW Q, \A i \in 1 .. 4 : Q[i] \in 0 .. 63,
           NEW t \in Int, IsQuad(t, Q[1], Q[2], Q[3], Q[4])
    PROVE  AgreeOn(<<t \div 65536, (t \div 256) % 256, t % 256>>, Q)
<1>1. PICK b : b = [j \in 0 .. 23 |-> SixAt(Q, j)]
  OBVIOUS
<1>2. /\ \A j \in 0 .. 23 : b[j] \in 0 .. 1
      /\ Q[1] = SixOf(b[0], b[1], b[2], b[3], b[4], b[5])
      /\ Q[2] = SixOf(b[6], b[7], b[8], b[9], b[10], b[11])
      /\ Q[3] = SixOf(b[12], b[13], b[14], b[15], b[16], b[17])
      /\ Q[4] = SixOf(b[18], b[19], b[20], b[21], b[22], b[23])
  BY <1>1, RowOfBits
<1>3. PICK x : x = EightOf(b, 0)
  OBVIOUS
<1>4. PICK y : y = EightOf(b, 8)
  OBVIOUS
<1>5. PICK z : z = EightOf(b, 16)
  OBVIOUS
<1>6. /\ x \in 0 .. 255
      /\ \A r \in 0 .. 7 : Bit(x, Weights[r + 1]) = b[0 + r]
  <2>1. 0 \in Nat /\ 0 + 7 <= 23 /\ 23 \in Nat
    OBVIOUS
  <2>2. QED
    BY <1>2, <1>3, <2>1, EightAre
<1>7. /\ y \in 0 .. 255
      /\ \A r \in 0 .. 7 : Bit(y, Weights[r + 1]) = b[8 + r]
  <2>1. PICK i \in Nat : i = 8
    OBVIOUS
  <2>2. PICK n \in Nat : n = 23
    OBVIOUS
  <2>3. i + 7 <= n /\ \A j \in 0 .. n : b[j] \in 0 .. 1
    BY <1>2, <2>1, <2>2
  <2>4. /\ EightOf(b, i) \in 0 .. 255
        /\ \A r \in 0 .. 7 : Bit(EightOf(b, i), Weights[r + 1]) = b[i + r]
    BY <2>3, EightAre
  <2>5. QED
    BY <1>4, <2>1, <2>4
<1>8. /\ z \in 0 .. 255
      /\ \A r \in 0 .. 7 : Bit(z, Weights[r + 1]) = b[16 + r]
  <2>1. PICK i \in Nat : i = 16
    OBVIOUS
  <2>2. PICK n \in Nat : n = 23
    OBVIOUS
  <2>3. i + 7 <= n /\ \A j \in 0 .. n : b[j] \in 0 .. 1
    BY <1>2, <2>1, <2>2
  <2>4. /\ EightOf(b, i) \in 0 .. 255
        /\ \A r \in 0 .. 7 : Bit(EightOf(b, i), Weights[r + 1]) = b[i + r]
    BY <2>3, EightAre
  <2>5. QED
    BY <1>5, <2>1, <2>4
<1>9. PICK b0 \in 0 .. 1 : b0 = b[0]
  BY <1>2
<1>10. PICK b1 \in 0 .. 1 : b1 = b[1]
  BY <1>2
<1>11. PICK b2 \in 0 .. 1 : b2 = b[2]
  BY <1>2
<1>12. PICK b3 \in 0 .. 1 : b3 = b[3]
  BY <1>2
<1>13. PICK b4 \in 0 .. 1 : b4 = b[4]
  BY <1>2
<1>14. PICK b5 \in 0 .. 1 : b5 = b[5]
  BY <1>2
<1>15. PICK b6 \in 0 .. 1 : b6 = b[6]
  BY <1>2
<1>16. PICK b7 \in 0 .. 1 : b7 = b[7]
  BY <1>2
<1>17. PICK b8 \in 0 .. 1 : b8 = b[8]
  BY <1>2
<1>18. PICK b9 \in 0 .. 1 : b9 = b[9]
  BY <1>2
<1>19. PICK b10 \in 0 .. 1 : b10 = b[10]
  BY <1>2
<1>20. PICK b11 \in 0 .. 1 : b11 = b[11]
  BY <1>2
<1>21. PICK b12 \in 0 .. 1 : b12 = b[12]
  BY <1>2
<1>22. PICK b13 \in 0 .. 1 : b13 = b[13]
  BY <1>2
<1>23. PICK b14 \in 0 .. 1 : b14 = b[14]
  BY <1>2
<1>24. PICK b15 \in 0 .. 1 : b15 = b[15]
  BY <1>2
<1>25. PICK b16 \in 0 .. 1 : b16 = b[16]
  BY <1>2
<1>26. PICK b17 \in 0 .. 1 : b17 = b[17]
  BY <1>2
<1>27. PICK b18 \in 0 .. 1 : b18 = b[18]
  BY <1>2
<1>28. PICK b19 \in 0 .. 1 : b19 = b[19]
  BY <1>2
<1>29. PICK b20 \in 0 .. 1 : b20 = b[20]
  BY <1>2
<1>30. PICK b21 \in 0 .. 1 : b21 = b[21]
  BY <1>2
<1>31. PICK b22 \in 0 .. 1 : b22 = b[22]
  BY <1>2
<1>32. PICK b23 \in 0 .. 1 : b23 = b[23]
  BY <1>2
<1>33. PICK h \in 0 .. 3 : h = 2 * b6 + b7
  OBVIOUS
<1>34. PICK l \in 0 .. 15 : l = 8 * b8 + 4 * b9 + 2 * b10 + b11
  OBVIOUS
<1>35. PICK m \in 0 .. 15 : m = 8 * b12 + 4 * b13 + 2 * b14 + b15
  OBVIOUS
<1>36. PICK o \in 0 .. 3 : o = 2 * b16 + b17
  OBVIOUS
<1>37. Q[1] \in Int /\ x = 4 * Q[1] + h
  <2>1. Q[1] = 32 * b0 + 16 * b1 + 8 * b2 + 4 * b3 + 2 * b4 + b5
    BY <1>2, <1>9, <1>10, <1>11, <1>12, <1>13, <1>14 DEF SixOf
  <2>2. x = 128 * b0 + 64 * b1 + 32 * b2 + 16 * b3 + 8 * b4 + 4 * b5 + 2 * b6 + b7
    BY <1>3, <1>9, <1>10, <1>11, <1>12, <1>13, <1>14, <1>15, <1>16 DEF EightOf
  <2>3. QED
    BY <1>33, <2>1, <2>2
<1>38. Q[2] = 16 * h + l
  <2>1. Q[2] = 32 * b6 + 16 * b7 + 8 * b8 + 4 * b9 + 2 * b10 + b11
    BY <1>2, <1>15, <1>16, <1>17, <1>18, <1>19, <1>20 DEF SixOf
  <2>2. QED
    BY <1>33, <1>34, <2>1
<1>39. y = 16 * l + m
  <2>1. y = 128 * b8 + 64 * b9 + 32 * b10 + 16 * b11 + 8 * b12 + 4 * b13 + 2 * b14 + b15
    <3>1. /\ 8 + 1 = 9 /\ 8 + 2 = 10 /\ 8 + 3 = 11 /\ 8 + 4 = 12
          /\ 8 + 5 = 13 /\ 8 + 6 = 14 /\ 8 + 7 = 15
      OBVIOUS
    <3>2. QED
      BY <1>4, <3>1, <1>17, <1>18, <1>19, <1>20, <1>21, <1>22, <1>23, <1>24 DEF EightOf
  <2>2. QED
    BY <1>34, <1>35, <2>1
<1>40. Q[3] = 4 * m + o
  <2>1. Q[3] = 32 * b12 + 16 * b13 + 8 * b14 + 4 * b15 + 2 * b16 + b17
    BY <1>2, <1>21, <1>22, <1>23, <1>24, <1>25, <1>26 DEF SixOf
  <2>2. QED
    BY <1>35, <1>36, <2>1
<1>41. Q[4] \in Int /\ z = 64 * o + Q[4]
  <2>1. Q[4] = 32 * b18 + 16 * b19 + 8 * b20 + 4 * b21 + 2 * b22 + b23
    BY <1>2, <1>27, <1>28, <1>29, <1>30, <1>31, <1>32 DEF SixOf
  <2>2. z = 128 * b16 + 64 * b17 + 32 * b18 + 16 * b19 + 8 * b20 + 4 * b21 + 2 * b22 + b23
    <3>1. /\ 16 + 1 = 17 /\ 16 + 2 = 18 /\ 16 + 3 = 19 /\ 16 + 4 = 20
          /\ 16 + 5 = 21 /\ 16 + 6 = 22 /\ 16 + 7 = 23
      OBVIOUS
    <3>2. QED
      BY <1>5, <3>1, <1>25, <1>26, <1>27, <1>28, <1>29, <1>30, <1>31, <1>32 DEF EightOf
  <2>3. QED
    BY <1>36, <2>1, <2>2
<1>42. IsTriple(t, x, y, z)
  BY <1>37, <1>38, <1>39, <1>40, <1>41 DEF IsTriple, IsQuad
<1>43. HasBytes(t, x, y, z)
  BY <1>6, <1>7, <1>8, <1>42, ThreeBytes
<1>44. PICK w : w = <<x, y, z>>
  OBVIOUS
<1>45. ASSUME NEW k \in 0 .. 2, NEW r \in 0 .. 7
       PROVE  Bit(w[k + 1], Weights[r + 1]) = b[8 * k + r]
  <2>1. CASE k = 0
    <3>1. w[k + 1] = x /\ 8 * k + r = 0 + r
      BY <1>44, <2>1
    <3>2. QED
      BY <1>6, <3>1
  <2>2. CASE k = 1
    <3>1. w[k + 1] = y /\ 8 * k + r = 8 + r
      BY <1>44, <2>2
    <3>2. QED
      BY <1>7, <3>1
  <2>3. CASE k = 2
    <3>1. w[k + 1] = z /\ 8 * k + r = 16 + r
      BY <1>44, <2>3
    <3>2. QED
      BY <1>8, <3>1
  <2>4. QED
    BY <2>1, <2>2, <2>3
<1>46. AgreeOn(w, Q)
  <2>1. ASSUME NEW j \in 0 .. 23 PROVE EightAt(w, j) = SixAt(Q, j)
    <3>1. j \div 8 \in 0 .. 2 /\ j % 8 \in 0 .. 7 /\ j = 8 * (j \div 8) + (j % 8)
      OBVIOUS
    <3>2. EightAt(w, j) = b[j]
      BY <1>45, <3>1 DEF EightAt
    <3>3. QED
      BY <1>1, <3>2
  <2>2. QED
    BY <2>1 DEF AgreeOn
<1>47. w = <<t \div 65536, (t \div 256) % 256, t % 256>>
  BY <1>43, <1>44 DEF HasBytes
<1>48. QED
  BY <1>46, <1>47

-----------------------------------------------------------------------------
(* Groups of four characters.                                              *)

(* The last m of a text are padding, and the others of the alphabet.       *)
Filled(c, m) ==
    /\ m \in 0 .. 2 /\ m <= Len(c)
    /\ \A i \in 1 .. Len(c) : IF i > Len(c) - m THEN c[i] = Equals ELSE c[i] \in Alphabet

(* A text of q groups of four, of which the last m characters are padding. *)
Quads(c, q)  == q \in Nat /\ Len(c) = 4 * q
Well(c, m)   == Filled(c, m) /\ \E q : Quads(c, q)

(* A bit of a text of the alphabet; and bytes that have all bits of a      *)
(* text, those of the padding dropped.                                     *)
TextBit(c, j) == Bit(b64_value[c[(j \div 6) + 1]], Weights[(j % 6) + 3])
HasBits(v, c) == \A j \in 0 .. 8 * Len(v) - 1 : EightAt(v, j) = TextBit(c, j)
Spans(v, c, m) ==
    /\ \A q : Quads(c, q) => Len(v) = 3 * q - m
    /\ HasBits(v, c)

(* "=" is neither of the alphabet nor a blank.                             *)
LEMMA PaddingApart == Equals \notin Alphabet /\ Equals \notin Blank /\ Equals \in Byte
BY DEF Equals, Alphabet, Blank, Letter, Upper, Digit, Plus, Slash, Space, Byte

(* Which byte or character a bit is in.                                    *)
LEMMA QuotientsBelow ==
    /\ \A j \in 0 .. 23 : (j \div 8) + 1 \in 1 .. 3 /\ (j \div 6) + 1 \in 1 .. 4
    /\ \A k, n \in Nat : k < 8 * n => k \div 8 \in Nat /\ k \div 8 < n
    /\ \A k, n \in Nat : k < 6 * n => k \div 6 \in Nat /\ k \div 6 < n
<1>1. \A j \in 0 .. 23 : (j \div 8) + 1 \in 1 .. 3
  OBVIOUS
<1>2. \A j \in 0 .. 23 : (j \div 6) + 1 \in 1 .. 4
  OBVIOUS
<1>3. \A k, n \in Nat : k < 8 * n => k \div 8 \in Nat /\ k \div 8 < n
  OBVIOUS
<1>4. \A k, n \in Nat : k < 6 * n => k \div 6 \in Nat /\ k \div 6 < n
  OBVIOUS
<1>5. QED
  BY <1>1, <1>2, <1>3, <1>4

(* The first bits of a text are those of its first group.                  *)
LEMMA FirstBits ==
    \A n \in Nat : \A j \in 0 .. 8 * n - 1 : j < 24 => j \in 0 .. 23
OBVIOUS

(* Two texts in a row.                                                     *)
LEMMA JoinFacts ==
    \A v, u \in Seq(Byte) :
        /\ v \o u \in Seq(Byte) /\ Len(v \o u) = Len(v) + Len(u)
        /\ \A i \in 1 .. Len(v) : (v \o u)[i] = v[i]
        /\ \A i \in 1 .. Len(u) : (v \o u)[Len(v) + i] = u[i]
OBVIOUS

(* A group is accepted, as the last or as another, just when its padding   *)
(* is in order.                                                            *)
LEMMA FilledGroups ==
    ASSUME NEW g \in Text, Len(g) = 4
    PROVE  /\ \A m : Filled(g, m) => m = Pads(g)
           /\ Filled(g, Pads(g)) <=> IsGroup(g, TRUE)
           /\ Filled(g, 0) <=> IsGroup(g, FALSE)
           /\ Pads(g) \in 0 .. 2
<1>1. \A i \in 1 .. Len(g) : i = 1 \/ i = 2 \/ i = 3 \/ i = 4
  OBVIOUS
<1>2. Filled(g, 0) <=>
         g[1] \in Alphabet /\ g[2] \in Alphabet /\ g[3] \in Alphabet /\ g[4] \in Alphabet
  BY <1>1 DEF Filled
<1>3. Filled(g, 1) <=>
         g[1] \in Alphabet /\ g[2] \in Alphabet /\ g[3] \in Alphabet /\ g[4] = Equals
  BY <1>1 DEF Filled
<1>4. Filled(g, 2) <=>
         g[1] \in Alphabet /\ g[2] \in Alphabet /\ g[3] = Equals /\ g[4] = Equals
  BY <1>1 DEF Filled
<1>5. \A m : Filled(g, m) => m = 0 \/ m = 1 \/ m = 2
  BY DEF Filled
<1>6. \A m : Filled(g, m) => m = Pads(g)
  BY <1>2, <1>3, <1>4, <1>5, PaddingApart DEF Pads
<1>7. /\ Pads(g) = 0 => (IsGroup(g, TRUE) <=>
         g[1] \in Alphabet /\ g[2] \in Alphabet /\ g[3] \in Alphabet /\ g[4] \in Alphabet)
      /\ Pads(g) = 1 => (IsGroup(g, TRUE) <=>
         g[1] \in Alphabet /\ g[2] \in Alphabet /\ g[3] \in Alphabet)
      /\ Pads(g) = 2 => (IsGroup(g, TRUE) <=> g[1] \in Alphabet /\ g[2] \in Alphabet)
  BY DEF IsGroup
<1>8. IsGroup(g, FALSE) <=> Pads(g) = 0 /\ IsGroup(g, TRUE)
  BY DEF IsGroup
<1>9. /\ Pads(g) = 0 \/ Pads(g) = 1 \/ Pads(g) = 2
      /\ Pads(g) = 1 => g[4] = Equals
      /\ Pads(g) = 2 => g[4] = Equals /\ g[3] = Equals
  BY DEF Pads
<1>10. Filled(g, Pads(g)) <=> IsGroup(g, TRUE)
  BY <1>2, <1>3, <1>4, <1>7, <1>9
<1>11. Pads(g) \in 0 .. 2
  BY <1>9
<1>12. Filled(g, 0) <=> IsGroup(g, FALSE)
  <2>1. Filled(g, 0) => Pads(g) = 0
    BY <1>6
  <2>2. QED
    BY <1>8, <1>10, <2>1
<1>13. QED
  BY <1>6, <1>10, <1>11, <1>12

(* One group is decoded to its bits.                                       *)
LEMMA GroupSpans ==
    ASSUME NEW g \in Text, Len(g) = 4, NEW m, Filled(g, m)
    PROVE  /\ m = Pads(g) /\ decode_group(g) \in Text /\ Len(decode_group(g)) = 3 - m
           /\ \A j \in 0 .. 8 * Len(decode_group(g)) - 1 :
                 EightAt(decode_group(g), j) = TextBit(g, j)
<1>1. m = Pads(g) /\ IsGroup(g, TRUE) /\ m \in 0 .. 2
  BY FilledGroups
<1>2. \A i \in 1 .. 4 : IF i > 4 - m THEN g[i] = Equals ELSE g[i] \in Alphabet
  BY DEF Filled
<1>3. PICK Q : Q = [i \in 1 .. 4 |-> IF g[i] = Equals THEN 0 ELSE b64_value[g[i]]]
  OBVIOUS
<1>4. \A i \in 1 .. 4 : Q[i] \in 0 .. 63
  <2>1. TAKE i \in 1 .. 4
  <2>2. CASE g[i] = Equals
    BY <1>3, <2>2
  <2>3. CASE g[i] # Equals
    <3>1. g[i] \in Alphabet
      BY <1>2, <2>3
    <3>2. QED
      BY <1>3, <2>3, <3>1, SixBitsBack
  <2>4. QED
    BY <2>2, <2>3
<1>5. PICK t \in Int : t = Q[1] * 262144 + Q[2] * 4096 + Q[3] * 64 + Q[4]
  <2>1. Q[1] \in Int /\ Q[2] \in Int /\ Q[3] \in Int /\ Q[4] \in Int
    BY <1>4
  <2>2. QED
    BY <2>1
<1>6. IsQuad(t, Q[1], Q[2], Q[3], Q[4])
  BY <1>5 DEF IsQuad
<1>7. PICK w : w = <<t \div 65536, (t \div 256) % 256, t % 256>>
  <2>1. PICK x : x = t \div 65536
    OBVIOUS
  <2>2. PICK y : y = (t \div 256) % 256
    OBVIOUS
  <2>3. PICK z : z = t % 256
    OBVIOUS
  <2>4. \E w : w = <<x, y, z>>
    OBVIOUS
  <2>5. QED
    BY <2>1, <2>2, <2>3, <2>4
<1>8. decode_group(g) = SubSeq(w, 1, 3 - m)
  BY <1>1, <1>3, <1>5, <1>7 DEF decode_group
<1>9. w \in Seq(Byte) /\ Len(w) = 3
  <2>1. AreBytes(t)
    <3>1. PICK q1 \in 0 .. 63 : q1 = Q[1]
      BY <1>4
    <3>2. PICK q2 \in 0 .. 63 : q2 = Q[2]
      BY <1>4
    <3>3. PICK q3 \in 0 .. 63 : q3 = Q[3]
      BY <1>4
    <3>4. PICK q4 \in 0 .. 63 : q4 = Q[4]
      BY <1>4
    <3>5. IsQuad(t, q1, q2, q3, q4)
      BY <1>6, <3>1, <3>2, <3>3, <3>4
    <3>6. QED
      BY <3>5, QuadBytes
  <2>2. QED
    BY <1>7, <2>1 DEF AreBytes
<1>10. AgreeOn(w, Q)
  BY <1>4, <1>6, <1>7, QuadBits
<1>11. PICK v : v = decode_group(g)
  OBVIOUS
<1>12. v \in Seq(Byte) /\ Len(v) = 3 - m /\ \A k \in 1 .. 3 - m : v[k] = w[k]
  BY <1>1, <1>8, <1>9, <1>11
<1>13. ASSUME NEW j \in 0 .. 8 * (3 - m) - 1 PROVE EightAt(v, j) = TextBit(g, j)
  <2>1. j \in 0 .. 23 /\ (j \div 8) + 1 \in 1 .. 3 - m
    BY <1>1
  <2>2. PICK i \in 1 .. 4 : i = (j \div 6) + 1 /\ ~(i > 4 - m)
    BY <1>1
  <2>3. v[(j \div 8) + 1] = w[(j \div 8) + 1]
    BY <1>12, <2>1
  <2>4. EightAt(v, j) = SixAt(Q, j)
    BY <1>10, <2>1, <2>3 DEF AgreeOn, EightAt
  <2>5. g[i] # Equals
    BY <1>2, <2>2, PaddingApart
  <2>6. Q[i] = b64_value[g[i]]
    BY <1>3, <2>5
  <2>7. QED
    BY <2>2, <2>4, <2>6 DEF SixAt, TextBit
<1>14. QED
  BY <1>1, <1>11, <1>12, <1>13 DEF Text

(* A longer text is a full group and a text of the grammar.                *)
LEMMA LongerText ==
    ASSUME NEW c \in Text, Len(c) > 4, NEW m
    PROVE  /\ SubSeq(c, 1, 4) \in Text /\ Len(SubSeq(c, 1, 4)) = 4
           /\ Well(c, m) <=> Filled(SubSeq(c, 1, 4), 0) /\ Well(After(c, 4), m)
           /\ \A q : Quads(c, q) <=> q \in Nat \ {0} /\ Quads(After(c, 4), q - 1)
<1>1. PICK n \in Nat : n = Len(c)
  BY DEF Text
<1>2. PICK g : g = SubSeq(c, 1, 4)
  OBVIOUS
<1>3. g \in Text /\ Len(g) = 4 /\ \A i \in 1 .. 4 : g[i] = c[i]
  BY <1>1, <1>2 DEF Text
<1>4. PICK a : a = After(c, 4)
  OBVIOUS
<1>5. PICK k \in Nat : k = n - 4
  BY <1>1
<1>6. a \in Text /\ Len(a) = k /\ \A i \in 1 .. k : a[i] = c[i + 4]
  BY <1>1, <1>4, <1>5, BehindAt
<1>7. n = k + 4 /\ k >= 1
  BY <1>1, <1>5
<1>8. \A q : Quads(c, q) <=> q \in Nat \ {0} /\ Quads(a, q - 1)
  <2>1. ASSUME NEW q, Quads(c, q) PROVE q \in Nat \ {0} /\ Quads(a, q - 1)
    <3>1. q \in Nat /\ k + 4 = 4 * q
      BY <1>1, <1>7, <2>1 DEF Quads
    <3>2. q \in Nat \ {0} /\ q - 1 \in Nat /\ k = 4 * (q - 1)
      BY <1>7, <3>1
    <3>3. QED
      BY <1>6, <3>2 DEF Quads
  <2>2. ASSUME NEW q \in Nat \ {0}, Quads(a, q - 1) PROVE Quads(c, q)
    <3>1. k = 4 * (q - 1)
      BY <1>6, <2>2 DEF Quads
    <3>2. n = 4 * q
      BY <1>7, <3>1
    <3>3. QED
      BY <1>1, <3>2 DEF Quads
  <2>3. QED
    BY <2>1, <2>2
<1>9. ASSUME Well(c, m) PROVE Filled(g, 0) /\ Well(a, m)
  <2>1. PICK q : Quads(c, q)
    BY <1>9 DEF Well
  <2>2. q \in Nat /\ n = 4 * q
    BY <1>1, <2>1 DEF Quads
  <2>3. n >= 8 /\ k >= 4
    BY <1>7, <2>2
  <2>4. /\ m \in 0 .. 2
        /\ \A i \in 1 .. n : IF i > n - m THEN c[i] = Equals ELSE c[i] \in Alphabet
    BY <1>1, <1>9 DEF Well, Filled
  <2>5. Filled(g, 0)
    <3>1. \A i \in 1 .. 4 : i \in 1 .. n /\ ~(i > n - m) /\ ~(i > 4 - 0)
      BY <2>3, <2>4
    <3>2. QED
      BY <1>3, <2>4, <3>1 DEF Filled
  <2>6. Filled(a, m)
    <3>1. ASSUME NEW i \in 1 .. k
          PROVE  IF i > k - m THEN a[i] = Equals ELSE a[i] \in Alphabet
      <4>1. i + 4 \in 1 .. n /\ (i + 4 > n - m <=> i > k - m)
        BY <1>7, <2>4
      <4>2. QED
        BY <1>6, <2>4, <4>1
    <3>2. m <= k
      BY <2>3, <2>4
    <3>3. QED
      BY <1>6, <2>4, <3>1, <3>2 DEF Filled
  <2>7. Quads(a, q - 1)
    BY <1>8, <2>1
  <2>8. QED
    BY <2>5, <2>6, <2>7 DEF Well
<1>10. ASSUME Filled(g, 0), Well(a, m) PROVE Well(c, m)
  <2>1. PICK p : Quads(a, p)
    BY <1>10 DEF Well
  <2>2. p \in Nat /\ k = 4 * p
    BY <1>6, <2>1 DEF Quads
  <2>3. Quads(c, p + 1)
    BY <1>1, <1>7, <2>2 DEF Quads
  <2>4. /\ m \in 0 .. 2 /\ m <= k
        /\ \A i \in 1 .. k : IF i > k - m THEN a[i] = Equals ELSE a[i] \in Alphabet
    BY <1>6, <1>10 DEF Well, Filled
  <2>5. \A i \in 1 .. 4 : c[i] \in Alphabet
    <3>1. \A i \in 1 .. 4 : ~(i > 4 - 0)
      OBVIOUS
    <3>2. QED
      BY <1>3, <1>10, <3>1 DEF Filled
  <2>6. ASSUME NEW i \in 1 .. n
        PROVE  IF i > n - m THEN c[i] = Equals ELSE c[i] \in Alphabet
    <3>1. CASE i <= 4
      <4>1. i \in 1 .. 4 /\ ~(i > n - m)
        BY <1>7, <2>4, <3>1
      <4>2. QED
        BY <2>5, <4>1
    <3>2. CASE ~(i <= 4)
      <4>1. PICK j \in 1 .. k : i = j + 4
        <5>1. i - 4 \in 1 .. k /\ i = (i - 4) + 4
          BY <1>7, <3>2
        <5>2. QED
          BY <5>1
      <4>2. i > n - m <=> j > k - m
        BY <1>7, <2>4, <4>1
      <4>3. QED
        BY <1>6, <2>4, <4>1, <4>2
    <3>3. QED
      BY <3>1, <3>2
  <2>7. m <= n
    BY <1>7, <2>4
  <2>8. QED
    BY <1>1, <2>3, <2>4, <2>6, <2>7 DEF Well, Filled
<1>11. QED
  BY <1>2, <1>3, <1>4, <1>8, <1>9, <1>10

(* The bits of the first group and of the others are the bits of all.      *)
LEMMA LongerSpan ==
    ASSUME NEW c \in Text, Len(c) > 4, NEW m \in 0 .. 2, NEW q, Quads(c, q),
           NEW v \in Text, NEW u \in Text, Len(v) = 3,
           HasBits(v, SubSeq(c, 1, 4)), Spans(u, After(c, 4), m)
    PROVE  Spans(v \o u, c, m)
<1>1. PICK w : w = v \o u
  OBVIOUS
<1>2. PICK n \in Nat : n = Len(u)
  <2>1. u \in Seq(Byte)
    BY DEF Text
  <2>2. Len(u) \in Nat
    BY <2>1, LenProperties
  <2>3. QED
    BY <2>2
<1>3. /\ w \in Seq(Byte) /\ Len(w) = 3 + n
      /\ \A i \in 1 .. 3 : w[i] = v[i]
      /\ \A i \in 1 .. n : w[i + 3] = u[i]
  <2>1. v \in Seq(Byte) /\ u \in Seq(Byte)
    BY DEF Text
  <2>2. /\ w \in Seq(Byte) /\ Len(w) = 3 + n
        /\ \A i \in 1 .. 3 : w[i] = v[i]
        /\ \A i \in 1 .. n : w[3 + i] = u[i]
    <3>1. /\ v \o u \in Seq(Byte) /\ Len(v \o u) = Len(v) + Len(u)
          /\ \A i \in 1 .. Len(v) : (v \o u)[i] = v[i]
          /\ \A i \in 1 .. Len(u) : (v \o u)[Len(v) + i] = u[i]
      BY <2>1, JoinFacts
    <3>2. Len(v) = 3
      OBVIOUS
    <3>3. QED
      BY <1>1, <1>2, <3>1, <3>2
  <2>3. \A i \in 1 .. n : 3 + i = i + 3
    OBVIOUS
  <2>4. QED
    BY <2>2, <2>3
<1>4. PICK a : a = After(c, 4)
  OBVIOUS
<1>5. a \in Text /\ Len(a) = Len(c) - 4 /\ \A i \in 1 .. Len(c) - 4 : a[i] = c[i + 4]
  <2>1. PICK d \in Nat : d = 4
    OBVIOUS
  <2>2. d <= Len(c)
    BY <2>1 DEF Text
  <2>3. /\ After(c, d) \in Text /\ Len(After(c, d)) = Len(c) - d
        /\ \A i \in 1 .. Len(c) - d : After(c, d)[i] = c[i + d]
    BY <2>2, BehindAt
  <2>4. QED
    BY <1>4, <2>1, <2>3
<1>6. \A p : Quads(c, p) => p \in Nat /\ p >= 1 /\ Quads(a, p - 1)
  <2>1. \A p : Quads(c, p) <=> p \in Nat \ {0} /\ Quads(a, p - 1)
    BY <1>4, LongerText
  <2>2. \A p \in Nat \ {0} : p >= 1
    OBVIOUS
  <2>3. QED
    BY <2>1, <2>2
<1>7. /\ \A p : Quads(a, p) => n = 3 * p - m
      /\ \A j \in 0 .. 8 * n - 1 : EightAt(u, j) = TextBit(a, j)
  BY <1>2, <1>4 DEF Spans, HasBits
<1>8. ASSUME NEW p, Quads(c, p) PROVE Len(w) = 3 * p - m
  <2>1. p \in Nat /\ n = 3 * (p - 1) - m
    BY <1>6, <1>7, <1>8
  <2>2. QED
    BY <1>3, <2>1
<1>9. q \in Nat /\ Len(c) = 4 * q /\ q >= 1 /\ n = 3 * (q - 1) - m
  BY <1>6, <1>7 DEF Quads
<1>10. ASSUME NEW j \in 0 .. 8 * Len(w) - 1 PROVE EightAt(w, j) = TextBit(c, j)
  <2>1. CASE j < 24
    <3>1. j \in 0 .. 8 * Len(v) - 1 /\ (j \div 8) + 1 \in 1 .. 3 /\ (j \div 6) + 1 \in 1 .. 4
      <4>1. j \in 0 .. 23
        <5>1. Len(w) \in Nat
          BY <1>3
        <5>2. QED
          BY <2>1, <5>1, FirstBits
      <4>2. j \in 0 .. 8 * Len(v) - 1
        BY <4>1
      <4>3. (j \div 8) + 1 \in 1 .. 3 /\ (j \div 6) + 1 \in 1 .. 4
        BY <4>1, QuotientsBelow
      <4>4. QED
        BY <4>2, <4>3
    <3>2. w[(j \div 8) + 1] = v[(j \div 8) + 1]
      BY <1>3, <3>1
    <3>3. EightAt(w, j) = EightAt(v, j)
      BY <3>2 DEF EightAt
    <3>4. \A i \in 1 .. 4 : SubSeq(c, 1, 4)[i] = c[i]
      BY DEF Text
    <3>5. TextBit(SubSeq(c, 1, 4), j) = TextBit(c, j)
      BY <3>1, <3>4 DEF TextBit
    <3>6. EightAt(v, j) = TextBit(SubSeq(c, 1, 4), j)
      BY <3>1 DEF HasBits
    <3>7. QED
      BY <3>3, <3>5, <3>6
  <2>2. CASE ~(j < 24)
    <3>1. PICK k \in 0 .. 8 * n - 1 : j = k + 24
      <4>1. j - 24 \in 0 .. 8 * n - 1 /\ j = (j - 24) + 24
        BY <1>3, <1>10, <2>2
      <4>2. QED
        BY <4>1
    <3>2. /\ j \div 8 = (k \div 8) + 3 /\ j % 8 = k % 8
          /\ j \div 6 = (k \div 6) + 4 /\ j % 6 = k % 6
      BY <3>1
    <3>3. (k \div 8) + 1 \in 1 .. n /\ (j \div 8) + 1 = ((k \div 8) + 1) + 3
      <4>1. k \div 8 \in Nat /\ k \div 8 < n
        <5>1. k \in Nat /\ k < 8 * n
          BY <3>1
        <5>2. QED
          BY <5>1, QuotientsBelow
      <4>2. PICK l \in Nat : l = k \div 8
        BY <4>1
      <4>3. l + 1 \in 1 .. n /\ (l + 3) + 1 = (l + 1) + 3
        BY <4>1, <4>2
      <4>4. QED
        BY <3>2, <4>2, <4>3
    <3>4. EightAt(w, j) = EightAt(u, k)
      <4>1. w[(j \div 8) + 1] = u[(k \div 8) + 1]
        <5>1. PICK l \in 1 .. n : l = (k \div 8) + 1
          BY <3>3
        <5>2. w[l + 3] = u[l]
          BY <1>3
        <5>3. QED
          BY <3>3, <5>1, <5>2
      <4>2. QED
        BY <3>2, <4>1 DEF EightAt
    <3>5. (k \div 6) + 1 \in 1 .. Len(c) - 4 /\ (j \div 6) + 1 = ((k \div 6) + 1) + 4
      <4>1. 8 * n <= 6 * (Len(c) - 4)
        BY <1>9
      <4>2. PICK l \in Nat : l = Len(c) - 4
        BY <1>9
      <4>3. k < 6 * l /\ k \in Nat
        BY <3>1, <4>1, <4>2
      <4>4. k \div 6 \in Nat /\ k \div 6 < l
        BY <4>3, QuotientsBelow
      <4>5. PICK x \in Nat : x = k \div 6
        BY <4>4
      <4>6. x + 1 \in 1 .. l /\ (x + 4) + 1 = (x + 1) + 4
        BY <4>4, <4>5
      <4>7. QED
        BY <3>2, <4>2, <4>5, <4>6
    <3>6. TextBit(c, j) = TextBit(a, k)
      <4>1. a[(k \div 6) + 1] = c[(j \div 6) + 1]
        <5>1. PICK x \in 1 .. Len(c) - 4 : x = (k \div 6) + 1
          BY <3>5
        <5>2. a[x] = c[x + 4]
          BY <1>5
        <5>3. QED
          BY <3>5, <5>1, <5>2
      <4>2. QED
        BY <3>2, <4>1 DEF TextBit
    <3>7. QED
      BY <1>7, <3>4, <3>6
  <2>3. QED
    BY <2>1, <2>2
<1>11. QED
  BY <1>1, <1>8, <1>10 DEF Spans, HasBits

(* The groups of a text are decoded as the grammar has it.                 *)
Ungroups(c) ==
    LET r == decode_groups[c]
    IN  /\ IsOk(r) <=> \E m : Well(c, m)
        /\ \A m : Well(c, m) => Spans(r.value, c, m)

(* No group at all.                                                        *)
LEMMA EmptyUngroups == Ungroups(<<>>)
<1>1. PICK c \in Text : c = <<>>
  BY EmptyText
<1>2. Len(c) = 0
  BY <1>1
<1>3. decode_groups[c] = Ok(<<>>)
  BY <1>1, UngroupedEquation DEF UngroupedOf
<1>4. Quads(c, 0) /\ Filled(c, 0)
  BY <1>2 DEF Quads, Filled
<1>5. \A m : Filled(c, m) => m = 0
  BY <1>2 DEF Filled
<1>6. Spans(c, c, 0)
  BY <1>2 DEF Spans, HasBits, Quads
<1>7. Well(c, 0) /\ \A m : Well(c, m) => m = 0
  BY <1>4, <1>5 DEF Well
<1>8. QED
  BY <1>1, <1>3, <1>6, <1>7, KindFacts DEF Ungroups

(* Less than a group is refused.                                           *)
LEMMA ShortUngroups ==
    ASSUME NEW c \in Text, Len(c) \in 1 .. 3 PROVE Ungroups(c)
<1>1. \A q : ~Quads(c, q)
  <2>1. \A q \in Nat : 4 * q # 1 /\ 4 * q # 2 /\ 4 * q # 3
    OBVIOUS
  <2>2. Len(c) = 1 \/ Len(c) = 2 \/ Len(c) = 3
    OBVIOUS
  <2>3. QED
    BY <2>1, <2>2 DEF Quads
<1>2. c # <<>> /\ Len(c) < 4
  <2>1. c = <<>> => Len(c) = 0
    OBVIOUS
  <2>2. QED
    BY <2>1
<1>3. decode_groups[c] = Invalid
  BY <1>2, UngroupedEquation DEF UngroupedOf
<1>4. QED
  BY <1>1, <1>3, KindFacts DEF Ungroups, Well

(* The last group, which may be padded.                                    *)
LEMMA GroupUngroups ==
    ASSUME NEW c \in Text, Len(c) = 4 PROVE Ungroups(c)
<1>1. SubSeq(c, 1, 4) = c /\ c # <<>> /\ ~(Len(c) < 4)
  BY DEF Text
<1>2. After(c, 4) = <<>>
  <2>1. After(c, 4) \in Seq(Byte) /\ Len(After(c, 4)) = 0
    <3>1. PICK d \in Nat : d = 4
      OBVIOUS
    <3>2. After(c, d) \in Text /\ Len(After(c, d)) = Len(c) - d
      <4>1. d <= Len(c)
        BY <3>1
      <4>2. QED
        BY <4>1, BehindAt
    <3>3. QED
      BY <3>1, <3>2 DEF Text
  <2>2. QED
    BY <2>1
<1>3. decode_groups[<<>>] = Ok(<<>>)
  BY EmptyText, UngroupedEquation DEF UngroupedOf
<1>4. decode_groups[c] = IF IsGroup(c, TRUE) THEN Then(decode_group(c), Ok(<<>>)) ELSE Invalid
  BY <1>1, <1>2, <1>3, UngroupedEquation DEF UngroupedOf
<1>5. Quads(c, 1) /\ \A q : Quads(c, q) => q = 1
  BY DEF Quads
<1>6. \A m : Well(c, m) <=> Filled(c, m)
  BY <1>5 DEF Well
<1>7. IsGroup(c, TRUE) <=> \E m : Filled(c, m)
  BY FilledGroups
<1>8. ASSUME NEW m, Filled(c, m) PROVE Spans(decode_groups[c].value, c, m)
  <2>1. PICK v : v = decode_group(c)
    OBVIOUS
  <2>2. /\ v \in Text /\ Len(v) = 3 - m
        /\ \A j \in 0 .. 8 * Len(v) - 1 : EightAt(v, j) = TextBit(c, j)
    BY <1>8, <2>1, GroupSpans
  <2>3. v \o <<>> = v
    BY <2>2 DEF Text
  <2>4. decode_groups[c].value = v
    BY <1>4, <1>7, <1>8, <2>1, <2>3, BytesFacts, KindFacts
  <2>5. \A q : Quads(c, q) => Len(v) = 3 * q - m
    BY <1>5, <2>2
  <2>6. QED
    BY <2>2, <2>4, <2>5 DEF Spans, HasBits
<1>9. IsOk(decode_groups[c]) <=> IsGroup(c, TRUE)
  <2>1. \A v : IsOk(Then(v, Ok(<<>>)))
    BY KindFacts DEF Then
  <2>2. QED
    BY <1>4, <2>1, KindFacts
<1>10. QED
  BY <1>6, <1>7, <1>8, <1>9 DEF Ungroups

(* A group in front of others, which may not be.                           *)
LEMMA LongerUngroups ==
    ASSUME NEW c \in Text, Len(c) > 4, Ungroups(After(c, 4)) PROVE Ungroups(c)
<1>1. PICK g : g = SubSeq(c, 1, 4)
  OBVIOUS
<1>2. PICK a : a = After(c, 4)
  OBVIOUS
<1>3. a \in Text
  BY <1>2, BehindAt DEF Text
<1>4. /\ g \in Text /\ Len(g) = 4
      /\ \A m : Well(c, m) <=> Filled(g, 0) /\ Well(a, m)
  BY <1>1, <1>2, LongerText
<1>5. c # <<>> /\ ~(Len(c) < 4) /\ ~(Len(c) = 4)
  BY DEF Text
<1>6. PICK r \in Bytes : r = decode_groups[a]
  BY <1>3, UngroupedTyped
<1>7. decode_groups[c] = IF IsGroup(g, FALSE) THEN Then(decode_group(g), r) ELSE Invalid
  BY <1>1, <1>2, <1>5, <1>6, UngroupedEquation DEF UngroupedOf
<1>8. IsGroup(g, FALSE) <=> Filled(g, 0)
  BY <1>4, FilledGroups
<1>9. /\ IsOk(r) <=> \E m : Well(a, m)
      /\ \A m : Well(a, m) => Spans(r.value, a, m)
  BY <1>2, <1>6 DEF Ungroups
<1>10. IsOk(decode_groups[c]) <=> IsGroup(g, FALSE) /\ IsOk(r)
  BY <1>7, KindFacts DEF Then
<1>11. ASSUME NEW m, Well(c, m) PROVE Spans(decode_groups[c].value, c, m)
  <2>1. Filled(g, 0) /\ Well(a, m)
    BY <1>4, <1>11
  <2>2. IsOk(r) /\ Spans(r.value, a, m) /\ IsGroup(g, FALSE)
    BY <1>8, <1>9, <2>1
  <2>3. PICK v : v = decode_group(g)
    OBVIOUS
  <2>4. /\ v \in Text /\ Len(v) = 3 - 0
        /\ HasBits(v, g)
    BY <1>4, <2>1, <2>3, GroupSpans DEF HasBits
  <2>5. PICK u \in Text : u = r.value
    BY <1>6, BytesFacts
  <2>6. decode_groups[c].value = v \o u
    BY <1>7, <2>2, <2>3, <2>5, KindFacts DEF Then
  <2>7. PICK q : Quads(c, q)
    BY <1>11 DEF Well
  <2>8. m \in 0 .. 2 /\ Len(v) = 3
    BY <1>11, <2>4 DEF Well, Filled
  <2>9. QED
    BY <1>1, <1>2, <2>2, <2>4, <2>5, <2>6, <2>7, <2>8, LongerSpan
<1>12. QED
  BY <1>4, <1>8, <1>9, <1>10, <1>11 DEF Ungroups

(* Every text, by induction over its length.                               *)
LEMMA UngroupsAll == \A c \in Text : Ungroups(c)
<1> DEFINE P == {c \in Text : Ungroups(c)}
<1>1. ASSUME NEW c \in Text, \A u \in Text : Len(u) < Len(c) => u \in P
      PROVE  c \in P
  <2>1. Len(c) \in Nat /\ (Len(c) = 0 => c = <<>>)
    BY DEF Text
  <2>2. CASE Len(c) = 0
    BY <2>1, <2>2, EmptyUngroups
  <2>3. CASE Len(c) \in 1 .. 3
    BY <2>3, ShortUngroups
  <2>4. CASE Len(c) = 4
    BY <2>4, GroupUngroups
  <2>5. CASE Len(c) > 4
    <3>1. After(c, 4) \in Text /\ Len(After(c, 4)) < Len(c)
      BY <2>1, <2>5, AfterText
    <3>2. Ungroups(After(c, 4))
      BY <1>1, <3>1
    <3>3. QED
      BY <2>5, <3>2, LongerUngroups
  <2>6. QED
    <3>1. Len(c) = 0 \/ Len(c) \in 1 .. 3 \/ Len(c) = 4 \/ Len(c) > 4
      <4>1. \A n \in Nat : n = 0 \/ n \in 1 .. 3 \/ n = 4 \/ n > 4
        OBVIOUS
      <4>2. QED
        BY <2>1, <4>1
    <3>2. QED
      BY <2>2, <2>3, <2>4, <2>5, <3>1
<1>2. Settles(P)
  BY <1>1 DEF Settles
<1>3. Text \subseteq P
  <2> HIDE DEF P
  <2>1. QED
    BY <1>2, TextInduction
<1>4. QED
  BY <1>3

-----------------------------------------------------------------------------
(* Payloads in base64, with blanks.                                        *)

(* Leaving out the blanks keeps the other characters in their order.       *)
Strips(s) == Listed(WithoutBlanks[s], NonBlanks(s), s)

(* Every text, by induction over its length.                               *)
LEMMA StripsAll == \A s \in Text : Strips(s)
<1> DEFINE P == {s \in Text : Strips(s)}
<1>1. ASSUME NEW s \in Text, \A u \in Text : Len(u) < Len(s) => u \in P
      PROVE  s \in P
  <2>1. WithoutBlanks[s] = UnblankedOf(s, WithoutBlanks)
    BY UnblankedEquation
  <2>2. CASE s = <<>>
    <3>1. NonBlanks(s) = {}
      BY <2>2 DEF NonBlanks
    <3>2. WithoutBlanks[s] = <<>>
      BY <2>1, <2>2 DEF UnblankedOf
    <3>3. QED
      BY <3>1, <3>2, NothingListed DEF Strips
  <2>3. CASE s # <<>>
    <3>1. PICK a \in Text : a = Tail(s)
      BY <2>3, TailAfter
    <3>2. PICK n \in Nat : n = Len(a)
      BY DEF Text
    <3>3. /\ Len(a) < Len(s) /\ s[1] \in Byte /\ DOMAIN s = 1 .. n + 1 /\ DOMAIN a = 1 .. n
          /\ \A i \in 1 .. n : a[i] = s[i + 1]
      BY <2>3, <3>1, <3>2 DEF Text
    <3>4. PICK v \in Seq(Byte) : v = WithoutBlanks[a]
      BY UnblanksWell DEF UnblankedWell, Text
    <3>5. Listed(v, NonBlanks(a), a)
      BY <1>1, <3>3, <3>4 DEF Strips
    <3>6. PICK S : S = Shifted(NonBlanks(a), 1)
      OBVIOUS
    <3>7. Listed(v, S, s)
      <4>1. \A i \in NonBlanks(a) : s[i + 1] = a[i]
        BY <3>3 DEF NonBlanks
      <4>2. 1 \in Nat
        OBVIOUS
      <4>3. QED
        BY <3>5, <3>6, <4>1, <4>2, ShiftListed
    <3>8. \A i \in NonBlanks(a) : i \in 1 .. n
      BY <3>3 DEF NonBlanks
    <3>9. \A i \in 1 .. n : i + 1 \in NonBlanks(s) <=> i \in NonBlanks(a)
      BY <3>3 DEF NonBlanks
    <3>10. S = NonBlanks(s) \ {1}
      <4>1. ASSUME NEW i \in S PROVE i \in NonBlanks(s) \ {1}
        <5>1. PICK k \in NonBlanks(a) : i = k + 1
          BY <3>6 DEF Shifted
        <5>2. k \in 1 .. n /\ k + 1 # 1
          BY <3>8
        <5>3. QED
          BY <3>9, <5>1, <5>2
      <4>2. ASSUME NEW i \in NonBlanks(s), i # 1 PROVE i \in S
        <5>1. i \in 1 .. n + 1
          BY <3>3 DEF NonBlanks
        <5>2. PICK k \in 1 .. n : i = k + 1
          <6>1. i - 1 \in 1 .. n /\ i = (i - 1) + 1
            BY <4>2, <5>1
          <6>2. QED
            BY <6>1
        <5>3. k \in NonBlanks(a)
          BY <3>9, <5>2
        <5>4. QED
          BY <3>6, <5>2, <5>3 DEF Shifted
      <4>3. QED
        BY <4>1, <4>2
    <3>11. 1 \in NonBlanks(s) <=> s[1] \notin Blank
      BY <3>3 DEF NonBlanks
    <3>12. WithoutBlanks[s] = (IF s[1] \in Blank THEN <<>> ELSE <<s[1]>>) \o v
      BY <2>1, <2>3, <3>1, <3>4 DEF UnblankedOf
    <3>13. CASE s[1] \in Blank
      <4>1. <<>> \o v = v
        OBVIOUS
      <4>2. WithoutBlanks[s] = v
        BY <3>12, <3>13, <4>1
      <4>3. S = NonBlanks(s)
        BY <3>10, <3>11, <3>13
      <4>4. QED
        BY <3>7, <4>2, <4>3 DEF Strips
    <3>14. CASE s[1] \notin Blank
      <4>1. \A i \in S : i > 1
        <5>1. \A i \in 1 .. n : i + 1 > 1
          OBVIOUS
        <5>2. QED
          BY <3>6, <3>8, <5>1 DEF Shifted
      <4>2. PICK b \in Byte : b = s[1]
        BY <3>3
      <4>3. Listed(<<b>> \o v, {1} \union S, s)
        BY <3>7, <4>1, <4>2, GrowListed
      <4>4. {1} \union S = NonBlanks(s)
        BY <3>10, <3>11, <3>14
      <4>5. WithoutBlanks[s] = <<b>> \o v
        BY <3>12, <3>14, <4>2
      <4>6. QED
        BY <4>3, <4>4, <4>5 DEF Strips
    <3>15. QED
      BY <3>13, <3>14
  <2>4. QED
    BY <2>2, <2>3
<1>2. Settles(P)
  BY <1>1 DEF Settles
<1>3. Text \subseteq P
  <2> HIDE DEF P
  <2>1. QED
    BY <1>2, TextInduction
<1>4. QED
  BY <1>3

-----------------------------------------------------------------------------
(* e tells the places of c, the payload p without its blanks.              *)
Places(e, c, p) ==
    /\ Rising(e) /\ Len(c) = Len(e)
    /\ NonBlanks(p) = {e[k] : k \in 1 .. Len(e)}
    /\ \A k \in 1 .. Len(e) : c[k] = p[e[k]]
    /\ Padding(p) = {e[k] : k \in {k \in 1 .. Len(e) : c[k] = Equals}}

(* There is such a sequence of places.                                     *)
LEMMA PlacesOf ==
    ASSUME NEW p \in Text
    PROVE  \E e : Places(e, WithoutBlanks[p], p)
<1>1. PICK c : c = WithoutBlanks[p]
  OBVIOUS
<1>2. Listed(c, NonBlanks(p), p)
  BY <1>1, StripsAll DEF Strips
<1>3. PICK e : Lists(c, e, NonBlanks(p), p)
  BY <1>2 DEF Listed
<1>4. /\ Rising(e) /\ Len(c) = Len(e)
      /\ NonBlanks(p) = {e[k] : k \in 1 .. Len(e)}
      /\ \A k \in 1 .. Len(e) : c[k] = p[e[k]]
  BY <1>3 DEF Lists, Onto
<1>5. Padding(p) \subseteq NonBlanks(p)
  BY PaddingApart DEF Padding, NonBlanks
<1>6. \A i \in NonBlanks(p) : i \in Padding(p) <=> p[i] = Equals
  BY DEF Padding, NonBlanks
<1>7. Padding(p) = {e[k] : k \in {k \in 1 .. Len(e) : c[k] = Equals}}
  <2>1. \A i \in Padding(p) : \E k \in 1 .. Len(e) : i = e[k] /\ c[k] = Equals
    BY <1>4, <1>5, <1>6
  <2>2. \A k \in 1 .. Len(e) : c[k] = Equals => e[k] \in Padding(p)
    BY <1>4, <1>6
  <2>3. QED
    BY <2>1, <2>2
<1>8. QED
  BY <1>1, <1>4, <1>7 DEF Places

(* A text in order, told at the places of a payload, makes that a payload  *)
(* of the grammar.                                                         *)
LEMMA WellPlaced ==
    ASSUME NEW p \in Text, NEW c \in Text, NEW e, Places(e, c, p), NEW m, Well(c, m)
    PROVE  /\ IsBase64Text(p)
           /\ Cardinality(NonBlanks(p) \ Padding(p)) = Len(c) - m
<1>1. PICK n \in Nat : n = Len(e)
  BY DEF Places, Rising
<1>2. /\ Rising(e) /\ Len(c) = n /\ NonBlanks(p) = {e[k] : k \in 1 .. n}
      /\ \A k \in 1 .. n : c[k] = p[e[k]]
      /\ Padding(p) = {e[k] : k \in {k \in 1 .. n : c[k] = Equals}}
  BY <1>1 DEF Places
<1>3. /\ m \in 0 .. 2 /\ m <= n
      /\ \A k \in 1 .. n : IF k > n - m THEN c[k] = Equals ELSE c[k] \in Alphabet
  BY <1>2 DEF Well, Filled
<1>4. PICK q \in Nat : n = 4 * q
  BY <1>2 DEF Well, Quads
<1>5. \A k \in 1 .. n : c[k] = Equals <=> k > n - m
  BY <1>3, PaddingApart
<1>6. Cardinality(NonBlanks(p)) = n
  BY <1>1, <1>2, OntoCounts DEF Onto
<1>7. PICK a \in Nat : a = n - m
  BY <1>3
<1>8. a + m = n /\ m \in Nat /\ 0 + a <= n
  BY <1>3, <1>7
<1>9. Padding(p) = PartOf(e, a, m)
  <2>1. \A k : k \in a + 1 .. a + m <=> k \in 1 .. n /\ k > n - m
    BY <1>3, <1>7, <1>8
  <2>2. {k \in 1 .. n : c[k] = Equals} = a + 1 .. a + m
    BY <1>5, <2>1
  <2>3. QED
    BY <1>2, <2>2 DEF PartOf
<1>10. Cardinality(Padding(p)) = m
  <2>1. a + m <= Len(e)
    BY <1>1, <1>8
  <2>2. Cardinality(PartOf(e, a, m)) = m
    BY <1>2, <1>8, <2>1, PartCounts
  <2>3. QED
    BY <1>9, <2>2
<1>11. NonBlanks(p) \ Padding(p) = PartOf(e, 0, a)
  <2>1. \A k \in 1 .. n : c[k] # Equals <=> k \in 0 + 1 .. 0 + a
    BY <1>5, <1>7
  <2>2. \A k \in 0 + 1 .. 0 + a : k \in 1 .. n
    BY <1>8
  <2>3. \A k, l \in 1 .. n : e[k] = e[l] <=> k = l
    BY <1>1, <1>2, RisingApart
  <2>4. \A k \in 1 .. n : e[k] \notin Padding(p) <=> k \in 0 + 1 .. 0 + a
    BY <1>2, <2>1, <2>3
  <2>5. QED
    BY <1>2, <2>2, <2>4 DEF PartOf
<1>12. Cardinality(NonBlanks(p) \ Padding(p)) = a
  <2>1. 0 \in Nat /\ 0 + a <= Len(e)
    BY <1>1, <1>8
  <2>2. Cardinality(PartOf(e, 0, a)) = a
    BY <1>2, <1>7, <2>1, PartCounts
  <2>3. QED
    BY <1>11, <2>2
<1>13. \A i \in NonBlanks(p) : p[i] \in Alphabet \union {Equals}
  BY <1>2, <1>3
<1>14. n % 4 = 0 /\ m < 3
  BY <1>3, <1>4
<1>15. ASSUME NEW i \in Padding(p), NEW j \in NonBlanks(p), i < j PROVE j \in Padding(p)
  <2>1. PICK k \in 1 .. n : i = e[k] /\ c[k] = Equals
    BY <1>2
  <2>2. PICK l \in 1 .. n : j = e[l]
    BY <1>2
  <2>3. e[k] \in Nat /\ e[l] \in Nat /\ ~(e[l] <= e[k])
    BY <1>1, <1>2, <1>15, <2>1, <2>2, RisingApart DEF Place
  <2>4. ~(l <= k)
    BY <1>1, <1>2, <2>3, RisingApart
  <2>5. l > n - m
    BY <1>3, <1>5, <2>1, <2>4
  <2>6. QED
    BY <1>2, <1>5, <2>2, <2>5
<1>16. IsBase64Text(p)
  BY <1>6, <1>10, <1>13, <1>14, <1>15 DEF IsBase64Text
<1>17. QED
  BY <1>2, <1>7, <1>12, <1>16

(* And a payload of the grammar is a text in order without its blanks.     *)
LEMMA PlacedWell ==
    ASSUME NEW p \in Text, NEW c \in Text, NEW e, Places(e, c, p), IsBase64Text(p)
    PROVE  \E m : Well(c, m)
<1>1. PICK n \in Nat : n = Len(e)
  BY DEF Places, Rising
<1>2. /\ Rising(e) /\ Len(c) = n /\ NonBlanks(p) = {e[k] : k \in 1 .. n}
      /\ \A k \in 1 .. n : c[k] = p[e[k]]
      /\ Padding(p) = {e[k] : k \in {k \in 1 .. n : c[k] = Equals}}
  BY <1>1 DEF Places
<1>3. Cardinality(NonBlanks(p)) = n
  BY <1>1, <1>2, OntoCounts DEF Onto
<1>4. /\ \A k \in 1 .. n : c[k] \in Alphabet \union {Equals}
      /\ n % 4 = 0 /\ Cardinality(Padding(p)) < 3
      /\ \A i \in Padding(p) : \A j \in NonBlanks(p) : i < j => j \in Padding(p)
  BY <1>2, <1>3 DEF IsBase64Text
<1>5. Quads(c, n \div 4)
  BY <1>2, <1>4 DEF Quads
<1>6. PICK K : K = {k \in 1 .. n : c[k] = Equals}
  OBVIOUS
<1>7. CASE K = {}
  <2>1. \A k \in 1 .. n : c[k] \in Alphabet /\ ~(k > n - 0)
    BY <1>4, <1>6, <1>7
  <2>2. Filled(c, 0)
    BY <1>2, <2>1 DEF Filled
  <2>3. QED
    BY <1>5, <2>2 DEF Well
<1>8. CASE K # {}
  <2>1. K \subseteq Nat
    BY <1>6
  <2>2. PICK f \in K : \A k \in K : f <= k
    BY <1>8, <2>1, LeastNat
  <2>3. f \in 1 .. n /\ c[f] = Equals
    BY <1>6, <2>2
  <2>4. ASSUME NEW k \in 1 .. n PROVE c[k] = Equals <=> k >= f
    <3>1. c[k] = Equals => k >= f
      BY <1>6, <2>2, <2>3
    <3>2. ASSUME k > f PROVE c[k] = Equals
      <4>1. e[f] \in Padding(p) /\ e[k] \in NonBlanks(p)
        BY <1>2, <2>3
      <4>2. e[f] < e[k]
        BY <1>1, <1>2, <2>3, <3>2 DEF Rising
      <4>3. e[k] \in Padding(p)
        BY <1>4, <4>1, <4>2
      <4>4. PICK l \in 1 .. n : e[k] = e[l] /\ c[l] = Equals
        BY <1>2, <4>3
      <4>5. k = l
        BY <1>1, <1>2, <4>4, RisingApart
      <4>6. QED
        BY <4>4, <4>5
    <3>3. k >= f => k > f \/ k = f
      BY <2>3
    <3>4. QED
      BY <2>3, <3>1, <3>2, <3>3
  <2>5. PICK a \in Nat : a = f - 1
    BY <2>3
  <2>6. PICK m \in Nat : m = n - a
    BY <2>3, <2>5
  <2>7. a + m = n /\ m <= n
    BY <2>5, <2>6
  <2>8. Padding(p) = PartOf(e, a, m)
    <3>1. \A k : k \in a + 1 .. a + m <=> k \in 1 .. n /\ k >= f
      BY <2>3, <2>5, <2>7
    <3>2. {k \in 1 .. n : c[k] = Equals} = a + 1 .. a + m
      BY <2>4, <3>1
    <3>3. QED
      BY <1>2, <3>2 DEF PartOf
  <2>9. Cardinality(Padding(p)) = m
    <3>1. a + m <= Len(e)
      BY <1>1, <2>7
    <3>2. Cardinality(PartOf(e, a, m)) = m
      BY <1>2, <2>5, <2>6, <3>1, PartCounts
    <3>3. QED
      BY <2>8, <3>2
  <2>10. m \in 0 .. 2
    BY <1>4, <2>9
  <2>11. \A k \in 1 .. n : k > n - m <=> k >= f
    BY <2>3, <2>5, <2>6
  <2>12. Filled(c, m)
    BY <1>2, <1>4, <2>4, <2>7, <2>10, <2>11 DEF Filled
  <2>13. QED
    BY <1>5, <2>12 DEF Well
<1>9. QED
  BY <1>7, <1>8

(* The base64 decoder takes the texts of the grammar and answers the bytes *)
(* whose bits their characters spell.                                      *)
THEOREM Base64Follows ==
    ASSUME NEW p \in Text
    PROVE  LET r == decode_base64(p)
           IN  /\ IsOk(r) <=> IsBase64Text(p)
               /\ IsOk(r) => AreBitsOf(r.value, p)
<1>1. PICK c \in Text : c = WithoutBlanks[p]
  BY UnblanksWell DEF UnblankedWell
<1>2. PICK e : Places(e, c, p)
  BY <1>1, PlacesOf
<1>3. PICK r \in Bytes : r = decode_groups[c] /\ r = decode_base64(p)
  BY <1>1, UngroupedTyped DEF decode_base64
<1>4. /\ IsOk(r) <=> \E m : Well(c, m)
      /\ \A m : Well(c, m) => Spans(r.value, c, m)
  BY <1>3, UngroupsAll DEF Ungroups
<1>5. IsOk(r) <=> IsBase64Text(p)
  BY <1>2, <1>4, WellPlaced, PlacedWell
<1>6. ASSUME IsOk(r) PROVE AreBitsOf(r.value, p)
  <2>1. PICK m : Well(c, m)
    BY <1>4, <1>6
  <2>2. PICK v : v = r.value
    OBVIOUS
  <2>3. Spans(v, c, m)
    BY <1>4, <2>1, <2>2
  <2>4. PICK q : Quads(c, q)
    BY <2>1 DEF Well
  <2>5. q \in Nat /\ Len(c) = 4 * q /\ m \in 0 .. 2 /\ m <= Len(c) /\ Len(v) = 3 * q - m
    BY <2>1, <2>3, <2>4 DEF Well, Filled, Spans, HasBits, Quads
  <2>6. Cardinality(NonBlanks(p) \ Padding(p)) = Len(c) - m
    BY <1>2, <2>1, WellPlaced
  <2>7. Len(v) = (6 * Cardinality(NonBlanks(p) \ Padding(p))) \div 8
    <3>1. PICK k \in Int : k = Cardinality(NonBlanks(p) \ Padding(p))
      BY <2>5, <2>6
    <3>2. k = 4 * q - m
      BY <2>5, <2>6, <3>1
    <3>3. 3 * q - m = (6 * k) \div 8
      BY <2>5, <3>2
    <3>4. QED
      BY <2>5, <3>1, <3>3
  <2>8. ASSUME NEW j \in 0 .. 8 * Len(v) - 1 PROVE ByteBit(v, j) = CharBit(p, j)
    <3>1. EightAt(v, j) = TextBit(c, j)
      BY <2>3 DEF Spans, HasBits
    <3>2. j \in Nat /\ j < 6 * Len(c)
      BY <2>5
    <3>3. PICK k \in 1 .. Len(c) : k = (j \div 6) + 1
      <4>1. PICK n \in Nat : n = Len(c)
        BY <2>5
      <4>2. j \div 6 \in Nat /\ j \div 6 < n
        BY <3>2, <4>1, QuotientsBelow
      <4>3. (j \div 6) + 1 \in 1 .. n
        BY <4>2
      <4>4. QED
        BY <4>1, <4>3
    <3>4. Onto(e, NonBlanks(p)) /\ Len(c) = Len(e) /\ c[k] = p[e[k]]
      BY <1>2, <3>3 DEF Places, Onto
    <3>5. Nth(NonBlanks(p), k) = e[k]
      BY <3>3, <3>4, OntoCounts
    <3>6. CharBit(p, j) = TextBit(c, j)
      BY <3>3, <3>4, <3>5 DEF CharBit, TextBit, Bit
    <3>7. QED
      BY <3>1, <3>6 DEF ByteBit, EightAt, Bit
  <2>9. QED
    BY <2>2, <2>7, <2>8 DEF AreBitsOf
<1>7. QED
  BY <1>3, <1>5, <1>6

-----------------------------------------------------------------------------
(* Data URIs.                                                              *)

(* A text that starts with "//" still does with more behind it.            *)
LEMMA StartGrows ==
    ASSUME NEW c \in Text, NEW v \in Text, IsPrefix(TwoSlashes, c)
    PROVE  IsPrefix(TwoSlashes, c \o v)
<1>1. PICK u : u = c \o v
  OBVIOUS
<1>2. /\ u \in Text /\ Len(u) = Len(c) + Len(v) /\ Len(c) \in Nat /\ Len(v) \in Nat
      /\ \A i \in 1 .. Len(c) : u[i] = c[i]
  BY <1>1, JoinFacts DEF Text
<1>3. Len(c) >= 2 /\ c[1] = Slash /\ c[2] = Slash
  BY SlashesFacts
<1>4. 1 \in 1 .. Len(c) /\ 2 \in 1 .. Len(c) /\ Len(u) >= 2
  BY <1>2, <1>3
<1>5. QED
  BY <1>1, <1>2, <1>3, <1>4, SlashesFacts

(* Taking off ";base64" does not change whether a header starts with "//". *)
LEMMA HeaderStart ==
    ASSUME NEW h \in Text
    PROVE  IsPrefix(TwoSlashes, MediatypeOf(h)) <=> IsPrefix(TwoSlashes, h)
<1>1. CASE ~ends_with_base64_marker(h)
  BY <1>1 DEF MediatypeOf
<1>2. CASE ends_with_base64_marker(h)
  <2>1. PICK n \in Nat : n = Len(h)
    BY DEF Text
  <2>2. PICK k \in Nat : k = n - 7 /\ n >= 7
    BY <1>2, <2>1, MarkerFacts DEF ends_with_base64_marker
  <2>3. PICK x : x = After(h, k)
    OBVIOUS
  <2>4. LowerCase(x) = MARKER
    BY <1>2, <2>1, <2>2, <2>3, MarkerFacts DEF ends_with_base64_marker, scheme_is
  <2>5. x \in Text /\ Len(x) = 7
    <3>1. k <= Len(h)
      BY <2>1, <2>2
    <3>2. x \in Text /\ Len(x) = Len(h) - k
      BY <2>3, <3>1, BehindAt
    <3>3. QED
      BY <2>1, <2>2, <3>2
  <2>6. x # <<>> /\ x[1] # Slash
    <3>1. 1 \in 1 .. Len(x)
      BY <2>5
    <3>2. MARKER[1] = Lower(x[1])
      BY <2>4, <2>5, <3>1, LowerFacts
    <3>3. x[1] = Slash <=> Lower(x[1]) = Slash
      BY <2>5, <3>1, LowerFacts
    <3>4. x # <<>>
      BY <2>5
    <3>5. QED
      BY <3>2, <3>3, <3>4, MarkerFacts
  <2>7. PICK m : m = Unmarked(h)
    OBVIOUS
  <2>8. m = SubSeq(h, 1, k)
    BY <2>1, <2>2, <2>7, MarkerFacts DEF Unmarked
  <2>9. m \in Text /\ h = m \o x
    <3>1. h \in Seq(Byte) /\ k <= Len(h) /\ Len(h) = n
      BY <2>1, <2>2 DEF Text
    <3>2. m \in Seq(Byte) /\ Len(m) = k /\ \A i \in 1 .. k : m[i] = h[i]
      BY <2>8, <3>1
    <3>3. x \in Seq(Byte) /\ Len(x) = n - k /\ \A i \in 1 .. n - k : x[i] = h[i + k]
      BY <2>3, <3>1, BehindAt DEF Text
    <3>4. PICK u : u = m \o x
      OBVIOUS
    <3>5. /\ u \in Seq(Byte) /\ Len(u) = Len(m) + Len(x)
          /\ \A i \in 1 .. Len(m) : u[i] = m[i]
          /\ \A i \in 1 .. Len(x) : u[Len(m) + i] = x[i]
      BY <3>2, <3>3, <3>4, JoinFacts
    <3>6. Len(u) = n
      BY <2>2, <3>2, <3>3, <3>5
    <3>7. ASSUME NEW i \in 1 .. n PROVE u[i] = h[i]
      <4>1. CASE i <= k
        BY <3>2, <3>5, <4>1
      <4>2. CASE ~(i <= k)
        <5>1. PICK j \in 1 .. n - k : i = k + j /\ i = j + k
          <6>1. i - k \in 1 .. n - k /\ i = k + (i - k) /\ i = (i - k) + k
            BY <2>2, <4>2
          <6>2. QED
            BY <6>1
        <5>2. u[Len(m) + j] = x[j]
          BY <3>3, <3>5, <5>1
        <5>3. x[j] = h[j + k]
          BY <3>3, <5>1
        <5>4. Len(m) + j = i
          BY <3>2, <5>1
        <5>5. QED
          BY <5>1, <5>2, <5>3, <5>4
      <4>3. QED
        BY <4>1, <4>2
    <3>8. u = h
      BY <3>1, <3>5, <3>6, <3>7
    <3>9. QED
      BY <3>2, <3>4, <3>8 DEF Text
  <2>10. IsPrefix(TwoSlashes, m) <=> IsPrefix(TwoSlashes, h)
    <3>1. IsPrefix(TwoSlashes, m) => IsPrefix(TwoSlashes, m \o x)
      BY <2>5, <2>9, StartGrows
    <3>2. IsPrefix(TwoSlashes, m \o x) => IsPrefix(TwoSlashes, m)
      BY <2>5, <2>6, <2>9, StartOf
    <3>3. QED
      BY <2>9, <3>1, <3>2
  <2>11. QED
    BY <1>2, <2>7, <2>10 DEF MediatypeOf
<1>3. QED
  BY <1>1, <1>2

(* What a payload spells, escaped or in base64.                            *)
IsPayload(header, payload) ==
    IF ends_with_base64_marker(header) THEN IsBase64Text(payload) ELSE IsEscapedText(payload)
Spells(bytes, header, payload) ==
    IF ends_with_base64_marker(header) THEN AreBitsOf(bytes, payload)
                                       ELSE AreSpelledBy(bytes, payload)

(* A payload is decoded as its header says, just when it is one.           *)
LEMMA PayloadFollows ==
    ASSUME NEW header \in Text, NEW payload \in Text
    PROVE  LET r == PayloadOf(header, payload)
           IN  /\ IsOk(r) <=> IsPayload(header, payload)
               /\ IsOk(r) => Spells(r.value, header, payload)
<1>1. CASE ends_with_base64_marker(header)
  <2>1. PICK r : r = decode_base64(payload)
    OBVIOUS
  <2>2. (IsOk(r) <=> IsBase64Text(payload)) /\ (IsOk(r) => AreBitsOf(r.value, payload))
    BY <2>1, Base64Follows
  <2>3. PayloadOf(header, payload) = r
    BY <1>1, <2>1 DEF PayloadOf
  <2>4. QED
    BY <1>1, <2>2, <2>3 DEF IsPayload, Spells
<1>2. CASE ~ends_with_base64_marker(header)
  <2>1. PICK r : r = percent_decode_bytes[payload]
    OBVIOUS
  <2>2. (IsOk(r) <=> IsEscapedText(payload)) /\ (IsOk(r) => AreSpelledBy(r.value, payload))
    BY <2>1, PercentFollows
  <2>3. PayloadOf(header, payload) = r
    BY <1>2, <2>1 DEF PayloadOf
  <2>4. QED
    BY <1>2, <2>2, <2>3 DEF IsPayload, Spells
<1>3. QED
  BY <1>1, <1>2

(* A data: URI is accepted just when the grammar accepts it, and has the   *)
(* bytes its payload spells.                                               *)
THEOREM DataFollows ==
    ASSUME NEW t \in Text
    PROVE  LET data == parse_data_uri(t)
           IN  /\ IsOk(data) <=> \E r \in PlainIn(t, DATA) : IsDataText(r)
               /\ \A r \in PlainIn(t, DATA) :
                     IsDataText(r) =>
                         IF InBase64(r) THEN AreBitsOf(data.value.data, Payload(r))
                                        ELSE AreSpelledBy(data.value.data, Payload(r))
<1>1. DATA # FILE /\ IsName(DATA)
  BY NamesOfSchemes DEF DATA, FILE
<1>2. PICK rest : rest = split(t).rest
  OBVIOUS
<1>3. rest \in Text
  BY <1>2, SplitFacts
<1>4. PICK comma : comma = Find(rest, Comma)
  OBVIOUS
<1>5. Has(rest, Comma) <=> comma # 0
  BY <1>3, <1>4, FindFacts DEF Text
<1>6. PICK header : header = Before(rest, comma)
  OBVIOUS
<1>7. PICK payload : payload = After(rest, comma)
  OBVIOUS
<1>8. PICK data : data = parse_data_uri(t)
  OBVIOUS
<1>9. data = IF scheme_is(split(t).scheme, DATA) /\ comma # 0
               THEN ParsedData(header, payload) ELSE Invalid
  BY <1>2, <1>4, <1>6, <1>7, <1>8, DataSteps
<1>10. PlainIn(t, DATA) =
          {r \in {rest} : scheme_is(split(t).scheme, DATA) /\ ~IsPrefix(TwoSlashes, r)}
  BY <1>1, <1>2, PlainFacts
<1>11. IsDataText(rest) <=> comma # 0 /\ IsPayload(header, payload)
  BY <1>4, <1>5, <1>6, <1>7 DEF IsDataText, InBase64, Payload, IsPayload
<1>12. CASE comma = 0
  <2>1. ~IsOk(data)
    BY <1>9, <1>12, KindFacts
  <2>2. QED
    BY <1>8, <1>10, <1>11, <1>12, <2>1
<1>13. CASE comma # 0
  <2>1. /\ header \in Text /\ payload \in Text
        /\ rest = header \o (<<Comma>> \o payload)
    <3>1. PICK c : c = Comma
      OBVIOUS
    <3>2. Find(rest, c) # 0
      BY <1>4, <1>13, <3>1
    <3>3. /\ Before(rest, Find(rest, c)) \in Text /\ After(rest, Find(rest, c)) \in Text
          /\ rest = Before(rest, Find(rest, c)) \o (<<c>> \o After(rest, Find(rest, c)))
      BY <1>3, <3>2, PartsAt
    <3>4. header = Before(rest, Find(rest, c)) /\ payload = After(rest, Find(rest, c))
      BY <1>4, <1>6, <1>7, <3>1
    <3>5. QED
      BY <3>1, <3>3, <3>4
  <2>2. IsPrefix(TwoSlashes, rest) <=> IsPrefix(TwoSlashes, header)
    <3>1. PICK v : v = <<Comma>> \o payload
      OBVIOUS
    <3>2. v \in Text /\ v # <<>> /\ v[1] = Comma /\ Comma # Slash
      BY <2>1, <3>1, CommaFacts, ConsFacts DEF Text
    <3>3. IsPrefix(TwoSlashes, header \o v) => IsPrefix(TwoSlashes, header)
      BY <2>1, <3>2, StartOf
    <3>4. IsPrefix(TwoSlashes, header) => IsPrefix(TwoSlashes, header \o v)
      BY <2>1, <3>2, StartGrows
    <3>5. QED
      BY <2>1, <3>1, <3>3, <3>4
  <2>3. PICK r : r = PayloadOf(header, payload)
    OBVIOUS
  <2>4. /\ IsOk(r) <=> IsPayload(header, payload)
        /\ IsOk(r) => Spells(r.value, header, payload)
    BY <2>1, <2>3, PayloadFollows
  <2>5. ParsedData(header, payload) =
           IF IsPrefix(TwoSlashes, rest) \/ ~IsOk(r) THEN Invalid
             ELSE Ok(DataUri(MediatypeOf(header), ends_with_base64_marker(header), r.value))
    BY <2>1, <2>2, <2>3, HeaderStart DEF ParsedData
  <2>6. IsOk(data) <=> /\ scheme_is(split(t).scheme, DATA) /\ ~IsPrefix(TwoSlashes, rest)
                       /\ IsPayload(header, payload)
    BY <1>9, <1>13, <2>4, <2>5, KindFacts
  <2>7. IsOk(data) => data.value.data = r.value
    BY <1>9, <1>13, <2>5, KindFacts DEF DataUri
  <2>8. IsOk(data) <=> \E x \in PlainIn(t, DATA) : IsDataText(x)
    BY <1>10, <1>11, <1>13, <2>6
  <2>9. ASSUME NEW x \in PlainIn(t, DATA), IsDataText(x)
        PROVE  IF InBase64(x) THEN AreBitsOf(data.value.data, Payload(x))
                              ELSE AreSpelledBy(data.value.data, Payload(x))
    <3>1. x = rest /\ IsOk(data)
      BY <1>10, <2>8, <2>9
    <3>2. Spells(data.value.data, header, payload)
      BY <2>4, <2>6, <2>7, <3>1
    <3>3. QED
      BY <1>4, <1>6, <1>7, <3>1, <3>2 DEF InBase64, Payload, Spells
  <2>10. QED
    BY <1>8, <2>8, <2>9
<1>14. QED
  BY <1>12, <1>13

-----------------------------------------------------------------------------
(* Theorems.                                                               *)

(* What is typed is a text, and what is composed opens and can be composed *)
(* further, in every reachable state.                                      *)
THEOREM Invariance == Spec => []IInv
BY InitInv, StepInv, PTL DEF Spec

(* Whatever text is opened, open_bytes ends, with bytes or one of the      *)
(* errors of its drivers.                                                  *)
THEOREM TypeCorrect == Spec => []TypeOK
<1>1. ASSUME IInv PROVE TypeOK
  <2>1. text \in Text /\ soup \in Soups \union {NoSoup}
    BY <1>1 DEF IInv, Typing
  <2>2. model = NoModel \/ model \in Text
    BY <1>1 DEF IInv, Typing, Composed
  <2>3. open_bytes[text] \in Answer
    BY <2>1, OpensTyped
  <2>4. QED
    BY <2>1, <2>2, <2>3 DEF TypeOK, Answer
<1>2. QED
  BY <1>1, Invariance, PTL

(* What the grammars accept, formatted and parsed again is the same value, *)
(* and a slice: or concat: text in the formatter's spelling comes back     *)
(* unchanged, whatever was typed or composed.                              *)
THEOREM FormatsInvert == Spec => []FormatInverts
<1>1. ASSUME IInv PROVE FormatInverts
  <2>1. SliceInverts(text) /\ ConcatInverts(text) /\ DataInverts(text)
    BY <1>1, SliceRoundTrip, ConcatRoundTrip, DataRoundTrip DEF IInv, Typing
  <2>2. \A w : IsCanonicalText(w) <=> CanonicalText(w, text)
    BY DEF IsCanonicalText, CanonicalText
  <2>3. QED
    BY <2>1, <2>2 DEF FormatInverts, SliceInverts, ConcatInverts, DataInverts
<1>2. QED
  BY <1>1, Invariance, PTL

(* DataUri::new and ConcatUri::new take exactly the parts that are read    *)
(* back as they are, SliceUri::new only such parts and all without a "!",  *)
(* for every end of what is typed.                                         *)
THEOREM GuardsAgree == Spec => []ConstructorsAgree
<1>1. ASSUME IInv PROVE ConstructorsAgree
  <2>1. ASSUME NEW word \in Words PROVE word \in Text
    <3>1. PICK i \in 0 .. Len(text) : word = After(text, i)
      BY <2>1 DEF Words
    <3>2. text \in Seq(Byte)
      BY <1>1 DEF IInv, Typing, Text
    <3>3. After(text, i) \in Seq(Byte)
      BY <3>2, AfterFacts
    <3>4. QED
      BY <3>1, <3>3 DEF Text
  <2>2. <<0, 255>> \in Text
    BY DEF Text, Byte
  <2>3. MaxU64 \in 0 .. MaxU64 /\ 0 \in 0 .. MaxU64
    BY MaxU64Assumption
  <2>4. ASSUME NEW word \in Words
        PROVE  /\ \A parts \in {<<>>, <<word>>, <<word, word>>, Cut[word]} :
                     ConcatAgrees(parts)
               /\ SliceAgrees(MaxU64, 0, word)
               /\ \A base64 \in BOOLEAN : DataAgrees(word, base64, <<0, 255>>)
    <3>1. {<<>>, <<word>>, <<word, word>>, Cut[word]} \subseteq Seq(Text)
      <4>1. word \in Text /\ Cut[word] \in Seq(Text)
        BY <2>1, CutsWell DEF CutWell
      <4>2. <<>> \in Seq(Text) /\ <<word>> \in Seq(Text) /\ <<word, word>> \in Seq(Text)
        BY <4>1
      <4>3. QED
        BY <4>1, <4>2
    <3>2. QED
      BY <2>1, <2>2, <2>3, <3>1, ConcatConstructorAgrees, SliceConstructorAgrees,
         DataConstructorAgrees
  <2>5. ASSUME NEW word \in Words
        PROVE  LET x == SliceUri(MaxU64, 0, word)
               IN  /\ IsOk(SliceUri_new(MaxU64, 0, word)) => SliceReadBack(x)
                   /\ SliceReadBack(x) /\ ~Has(word, Bang)
                        => IsOk(SliceUri_new(MaxU64, 0, word))
    BY <2>4 DEF SliceAgrees, SliceReadBack
  <2>6. QED
    BY <2>4, <2>5, Zenon DEF ConstructorsAgree, ConcatAgrees, DataAgrees
<1>2. QED
  BY <1>1, Invariance, PTL

(* The parsers accept exactly the texts of their grammar and answer what   *)
(* those spell, and the decoding of a path goes with the scheme, for every *)
(* text there is.                                                          *)
THEOREM GrammarFollowed == Spec => []ParsersFollowGrammar
<1>1. ASSUME IInv PROVE ParsersFollowGrammar
  <2>1. PICK t \in Text : t = text
    BY <1>1 DEF IInv, Typing
  <2>2. \A w : Rests(w) = RestsIn(t, w)
    BY <2>1 DEF Rests, RestsIn, HeadsIn
  <2>3. \A w : PlainRests(w) = PlainIn(t, w)
    BY <2>2 DEF PlainRests, PlainIn
  <2>4. SliceReadings = ReadingsIn(t)
    BY <2>2 DEF SliceReadings, ReadingsIn
  <2>5. SliceReadings = IF IsOk(parse_slice_uri(text)) THEN {parse_slice_uri(text).value} ELSE {}
    BY <2>1, <2>4, SliceFollows
  <2>6. IsOk(parse_concat_uri(text)) <=> \E r \in PlainRests(CONCAT) : Separated(r)
    BY <2>1, <2>3, ConcatFollows
  <2>7. has_file_scheme(text)
          <=> scheme_is(split(text).scheme, FILE) /\ split(text).rest # text
    BY <2>1, FileSchemes
  <2>8. PICK data : data = parse_data_uri(text)
    OBVIOUS
  <2>9. /\ IsOk(data) <=> \E r \in PlainRests(DATA) : IsDataText(r)
        /\ \A r \in PlainRests(DATA) :
              IsDataText(r) =>
                  IF InBase64(r) THEN AreBitsOf(data.value.data, Payload(r))
                                 ELSE AreSpelledBy(data.value.data, Payload(r))
    BY <2>1, <2>3, <2>8, DataFollows
  <2>10. QED
    BY <2>5, <2>6, <2>7, <2>8, <2>9 DEF ParsersFollowGrammar
<1>2. QED
  BY <1>1, Invariance, PTL

(* However deep slices and concatenations nest around leaves, the text     *)
(* opens to the bytes it was composed for, and a window beyond them is     *)
(* refused.                                                                *)
THEOREM CompositesOpen == Spec => []OpensAsModel
<1>1. ASSUME IInv, model # NoModel
      PROVE  /\ open_bytes[text] = Ok(model)
             /\ open_bytes[SliceText(Len(model), 1, text)] = Invalid
             /\ open_bytes[SliceText(Len(model) + 1, 0, text)] = Invalid
             /\ open_bytes[SliceText(MaxU64, 1, text)] = Invalid
  <2>1. soup = NoSoup
    BY <1>1 DEF IInv, Typing
  <2>2. PICK n : n = Len(model)
    OBVIOUS
  <2>3. /\ text \in Text /\ text # <<>> /\ model \in Text /\ n \in 0 .. MaxU64
        /\ open_bytes[text] = Ok(model)
    BY <1>1, <2>1, <2>2, LengthIsU64
  <2>4. MaxU64 \in Nat /\ n \in Nat /\ n + 1 \in Nat /\ n <= MaxU64
    BY <2>3, MaxU64Assumption
  <2>5. \A offset, length \in Nat :
           offset + length > n => Window(model, offset, length) = Invalid
    BY <2>2 DEF Window
  <2>6. ASSUME NEW offset \in Nat, NEW length \in Nat, offset + length > n
        PROVE  open_bytes[SliceText(offset, length, text)] = Invalid
    BY <2>3, <2>5, <2>6, SliceAnswers
  <2>7. n + 1 > n /\ n + 1 + 0 > n /\ MaxU64 + 1 > n
    BY <2>4
  <2>8. QED
    BY <2>2, <2>3, <2>4, <2>6, <2>7
<1>2. IInv => OpensAsModel
  BY <1>1 DEF OpensAsModel
<1>3. QED
  BY <1>2, Invariance, PTL
=============================================================================
