----------------------------- MODULE MCOpenUri -----------------------------
(***************************************************************************)
(* A small instance of OpenUri for TLC: numbers of at most two digits, a   *)
(* file whose name holds an escape and one it decodes to, two buffers, and *)
(* separator-heavy texts.                                                  *)
(***************************************************************************)
EXTENDS OpenUri

MCMaxU64 == 10

(* Characters by name.                                                     *)
Ascii ==
    ("0" :> 48 @@ "1" :> 49 @@ "4" :> 52 @@ "A" :> 65 @@ "S" :> 83 @@ "a" :> 97
     @@ "b" :> 98 @@ "c" :> 99 @@ "e" :> 101 @@ "i" :> 105 @@ "l" :> 108
     @@ "+" :> Plus @@ "!" :> Bang @@ "/" :> Slash @@ "|" :> Bar
     @@ "," :> Comma @@ "%" :> Percent @@ "=" :> Equals @@ " " :> Space
     @@ ":" :> Colon)
T(chars)   == [i \in DOMAIN chars |-> Ascii[chars[i]]]
Chars(set) == {<<Ascii[c]>> : c \in set}

SlicePrefix  == SLICE \o <<Colon>>
ConcatPrefix == CONCAT \o <<Colon>>
DataPrefix   == DATA \o <<Colon>>
FilePrefix   == FILE \o <<Colon>>
BufferUri    == MEM \o T(<<":", "b">>)
LongUri      == MEM \o T(<<":", "c">>)

(* Files named a%41, aA (what that decodes to) and one beyond ASCII.       *)
LiteralName == T(<<"a", "%", "4", "1">>)
DecodedName == T(<<"a", "A">>)
MCFiles ==
    (LiteralName :> <<1, 2>>) @@ (DecodedName :> <<3>>) @@ (<<195, 169>> :> <<6>>)
MCBuffers == (T(<<"b">>) :> <<4, 5>>) @@ (T(<<"c">>) :> <<4, 5, 7, 8>>)

Soup(prefix, pieces, size) ==
    [prefix |-> prefix, pieces |-> pieces, size |-> size]
MCSoups ==
    {Soup(SlicePrefix, Chars({"0", "1", "+", "!"}), 6),
     Soup(T(<<"S", "l", "i", "c", "e", ":">>),
          {TwoSlashes} \union Chars({"0", "1", "+", "!"}), 5),
     Soup(ConcatPrefix, {LongUri} \union Chars({"a", "/", "|"}), 6),
     Soup(DataPrefix, {MARKER} \union Chars({"/", ",", "%", "4", "a"}), 5),
     Soup(DataPrefix \o MARKER \o <<Comma>>,
          {T(<<"A", "A", "A">>)} \union Chars({"A", "/", "=", " "}), 5),
     Soup(<<>>, {FILE, MEM, T(<<"%", "4">>)} \union Chars({":", "c", "/", "4"}), 4)}

Leaf(uri, content) == [uri |-> uri, content |-> content]
MCLeaves ==
    {Leaf(DataUri_format(DataUri(<<>>, base64, <<0, 255>>)), <<0, 255>>) :
        base64 \in BOOLEAN}
    \union {Leaf(DataPrefix \o <<Comma>>, <<>>),
            Leaf(LiteralName, <<1, 2>>),
            Leaf(FilePrefix \o TwoSlashes \o LiteralName, <<3>>),
            Leaf(FilePrefix \o Escaped(195) \o Escaped(169), <<6>>),
            Leaf(BufferUri, <<4, 5>>)}
=============================================================================
