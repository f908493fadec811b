------------------------------ MODULE SecsItems ------------------------------
(***************************************************************************)
(* The SECS-II codec: secs_encode() turns the tokens of a message in a     *)
(* program into bytes, secs_decode() and secs_decode_no_arrays() turn      *)
(* bytes into the temporary variables of the message.                      *)
(*                                                                         *)
(* A text is <<kind, values, trail>>: numbers in decimal ("num"), bytes in *)
(* hexadecimal ("hex"), T and F ("bool"), characters ("char"), the word    *)
(* ARRAY ("ARRAY"), or nothing ("none"); trail says that a blank follows   *)
(* the last value.  A float is a number with the bytes of that number.     *)
(***************************************************************************)
EXTENDS ItemHeader, SequencesExt

LIST == 0
ASCII == 64
BINARY == 32
BOOLEAN_1 == 36
UNSIGNED == [w \in {1, 2, 4, 8} |-> CASE w = 1 -> 164 [] w = 2 -> 168
                                      [] w = 4 -> 176 [] w = 8 -> 160]
SIGNED == [w \in {1, 2, 4, 8} |-> CASE w = 1 -> 100 [] w = 2 -> 104
                                    [] w = 4 -> 112 [] w = 8 -> 96]
FLOAT == [w \in {4, 8} |-> IF w = 4 THEN 144 ELSE 128]

IsUnsigned(f) == f \in Range(UNSIGNED)
IsSigned(f) == f \in Range(SIGNED)
IsFloat(f) == f \in Range(FLOAT)
Known(f) == f \in {LIST, ASCII, BINARY, BOOLEAN_1}
            \/ IsUnsigned(f) \/ IsSigned(f) \/ IsFloat(f)

\* Bytes of a value
Width(f) == IF IsUnsigned(f) THEN CHOOSE w \in DOMAIN UNSIGNED : UNSIGNED[w] = f
            ELSE IF IsSigned(f) THEN CHOOSE w \in DOMAIN SIGNED : SIGNED[w] = f
            ELSE IF IsFloat(f) THEN CHOOSE w \in DOMAIN FLOAT : FLOAT[w] = f
            ELSE 1

-----------------------------------------------------------------------------
(* Numbers as bytes, most significant first: swap() on this machine. *)

\* v modulo the values that w bytes have, as a C cast does it
Cast(v, w) == v % (Radix^w)
Signed(v, w) == IF v >= Radix^w \div 2 THEN v - Radix^w ELSE v

RECURSIVE ToBytes(_, _)
ToBytes(v, w) == IF w = 0 THEN <<>>
                 ELSE ToBytes(v \div Radix, w - 1) \o <<v % Radix>>

FromBytes(b) == FoldLeft(LAMBDA a, d : a * Radix + d, 0, b)

\* my_atoi() counts in an int, of four bytes
my_atoi(v) == Signed(Cast(v, 4), 4)

-----------------------------------------------------------------------------
(* secs_encode(): a token is <<kind, ...>>.                                *)
(*   <<"<">>, <<">">>, <<"eol">>, <<".">>   brackets, end of line, period  *)
(*   <<"line", n>>                          the number of the line         *)
(*   <<"id", f>>                            the name of a format           *)
(*   <<"text", t>>                          a value, a text                *)

Failed == [ok |-> FALSE, data |-> <<>>]
Stored(b) == [ok |-> TRUE, data |-> b]

\* Of a text for A all characters are taken
AsciiData(t) == Stored(t[2])

\* Of a text for BO only the first character is looked at
BooleanData(t) ==
    IF t[2] # <<>> THEN Stored(<<Head(t[2])>>) ELSE Failed

\* A blank behind the last value is taken for a value that is not valid
Values(t, bytes) == [ok |-> ~t[3], data |-> FlattenSeq(bytes)]

BinaryData(t) == Values(t, [i \in DOMAIN t[2] |-> <<Cast(t[2][i], 1)>>])
UnsignedData(t, w) == Values(t, [i \in DOMAIN t[2] |-> ToBytes(Cast(t[2][i], w), w)])
SignedData(t, w) ==
    Values(t, [i \in DOMAIN t[2] |-> ToBytes(Cast(my_atoi(t[2][i]), w), w)])

\* For F4 a blank, or nothing, ends the text; for F8 it is one more value, zero
FloatData(t, w) ==
    Stored(FlattenSeq([i \in DOMAIN t[2] |-> ToBytes(Cast(t[2][i], w), w)])
             \o (IF w = 8 /\ (t[3] \/ t[2] = <<>>) THEN ToBytes(0, 8) ELSE <<>>))

TextData(f, t) ==
    IF f = ASCII THEN AsciiData(t)
    ELSE IF f = BOOLEAN_1 THEN BooleanData(t)
    ELSE IF f = BINARY THEN BinaryData(t)
    ELSE IF IsUnsigned(f) THEN UnsignedData(t, Width(f))
    ELSE IF IsSigned(f) THEN SignedData(t, Width(f))
    ELSE FloatData(t, Width(f))

\* The text of a token within an item, whatever token it is
TextOf(token) == IF token[1] = "text" THEN token[2]
                 ELSE IF token[1] = "line" THEN <<"num", <<token[2]>>, FALSE>>
                 ELSE <<"none", <<>>, FALSE>>

\* Mutant of get_num_list_elements: the items within the items count too
RECURSIVE get_num_list_elements_Deep(_, _, _)
get_num_list_elements_Deep(tokens, i, nest) ==
    IF i > Len(tokens) THEN 0
    ELSE IF tokens[i][1] = "<" THEN 1 + get_num_list_elements_Deep(tokens, i + 1, nest + 1)
    ELSE IF tokens[i][1] # ">" THEN get_num_list_elements_Deep(tokens, i + 1, nest)
    ELSE IF nest = 0 THEN 0
    ELSE get_num_list_elements_Deep(tokens, i + 1, nest - 1)

\* The items that begin before the bracket that closes the list
RECURSIVE get_num_list_elements(_, _, _)
get_num_list_elements(tokens, i, nest) ==
    IF i > Len(tokens) THEN 0
    ELSE IF tokens[i][1] = "<"
    THEN (IF nest = 0 THEN 1 ELSE 0) + get_num_list_elements(tokens, i + 1, nest + 1)
    ELSE IF tokens[i][1] # ">" THEN get_num_list_elements(tokens, i + 1, nest)
    ELSE IF nest = 0 THEN 0
    ELSE get_num_list_elements(tokens, i + 1, nest - 1)

\* The bracket that ends an item: what is in between is taken for its values,
\* whatever it is.  Without one the loop reads the end of the program for ever.
Closing(tokens, i) ==
    LET ends == {j \in i..Len(tokens) : tokens[j][1] = ">"} IN
    IF ends = {} THEN 0 ELSE CHOOSE j \in ends : \A k \in ends : j <= k

STORE_DATA(f, data) == item_hdr(f, Len(data)) \o data

\* From token i: what is appended to the buffer, and how it ends
RECURSIVE secs_encode(_, _)
secs_encode(tokens, i) ==
    LET Then(bytes, rest) == [rest EXCEPT !.data = bytes \o @] IN
    IF i > Len(tokens) \/ tokens[i][1] = "." THEN [ret |-> "ok", data |-> <<>>]
    ELSE IF tokens[i][1] \in {"<", ">", "eol", "line"} THEN secs_encode(tokens, i + 1)
    ELSE IF tokens[i][1] # "id" THEN [ret |-> "error", data |-> <<>>]
    ELSE IF tokens[i][2] = LIST
    THEN Then(item_hdr(LIST, get_num_list_elements(tokens, i + 1, 0)),
              secs_encode(tokens, i + 1))
    ELSE LET f == tokens[i][2]
             close == Closing(tokens, i)
             parts == [j \in 1..(close - i - 1) |-> TextData(f, TextOf(tokens[i + j]))]
             data == FlattenSeq([j \in DOMAIN parts |-> parts[j].data])
         IN IF close = 0 THEN [ret |-> "hangs", data |-> <<>>]
            ELSE IF \E j \in DOMAIN parts : ~parts[j].ok
            THEN [ret |-> "error", data |-> STORE_DATA(f, data)]
            ELSE Then(STORE_DATA(f, data), secs_encode(tokens, close))

-----------------------------------------------------------------------------
(* Names and texts of temporary variables.  An item is named by its place  *)
(* in the lists around it, <<1>>, <<1, 2>>, and by what follows that.      *)

Whole(path) == <<path, -1>>         \* S1F2.1.2
Element(path, i) == <<path, i>>     \* S1F2.1.2[i]
All(path) == <<path, -2>>           \* S1F2.1.2[]

Num(v) == <<"num", <<v>>, FALSE>>
Blank == <<"none", <<>>, FALSE>>
ARRAY == <<"ARRAY", <<>>, FALSE>>
Var(name, text) == [name |-> name, text |-> text]

Chunks(data, w) == [i \in 1..(Len(data) \div w) |-> SubSeq(data, (i - 1) * w + 1, i * w)]

\* The value of one element: a boolean is 0 or 1, whatever the byte
ElementValue(f, b) ==
    LET v == FromBytes(b) IN
    IF f = BOOLEAN_1 THEN (IF v = 0 THEN 0 ELSE 1)
    ELSE IF IsSigned(f) THEN Signed(v, Width(f)) ELSE v

ItemValues(f, data) ==
    [i \in 1..(Len(data) \div Width(f)) |-> ElementValue(f, Chunks(data, Width(f))[i])]

\* secs_decode(): one variable for one value, and for an array one for each
\* value, the number of them, and all bytes of a binary.  A single U1 is an
\* array; an empty float leaves nothing.
NumberVars(f, path, data) ==
    LET v == ItemValues(f, data)
        array == IF f = UNSIGNED[1] THEN data # <<>> ELSE Len(data) > Width(f)
    IN IF data = <<>> THEN (IF IsFloat(f) THEN <<>> ELSE <<Var(Whole(path), Blank)>>)
       ELSE IF ~array THEN [i \in DOMAIN v |-> Var(Whole(path), Num(v[i]))]
       ELSE [i \in DOMAIN v |-> Var(Element(path, i), Num(v[i]))]
            \o (IF f = BINARY THEN <<Var(All(path), <<"hex", v, FALSE>>)>> ELSE <<>>)
            \o <<Var(Whole(path), ARRAY), Var(Element(path, 0), Num(Len(v)))>>

\* How values are written
KindOf(f) == IF f = ASCII THEN "char" ELSE IF f = BINARY THEN "hex"
             ELSE IF f = BOOLEAN_1 THEN "bool" ELSE "num"

\* secs_decode_no_arrays(): all values in one variable, a blank behind each
LineVar(f, path, data) ==
    <<Var(Whole(path), IF data = <<>> THEN Blank
                       ELSE <<KindOf(f), ItemValues(f, data), TRUE>>)>>

ItemVars(f, path, data, arrays) ==
    IF f = ASCII THEN <<Var(Whole(path), <<"char", data, FALSE>>)>>
    ELSE IF arrays THEN NumberVars(f, path, data) ELSE LineVar(f, path, data)

-----------------------------------------------------------------------------
(* The loop of secs_decode(): e[l] items are left of the list at level l,  *)
(* ie[l] is the item at hand; levels count from 1.  At the first level e   *)
(* begins with 0 and goes below it, so that the level is never left.       *)

\* while (e[l] == 0) l--
RECURSIVE Leave(_)
Leave(levels) == IF Last(levels).e = 0 THEN Leave(Front(levels)) ELSE levels

\* The item at hand is one less of its list; a list with items is entered
Enter(levels, f, size) ==
    LET next == [levels EXCEPT ![Len(levels)].e = @ - 1] IN
    IF f = LIST /\ size # 0 THEN Append(next, [e |-> size, ie |-> 0]) ELSE next

\* From byte p on: the variables that are added, and the return value
RECURSIVE secs_decode(_, _, _, _)
secs_decode(b, p, levels, arrays) ==
    LET f == secs_data_type(b[p])
        n == LengthBytes(num_length_bits(b[p]))
        size == item_size(num_length_bits(b[p]), SubSeq(b, p + 1, p + n))
        here == [levels EXCEPT ![Len(levels)].ie = @ + 1]
        path == [i \in DOMAIN here |-> here[i].ie]
        first == p + 1 + n
        used == IF f = LIST THEN 0 ELSE size - (size % Width(f))
        data == SubSeq(b, first, first + used - 1)
        added == IF f = LIST THEN <<Var(Whole(path), Num(size))>>
                 ELSE ItemVars(f, path, data, arrays)
        rest == secs_decode(b, first + used, Leave(Enter(here, f, size)), arrays)
    IN IF p > Len(b) THEN [ret |-> 0, vars |-> <<>>]
       ELSE IF ~Known(f) THEN [ret |-> 1, vars |-> <<>>]
       ELSE [rest EXCEPT !.vars = added \o @]

Decoded(b, arrays) == secs_decode(b, 1, <<[e |-> 0, ie |-> 0]>>, arrays)

-----------------------------------------------------------------------------
(* Messages as trees, to compare the codec with: a list has items, any     *)
(* other item has values.                                                  *)

\* The tokens of an item, its values in one text or in one text each; booleans
\* always in one each, because BO takes the first value of a text alone
RECURSIVE ItemTokens(_, _)
ItemTokens(item, oneText) ==
    LET kind == KindOf(item.f)
        inside == IF item.f = LIST
                  THEN FlattenSeq([i \in DOMAIN item.items |-> ItemTokens(item.items[i], oneText)])
                  ELSE IF oneText /\ item.v # <<>> /\ item.f # BOOLEAN_1 THEN <<<<"text", <<kind, item.v, FALSE>>>>>>
                  ELSE [i \in DOMAIN item.v |-> <<"text", <<kind, <<item.v[i]>>, FALSE>>>>]
    IN <<<<"<">>, <<"id", item.f>>>> \o inside \o <<<<">">>>>

\* A value that my_atoi() reads as it is.  It reads I8 as well, in four bytes.
IsInt(f, v) == IsSigned(f) => my_atoi(v) = v

\* What the guide says of the variables of an item: a list has the number of
\* its items, a value is the item's variable, several values are an array; an
\* item without a value is a variable without a text.  Left out are, as the code
\* has them otherwise: a value of I8 that is not an int, which is cut to one; with
\* arrays, a single U1, which becomes an array, and an empty float, which becomes
\* nothing.
RECURSIVE Expected(_, _, _)
Expected(item, path, arrays) ==
    IF item.f = LIST
    THEN {Var(Whole(path), Num(Len(item.items)))}
         \cup UNION {Expected(item.items[i], Append(path, i), arrays) : i \in DOMAIN item.items}
    ELSE IF item.f = ASCII THEN {Var(Whole(path), <<"char", item.v, FALSE>>)}
    ELSE IF item.v = <<>>
    THEN (IF arrays /\ IsFloat(item.f) THEN {} ELSE {Var(Whole(path), Blank)})
    ELSE IF ~arrays
    THEN (IF \A i \in DOMAIN item.v : IsInt(item.f, item.v[i])
          THEN {Var(Whole(path), <<KindOf(item.f), item.v, TRUE>>)} ELSE {})
    ELSE IF Len(item.v) = 1
    THEN (IF item.f # UNSIGNED[1] /\ IsInt(item.f, item.v[1])
          THEN {Var(Whole(path), Num(item.v[1]))} ELSE {})
    ELSE {Var(Element(path, i), Num(item.v[i])) :
            i \in {j \in DOMAIN item.v : IsInt(item.f, item.v[j])}}
         \cup (IF item.f = BINARY THEN {Var(All(path), <<"hex", item.v, FALSE>>)} ELSE {})
         \cup {Var(Whole(path), ARRAY), Var(Element(path, 0), Num(Len(item.v)))}
=============================================================================
