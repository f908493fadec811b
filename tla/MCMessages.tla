----------------------------- MODULE MCMessages -----------------------------
(***************************************************************************)
(* Messages for TLC: items of every format, empty and with several values, *)
(* lists that end several levels at once, lengths of one, two and three    *)
(* bytes in bytes of four values, and an I8 beyond the 256 values that an  *)
(* int has then.                                                           *)
(***************************************************************************)
EXTENDS Messages

L(items) == [f |-> LIST, items |-> items]
Of(f, v) == [f |-> f, v |-> v]
A(v) == Of(ASCII, v)
U(w, v) == Of(UNSIGNED[w], v)
I(w, v) == Of(SIGNED[w], v)

MCItems ==
    {L(<<>>), A(<<>>), A(<<1, 0, 3, 2, 1>>),
     U(1, <<3>>), U(1, <<3, 0>>), U(2, <<>>), U(2, <<14>>), U(4, <<255, 7>>),
     U(8, <<16, 15>>), I(1, <<-2, 1>>), I(2, <<-8>>), I(4, <<-1, 5>>), I(8, <<-3>>),
     I(8, <<200>>), I(8, <<-3, 200>>),
     Of(FLOAT[4], <<9>>), Of(FLOAT[4], <<1, 2>>), Of(FLOAT[8], <<>>), Of(FLOAT[8], <<9>>),
     Of(BINARY, <<2>>), Of(BINARY, <<3, 1>>),
     Of(BOOLEAN_1, <<1>>), Of(BOOLEAN_1, <<0, 1>>),
     L(<<L(<<U(2, <<1>>), L(<<A(<<2>>)>>)>>), A(<<3>>)>>),
     L(<<L(<<L(<<>>), L(<<>>)>>), L(<<L(<<U(1, <<1, 2>>)>>)>>)>>),
     L(<<A(<<1>>), A(<<>>), U(2, <<3, 4>>), L(<<>>), Of(BOOLEAN_1, <<1, 1>>)>>)}

\* The I8 alone, which is cut
WideItems == {I(8, <<-3>>), I(8, <<200>>)}

\* A list whose second item has a format that secs_decode() does not know
MCForeign == {item_hdr(LIST, 2) \o item_hdr(ASCII, 1) \o <<1>> \o item_hdr(68, 1) \o <<1>>}

Word(v) == <<"char", v, FALSE>>
MCLines == {<<>>, <<<<<<>>, Word(<<1>>)>>, <<<<>>, Word(<<2, 2>>)>>>>,
            <<<<<<"x">>, Word(<<1, 1>>)>>, <<<<>>, Word(<<2>>)>>>>}
MCSetNames == {<<"x">>, Whole(<<1>>)}
MCSetTexts == {Word(<<1>>), Word(<<2, 2>>)}

\* An order of the names, and hashes of which there are few
Plain == <<"SXFY", "DEVICE_ID", "WAIT_BIT", "ARGS", "NUM_ARG", "x">>
MCStrcmp(n) ==
    IF Len(n) = 1 THEN 100000 + (CHOOSE i \in DOMAIN Plain : Plain[i] = n[1])
    ELSE IF Len(n) = 3 THEN 200000 + n[2]
    ELSE FoldLeft(LAMBDA a, d : a * 7 + d, 0, n[1]) * 10 + n[2] + 2
MCHash(n) ==
    IF Len(n) # 2 THEN MCStrcmp(n) % 5
    ELSE IF n[1] = <<>> THEN (n[2] + 2) % 5
    ELSE (n[1][Len(n[1])] + Len(n[1]) + n[2]) % 5
=============================================================================
