------------------------------ MODULE Messages ------------------------------
(***************************************************************************)
(* What a program sees of a message: the send statement encodes it, the    *)
(* transport carries it, the handler decodes it into temporary variables   *)
(* and sorts them, and the program reads them by name, and may change      *)
(* them, until the next event takes their place.                           *)
(***************************************************************************)
EXTENDS SecsItems, TmpVariables

CONSTANTS
    Protocols,    \* of "hsms" and "secs"
    Items,        \* messages of a program, as trees
    Foreign,      \* bytes of messages that are not made by secs_encode(); no item
                  \* says that it is longer than the message
    Lines,        \* messages of the standard protocol: sequences of words
    SetNames,     \* names the program sets or adds temporary variables under
    SetTexts,     \* and their texts
    MaxTmp        \* bound: temporary variables

ASSUME MessagesAssumption == Protocols \subseteq {"hsms", "secs"} /\ MaxTmp \in Nat

VARIABLES
    wire,       \* the message on its way, at most one
    tmp,        \* the table of temporary variables
    got,        \* history: the message whose variables the table holds
    known,      \* history: the variables the program may count on
    loose,      \* history: variables were added since the table was sorted
    made        \* history: by whom the table was made: a "message", the program
                \* that has "set" or "added" variables, or "both"

vars == <<wire, tmp, got, known, loose, made>>

None == <<>>
SXFY == <<"SXFY">>
DEVICE_ID == <<"DEVICE_ID">>
WAIT_BIT == <<"WAIT_BIT">>

\* Characters of a text: a value is written with as many digits as it has
RECURSIVE Digits(_)
Digits(v) == IF v < 0 THEN 1 + Digits(-v) ELSE IF v < 10 THEN 1 ELSE 1 + Digits(v \div 10)
Chars(t) ==
    CASE t[1] = "none" -> 0
      [] t[1] = "ARRAY" -> 5
      [] t[1] = "char" -> Len(t[2])
      [] t[1] = "bool" -> 2 * Len(t[2])
      [] t[1] = "hex" -> (IF t[3] THEN 3 ELSE 2) * Len(t[2])
      [] t[1] = "num" -> FoldLeft(LAMBDA a, v : a + Digits(v), 0, t[2])
                           + (IF t[3] THEN Len(t[2]) ELSE Len(t[2]) - 1)
TextFor(t) == Text(t, Chars(t))

Init ==
    /\ wire = None /\ tmp = NoTmp /\ got = None /\ known = {}
    /\ loose = FALSE /\ made = "message"

\* There is memory for all entries.  What follows a write behind it is undefined.
Sound == Len(tmp.root) <= tmp.alloc

-----------------------------------------------------------------------------
(* Sending. *)

\* What a protocol makes of an encoded message: HSMS sends it unless there was
\* an error; SECS-I sends a header alone, because the size of the message and
\* the error are set to 0 before the blocks are sent
Body(protocol, r) ==
    IF protocol = "secs" THEN <<<<>>>>
    ELSE IF r.ret = "ok" THEN <<r.data>> ELSE None

\* The program sends an item.
send ==
    /\ Sound /\ wire = None
    /\ \E item \in Items, oneText \in BOOLEAN, p \in Protocols :
         LET r == secs_encode(<<<<"line", 7>>>> \o ItemTokens(item, oneText) \o <<<<".">>>>, 1)
         IN /\ Body(p, r) # None
            /\ wire' = <<[bytes |-> Body(p, r)[1], item |-> item, whole |-> p = "hsms"]>>
    /\ UNCHANGED <<tmp, got, known, loose, made>>

\* A text that came in as a value goes out as the same value
SameValue(f, t) ==
    /\ f = BOOLEAN_1 => Len(t[2]) = 1
    /\ f = FLOAT[8] => ~t[3]

\* The program sends an item with the value it has received one with
SendBack ==
    /\ Sound /\ wire = None /\ got # None /\ "hsms" \in Protocols
    /\ LET text == tmp_variable_get(tmp, Whole(<<1>>))
           t == text[1].content
           f == got[1].item.f
           r == secs_encode(<<<<"<">>, <<"id", f>>, <<"text", t>>, <<">">>>>, 1)
       IN /\ f # LIST /\ text # NoText
          /\ t[1] = KindOf(f)
          /\ Body("hsms", r) # None
          /\ wire' = <<[bytes |-> r.data, item |-> got[1].item, whole |-> SameValue(f, t)]>>
    /\ UNCHANGED <<tmp, got, known, loose, made>>

\* A message of another program
SendForeign ==
    /\ Sound /\ wire = None
    /\ \E b \in Foreign : wire' = <<[bytes |-> b, item |-> [f |-> -1], whole |-> FALSE]>>
    /\ UNCHANGED <<tmp, got, known, loose, made>>

-----------------------------------------------------------------------------
(* Receiving. *)

\* What recv_secs() and recv_hsms() add for the header of a message
HeaderVars(wait) ==
    <<Var(SXFY, <<"char", <<1, 2>>, FALSE>>), Var(DEVICE_ID, Num(0)),
      Var(WAIT_BIT, Num(wait))>>

AddAll(s, added) ==
    FoldLeft(LAMBDA a, v : tmp_variable_add(a, v.name, TextFor(v.text)), s, added)

\* Whether the program is told of a message: not of a primary message with an
\* error, nor of a reply without an open transaction, a "stray".  The error of a
\* reply is overwritten by what open_trans_table_del() returns.
Told(ret, kind) == kind = "reply" \/ (kind = "primary" /\ ret = 0)

\* What has been decoded stays in the table, sorted only if the program is told
Received(s, ret, kind) == IF Told(ret, kind) THEN tmp_variable_sort(s) ELSE s

\* handler() for a SECS message
handler ==
    /\ Sound /\ wire # None
    /\ \E arrays \in BOOLEAN, kind \in {"primary", "reply", "stray"} :
         LET m == wire[1]
             wait == IF kind = "primary" THEN 1 ELSE 0
             r == Decoded(m.bytes, arrays)
             added == AddAll(tmp_variable_delete_all(tmp), HeaderVars(wait) \o r.vars)
             told == Told(r.ret, kind)
         IN /\ tmp' = Received(added, r.ret, kind)
            /\ got' = IF told /\ m.whole
                      THEN <<[item |-> m.item, arrays |-> arrays]>> ELSE None
            /\ known' = IF ~told THEN {}
                        ELSE Range(HeaderVars(wait))
                             \cup (IF m.whole THEN Expected(m.item, <<1>>, arrays) ELSE {})
            /\ loose' = ~told
    /\ wire' = None /\ made' = "message"

\* handler() for a message of the standard protocol, a timer that runs out, or
\* the reply to a send statement: make_tmp_variables()
Event ==
    /\ Sound
    /\ \E line \in Lines :
         LET bare == SelectSeq(line, LAMBDA w : w[1] = <<>>)
             named == SelectSeq(line, LAMBDA w : w[1] # <<>>)
         IN /\ tmp' = make_tmp_variables(tmp, TextFor(<<"char", <<1>>, FALSE>>),
                        [i \in DOMAIN line |-> <<line[i][1], TextFor(line[i][2])>>],
                        [n \in 0..Len(line) |-> TextFor(Num(n))])
            /\ known' = {Var(Arg(i - 1), bare[i][2]) : i \in DOMAIN bare}
                        \cup {Var(<<"NUM_ARG">>, Num(Len(bare)))}
                        \cup {Var(named[i][1], named[i][2]) : i \in DOMAIN named}
    /\ got' = None /\ loose' = FALSE /\ made' = "set"
    /\ UNCHANGED wire

-----------------------------------------------------------------------------
(* The functions of the language.  They do not depend on a message on its  *)
(* way, and are left to the time when there is none.                       *)

Idle == Sound /\ wire = None

\* set_tmp_var().  A variable that exists keeps its length.
set_tmp_var ==
    /\ Idle /\ (Len(tmp.root) < MaxTmp \/ known # {})
    /\ \E n \in SetNames, t \in SetTexts :
         LET old == tmp_variable_get(tmp, n)
             others == {v \in known : strcmp(v.name) # strcmp(n)}
         IN /\ tmp' = tmp_variable_put(tmp, n, TextFor(t))
            /\ known' = IF loose \/ made \in {"added", "both"} THEN {}
                        ELSE IF old # NoText /\ old[1].size # Chars(t) THEN others
                        ELSE others \cup {Var(n, t)}
    /\ got' = None
    /\ made' = IF made \in {"message", "set"} THEN "set" ELSE "both"
    /\ UNCHANGED <<wire, loose>>

\* add_tmp_var()
add_tmp_var ==
    /\ Idle /\ Len(tmp.root) < MaxTmp
    /\ \E n \in SetNames, t \in SetTexts : tmp' = tmp_variable_add(tmp, n, TextFor(t))
    /\ got' = None /\ known' = {} /\ loose' = TRUE
    /\ made' = IF made \in {"message", "added"} THEN "added" ELSE "both"
    /\ UNCHANGED wire

\* sort_tmp_var()
sort_tmp_var ==
    /\ Idle
    /\ tmp' = tmp_variable_sort(tmp)
    /\ loose' = FALSE
    /\ UNCHANGED <<wire, got, known, made>>

\* del_tmp_var()
del_tmp_var ==
    /\ Idle
    /\ tmp' = tmp_variable_delete_all(tmp)
    /\ got' = None /\ known' = {} /\ loose' = FALSE /\ made' = "message"
    /\ UNCHANGED wire

Overrun == ~Sound /\ UNCHANGED vars

Next == send \/ SendBack \/ SendForeign \/ handler \/ Event
        \/ set_tmp_var \/ add_tmp_var \/ sort_tmp_var \/ del_tmp_var \/ Overrun

Spec == Init /\ [][Next]_vars

-----------------------------------------------------------------------------
(* Properties. *)

\* Readable: every item of a message that the program is told of, at whatever
\* depth and of whatever format and length, empty ones included, reads back under
\* its name with the value that was sent, every word of a line under its own; and
\* a variable the program sets reads back and leaves the others as they were.
\* Not covered are an I8 value beyond four bytes, which my_atoi() cuts (see
\* EightBytes); with arrays, a single U1, which becomes an array, and an empty
\* float, which leaves no variable; and a variable set again to a longer or
\* shorter text.
Readable ==
    Sound => \A v \in known : tmp_variable_get(tmp, v.name) = <<TextFor(v.text)>>

\* InBounds: as long as the program does not mix adding variables with setting
\* them, there is memory for every entry, however large the table was before.
InBounds == made # "both" => Sound


\* EightBytes: a single value of I1, I2, I4 or I8 that its bytes can hold reads back
\* as it was sent, because the users guide calls them "Signed one, two, four, or
\* eight byte integer(s)" (reference.h: "I1, I2, I4, I8    Signed integers").  For I8
\* it does not: my_atoi(), which returns an int64_t, counts in an int.
EightBytes ==
    Sound /\ got # None =>
      LET item == got[1].item IN
      /\ IsSigned(item.f) /\ got[1].arrays /\ Len(item.v) = 1
      /\ item.v[1] = Signed(Cast(item.v[1], Width(item.f)), Width(item.f))
      => tmp_variable_get(tmp, Whole(<<1>>)) = <<TextFor(Num(item.v[1]))>>

\* BodySent: a send statement that has an item puts the item on the line, which
\* "Repeat for each secsI block" in send_secsII() promises; it does not.
BodySent ==
    wire # None => wire[1].bytes # <<>>
=============================================================================
