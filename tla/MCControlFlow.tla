--------------------------- MODULE MCControlFlow ---------------------------
(***************************************************************************)
(* Programs for ControlFlow.  A program has an event handler and a         *)
(* subroutine; their bodies are all the well-nested sequences of a given   *)
(* length, or are written out.                                             *)
(***************************************************************************)
EXTENDS StructuredPrograms

S(op) == <<[op |-> op, arg |-> 0]>>
A(op, arg) == <<[op |-> op, arg |-> arg]>>

\* An event handler of n statements, then a subroutine; gosub goes to n + 4
Whole(main, sub) ==
    A("label", 1) \o main \o S("end") \o A("label", 2) \o sub \o S("return")

\* Bodies of n statements inside d loops, the innermost of kind loop, that
\* call the subroutine at call (0: none)
Simple(loop, call) ==
    {S("plain"), S("send")}
        \cup (IF call # 0 THEN {A("gosub", call)} ELSE {})
        \cup (IF loop = "none" THEN {} ELSE {S("continue")})
        \cup (IF loop = "while" THEN {S("break_loop")} ELSE {})

Around(open, inner, close, rest) == {open \o b \o close \o r : b \in inner, r \in rest}

Size == 4

Bodies[n \in 0..Size, d \in 1..(Size + 1), loop \in {"none", "while", "for"},
       call \in {0, Size + 4}] ==
    IF n = 0 THEN {<<>>}
    ELSE {s \o r : s \in Simple(loop, call), r \in Bodies[n - 1, d, loop, call]} \cup
         UNION {Around(S("while"), Bodies[m, d, "while", call], S("end_while"),
                       Bodies[n - 2 - m, d, loop, call]) : m \in 0..(n - 2)} \cup
         UNION {Around(A("for", d), Bodies[m, d + 1, "for", call], A("next", d),
                       Bodies[n - 2 - m, d, loop, call]) : m \in 0..(n - 2)} \cup
         UNION {Around(S("if"), Bodies[m, d, loop, call], S("end_if"),
                       Bodies[n - 2 - m, d, loop, call]) : m \in 0..(n - 2)}

Subs == {S("send"), S("while") \o S("send") \o S("end_while"),
         A("for", 9) \o S("send") \o A("next", 9)}

\* Programs written out: branches, goto, errors, a break out of a for loop
Branching ==
    S("if") \o S("if") \o S("plain") \o S("else") \o S("plain") \o S("end_if")
    \o S("else_if") \o S("while") \o S("if") \o S("continue") \o S("else")
    \o S("break_loop") \o S("end_if") \o S("end_while")
    \o S("else") \o S("no_error") \o S("end_if") \o S("plain")

\* Loops between break_loop or continue and the end of their own loop
Skipping ==
    S("while") \o S("if") \o S("break_loop") \o S("else_if") \o S("continue") \o S("end_if")
    \o S("while") \o S("plain") \o S("end_while")
    \o A("for", 1) \o S("send") \o A("next", 1) \o S("end_while")

\* The subroutine is at 8, the end at 6
Failing ==
    S("while") \o A("gosub", 8) \o S("end_while") \o A("goto", 6)

\* A subroutine that calls itself, an error with a label, statements without
\* their opening
Recursive == A("fails", 3) \o S("plain") \o S("return") \o S("end_while") \o A("gosub", 9)

\* An error resets the level of a for loop that another run is suspended in
FailsBetween == S("if") \o S("fails") \o S("end_if") \o A("for", 1)
                \o S("send") \o A("next", 1)

\* Two runs of this may be suspended in the subroutine
TwoCalls == {Whole(A("gosub", 7) \o S("plain") \o A("gosub", 7), S("send"))}

\* Misplaced statements, and failures that nothing handles
Disturbed == {<<Recursive, A("gosub", 9)>>, <<Failing, S("fails")>>, <<FailsBetween, <<>>>>}

MCVars == 1..9
MCPrograms ==
    {Whole(p[1], p[2]) : p \in (Bodies[Size, 1, "none", Size + 4] \X Subs) \cup Disturbed
                                \cup {<<Branching, <<>>>>, <<Skipping, <<>>>>}}

\* A block ends at its partner, and the subroutine is all that is behind the
\* second label
Ends == [i \in Blocks |-> Partner(i)]
InSub ==
    LET second == CHOOSE i \in DOMAIN program : program[i] = [op |-> "label", arg |-> 2]
    IN [i \in Lines |-> second < i /\ i <= Len(program)]

\* The frames of the run that is suspended or interrupted
FramesAside ==
    IF outer # <<>> THEN outer[1].ref.stack
    ELSE IF waiting # {} THEN (CHOOSE w \in waiting : TRUE).ref.stack
    ELSE <<>>

\* Accounted: all but the disturbed programs are well formed, and the frames of the run and
\* of the one aside are all that nest, while_nest and for_nest count, and
\* RETURN.n, WHILE.n and FOR.n of each counted level name the statement that made
\* its frame: no level is left over by break_loop, continue, goto, a suspended
\* send or the end of a run.
Accounted ==
    program \notin {Whole(p[1], p[2]) : p \in Disturbed} =>
        \A close \in {Ends}, sub \in {InSub} : Accounts(close, sub, FramesAside)
=============================================================================
