----------------------------- MODULE Expressions -----------------------------
(***************************************************************************)
(* expression.c: expr(), term() and func() put the tokens of an expression *)
(* on a stack (the "queue" of the source), solve() and solve_function()    *)
(* take them off again, from the right end of the expression to its left.  *)
(*                                                                         *)
(* Values are terms: an operand is its position in the text, and applying  *)
(* an operator or a function builds the term that says so.                 *)
(***************************************************************************)
EXTENDS Naturals, SequencesExt

CONSTANTS
    Operators,   \* operators between two operands; "-" and "+" among them or not
    Faulty,      \* those of them whose application fails, like a division by zero
    MaxTokens    \* bound: tokens of an expression

ASSUME ExpressionsAssumption ==
    /\ Faulty \subseteq Operators
    /\ Operators \cap {"x", "f", "~", "(", ")", ","} = {}
    /\ MaxTokens \in Nat

VARIABLES
    input,     \* tokens of the statement, from where the expression begins
    result     \* what expression() returned for them, if it was called

vars == <<input, result>>

\* An operand, a function, a unary operator, and what separates them
Tokens == Operators \cup {"x", "f", "-", "+", "~", "(", ")", ","}
is_operator(type) == type \in Operators \cup {"-", "+", "~"}
is_function(type) == type = "f"

EOL == "eol"
TokenAt(t, i) == IF i <= Len(t) THEN t[i] ELSE EOL

-----------------------------------------------------------------------------
(* The stack: its elements are a type and a value. *)

Entry(type, value) == [type |-> type, value |-> value]
NULL == Entry("NULL", <<>>)
q_token(q, e) == Append(q, e)
dq_token(q) == IF q = <<>> THEN [q |-> <<>>, e |-> NULL]
               ELSE [q |-> Front(q), e |-> Last(q)]

-----------------------------------------------------------------------------
(* From the text onto the stack: whether it is an expression, where it     *)
(* ends, and the stack.                                                    *)

Parsed(ok, i, q) == [ok |-> ok, i |-> i, q |-> q]
Unary == [t \in {"-", "+", "~"} |-> CASE t = "-" -> "UNARY_MINUS" [] t = "+" -> "UNARY_PLUS"
                                       [] t = "~" -> "UNARY_ONES_COMPLEMENT"]

RECURSIVE expr(_, _, _), More(_, _, _), term(_, _, _), func(_, _, _), Arguments(_, _, _)

expr(t, i, q) == LET first == term(t, i, q) IN
                 IF first.ok THEN More(t, first.i, first.q) ELSE first

\* The loop of expr(): a token that is no operator is put back
More(t, i, q) ==
    IF ~is_operator(TokenAt(t, i)) THEN Parsed(TRUE, i, q)
    ELSE LET type == IF TokenAt(t, i) = "~" THEN Unary["~"] ELSE TokenAt(t, i)
             next == term(t, i + 1, q_token(q, Entry(type, <<>>)))
         IN IF next.ok THEN More(t, next.i, next.q) ELSE next

\* The error of the term behind a unary operator is ignored
term(t, i, q) ==
    LET type == TokenAt(t, i) IN
    IF is_function(type) THEN func(t, i + 1, q_token(q, Entry(type, <<>>)))
    ELSE IF type = "x" THEN Parsed(TRUE, i + 1, q_token(q, Entry(type, <<i>>)))
    ELSE IF type \in DOMAIN Unary
    THEN [term(t, i + 1, q_token(q, Entry(Unary[type], <<>>))) EXCEPT !.ok = TRUE]
    ELSE IF type = "("
    THEN LET inner == expr(t, i + 1, q_token(q, Entry(type, <<>>))) IN
         IF ~inner.ok THEN inner
         ELSE IF TokenAt(t, inner.i) = ")"
         THEN Parsed(TRUE, inner.i + 1, q_token(inner.q, Entry(")", <<>>)))
         ELSE Parsed(FALSE, inner.i + 1, inner.q)
    ELSE Parsed(FALSE, i + 1, q)

\* The parentheses of a function are not put on the stack; its end is
func(t, i, q) ==
    IF TokenAt(t, i) # "(" THEN Parsed(FALSE, i + 1, q)
    ELSE IF TokenAt(t, i + 1) = ")"
    THEN Parsed(TRUE, i + 2, q_token(q, Entry("FUNCTION", <<>>)))
    ELSE Arguments(t, i + 1, q)

\* Mutant of Arguments: whatever is no comma ends the function
Arguments_AnyEnd(t, i, q) ==
    LET arg == expr(t, i, q) IN
    IF ~arg.ok THEN arg
    ELSE IF TokenAt(t, arg.i) = ","
    THEN Arguments(t, arg.i + 1, q_token(arg.q, Entry(",", <<>>)))
    ELSE Parsed(TRUE, arg.i + 1, q_token(arg.q, Entry("FUNCTION", <<>>)))

\* The loop over the arguments
Arguments(t, i, q) ==
    LET arg == expr(t, i, q) IN
    IF ~arg.ok THEN arg
    ELSE IF TokenAt(t, arg.i) = ")"
    THEN Parsed(TRUE, arg.i + 1, q_token(arg.q, Entry("FUNCTION", <<>>)))
    ELSE IF TokenAt(t, arg.i) = ","
    THEN Arguments(t, arg.i + 1, q_token(arg.q, Entry(",", <<>>)))
    ELSE Parsed(FALSE, arg.i + 1, arg.q)

-----------------------------------------------------------------------------
(* From the stack to the value: the return value, the stack and the buffer *)
(* "token", which holds the value in the end.                              *)

Solved(ret, q, token) == [ret |-> ret, q |-> q, token |-> token]

\* arg1 was the right one of the two
Apply(op, arg1, arg2) == <<op, arg2, arg1>>

\* A unary operator on a value
Modify(type, v) == IF type = "UNARY_MINUS" THEN <<"neg", v>>
                   ELSE IF type = "UNARY_ONES_COMPLEMENT" THEN <<"not", v>> ELSE v
IsUnary(type) == type \in {"UNARY_MINUS", "UNARY_PLUS", "UNARY_ONES_COMPLEMENT"}

\* The operators solve() knows how to apply, which "~" is not one of
Applicable(type) == type \in Operators \cup {"-", "+"}

MaxArgs == 3

RECURSIVE solve(_, _), solve_function(_, _, _)

\* The operand on top of the stack, once what is in parentheses or in a
\* function has been solved
Operand(q, token) ==
    LET top == dq_token(q)
        inner == IF top.e.type = ")" THEN solve(top.q, token)
                 ELSE solve_function(top.q, token, <<<<>>>>)
    IN IF top.e.type \notin {")", "FUNCTION"}
       THEN [ret |-> 0, q |-> top.q, e |-> top.e, token |-> token]
       ELSE IF inner.ret # 0
       THEN [ret |-> inner.ret, q |-> inner.q, e |-> NULL, token |-> inner.token]
       ELSE [ret |-> 0, q |-> dq_token(inner.q).q, e |-> dq_token(inner.q).e,
             token |-> inner.token]

\* Mutant of Left: what is no unary operator is not put back
Left_Lost(q, e) ==
    [q |-> dq_token(q).q,
     value |-> IF IsUnary(dq_token(q).e.type) THEN Modify(dq_token(q).e.type, e.value)
               ELSE e.value]

\* One unary operator before the left operand is applied; anything else,
\* the NULL of an empty stack too, is put back
Left(q, e) ==
    LET before == dq_token(q) IN
    IF IsUnary(before.e.type)
    THEN [q |-> before.q, value |-> Modify(before.e.type, e.value)]
    ELSE [q |-> q_token(before.q, before.e), value |-> e.value]

\* One turn of the loop after the other
solve(q, token) ==
    LET a1 == Operand(q, token)
        op == dq_token(a1.q)
        a2 == Operand(op.q, a1.token)
        left == Left(a2.q, a2.e)
        value == Apply(op.e.type, a1.e.value, left.value)
    IN IF q = <<>> THEN Solved(0, q, token)
       ELSE IF a1.ret # 0 THEN Solved(a1.ret, a1.q, a1.token)
       ELSE IF op.e.type = "NULL" THEN solve(op.q, a1.e.value)
       ELSE IF op.e.type = "(" THEN Solved(0, q_token(op.q, a1.e), a1.token)
       ELSE IF op.e.type = "," \/ is_function(op.e.type)
       THEN Solved(0, q_token(q_token(op.q, op.e), a1.e), a1.token)
       ELSE IF IsUnary(op.e.type)
       THEN solve(q_token(op.q, [a1.e EXCEPT !.value = Modify(op.e.type, @)]),
                  IF op.e.type = "UNARY_MINUS" THEN Modify(op.e.type, a1.e.value) ELSE a1.token)
       ELSE IF dq_token(op.q).e.type = "NULL" THEN solve(<<>>, a1.token)
       ELSE IF a2.ret # 0 THEN Solved(a2.ret, a2.q, a2.token)
       ELSE IF ~Applicable(op.e.type) \/ op.e.type \in Faulty
       THEN Solved(1, left.q, a2.token)
       ELSE solve(q_token(left.q, Entry(a1.e.type, value)), value)

\* The arguments from the last to the first, up to the name of the function
solve_function(q, token, args) ==
    LET top == dq_token(q)
        arg == solve(q, token)
        taken == dq_token(arg.q)
    IN IF is_function(top.e.type)
       THEN Solved(0, q_token(top.q, Entry("x", <<"call", args>>)), <<"call", args>>)
       ELSE IF top.e.type = "," THEN solve_function(top.q, token, Append(args, <<>>))
       ELSE IF arg.ret # 0 THEN arg
       ELSE IF Len(args) > MaxArgs THEN Solved(1, taken.q, taken.e.value)
       ELSE solve_function(taken.q, taken.e.value, [args EXCEPT ![Len(args)] = taken.e.value])

\* expression(): the return value, the value, and where the statement goes on
expression(t) ==
    LET p == expr(t, 1, <<>>)
        s == solve(p.q, <<>>)
    IN IF ~p.ok \/ s.ret # 0 THEN [ret |-> 1]
       ELSE [ret |-> 0, value |-> s.token, next |-> p.i]

-----------------------------------------------------------------------------
(* What the users guide says of expressions, as a grammar that evaluates:  *)
(*   expression ::= term [operator expression]                             *)
(*   term       ::= operand | unary term | ( expression ) | f ( arguments )*)
(* "odd" tells that a left operand has more than one unary operator, "bad" *)
(* that an application fails.                                              *)

Reads(i, v, bad, odd) == [ok |-> TRUE, i |-> i, v |-> v, bad |-> bad, odd |-> odd]
Fails(i, hidden) == [ok |-> FALSE, i |-> i, hidden |-> hidden]

RECURSIVE Expression(_, _), Term(_, _), Call(_, _, _)

Unaries(t, i) == {j \in i..Len(t) : \A k \in i..j : t[k] \in DOMAIN Unary}

Expression(t, i) ==
    LET l == Term(t, i)
        op == TokenAt(t, l.i)
        r == Expression(t, l.i + 1)
    IN IF ~l.ok \/ op \notin Operators \cup {"-", "+", "~"} THEN l
       ELSE IF op = "~" THEN Fails(l.i, TRUE)
       ELSE IF ~r.ok THEN r
       ELSE Reads(r.i, <<op, l.v, r.v>>, l.bad \/ r.bad \/ op \in Faulty,
                  l.odd \/ r.odd \/ \E j \in Unaries(t, i) : j > i)

Term(t, i) ==
    LET type == TokenAt(t, i) IN
    CASE type = "x" -> Reads(i + 1, <<i>>, FALSE, FALSE)
      [] type \in DOMAIN Unary ->
           LET e == Term(t, i + 1) IN
           IF e.ok THEN [e EXCEPT !.v = Modify(Unary[type], @)] ELSE [e EXCEPT !.hidden = TRUE]
      [] type = "(" ->
           LET e == Expression(t, i + 1) IN
           IF ~e.ok THEN e
           ELSE IF TokenAt(t, e.i) = ")" THEN [e EXCEPT !.i = @ + 1] ELSE Fails(e.i, FALSE)
      [] type = "f" ->
           IF TokenAt(t, i + 1) # "(" THEN Fails(i + 1, FALSE)
           ELSE IF TokenAt(t, i + 2) = ")"
           THEN Reads(i + 3, <<"call", <<<<>>>>>>, FALSE, FALSE)
           ELSE Call(t, i + 2, Reads(0, <<>>, FALSE, FALSE))
      [] OTHER -> Fails(i, FALSE)

\* The arguments, the last one first
Call(t, i, before) ==
    LET e == Expression(t, i)
        args == <<e.v>> \o before.v
        sofar == Reads(e.i + 1, args, before.bad \/ e.bad, before.odd \/ e.odd)
    IN IF ~e.ok THEN e
       ELSE IF TokenAt(t, e.i) = "," THEN Call(t, e.i + 1, sofar)
       ELSE IF TokenAt(t, e.i) # ")" THEN Fails(e.i, FALSE)
       ELSE [sofar EXCEPT !.v = <<"call", args>>, !.bad = @ \/ Len(args) > MaxArgs]

Meaning(t) == Expression(t, 1)

-----------------------------------------------------------------------------

\* An expression is typed as long as it can still become one
Viable(t) == Meaning(t).ok \/ Meaning(t).i > Len(t)

Init == input = <<>> /\ result = <<>>

Type(token) ==
    /\ result = <<>> /\ Len(input) < MaxTokens /\ Viable(input)
    /\ input' = Append(input, token)
    /\ UNCHANGED result

Evaluate ==
    /\ result = <<>>
    /\ result' = <<expression(input)>>
    /\ UNCHANGED input

Finished == result # <<>> /\ UNCHANGED vars

Next == (\E token \in Tokens : Type(token)) \/ Evaluate \/ Finished

Spec == Init /\ [][Next]_vars

-----------------------------------------------------------------------------
(* Properties. *)

\* RightToLeft: solve() gives an expression the value that the guide gives it, all
\* operators equal and from right to left, through parentheses and functions in
\* functions, takes no token more or less, and fails just when an application
\* fails; except where a left operand has two unary operators.
RightToLeft ==
    result # <<>> /\ Meaning(input).ok =>
      LET m == Meaning(input) IN
      IF m.bad THEN result[1].ret = 1
      ELSE \/ m.odd
           \/ result[1] = [ret |-> 0, value |-> m.v, next |-> m.i]

\* Rejected: what is no expression has no value; except for an error behind a
\* unary operator, which term() ignores, and for "~" between two operands.
Rejected ==
    result # <<>> /\ ~Meaning(input).ok =>
      Meaning(input).hidden \/ result[1].ret = 1

\* UnaryFirst: "Unary operations are used to modify a value prior to evaluation":
\* also where there are several of them before an operand.
UnaryFirst ==
    result # <<>> /\ Meaning(input).ok =>
      Meaning(input).bad \/ result[1] = [ret |-> 0, value |-> Meaning(input).v,
                                          next |-> Meaning(input).i]
=============================================================================
