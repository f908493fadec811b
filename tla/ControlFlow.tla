---------------------------- MODULE ControlFlow ----------------------------
(***************************************************************************)
(* The statements that direct a program: gosub, while, for, if, goto,      *)
(* break_loop, continue, the errors of execute.c, and the events that run  *)
(* the program while other runs of it are suspended in a send.             *)
(*                                                                         *)
(* All runs share one nesting counter per kind of statement and the        *)
(* variables RETURN.n, WHILE.n, FOR.n and TO.n that belong to level n.     *)
(* The variable ref is what the language promises: every run has a stack   *)
(* of its own.  A program is a sequence of statements and idx the next one *)
(* to execute; conditions and limits of loops may have any value.          *)
(***************************************************************************)
EXTENDS Integers, Sequences, FiniteSetsExt

CONSTANTS
    Programs,   \* the programs to run, sequences of [op, arg]
    Vars,       \* loop variables
    Limits,     \* values of the limit of a for loop
    MaxNest,    \* bound: levels of nesting
    MaxEvents,  \* bound: messages and timeouts that start a run
    MaxAside    \* bound: runs suspended in a send, or interrupted in one by
                \* contention, at once

ASSUME ControlAssumption ==
    /\ \A p \in Programs : p \in Seq([op : STRING, arg : Nat])
    /\ Vars \subseteq Nat /\ Limits \subseteq Nat
    /\ {MaxNest, MaxEvents, MaxAside} \subseteq Nat

VARIABLES
    program,      \* the statements
    mode,         \* "idle" in select(), "run" in execute(), "dead"
    idx,          \* program_idx, program.c
    nest,         \* gosub.c:36
    while_nest,   \* while.c:36
    for_nest,     \* for.c:34
    RETURN,       \* level -> statement to return to, for the levels ever used
    WHILE,        \* level -> its while statement
    FOR,          \* level -> [at, to]: first statement of the body and limit
    val,          \* values of the loop variables
    outer,        \* runs interrupted by contention, innermost last
    waiting,      \* suspended runs: where they resume
    events,       \* runs started so far
    ref           \* [at, stack]: where the run should be

levels == <<nest, while_nest, for_nest, RETURN, WHILE, FOR, val>>
context == <<mode, outer, waiting, events>>
vars == <<program, mode, idx, nest, while_nest, for_nest, RETURN, WHILE, FOR,
          val, outer, waiting, events, ref>>

\* The label of a connection or of a timer; other labels have another arg
EventLabel == [op |-> "label", arg |-> 1]

Lines == 1..(Len(program) + 1)
Frame == [kind : {"gosub", "while", "for"}, start : Nat, to : Nat]
Place == [at : Nat, stack : Seq(Frame)]
Run == [idx : Nat, ref : Place]

\* TypeOK: counters stay in their bounds and places are statements.
TypeOK ==
    /\ program \in Seq([op : STRING, arg : Nat])
    /\ mode \in {"idle", "run", "dead"}
    /\ idx \in Lines
    /\ nest \in 0..MaxNest /\ for_nest \in 0..MaxNest
    /\ while_nest \in (-MaxNest)..MaxNest
    /\ RETURN \in [DOMAIN RETURN -> Lines] /\ WHILE \in [DOMAIN WHILE -> Lines]
    /\ FOR \in [DOMAIN FOR -> [at : Lines, to : Limits]]
    /\ val \in [Vars -> Nat]
    /\ outer \in Seq(Run) /\ waiting \subseteq Run
    /\ Cardinality(waiting) + Len(outer) <= MaxAside
    /\ events \in 0..MaxEvents
    /\ ref \in Place

-----------------------------------------------------------------------------
(* The scans of the source: get_program_token_no_eval() until a keyword is  *)
(* found at level 0.                                                        *)

Op(i) == IF i <= Len(program) THEN program[i].op ELSE "null"

Count(op, from, to) == Cardinality({k \in from..to : Op(k) = op})

\* Between i and j there are as many openings as closings
Level0(i, j, open, close) == Count(open, i + 1, j - 1) = Count(close, i + 1, j - 1)

\* Reads tokens from i on until Found or the end of the program
Scan(i, Found(_)) == Min({j \in Lines : j > i /\ (Found(j) \/ Op(j) = "null")})

\* cmd_while(): the END_WHILE of a loop that is not entered
EndOfWhile(i) ==
    LET Found(j) == Op(j) = "end_while" /\ Level0(i, j, "while", "end_while")
    IN Scan(i, Found)

\* cmd_for(): the NEXT of a loop that is not entered, found by its variable
EndOfFor(i) ==
    LET Found(j) == Op(j) = "next" /\ program[j].arg = program[i].arg
    IN Scan(i, Found)

\* cmd_if(): the ELSE, ELSE_IF or END_IF of a condition that is false
EndOfThen(i) ==
    LET Found(j) == /\ Op(j) \in {"else", "else_if", "end_if"}
                    /\ Level0(i, j, "if", "end_if")
    IN Scan(i, Found)

\* cmd_else() and cmd_else_if()
EndOfIf(i) ==
    LET Found(j) == Op(j) = "end_if" /\ Level0(i, j, "if", "end_if")
    IN Scan(i, Found)

\* Mutant of EndOfLoop: loops inside the loop are not counted
EndOfLoop_Inner(i) ==
    LET Found(j) == Op(j) \in {"next", "end_while", "label", "end"}
    IN Scan(i, Found)

\* cmd_break_loop() and cmd_continue()
EndOfLoop(i) ==
    LET Found(j) == \/ Op(j) = "next" /\ Level0(i, j, "for", "next")
                    \/ Op(j) = "end_while" /\ Level0(i, j, "while", "end_while")
                    \/ Op(j) \in {"label", "end"}
    IN Scan(i, Found)

-----------------------------------------------------------------------------
(* What the language promises. *)

Opens(j) == Op(j) \in {"while", "for", "if"}
Closes(j) == Op(j) \in {"end_while", "next", "end_if"}

Depth(i, j) ==
    Cardinality({k \in i..j : Opens(k)}) - Cardinality({k \in i..j : Closes(k)})

\* The statement that closes the block opened at i
Partner(i) == Min({j \in Lines : j > i /\ (Depth(i, j) = 0 \/ Op(j) = "null")})

\* The innermost frame of these kinds, and the stack without it and above
Innermost(kinds) ==
    {k \in DOMAIN ref.stack : ref.stack[k].kind \in kinds /\
        \A m \in DOMAIN ref.stack : m > k => ref.stack[m].kind \notin kinds}

Below(k) == SubSeq(ref.stack, 1, k - 1)

GoesTo(i, stack) == ref' = [at |-> i, stack |-> stack]

Steps(i) == GoesTo(i, ref.stack)

\* A block is entered at i for the statement at idx
Enters(i, kind, to) ==
    GoesTo(i, Append(ref.stack, [kind |-> kind, start |-> idx, to |-> to]))

\* The innermost frame of these kinds is left for Dest(frame); without one the
\* statement is misplaced and the program goes on at place i
Leaves(kinds, Dest(_), i) ==
    \/ Innermost(kinds) = {} /\ Steps(i)
    \/ \E k \in Innermost(kinds) : GoesTo(Dest(ref.stack[k]), Below(k))

-----------------------------------------------------------------------------

Init ==
    /\ program \in Programs
    /\ mode = "idle" /\ idx = 1
    /\ nest = 0 /\ while_nest = 0 /\ for_nest = 0
    /\ RETURN = [n \in {} |-> 0] /\ WHILE = [n \in {} |-> 0]
    /\ FOR = [n \in {} |-> [at |-> 0, to |-> 0]]
    /\ val = [v \in Vars |-> 0]
    /\ outer = <<>> /\ waiting = {} /\ events = 0
    /\ ref = [at |-> 1, stack |-> <<>>]

\* variable_put() of the variable of level n
variable_put(f, n, x) == [m \in DOMAIN f \cup {n} |-> IF m = n THEN x ELSE f[m]]

Executes(op) == mode = "run" /\ Op(idx) = op

Arg == program[idx].arg

\* The statement only moves the program index
Moves(to, promised) ==
    /\ idx' = to /\ Steps(promised)
    /\ UNCHANGED <<program, levels, context>>

\* print, let and the like do not direct the program; an else reached from above skips the rest
Plain == Executes("plain") /\ Moves(idx + 1, idx + 1)
EndIf == Executes("end_if") /\ Moves(idx + 1, idx + 1)
Goto  == Executes("goto") /\ Moves(Arg, Arg)

Else ==
    /\ Executes("else") \/ Executes("else_if")
    /\ Moves(EndOfIf(idx) + 1,
             Min({j \in Lines : j > idx /\ Depth(idx, j) = -1}) + 1)

\* The statements behind which the program may go on after the condition at i:
\* itself, or the next branch; for an else_if cmd_if() calls itself
Branches[i \in DOMAIN program] ==
    {i} \cup IF Op(EndOfThen(i)) = "else_if" THEN Branches[EndOfThen(i)]
             ELSE {EndOfThen(i)}

\* The branches of the if statement at i
RefBranches(i) ==
    {j \in Lines : /\ j > i /\ Op(j) \in {"else", "else_if", "end_if"}
                   /\ Depth(i + 1, j) = (IF Op(j) = "end_if" THEN -1 ELSE 0)
                   /\ \A k \in (i + 1)..(j - 1) : Depth(i + 1, k) >= 0}

If ==
    /\ Executes("if")
    /\ \E j \in Branches[idx] :
          Moves(j + 1, IF j \in {idx} \cup RefBranches(idx) THEN j + 1 ELSE 0)

-----------------------------------------------------------------------------
(* Subroutines. *)

\* Mutant of Gosub: the name RETURN.n is made before the level is counted
Gosub_Early ==
    /\ Executes("gosub") /\ nest < MaxNest
    /\ nest' = nest + 1
    /\ RETURN' = variable_put(RETURN, nest, idx + 1)
    /\ idx' = Arg
    /\ Enters(Arg, "gosub", 0)
    /\ UNCHANGED <<program, while_nest, for_nest, WHILE, FOR, val, context>>

Gosub ==
    /\ Executes("gosub") /\ nest < MaxNest
    /\ nest' = nest + 1
    /\ RETURN' = variable_put(RETURN, nest + 1, idx + 1)
    /\ idx' = Arg
    /\ Enters(Arg, "gosub", 0)
    /\ UNCHANGED <<program, while_nest, for_nest, WHILE, FOR, val, context>>

After(frame) == frame.start + 1

\* Mutant of Return: the level is given back before it is tested
Return_Early ==
    /\ Executes("return")
    /\ nest' = nest - 1
    /\ \/ nest < 1 /\ idx' = idx + 1
       \/ nest >= 1 /\ idx' = RETURN[nest]
    /\ Leaves({"gosub"}, After, idx + 1)
    /\ UNCHANGED <<program, while_nest, for_nest, RETURN, WHILE, FOR, val, context>>

\* return outside a subroutine is reported and skipped
Return ==
    /\ Executes("return")
    /\ \/ nest < 1 /\ idx' = idx + 1 /\ UNCHANGED nest
       \/ nest >= 1 /\ idx' = RETURN[nest] /\ nest' = nest - 1
    /\ Leaves({"gosub"}, After, idx + 1)
    /\ UNCHANGED <<program, while_nest, for_nest, RETURN, WHILE, FOR, val, context>>

-----------------------------------------------------------------------------
(* Loops. *)

While ==
    /\ Executes("while") /\ while_nest < MaxNest
    /\ WHILE' = variable_put(WHILE, while_nest + 1, idx)
    /\ \/ /\ while_nest' = while_nest + 1
          /\ idx' = idx + 1
          /\ Enters(idx + 1, "while", 0)
       \/ /\ Op(EndOfWhile(idx)) # "null"
          /\ idx' = EndOfWhile(idx) + 1
          /\ Steps(Partner(idx) + 1)
          /\ UNCHANGED while_nest
    /\ UNCHANGED <<program, nest, for_nest, RETURN, FOR, val, context>>

Start(frame) == frame.start

\* end_while goes back to the while, which counts the level again
EndWhile ==
    /\ Executes("end_while")
    /\ \/ while_nest < 1 /\ idx' = idx + 1 /\ UNCHANGED while_nest
       \/ while_nest >= 1 /\ idx' = WHILE[while_nest] /\ while_nest' = while_nest - 1
    /\ Leaves({"while"}, Start, idx + 1)
    /\ UNCHANGED <<program, nest, for_nest, RETURN, WHILE, FOR, val, context>>

\* for v = 1 to y
For ==
    /\ Executes("for") /\ for_nest < MaxNest
    /\ val' = [val EXCEPT ![Arg] = 1]
    /\ \E y \in Limits :
          /\ FOR' = variable_put(FOR, for_nest + 1, [at |-> idx + 1, to |-> y])
          /\ \/ /\ 1 <= y /\ for_nest' = for_nest + 1
                /\ idx' = idx + 1
                /\ Enters(idx + 1, "for", y)
             \/ /\ 1 > y /\ Op(EndOfFor(idx)) # "null"
                /\ idx' = EndOfFor(idx) + 1
                /\ Steps(Partner(idx) + 1)
                /\ UNCHANGED for_nest
    /\ UNCHANGED <<program, nest, while_nest, RETURN, WHILE, context>>

\* Where next with the new value x should go
RefNext(x) ==
    \/ Innermost({"for"}) = {} /\ Steps(0)
    \/ \E k \in Innermost({"for"}) :
         \/ x <= ref.stack[k].to /\ Steps(After(ref.stack[k]))
         \/ x > ref.stack[k].to /\ GoesTo(idx + 1, Below(k))

\* next v: TO.n, STEP.n and FOR.n of the current level are used, whichever
\* loop set them; sc exits when they were never set
NextLoop ==
    /\ Executes("next") /\ for_nest \in DOMAIN FOR
    /\ \E x \in {val[Arg] + 1} :
          /\ RefNext(x)
          /\ \/ /\ x <= FOR[for_nest].to
                /\ idx' = FOR[for_nest].at
                /\ val' = [val EXCEPT ![Arg] = x]
                /\ UNCHANGED for_nest
             \/ /\ x > FOR[for_nest].to
                /\ idx' = idx + 1 /\ for_nest' = for_nest - 1
                /\ UNCHANGED val
    /\ UNCHANGED <<program, nest, while_nest, RETURN, WHILE, FOR, context>>

NextFatal ==
    /\ Executes("next") /\ for_nest \notin DOMAIN FOR
    /\ mode' = "dead"
    /\ UNCHANGED <<program, idx, levels, outer, waiting, events, ref>>

Exit(frame) == Partner(frame.start) + 1

\* Mutant of BreakLoop: the level of the loop is not given back
BreakLoop_Kept ==
    /\ Executes("break_loop") /\ while_nest > -MaxNest
    /\ \E j \in {EndOfLoop(idx)} :
          idx' = IF Op(j) \in {"next", "end_while"} THEN j + 1 ELSE j
    /\ Leaves({"while", "for"}, Exit, 0)
    /\ UNCHANGED <<program, levels, context>>

\* break_loop gives back the level of a while loop, not that of a for loop
BreakLoop ==
    /\ Executes("break_loop") /\ while_nest > -MaxNest
    /\ \E j \in {EndOfLoop(idx)} :
          /\ idx' = IF Op(j) \in {"next", "end_while"} THEN j + 1 ELSE j
          /\ while_nest' = IF Op(j) = "end_while" THEN while_nest - 1 ELSE while_nest
    /\ Leaves({"while", "for"}, Exit, 0)
    /\ UNCHANGED <<program, nest, for_nest, RETURN, WHILE, FOR, val, context>>

Continue ==
    /\ Executes("continue")
    /\ \E j \in {EndOfLoop(idx)} :
          idx' = IF Op(j) \in {"next", "end_while", "null"} THEN j ELSE j + 1
    /\ \/ Innermost({"while", "for"}) = {} /\ Steps(0)
       \/ \E k \in Innermost({"while", "for"}) :
            GoesTo(Partner(ref.stack[k].start), Below(k + 1))
    /\ UNCHANGED <<program, levels, context>>

-----------------------------------------------------------------------------
(* Runs. *)

\* execute() returns.  After a run inside a send the program index is set back
\* and the send tried again; any other run returns to the server loop.
Over ==
    \/ /\ outer = <<>> /\ mode' = "idle" /\ UNCHANGED <<idx, ref, outer>>
    \/ /\ outer # <<>> /\ UNCHANGED mode
       /\ idx' = outer[Len(outer)].idx
       /\ ref' = outer[Len(outer)].ref
       /\ outer' = SubSeq(outer, 1, Len(outer) - 1)

\* A label, end, break or the end of the program: the counters stay
EndRun ==
    /\ mode = "run" /\ Op(idx) \in {"label", "end", "null"}
    /\ Over
    /\ UNCHANGED <<program, levels, waiting, events>>

\* A statement fails and has no error= label, no no_error, and the program no
\* default_error: the counters of all runs are reset and the run is over
Fails ==
    /\ Executes("fails") /\ Arg = 0
    /\ nest' = 0 /\ while_nest' = 0 /\ for_nest' = 0
    /\ Over
    /\ UNCHANGED <<program, RETURN, WHILE, FOR, val, waiting, events>>

\* error=label or default_error: the program goes on there; with no_error it
\* goes on behind the statement
Handled == Executes("fails") /\ Arg # 0 /\ Moves(Arg, Arg)
NoError == Executes("no_error") /\ Moves(idx + 1, idx + 1)

\* send without the wait bit
Send == Executes("send") /\ Moves(idx + 1, idx + 1)

\* send with the wait bit suspends the run
SendWait ==
    /\ Executes("send") /\ Cardinality(waiting) + Len(outer) < MaxAside
    /\ waiting' = waiting \cup
          {[idx |-> idx + 1, ref |-> [ref EXCEPT !.at = idx + 1]]}
    /\ Over
    /\ UNCHANGED <<program, levels, events>>

\* A run starts in the server loop, or inside a send that met contention
Starts(i, place) ==
    /\ \/ mode = "idle" /\ UNCHANGED outer
       \/ /\ Executes("send") /\ Cardinality(waiting) + Len(outer) < MaxAside
          /\ outer' = Append(outer, [idx |-> idx, ref |-> ref])
    /\ mode' = "run" /\ idx' = i /\ ref' = place
    /\ UNCHANGED <<program, levels>>

\* A primary message or a timer: the program runs from a label
Event ==
    /\ events < MaxEvents /\ events' = events + 1
    /\ \E i \in {j \in DOMAIN program : program[j] = EventLabel} :
          Starts(i + 1, [at |-> i + 1, stack |-> <<>>])
    /\ UNCHANGED waiting

\* A reply or T3: a suspended run goes on
Resume ==
    /\ \E w \in waiting :
          /\ Starts(w.idx, w.ref)
          /\ waiting' = waiting \ {w}
    /\ UNCHANGED events

\* The bound MaxNest ends the behaviour; the counters of the code go on
BeyondBound ==
    \/ Executes("gosub") /\ nest = MaxNest
    \/ Executes("while") /\ while_nest = MaxNest
    \/ Executes("for") /\ for_nest = MaxNest
    \/ Executes("break_loop") /\ while_nest = -MaxNest

Stops ==
    \/ mode = "dead" /\ UNCHANGED vars
    \/ BeyondBound /\ UNCHANGED vars
    \/ mode = "idle" /\ waiting = {} /\ events = MaxEvents /\ UNCHANGED vars

Next ==
    \/ Plain \/ EndIf \/ Goto \/ Else \/ If
    \/ Gosub \/ Return
    \/ While \/ EndWhile \/ For \/ NextLoop \/ NextFatal \/ BreakLoop \/ Continue
    \/ EndRun \/ Fails \/ Handled \/ NoError \/ Send \/ SendWait
    \/ Event \/ Resume
    \/ Stops

Spec == Init /\ [][Next]_vars

-----------------------------------------------------------------------------

\* InStep: the program is always where a stack per run would have it: a return
\* goes behind its own gosub, a loop goes back to its own start and ends at its
\* own limit, and the skipped branches and loops are the right ones.
InStep == mode = "run" => idx = ref.at

\* LevelsKnown: whatever the program and the order of events, a level that is
\* counted has its variable: "No RETURN information found" and "No END_WHILE
\* information found" are never reported.
LevelsKnown ==
    /\ 1..nest \subseteq DOMAIN RETURN
    /\ 1..while_nest \subseteq DOMAIN WHILE
    /\ 1..for_nest \subseteq DOMAIN FOR
=============================================================================
