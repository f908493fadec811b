------------------------- MODULE StructuredPrograms -------------------------
(***************************************************************************)
(* Programs whose statements are where they belong, for which every run of *)
(* sc is promised to be in step with a stack of its own, and the state in  *)
(* which ControlFlow keeps such a program: which frames the stack has at a *)
(* statement, and which level each frame has counted.                      *)
(***************************************************************************)
EXTENDS ControlFlow

-----------------------------------------------------------------------------
(* The text of a program. *)

Blocks == {i \in DOMAIN program : Opens(i)}

Closing(op) ==
    CASE op = "while" -> "end_while" [] op = "for" -> "next" [] op = "if" -> "end_if"

\* The blocks are closed by close, inside each other or apart, and for loops
\* inside each other have variables of their own.  "null" is no statement: it
\* stands for the end of the program.
Nested(close) ==
    /\ \A i \in DOMAIN program : Op(i) # "null"
    /\ close \in [Blocks -> DOMAIN program]
    /\ \A o \in Blocks :
         /\ o < close[o] /\ Op(close[o]) = Closing(Op(o))
         /\ Op(o) = "for" => /\ program[o].arg \in Vars
                             /\ program[close[o]].arg = program[o].arg
    /\ \A j \in DOMAIN program : Closes(j) => \E o \in Blocks : j = close[o]
    /\ \A o, k \in Blocks :
         o < k /\ k < close[o] =>
           /\ close[k] < close[o]
           /\ Op(o) = "for" /\ Op(k) = "for" => program[k].arg # program[o].arg

\* The loops around statement i, and the innermost one
LoopsAt(close, i) ==
    {o \in Blocks : Op(o) \in {"while", "for"} /\ o < i /\ i <= close[o]}

LoopAt(close, i, o) ==
    o \in LoopsAt(close, i) /\ \A m \in LoopsAt(close, i) : m <= o

\* Statement j belongs to the if at o and to no block inside it
InIf(close, o, j) ==
    /\ o \in Blocks /\ Op(o) = "if" /\ o < j /\ j < close[o]
    /\ \A k \in Blocks : o < k /\ k < j => close[k] < j

\* A jump from i to j stays in its loop and in its subroutine or out of them
JumpsTo(close, sub, i, j) ==
    j \in Lines /\ sub[j] = sub[i] /\ LoopsAt(close, j) = LoopsAt(close, i)

\* sub tells which statements belong to subroutines: a subroutine starts behind
\* no loop, ends at its return, and is entered by gosub only; labels and ends
\* are outside of loops and subroutines; break_loop leaves a while loop.
Divided(close, sub) ==
    /\ sub \in [Lines -> BOOLEAN]
    /\ \A i \in DOMAIN program :
         /\ Op(i) \notin {"return", "label", "end", "goto"} => sub[i + 1] = sub[i]
         /\ Op(i) = "goto" \/ (Op(i) = "fails" /\ program[i].arg # 0) =>
              JumpsTo(close, sub, i, program[i].arg)
         /\ Op(i) = "gosub" =>
              /\ program[i].arg \in Lines
              /\ sub[program[i].arg] /\ LoopsAt(close, program[i].arg) = {}
         /\ Op(i) = "return" => sub[i] /\ LoopsAt(close, i) = {}
         /\ Op(i) \in {"break_loop", "continue"} => LoopsAt(close, i) # {}
         /\ Op(i) = "break_loop" =>
              \A o \in Blocks : LoopAt(close, i, o) => Op(o) = "while"
         /\ Op(i) \in {"else", "else_if"} => \E o \in Blocks : InIf(close, o, i)
         /\ program[i] = EventLabel => ~sub[i + 1]
    /\ \A i \in Lines : Op(i) \in {"label", "end", "null"} =>
                            ~sub[i] /\ LoopsAt(close, i) = {}
    /\ \A o \in Blocks : \A j \in o..(close[o] + 1) : sub[j] = sub[o]

\* Every block is closed, statements of loops, branches and subroutines are in
\* one, and gotos and error labels do not leave or enter any.
WellFormed == \E close, sub : Nested(close) /\ Divided(close, sub)

\* At most one run is suspended or interrupted while another one runs, and none
\* when a statement fails that nothing handles.
Unshared ==
    /\ MaxAside <= 1
    /\ Executes("fails") /\ Arg = 0 => waiting = {} /\ outer = <<>>

-----------------------------------------------------------------------------
(* A run of such a program. *)

\* At statement i the first n frames of stack s are all there are: the topmost
\* is that of the innermost loop, or of the subroutine, or there is none.
On(close, sub, i, s, n) ==
    \/ LoopsAt(close, i) = {} /\ ~sub[i] /\ n = 0
    \/ LoopsAt(close, i) = {} /\ sub[i] /\ n > 0 /\ s[n].kind = "gosub"
    \/ n > 0 /\ s[n].kind # "gosub" /\ LoopAt(close, i, s[n].start)

\* The same holds below each frame, at the statement that made it
Fits(close, sub, i, s) ==
    /\ On(close, sub, i, s, Len(s))
    /\ \A k \in DOMAIN s :
         /\ s[k].start \in DOMAIN program /\ Op(s[k].start) = s[k].kind
         /\ On(close, sub, s[k].start, s, k - 1)

\* How many of the first k frames of t are of a kind
Rank(kind, t, k) == Cardinality({m \in 1..k : t[m].kind = kind})

\* The level that frame k of t has counted is its own: the variables of the
\* statement, in R, W or F, tell where the frame is from
OwnLevel(t, k, R, W, F) ==
    /\ t[k].kind = "gosub" =>
         /\ Rank("gosub", t, k) \in DOMAIN R
         /\ R[Rank("gosub", t, k)] = t[k].start + 1
    /\ t[k].kind = "while" =>
         /\ Rank("while", t, k) \in DOMAIN W
         /\ W[Rank("while", t, k)] = t[k].start
    /\ t[k].kind = "for" =>
         /\ Rank("for", t, k) \in DOMAIN F
         /\ F[Rank("for", t, k)] = [at |-> t[k].start + 1, to |-> t[k].to]

\* The frames t are all that is counted
Counted(t, g, w, f, R, W, F) ==
    /\ g = Rank("gosub", t, Len(t))
    /\ w = Rank("while", t, Len(t))
    /\ f = Rank("for", t, Len(t))
    /\ \A k \in DOMAIN t : OwnLevel(t, k, R, W, F)

Levels(t) == Counted(t, nest, while_nest, for_nest, RETURN, WHILE, FOR)

\* Run w is suspended or interrupted, and will go on in step
GoodRun(close, sub, w) ==
    /\ w \in Run /\ w.idx \in Lines /\ w.ref.at = w.idx
    /\ Fits(close, sub, w.idx, w.ref.stack)

\* The frames of the run that is suspended or interrupted are b
Aside(close, sub, b) ==
    \/ outer = <<>> /\ waiting = {} /\ b = <<>>
    \/ \E w \in waiting \cup {outer[k] : k \in DOMAIN outer} :
              /\ GoodRun(close, sub, w) /\ b = w.ref.stack
              /\ \/ outer = <<>> /\ waiting = {w}
                 \/ outer = <<w>> /\ waiting = {}

\* The run is in step, and its frames on top of b are all that is counted
Running(close, sub, b) ==
    /\ idx \in Lines /\ ref \in Place /\ ref.at = idx
    /\ Fits(close, sub, idx, ref.stack)
    /\ Levels(b \o ref.stack)

\* The frames of the runs account for all that is counted
Accounts(close, sub, b) ==
    /\ Nested(close) /\ Divided(close, sub)
    /\ Aside(close, sub, b)
    /\ \/ mode = "run" /\ Running(close, sub, b)
       \/ mode = "idle" /\ outer = <<>> /\ Levels(b)

StepInv(close, sub, b) ==
    /\ program \in Programs /\ val \in [Vars -> Nat]
    /\ Accounts(close, sub, b)
=============================================================================
