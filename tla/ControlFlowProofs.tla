------------------------- MODULE ControlFlowProofs -------------------------
(***************************************************************************)
(* What holds of the nesting counters for every program, well formed or    *)
(* not, and every order of events, sends, replies and errors; and that a   *)
(* program whose statements are where they belong runs as if each of its   *)
(* runs had a stack of its own, although all share the counters.           *)
(***************************************************************************)
EXTENDS StructuredPrograms, FiniteSetTheorems, SequenceTheorems, WellFoundedInduction, TLAPS

\* The counters are numbers, levels of for loops start at 1, and every counted
\* level has its variable.  That FOR has no level 0 is what keeps cmd_next()
\* from counting below 0.
LevelsInv ==
    /\ nest \in Nat /\ for_nest \in Nat /\ while_nest \in Int
    /\ DOMAIN FOR \subseteq Nat \ {0}
    /\ LevelsKnown

\* variable_put() adds one level and drops none.
LEMMA PutDomain ==
    ASSUME NEW f, NEW n, NEW x
    PROVE  DOMAIN variable_put(f, n, x) = DOMAIN f \cup {n}
BY DEF variable_put

\* Counting one level more and setting its variable keeps all levels known.
LEMMA PutLevel ==
    ASSUME NEW f, NEW x, NEW n \in Int, 1..n \subseteq DOMAIN f
    PROVE  1..(n + 1) \subseteq DOMAIN variable_put(f, n + 1, x)
<1>1. DOMAIN variable_put(f, n + 1, x) = DOMAIN f \cup {n + 1}
    BY PutDomain
<1>2. ASSUME NEW m \in 1..(n + 1) PROVE m \in DOMAIN f \cup {n + 1}
    <2>1. m \in 1..n \/ m = n + 1
        OBVIOUS
    <2> QED  BY <2>1
<1> QED  BY <1>1, <1>2

\* Setting a variable of any level forgets none.
LEMMA PutKeeps ==
    ASSUME NEW f, NEW x, NEW n \in Int, NEW k \in Int, 1..n \subseteq DOMAIN f
    PROVE  1..n \subseteq DOMAIN variable_put(f, k, x)
<1>1. DOMAIN variable_put(f, k, x) = DOMAIN f \cup {k}
    BY PutDomain
<1> QED  BY <1>1

\* A lower counter needs fewer levels.
LEMMA Lower ==
    ASSUME NEW D, NEW n \in Int, NEW m \in Int, m <= n, 1..n \subseteq D
    PROVE  1..m \subseteq D
<1>1. 1..m \subseteq 1..n
    OBVIOUS
<1> QED  BY <1>1

\* No level is counted at the start.
LEMMA LevelsInit == Init => LevelsInv
<1> SUFFICES ASSUME Init PROVE LevelsInv
    OBVIOUS
<1>1. nest = 0 /\ for_nest = 0 /\ while_nest = 0 /\ DOMAIN FOR = {}
    BY DEF Init
<1>2. 1..0 = {}
    OBVIOUS
<1> QED  BY <1>1, <1>2 DEF LevelsInv, LevelsKnown

\* Statements that leave the counters and their variables alone.
LEMMA LevelsSame ==
    ASSUME LevelsInv, UNCHANGED levels
    PROVE  LevelsInv'
BY DEF LevelsInv, LevelsKnown, levels

\* Every statement keeps what is known of the levels.
LEMMA LevelsNext == LevelsInv /\ [Next]_vars => LevelsInv'
<1> SUFFICES ASSUME LevelsInv, [Next]_vars PROVE LevelsInv'
    OBVIOUS
<1>1. CASE UNCHANGED vars
    BY <1>1, LevelsSame DEF vars, levels
<1>2. CASE Plain \/ EndIf \/ Goto \/ Else \/ If \/ Continue \/ Handled \/ NoError \/ Send
    <2>1. UNCHANGED levels
        BY <1>2 DEF Plain, EndIf, Goto, Else, If, Continue, Handled, NoError, Send, Moves
    <2> QED  BY <2>1, LevelsSame
<1>3. CASE EndRun \/ SendWait \/ Event \/ Resume \/ NextFatal \/ Stops
    <2>1. UNCHANGED levels
        BY <1>3 DEF EndRun, SendWait, Event, Resume, Starts, NextFatal, Stops, vars, levels
    <2> QED  BY <2>1, LevelsSame
<1>4. CASE Gosub
    <2>1. nest' = nest + 1 /\ RETURN' = variable_put(RETURN, nest + 1, idx + 1)
          /\ UNCHANGED <<while_nest, for_nest, WHILE, FOR>>
        BY <1>4 DEF Gosub
    <2>2. 1..nest' \subseteq DOMAIN RETURN'
        BY <2>1, PutLevel DEF LevelsInv, LevelsKnown
    <2> QED  BY <2>1, <2>2 DEF LevelsInv, LevelsKnown
<1>5. CASE Return
    <2>1. UNCHANGED <<while_nest, for_nest, RETURN, WHILE, FOR>>
          /\ (nest' = nest \/ (nest >= 1 /\ nest' = nest - 1))
        BY <1>5 DEF Return
    <2>2. nest' \in Nat /\ nest' <= nest
        BY <2>1 DEF LevelsInv
    <2>3. 1..nest' \subseteq DOMAIN RETURN
        BY <2>2, Lower DEF LevelsInv, LevelsKnown
    <2> QED  BY <2>1, <2>2, <2>3 DEF LevelsInv, LevelsKnown
<1>6. CASE While
    <2>1. WHILE' = variable_put(WHILE, while_nest + 1, idx)
          /\ UNCHANGED <<nest, for_nest, RETURN, FOR>>
          /\ (while_nest' = while_nest + 1 \/ while_nest' = while_nest)
        BY <1>6 DEF While
    <2>2. 1..while_nest' \subseteq DOMAIN WHILE'
        BY <2>1, PutLevel, PutKeeps DEF LevelsInv, LevelsKnown
    <2> QED  BY <2>1, <2>2 DEF LevelsInv, LevelsKnown
<1>7. CASE EndWhile \/ BreakLoop
    <2>1. UNCHANGED <<nest, for_nest, RETURN, WHILE, FOR>>
          /\ (while_nest' = while_nest \/ while_nest' = while_nest - 1)
        BY <1>7 DEF EndWhile, BreakLoop
    <2>2. while_nest' \in Int /\ while_nest' <= while_nest
        BY <2>1 DEF LevelsInv
    <2>3. 1..while_nest' \subseteq DOMAIN WHILE
        BY <2>2, Lower DEF LevelsInv, LevelsKnown
    <2> QED  BY <2>1, <2>2, <2>3 DEF LevelsInv, LevelsKnown
<1>8. CASE For
    <2>1. PICK y \in Limits :
            FOR' = variable_put(FOR, for_nest + 1, [at |-> idx + 1, to |-> y])
            /\ (for_nest' = for_nest + 1 \/ for_nest' = for_nest)
        BY <1>8 DEF For
    <2>2. UNCHANGED <<nest, while_nest, RETURN, WHILE>>
        BY <1>8 DEF For
    <2>3. 1..for_nest' \subseteq DOMAIN FOR'
        BY <2>1, PutLevel, PutKeeps DEF LevelsInv, LevelsKnown
    <2>4. DOMAIN FOR' = DOMAIN FOR \cup {for_nest + 1}
        BY <2>1, PutDomain
    <2>5. for_nest' \in Nat /\ DOMAIN FOR' \subseteq Nat \ {0}
        BY <2>1, <2>4 DEF LevelsInv
    <2> QED  BY <2>2, <2>3, <2>5 DEF LevelsInv, LevelsKnown
<1>9. CASE NextLoop
    <2>1. for_nest \in DOMAIN FOR /\ UNCHANGED <<nest, while_nest, RETURN, WHILE, FOR>>
          /\ (for_nest' = for_nest \/ for_nest' = for_nest - 1)
        BY <1>9 DEF NextLoop
    <2>2. for_nest' \in Nat /\ for_nest' <= for_nest
        BY <2>1 DEF LevelsInv
    <2>3. 1..for_nest' \subseteq DOMAIN FOR
        BY <2>2, Lower DEF LevelsInv, LevelsKnown
    <2> QED  BY <2>1, <2>2, <2>3 DEF LevelsInv, LevelsKnown
<1>10. CASE Fails
    <2>1. nest' = 0 /\ while_nest' = 0 /\ for_nest' = 0 /\ UNCHANGED <<RETURN, WHILE, FOR>>
        BY <1>10 DEF Fails
    <2>2. 1..0 = {}
        OBVIOUS
    <2> QED  BY <2>1, <2>2 DEF LevelsInv, LevelsKnown
<1> QED
    BY <1>1, <1>2, <1>3, <1>4, <1>5, <1>6, <1>7, <1>8, <1>9, <1>10 DEF Next

\* For every program and every order of events the variable of every counted
\* level is set: cmd_return() and cmd_end_while() always find where to go.
THEOREM AllLevelsKnown == Spec => []LevelsKnown
<1>1. LevelsInv => LevelsKnown
    BY DEF LevelsInv
<1> QED  BY <1>1, LevelsInit, LevelsNext, PTL DEF Spec

\* cmd_next() exits sc with "Internal error for the FOR NEXT" only when no for loop
\* is counted: the loop was never entered, or its count was reset by an error.
THEOREM DiesUncounted == Spec => [][mode' = "dead" => for_nest = 0]_mode
<1>1. LevelsInv /\ [Next]_vars => [mode' = "dead" => for_nest = 0]_mode
    <2> SUFFICES ASSUME LevelsInv, [Next]_vars, mode' # mode, mode' = "dead"
                 PROVE  for_nest = 0
        OBVIOUS
    <2>1. NextFatal
        BY DEF Next, Plain, EndIf, Goto, Else, If, Gosub, Return, While, EndWhile, For,
            NextLoop, BreakLoop, Continue, EndRun, Fails, Handled, NoError, Send,
            SendWait, Event, Resume, Starts, Stops, Moves, Over, context, vars
    <2>2. for_nest \notin DOMAIN FOR
        BY <2>1 DEF NextFatal
    <2>3. for_nest \in Nat /\ 1..for_nest \subseteq DOMAIN FOR
        BY DEF LevelsInv, LevelsKnown
    <2> QED  BY <2>2, <2>3
<1> QED  BY <1>1, LevelsInit, LevelsNext, PTL DEF Spec

-----------------------------------------------------------------------------
(* Numbers and finite sets. *)

\* A nonempty set of numbers has a least element, which Min returns.
LEMMA MinNat ==
    ASSUME NEW S \in SUBSET Nat, S # {}
    PROVE  Min(S) \in S /\ \A y \in S : Min(S) <= y
<1> DEFINE R == {p \in Nat \X Nat : p[1] < p[2]}
<1>1. IsWellFoundedOn(R, Nat)
    BY NatLessThanWellFounded DEF OpToRel
<1> HIDE DEF R
<1>2. PICK x \in S : \A y \in S : ~(<<y, x>> \in R)
    BY <1>1, WFMin
<1>3. \A y \in S : x <= y
    <2> SUFFICES ASSUME NEW y \in S, y < x PROVE FALSE
        OBVIOUS
    <2>1. <<y, x>> \in R
        BY DEF R
    <2> QED  BY <1>2, <2>1
<1> QED  BY <1>3 DEF Min

\* An element below all others is what Min returns.
LEMMA MinIs ==
    ASSUME NEW S \in SUBSET Int, NEW m \in S, \A y \in S : m <= y
    PROVE  Min(S) = m
<1>1. Min(S) \in S /\ \A y \in S : Min(S) <= y
    BY DEF Min
<1>2. Min(S) <= m /\ m <= Min(S)
    BY <1>1
<1>3. Min(S) \in Int
    BY <1>1
<1> QED  BY <1>2, <1>3

\* A set of numbers up to a bound has a greatest element.
LEMMA Greatest ==
    ASSUME NEW b \in Nat, NEW S \in SUBSET (0..b), S # {}
    PROVE  \E x \in S : \A y \in S : y <= x
<1> DEFINE T == {b - x : x \in S}
<1>1. T \in SUBSET Nat /\ T # {}
    <2>1. PICK x \in S : TRUE
        OBVIOUS
    <2>2. b - x \in T
        BY <2>1
    <2>3. \A y \in S : y \in 0..b /\ b - y \in Nat
        OBVIOUS
    <2> QED  BY <2>2, <2>3
<1>2. Min(T) \in T /\ \A z \in T : Min(T) <= z
    BY <1>1, MinNat
<1>3. PICK x \in S : Min(T) = b - x
    BY <1>2
<1>4. ASSUME NEW y \in S PROVE y <= x
    <2>1. b - x <= b - y
        BY <1>2, <1>3
    <2> QED  BY <2>1
<1> QED  BY <1>4

\* Closers that each close an opener of A: there are at most as many as openers;
\* as many when all openers are closed by one of C, fewer when one is not.
LEMMA Matching ==
    ASSUME NEW A, IsFiniteSet(A), NEW C, NEW f,
           \A c \in C : \E a \in A : c = f[a],
           \A a, b \in A : f[a] = f[b] => a = b
    PROVE  /\ IsFiniteSet(C) /\ Cardinality(C) \in Nat /\ Cardinality(A) \in Nat
           /\ Cardinality(C) <= Cardinality(A)
           /\ (\A a \in A : f[a] \in C) => Cardinality(C) = Cardinality(A)
           /\ (\E a \in A : f[a] \notin C) => Cardinality(C) < Cardinality(A)
<1> DEFINE B == {a \in A : f[a] \in C}
           g == [a \in B |-> f[a]]
<1>1. g \in Bijection(B, C)
    <2>1. g \in [B -> C]
        OBVIOUS
    <2>2. \A a, b \in B : g[a] = g[b] => a = b
        OBVIOUS
    <2>3. \A c \in C : \E a \in B : g[a] = c
        OBVIOUS
    <2> QED  BY <2>1, <2>2, <2>3 DEF Bijection, Injection, Surjection, IsInjective
<1>2. IsFiniteSet(B) /\ Cardinality(B) <= Cardinality(A)
      /\ (Cardinality(A) = Cardinality(B) => A = B)
    BY FS_Subset
<1>3. IsFiniteSet(C) /\ Cardinality(C) = Cardinality(B)
    BY <1>1, <1>2, FS_Bijection DEF ExistsBijection
<1>4. Cardinality(C) \in Nat /\ Cardinality(A) \in Nat /\ Cardinality(B) \in Nat
    BY <1>2, <1>3, FS_CardinalityType
<1>5. (\A a \in A : f[a] \in C) => Cardinality(C) = Cardinality(A)
    <2>1. (\A a \in A : f[a] \in C) => B = A
        OBVIOUS
    <2> QED  BY <2>1, <1>3
<1>6. (\E a \in A : f[a] \notin C) => Cardinality(C) < Cardinality(A)
    <2>1. (\E a \in A : f[a] \notin C) => B # A
        OBVIOUS
    <2> HIDE DEF B
    <2> QED  BY <2>1, <1>2, <1>3, <1>4
<1> HIDE DEF B
<1>7. Cardinality(C) <= Cardinality(A)
    BY <1>2, <1>3
<1> QED  BY <1>3, <1>4, <1>5, <1>6, <1>7

\* Lines and statements of a program.
LEMMA Text ==
    ASSUME program \in Programs
    PROVE  /\ Len(program) \in Nat /\ DOMAIN program = 1..Len(program)
           /\ Lines = 1..(Len(program) + 1) /\ Lines \subseteq Nat
           /\ \A i \in DOMAIN program : /\ program[i].arg \in Nat /\ Op(i) = program[i].op
                                        /\ i \in Nat /\ i \in Lines /\ i + 1 \in Lines
           /\ Op(Len(program) + 1) = "null" /\ Len(program) + 1 \in Lines
           /\ \A i \in Lines : i \in DOMAIN program \/ i = Len(program) + 1
<1>1. program \in Seq([op : STRING, arg : Nat])
    BY ControlAssumption
<1>2. Len(program) \in Nat /\ DOMAIN program = 1..Len(program)
    BY <1>1
<1>3. Lines = 1..(Len(program) + 1) /\ Lines \subseteq Nat
    BY <1>2 DEF Lines
<1>4. ASSUME NEW i \in DOMAIN program
      PROVE  /\ program[i].arg \in Nat /\ Op(i) = program[i].op
             /\ i \in Nat /\ i \in Lines /\ i + 1 \in Lines
    <2>1. program[i] \in [op : STRING, arg : Nat]
        BY <1>1, <1>2, ElementOfSeq
    <2>2. i \in Nat /\ i <= Len(program)
        BY <1>2
    <2> QED  BY <1>2, <1>3, <2>1, <2>2 DEF Op
<1>5. Op(Len(program) + 1) = "null"
    BY <1>2 DEF Op
<1>6. \A i \in Lines : i \in DOMAIN program \/ i = Len(program) + 1
    BY <1>2, <1>3
<1>7. Len(program) + 1 \in Lines
    BY <1>2, <1>3
<1> QED  BY <1>2, <1>3, <1>4, <1>5, <1>6, <1>7

\* A block and its closing statement.
LEMMA Block ==
    ASSUME program \in Programs, NEW close, Nested(close), NEW o \in Blocks
    PROVE  /\ o \in Nat /\ o \in DOMAIN program /\ o \in Lines /\ o + 1 \in Lines
           /\ Op(o) \in {"while", "for", "if"} 
           /\ close[o] \in Nat /\ close[o] \in DOMAIN program
           /\ close[o] \in Lines /\ close[o] + 1 \in Lines
           /\ o < close[o] /\ Op(close[o]) = Closing(Op(o))
<1>1. o \in DOMAIN program /\ Op(o) \in {"while", "for", "if"}
    BY DEF Blocks, Opens
<1>2. close[o] \in DOMAIN program /\ o < close[o] /\ Op(close[o]) = Closing(Op(o))
    BY DEF Nested
<1> QED  BY <1>1, <1>2, Text

\* The statements that close a block.
LEMMA ClosingIs ==
    /\ Closing("while") = "end_while" /\ Closing("for") = "next" /\ Closing("if") = "end_if"
    /\ \A p, q \in {"while", "for", "if"} : Closing(p) = Closing(q) => p = q
    /\ \A p \in {"while", "for", "if"} : Closing(p) \in {"end_while", "next", "end_if"}
BY DEF Closing

\* No statement closes two blocks.
LEMMA ClosesOne ==
    ASSUME program \in Programs, NEW close, Nested(close),
           NEW a \in Blocks, NEW b \in Blocks, close[a] = close[b]
    PROVE  a = b
<1>1. a \in Nat /\ b \in Nat /\ a < close[a] /\ b < close[b] /\ close[a] \in Nat
    BY Block
<1>2. ~(a < b)
    BY <1>1 DEF Nested
<1>3. ~(b < a)
    BY <1>1 DEF Nested
<1> QED  BY <1>1, <1>2, <1>3

\* A statement that closes a kind of block closes one of that kind.
LEMMA ClosesKind ==
    ASSUME program \in Programs, NEW close, Nested(close), NEW j \in DOMAIN program,
           NEW op \in {"while", "for", "if"}, Op(j) = Closing(op)
    PROVE  \E o \in Blocks : j = close[o] /\ Op(o) = op
<1>1. Closes(j)
    BY ClosingIs DEF Closes
<1>2. PICK o \in Blocks : j = close[o]
    BY <1>1 DEF Nested
<1>3. Op(o) \in {"while", "for", "if"} /\ Closing(Op(o)) = Closing(op)
    BY <1>2, Block
<1>4. Op(o) = op
    BY <1>3, ClosingIs
<1> QED  BY <1>2, <1>4

\* A block that is closed inside another one is opened inside it.
LEMMA OpenedInside ==
    ASSUME program \in Programs, NEW close, Nested(close),
           NEW o \in Blocks, NEW k \in Blocks, o < close[k], close[k] < close[o]
    PROVE  o < k
<1>1. o \in Nat /\ k \in Nat /\ close[k] \in Nat /\ close[o] \in Nat
    BY Block
<1>2. ~(k < o)
    BY <1>1 DEF Nested
<1>3. k # o
    BY <1>1
<1> QED  BY <1>1, <1>2, <1>3

-----------------------------------------------------------------------------
(* Counting: where all that is opened is closed, a scan is at level 0. *)

\* The blocks of kinds K that are closed from i to j are opened there, and the
\* other way round.
OpenedIn(close, K, i, j) ==
    \A k \in Blocks : Op(k) \in K /\ close[k] \in i..j => k \in i..j
ClosedIn(close, K, i, j) ==
    \A k \in Blocks : Op(k) \in K /\ k \in i..j => close[k] \in i..j

Openings(K, i, j) == {k \in i..j : Op(k) \in K}
Closings(K, i, j) == {k \in i..j : Op(k) \in {Closing(op) : op \in K}}

\* When all that is closed is opened, the difference of the counts tells whether
\* all that is opened is closed.
LEMMA Counting ==
    ASSUME program \in Programs, NEW close, Nested(close),
           NEW K \in SUBSET {"while", "for", "if"}, NEW i \in Nat \ {0}, NEW j \in Int,
           j <= Len(program), OpenedIn(close, K, i, j)
    PROVE  /\ Cardinality(Openings(K, i, j)) \in Nat
           /\ IsFiniteSet(Closings(K, i, j)) /\ Cardinality(Closings(K, i, j)) \in Nat
           /\ Cardinality(Closings(K, i, j)) <= Cardinality(Openings(K, i, j))
           /\ ClosedIn(close, K, i, j) =>
                Cardinality(Closings(K, i, j)) = Cardinality(Openings(K, i, j))
           /\ ~ClosedIn(close, K, i, j) =>
                Cardinality(Closings(K, i, j)) < Cardinality(Openings(K, i, j))
<1> DEFINE A == Openings(K, i, j)
           C == Closings(K, i, j)
<1>1. \A k \in i..j : k \in DOMAIN program
    BY Text
<1>2. A \subseteq Blocks /\ \A a \in A : Op(a) \in K /\ a \in i..j
    BY <1>1 DEF Openings, Blocks, Opens
<1>3. IsFiniteSet(A)
    <2>1. IsFiniteSet(i..j) /\ A \in SUBSET (i..j)
        BY FS_Interval DEF Openings
    <2> QED  BY <2>1, FS_Subset
<1>4. ASSUME NEW c \in C PROVE \E a \in A : c = close[a]
    <2>1. c \in i..j /\ c \in DOMAIN program
        BY <1>1 DEF Closings
    <2>2. PICK op \in K : Op(c) = Closing(op)
        BY DEF Closings
    <2>3. PICK a \in Blocks : c = close[a] /\ Op(a) = op
        BY <2>1, <2>2, ClosesKind
    <2>4. a \in i..j
        BY <2>1, <2>3 DEF OpenedIn
    <2> QED  BY <2>3, <2>4 DEF Openings
<1>5. \A a, b \in A : close[a] = close[b] => a = b
    BY <1>2, ClosesOne
<1>6. ASSUME NEW a \in A PROVE close[a] \in C <=> close[a] \in i..j
    <2>1. a \in Blocks /\ Op(close[a]) = Closing(Op(a)) /\ Op(a) \in K
        BY <1>2, Block
    <2> QED  BY <2>1 DEF Closings
<1>7. ClosedIn(close, K, i, j) => \A a \in A : close[a] \in C
    BY <1>2, <1>6 DEF ClosedIn
<1>8. ~ClosedIn(close, K, i, j) => \E a \in A : close[a] \notin C
    <2> SUFFICES ASSUME ~ClosedIn(close, K, i, j) PROVE \E a \in A : close[a] \notin C
        OBVIOUS
    <2>1. PICK k \in Blocks : Op(k) \in K /\ k \in i..j /\ close[k] \notin i..j
        BY DEF ClosedIn
    <2>2. k \in A
        BY <2>1 DEF Openings
    <2> QED  BY <2>1, <2>2, <1>6
<1> HIDE DEF A, C
<1>9. /\ IsFiniteSet(C) /\ Cardinality(C) \in Nat /\ Cardinality(A) \in Nat
      /\ Cardinality(C) <= Cardinality(A)
      /\ (\A a \in A : close[a] \in C) => Cardinality(C) = Cardinality(A)
      /\ (\E a \in A : close[a] \notin C) => Cardinality(C) < Cardinality(A)
    BY <1>3, <1>4, <1>5, Matching
<1> QED  BY <1>7, <1>8, <1>9 DEF A, C

\* The count of one kind that the scans of the source keep.
LEMMA LevelIs ==
    ASSUME program \in Programs, NEW close, Nested(close),
           NEW op \in {"while", "for", "if"}, NEW i \in Nat, NEW j \in Lines,
           OpenedIn(close, {op}, i + 1, j - 1)
    PROVE  Level0(i, j, op, Closing(op)) <=> ClosedIn(close, {op}, i + 1, j - 1)
<1>1. i + 1 \in Nat \ {0} /\ j - 1 \in Int /\ j - 1 <= Len(program)
    BY Text
<1>2. Openings({op}, i + 1, j - 1) = {k \in (i + 1)..(j - 1) : Op(k) = op}
      /\ Closings({op}, i + 1, j - 1) = {k \in (i + 1)..(j - 1) : Op(k) = Closing(op)}
    BY DEF Openings, Closings
<1> DEFINE o == Cardinality(Openings({op}, i + 1, j - 1))
           c == Cardinality(Closings({op}, i + 1, j - 1))
<1>3. Level0(i, j, op, Closing(op)) <=> o = c
    BY <1>2 DEF Level0, Count
<1>4. /\ o \in Nat /\ c \in Nat
      /\ ClosedIn(close, {op}, i + 1, j - 1) => c = o
      /\ ~ClosedIn(close, {op}, i + 1, j - 1) => c < o
    BY <1>1, Counting
<1> HIDE DEF o, c
<1> QED  BY <1>3, <1>4

All == {"while", "for", "if"}

\* The depth of the blocks of all kinds.
LEMMA DepthIs ==
    ASSUME program \in Programs, NEW close, Nested(close),
           NEW i \in Nat \ {0}, NEW j \in Int, j <= Len(program), OpenedIn(close, All, i, j)
    PROVE  /\ Depth(i, j) \in Nat
           /\ Depth(i, j) = 0 <=> ClosedIn(close, All, i, j)
<1>1. Openings(All, i, j) = {k \in i..j : Opens(k)}
      /\ Closings(All, i, j) = {k \in i..j : Closes(k)}
    <2>1. {Closing(op) : op \in All} = {"end_while", "next", "end_if"}
        BY DEF All, Closing
    <2> QED  BY <2>1 DEF Openings, Closings, Opens, Closes, All
<1> DEFINE o == Cardinality(Openings(All, i, j))
           c == Cardinality(Closings(All, i, j))
<1>2. Depth(i, j) = o - c
    BY <1>1 DEF Depth
<1>3. /\ o \in Nat /\ c \in Nat /\ c <= o
      /\ ClosedIn(close, All, i, j) => c = o
      /\ ~ClosedIn(close, All, i, j) => c < o
    BY Counting DEF All
<1> HIDE DEF o, c
<1> QED  BY <1>2, <1>3

\* The statement that closes the block around takes one off.
LEMMA DepthBelow ==
    ASSUME program \in Programs, NEW close, Nested(close), NEW o \in Blocks,
           NEW i \in Nat \ {0}, i <= close[o], OpenedIn(close, All, i, close[o] - 1)
    PROVE  Depth(i, close[o]) = Depth(i, close[o] - 1) - 1
<1> DEFINE j == close[o]
           A == {k \in i..(j - 1) : Opens(k)}
           C == {k \in i..(j - 1) : Closes(k)}
<1>1. j \in Nat /\ j <= Len(program) /\ Closes(j) /\ ~Opens(j)
      /\ Op(j) \in {"end_while", "next", "end_if"}
    BY Block, Text, ClosingIs DEF Closes, Opens
<1>2. i <= j
    OBVIOUS
<1>3. {k \in i..j : Opens(k)} = A
    <2> HIDE DEF j
    <2> QED  BY <1>1, <1>2
<1>4. {k \in i..j : Closes(k)} = C \cup {j} /\ j \notin C
    <2> HIDE DEF j
    <2> QED  BY <1>1, <1>2
<1>5. IsFiniteSet(C) /\ Cardinality(C) \in Nat /\ Cardinality(A) \in Nat
    <2>1. i \in Int /\ j - 1 \in Int
        BY <1>1
    <2>2. IsFiniteSet(i..(j - 1))
        BY <2>1, FS_Interval
    <2>3. A \in SUBSET (i..(j - 1)) /\ C \in SUBSET (i..(j - 1))
        OBVIOUS
    <2>4. IsFiniteSet(A) /\ IsFiniteSet(C)
        BY <2>2, <2>3, FS_Subset
    <2> QED  BY <2>4, FS_CardinalityType
<1> HIDE DEF A, C
<1>6. Cardinality(C \cup {j}) = Cardinality(C) + 1
    BY <1>4, <1>5, FS_AddElement
<1>7. Depth(i, j) = Cardinality(A) - (Cardinality(C) + 1)
    BY <1>3, <1>4, <1>6 DEF Depth
<1>8. Depth(i, j - 1) = Cardinality(A) - Cardinality(C)
    BY DEF Depth, A, C
<1> QED  BY <1>5, <1>7, <1>8

-----------------------------------------------------------------------------
(* The scans find the end of the block they start from. *)

\* Between o and i, inside the block o, no block of kinds K is left open.
Clear(close, K, o, i) ==
    /\ o \in Blocks /\ i \in Nat /\ o <= i /\ i < close[o]
    /\ \A k \in Blocks : Op(k) \in K /\ o < k /\ k <= i => close[k] <= i

\* From there on to the end of o all that is closed is opened.
LEMMA OpenedFrom ==
    ASSUME program \in Programs, NEW close, Nested(close), NEW K, NEW o, NEW i,
           Clear(close, K, o, i), NEW j \in Int, j < close[o]
    PROVE  OpenedIn(close, K, i + 1, j)
<1> SUFFICES ASSUME NEW k \in Blocks, Op(k) \in K, close[k] \in (i + 1)..j
             PROVE  k \in (i + 1)..j
    BY DEF OpenedIn
<1>1. o \in Blocks /\ i \in Nat /\ o <= i
    BY DEF Clear
<1>2. o \in Nat /\ close[o] \in Nat /\ k \in Nat /\ close[k] \in Nat /\ k < close[k]
    BY <1>1, Block
<1>3. o < close[k] /\ close[k] < close[o] /\ i < close[k] /\ close[k] <= j
    BY <1>1, <1>2
<1>4. o < k
    BY <1>1, <1>3, OpenedInside
<1>5. ~(k <= i)
    BY <1>1, <1>2, <1>3, <1>4 DEF Clear
<1> QED  BY <1>1, <1>2, <1>3, <1>5

\* All that is opened there is closed before the end of o.
LEMMA ClosedTo ==
    ASSUME program \in Programs, NEW close, Nested(close), NEW K, NEW o \in Blocks,
           NEW i \in Nat, o <= i
    PROVE  ClosedIn(close, K, i + 1, close[o] - 1)
<1> SUFFICES ASSUME NEW k \in Blocks, k \in (i + 1)..(close[o] - 1)
             PROVE  close[k] \in (i + 1)..(close[o] - 1)
    BY DEF ClosedIn
<1>1. o \in Nat /\ close[o] \in Nat /\ k \in Nat /\ close[k] \in Nat /\ k < close[k]
    BY Block
<1>2. o < k /\ k < close[o] /\ i < k
    BY <1>1
<1>3. close[k] < close[o]
    BY <1>2 DEF Nested
<1> QED  BY <1>1, <1>2, <1>3

\* Inside o a statement that closes a block of a kind is not at level 0.
LEMMA NotAtLevel ==
    ASSUME program \in Programs, NEW close, Nested(close), NEW o, NEW i,
           NEW op \in {"while", "for", "if"}, Clear(close, {op}, o, i),
           NEW j \in DOMAIN program, i < j, j < close[o], Op(j) = Closing(op)
    PROVE  ~Level0(i, j, op, Closing(op))
<1>1. o \in Blocks /\ i \in Nat /\ o <= i
    BY DEF Clear
<1>2. PICK k \in Blocks : j = close[k] /\ Op(k) = op
    BY ClosesKind
<1>3. o \in Nat /\ close[o] \in Nat /\ k \in Nat /\ k < j /\ j \in Nat /\ j \in Lines
    BY <1>1, <1>2, Block
<1>4. o < k
    BY <1>1, <1>2, <1>3, OpenedInside
<1>5. ~(k <= i)
    BY <1>1, <1>2, <1>3, <1>4 DEF Clear
<1>6. k \in (i + 1)..(j - 1) /\ close[k] \notin (i + 1)..(j - 1)
    BY <1>1, <1>2, <1>3, <1>5
<1>7. ~ClosedIn(close, {op}, i + 1, j - 1)
    BY <1>2, <1>6 DEF ClosedIn
<1>8. OpenedIn(close, {op}, i + 1, j - 1)
    BY <1>3, OpenedFrom
<1> QED  BY <1>1, <1>3, <1>7, <1>8, LevelIs

\* The end of o is at level 0.
LEMMA AtLevel ==
    ASSUME program \in Programs, NEW close, Nested(close), NEW o, NEW i,
           NEW op \in {"while", "for", "if"}, Clear(close, {op}, o, i)
    PROVE  Level0(i, close[o], op, Closing(op))
<1>1. o \in Blocks /\ i \in Nat /\ o <= i
    BY DEF Clear
<1>2. close[o] \in Nat /\ close[o] \in Lines
    BY <1>1, Block
<1>3. OpenedIn(close, {op}, i + 1, close[o] - 1)
    BY <1>2, OpenedFrom
<1>4. ClosedIn(close, {op}, i + 1, close[o] - 1)
    BY <1>1, ClosedTo
<1> QED  BY <1>1, <1>2, <1>3, <1>4, LevelIs

\* A statement before the end of a block is a statement of the program.
LEMMA BeforeEnd ==
    ASSUME program \in Programs, NEW close, Nested(close), NEW o \in Blocks,
           NEW j \in Lines, j < close[o]
    PROVE  j \in DOMAIN program /\ j \in Nat /\ Op(j) # "null"
<1>1. close[o] \in DOMAIN program /\ close[o] \in Nat /\ j \in Nat
    BY Block, Text
<1>2. j # Len(program) + 1
    BY <1>1, Text
<1>3. j \in DOMAIN program
    BY <1>2, Text
<1> QED  BY <1>1, <1>3 DEF Nested

\* cmd_while() goes on behind the END_WHILE of its own loop.
LEMMA EndOfWhileIs ==
    ASSUME program \in Programs, NEW close, Nested(close), NEW o \in Blocks, Op(o) = "while"
    PROVE  EndOfWhile(o) = close[o]
<1> DEFINE Found(j) == Op(j) = "end_while" /\ Level0(o, j, "while", "end_while")
           S == {j \in Lines : j > o /\ (Found(j) \/ Op(j) = "null")}
<1>1. EndOfWhile(o) = Min(S)
    BY DEF EndOfWhile, Scan
<1>2. o \in Nat /\ close[o] \in Nat /\ close[o] \in Lines /\ o < close[o]
      /\ Op(close[o]) = "end_while"
    BY Block, ClosingIs
<1>3. Clear(close, {"while"}, o, o)
    BY <1>2 DEF Clear
<1>4. close[o] \in S
    BY <1>2, <1>3, AtLevel, ClosingIs
<1>5. ASSUME NEW j \in S PROVE close[o] <= j
    <2>1. j \in Lines /\ j > o /\ j \in Nat
        BY Text
    <2> SUFFICES ASSUME j < close[o] PROVE FALSE
        BY <1>2, <2>1
    <2>2. j \in DOMAIN program /\ Op(j) # "null"
        BY <2>1, BeforeEnd
    <2>3. Found(j)
        BY <2>2
    <2> QED  BY <1>3, <2>1, <2>2, <2>3, NotAtLevel, ClosingIs
<1>6. S \in SUBSET Int
    BY Text
<1> HIDE DEF S
<1> QED  BY <1>1, <1>4, <1>5, <1>6, MinIs

\* cmd_for() goes on behind the NEXT of its own loop, which it finds by name.
LEMMA EndOfForIs ==
    ASSUME program \in Programs, NEW close, Nested(close), NEW o \in Blocks, Op(o) = "for"
    PROVE  EndOfFor(o) = close[o]
<1> DEFINE Found(j) == Op(j) = "next" /\ program[j].arg = program[o].arg
           S == {j \in Lines : j > o /\ (Found(j) \/ Op(j) = "null")}
<1>1. EndOfFor(o) = Min(S)
    BY DEF EndOfFor, Scan
<1>2. o \in Nat /\ close[o] \in Nat /\ close[o] \in Lines /\ o < close[o] /\ Op(close[o]) = "next"
    BY Block, ClosingIs
<1>3. close[o] \in S
    BY <1>2 DEF Nested
<1>4. ASSUME NEW j \in S PROVE close[o] <= j
    <2>1. j \in Lines /\ j > o /\ j \in Nat
        BY Text
    <2> SUFFICES ASSUME j < close[o] PROVE FALSE
        BY <1>2, <2>1
    <2>2. j \in DOMAIN program /\ Op(j) # "null"
        BY <2>1, BeforeEnd
    <2>3. Found(j)
        BY <2>2
    <2>4. PICK k \in Blocks : j = close[k] /\ Op(k) = "for"
        BY <2>2, <2>3, ClosesKind, ClosingIs
    <2>5. o < k
        BY <2>1, <2>4, OpenedInside
    <2>6. k \in Nat /\ k < j
        BY <2>4, Block
    <2>7. k < close[o]
        BY <1>2, <2>1, <2>6
    <2>8. program[k].arg # program[o].arg
        BY <2>4, <2>5, <2>7 DEF Nested
    <2>9. program[j].arg = program[k].arg
        BY <2>4 DEF Nested
    <2> QED  BY <2>3, <2>8, <2>9
<1>5. S \in SUBSET Int
    BY Text
<1> HIDE DEF S
<1> QED  BY <1>1, <1>3, <1>4, <1>5, MinIs

\* The statement of the reference: the depth is back at 0.
LEMMA PartnerIs ==
    ASSUME program \in Programs, NEW close, Nested(close), NEW o \in Blocks
    PROVE  Partner(o) = close[o]
<1> DEFINE S == {j \in Lines : j > o /\ (Depth(o, j) = 0 \/ Op(j) = "null")}
<1>1. Partner(o) = Min(S)
    BY DEF Partner
<1>2. o \in Nat \ {0} /\ close[o] \in Nat /\ close[o] \in Lines /\ o < close[o]
      /\ close[o] <= Len(program) /\ Len(program) \in Nat
    BY Block, Text
<1>3. ASSUME NEW j \in Int, j <= close[o] PROVE OpenedIn(close, All, o, j)
    <2> SUFFICES ASSUME NEW k \in Blocks, close[k] \in o..j PROVE k \in o..j
        BY DEF OpenedIn
    <2>1. k \in Nat /\ close[k] \in Nat /\ k < close[k]
        BY Block
    <2>2. close[k] # o
        BY Block, ClosingIs
    <2>3. o < close[k] /\ close[k] <= close[o] /\ close[k] <= j
        BY <1>2, <1>3, <2>1, <2>2
    <2>4. close[k] = close[o] => k = o
        BY ClosesOne
    <2>5. close[k] < close[o] => o < k
        BY <2>3, OpenedInside
    <2> QED  BY <1>2, <2>1, <2>3, <2>4, <2>5
<1>4. ClosedIn(close, All, o, close[o])
    <2> SUFFICES ASSUME NEW k \in Blocks, k \in o..close[o] PROVE close[k] \in o..close[o]
        BY DEF ClosedIn
    <2>1. k \in Nat /\ close[k] \in Nat /\ k < close[k]
        BY Block
    <2>2. k # close[o]
        BY Block, ClosingIs
    <2>3. k = o \/ (o < k /\ k < close[o])
        BY <1>2, <2>1, <2>2
    <2>4. k # o => close[k] < close[o]
        BY <2>3 DEF Nested
    <2> QED  BY <1>2, <2>1, <2>3, <2>4
<1>5. close[o] \in S
    BY <1>2, <1>3, <1>4, DepthIs
<1>6. ASSUME NEW j \in S PROVE close[o] <= j
    <2>1. j \in Lines /\ j > o /\ j \in Nat
        BY Text
    <2> SUFFICES ASSUME j < close[o] PROVE FALSE
        BY <1>2, <2>1
    <2>2. j \in DOMAIN program /\ Op(j) # "null" /\ j <= Len(program)
        BY <2>1, BeforeEnd, Text
    <2>3. o \in o..j /\ close[o] \notin o..j
        BY <1>2, <2>1
    <2>4. ~ClosedIn(close, All, o, j)
        BY <2>3, Block DEF ClosedIn, All
    <2>5. OpenedIn(close, All, o, j)
        BY <1>2, <1>3, <2>1
    <2>6. Depth(o, j) # 0
        BY <1>2, <2>1, <2>2, <2>4, <2>5, DepthIs
    <2> QED  BY <2>2, <2>6
<1>7. S \in SUBSET Int
    BY Text
<1> HIDE DEF S
<1> QED  BY <1>1, <1>5, <1>6, <1>7, MinIs

-----------------------------------------------------------------------------
(* Branches of an if. *)

\* Between an if and its else no block is left open.
LEMMA InIfClear ==
    ASSUME program \in Programs, NEW close, Nested(close), NEW o, NEW i \in DOMAIN program,
           InIf(close, o, i), Op(i) \in {"else", "else_if"}, NEW K
    PROVE  Clear(close, K, o, i)
<1>1. o \in Blocks /\ o < i /\ i < close[o] /\ i \in Nat
    BY Text DEF InIf
<1>2. o \in Nat
    BY <1>1, Block
<1>3. ASSUME NEW k \in Blocks, o < k, k <= i PROVE close[k] <= i
    <2>1. k # i
        BY Block
    <2>2. k \in Nat /\ close[k] \in Nat
        BY Block
    <2>3. close[k] < i
        BY <1>1, <1>3, <2>1, <2>2 DEF InIf
    <2> QED  BY <1>1, <2>2, <2>3
<1> QED  BY <1>1, <1>2, <1>3 DEF Clear

\* cmd_else() goes on behind the END_IF of its own if.
LEMMA EndOfIfIs ==
    ASSUME program \in Programs, NEW close, Nested(close), NEW o, NEW i \in DOMAIN program,
           InIf(close, o, i), Op(i) \in {"else", "else_if"}
    PROVE  EndOfIf(i) = close[o]
<1> DEFINE Found(j) == Op(j) = "end_if" /\ Level0(i, j, "if", "end_if")
           S == {j \in Lines : j > i /\ (Found(j) \/ Op(j) = "null")}
<1>1. EndOfIf(i) = Min(S)
    BY DEF EndOfIf, Scan
<1>2. o \in Blocks /\ Op(o) = "if" /\ i < close[o] /\ i \in Nat
    BY Text DEF InIf
<1>3. close[o] \in Nat /\ close[o] \in Lines /\ Op(close[o]) = "end_if"
    BY <1>2, Block, ClosingIs
<1>4. Clear(close, {"if"}, o, i)
    BY InIfClear
<1>5. close[o] \in S
    BY <1>2, <1>3, <1>4, AtLevel, ClosingIs
<1>6. ASSUME NEW j \in S PROVE close[o] <= j
    <2>1. j \in Lines /\ j > i /\ j \in Nat
        BY Text
    <2> SUFFICES ASSUME j < close[o] PROVE FALSE
        BY <1>3, <2>1
    <2>2. j \in DOMAIN program /\ Op(j) # "null"
        BY <1>2, <2>1, BeforeEnd
    <2>3. Found(j)
        BY <2>2
    <2> QED  BY <1>4, <2>1, <2>2, <2>3, NotAtLevel, ClosingIs
<1>7. S \in SUBSET Int
    BY Text
<1> HIDE DEF S
<1> QED  BY <1>1, <1>5, <1>6, <1>7, MinIs

\* From a clear place the depth does not fall below 0 before the end of o.
LEMMA DepthInside ==
    ASSUME program \in Programs, NEW close, Nested(close), NEW o, NEW i,
           Clear(close, All, o, i), NEW j \in Int, j < close[o]
    PROVE  Depth(i + 1, j) \in Nat
<1>1. o \in Blocks /\ i + 1 \in Nat \ {0}
    BY DEF Clear
<1>2. close[o] \in Nat /\ close[o] <= Len(program) /\ Len(program) \in Nat
    BY <1>1, Block, Text
<1>3. j <= Len(program)
    BY <1>2
<1> QED  BY <1>1, <1>3, OpenedFrom, DepthIs

\* At the end of o it does.
LEMMA DepthAtEnd ==
    ASSUME program \in Programs, NEW close, Nested(close), NEW o, NEW i,
           Clear(close, All, o, i)
    PROVE  Depth(i + 1, close[o]) = -1
<1>1. o \in Blocks /\ i \in Nat /\ i + 1 \in Nat \ {0} /\ o <= i /\ i < close[o]
    BY DEF Clear
<1>2. close[o] \in Nat /\ close[o] <= Len(program) /\ Len(program) \in Nat
    BY <1>1, Block, Text
<1> DEFINE j == close[o] - 1
<1>3. j \in Int /\ j < close[o] /\ j <= Len(program) /\ i + 1 <= close[o]
    BY <1>1, <1>2
<1>4. OpenedIn(close, All, i + 1, j)
    BY <1>3, OpenedFrom
<1>5. ClosedIn(close, All, i + 1, j)
    BY <1>1, ClosedTo
<1>6. Depth(i + 1, j) = 0
    BY <1>1, <1>3, <1>4, <1>5, DepthIs
<1>7. Depth(i + 1, close[o]) = Depth(i + 1, j) - 1
    BY <1>1, <1>3, <1>4, DepthBelow
<1> QED  BY <1>6, <1>7

\* A statement that neither opens nor closes a block does not count.
LEMMA DepthSkips ==
    ASSUME NEW i \in Int, NEW j \in Int, ~Opens(i), ~Closes(i)
    PROVE  Depth(i, j) = Depth(i + 1, j)
<1>1. {k \in i..j : Opens(k)} = {k \in (i + 1)..j : Opens(k)}
    <2>1. ASSUME NEW k \in i..j, Opens(k) PROVE k \in (i + 1)..j
        BY <2>1
    <2>2. ASSUME NEW k \in (i + 1)..j PROVE k \in i..j
        OBVIOUS
    <2> QED  BY <2>1, <2>2
<1>2. {k \in i..j : Closes(k)} = {k \in (i + 1)..j : Closes(k)}
    <2>1. ASSUME NEW k \in i..j, Closes(k) PROVE k \in (i + 1)..j
        BY <2>1
    <2>2. ASSUME NEW k \in (i + 1)..j PROVE k \in i..j
        OBVIOUS
    <2> QED  BY <2>1, <2>2
<1> QED  BY <1>1, <1>2 DEF Depth

\* The reference of else finds the same end.
LEMMA ElseEndIs ==
    ASSUME program \in Programs, NEW close, Nested(close), NEW o, NEW i \in DOMAIN program,
           InIf(close, o, i), Op(i) \in {"else", "else_if"}
    PROVE  Min({j \in Lines : j > i /\ Depth(i, j) = -1}) = close[o]
<1> DEFINE S == {j \in Lines : j > i /\ Depth(i, j) = -1}
<1>1. o \in Blocks /\ i < close[o] /\ i \in Nat
    BY Text DEF InIf
<1>2. close[o] \in Nat /\ close[o] \in Lines
    BY <1>1, Block
<1>3. Clear(close, All, o, i)
    BY InIfClear
<1>4. ~Opens(i) /\ ~Closes(i)
    BY DEF Opens, Closes
<1>5. \A j \in Nat : Depth(i, j) = Depth(i + 1, j)
    BY <1>1, <1>4, DepthSkips
<1>6. close[o] \in S
    BY <1>1, <1>2, <1>3, <1>5, DepthAtEnd
<1>7. ASSUME NEW j \in S PROVE close[o] <= j
    <2>1. j \in Nat /\ Depth(i + 1, j) = -1
        BY <1>5, Text
    <2> SUFFICES ASSUME j < close[o] PROVE FALSE
        BY <1>2, <2>1
    <2>2. Depth(i + 1, j) \in Nat
        BY <1>3, <2>1, DepthInside
    <2> QED  BY <2>1, <2>2
<1>8. S \in SUBSET Int
    BY Text
<1> HIDE DEF S
<1> QED  BY <1>6, <1>7, <1>8, MinIs DEF S

\* The statements that divide the if at o, and its end
Divides(close, o) ==
    {close[o]} \cup {j \in DOMAIN program : Op(j) \in {"else", "else_if"} /\ InIf(close, o, j)}

\* Every else belongs to an if
ElsesIn(close) ==
    \A i \in DOMAIN program : Op(i) \in {"else", "else_if"} => \E o \in Blocks : InIf(close, o, i)

\* cmd_if() skips a branch to a statement that divides the same if.
LEMMA EndOfThenIs ==
    ASSUME program \in Programs, NEW close, Nested(close), ElsesIn(close),
           NEW o \in Blocks, Op(o) = "if", NEW i \in {o} \cup Divides(close, o), i # close[o]
    PROVE  EndOfThen(i) \in Divides(close, o) /\ EndOfThen(i) > i
<1> DEFINE Found(j) == Op(j) \in {"else", "else_if", "end_if"} /\ Level0(i, j, "if", "end_if")
           S == {j \in Lines : j > i /\ (Found(j) \/ Op(j) = "null")}
           m == Min(S)
<1>1. EndOfThen(i) = m
    BY DEF EndOfThen, Scan
<1>2. o \in Nat /\ close[o] \in Nat /\ close[o] \in Lines /\ o < close[o]
      /\ Op(close[o]) = "end_if"
    BY Block, ClosingIs
<1>3. Clear(close, {"if"}, o, i)
    <2>1. CASE i = o
        BY <1>2, <2>1 DEF Clear
    <2>2. CASE i # o
        BY <2>2, InIfClear DEF Divides
    <2> QED  BY <2>1, <2>2
<1>4. i \in Nat /\ o <= i /\ i < close[o]
    BY <1>3 DEF Clear
<1>5. close[o] \in S
    BY <1>2, <1>3, <1>4, AtLevel, ClosingIs
<1>6. S \in SUBSET Nat
    BY Text
<1>7. m \in S /\ m <= close[o]
    <2> HIDE DEF S
    <2>1. m \in S /\ \A y \in S : m <= y
        BY <1>5, <1>6, MinNat
    <2> QED  BY <1>5, <2>1
<1> HIDE DEF m
<1>8. m \in Lines /\ m \in Nat /\ m > i
    BY <1>6, <1>7
<1>9. ASSUME m < close[o] PROVE m \in Divides(close, o)
    <2>1. m \in DOMAIN program /\ Op(m) # "null"
        BY <1>8, <1>9, BeforeEnd
    <2>2. Found(m)
        BY <1>7, <2>1
    <2>3. Op(m) # "end_if"
        BY <1>3, <1>8, <1>9, <2>1, <2>2, NotAtLevel, ClosingIs
    <2>4. PICK p \in Blocks : InIf(close, p, m)
        BY <2>1, <2>2, <2>3 DEF ElsesIn
    <2>5. p \in Nat /\ close[p] \in Nat /\ Op(p) = "if" /\ p < m /\ m < close[p]
        BY <2>4, Block DEF InIf
    <2>6. ~(p < o)
        <3>1. o < m
            BY <1>2, <1>4, <1>8
        <3>2. p < o => close[o] < m
            BY <2>4, <3>1 DEF InIf
        <3> QED  BY <1>2, <1>8, <1>9, <3>2
    <2>7. ~(o < p /\ p <= i)
        BY <1>3, <1>4, <1>8, <2>5 DEF Clear
    <2>8. ~(i < p)
        <3> SUFFICES ASSUME i < p PROVE FALSE
            OBVIOUS
        <3>1. p \in (i + 1)..(m - 1) /\ close[p] \notin (i + 1)..(m - 1)
            BY <1>4, <1>8, <2>5
        <3>2. ~ClosedIn(close, {"if"}, i + 1, m - 1)
            BY <2>5, <3>1 DEF ClosedIn
        <3>3. m - 1 \in Int /\ m - 1 < close[o]
            BY <1>2, <1>8, <1>9
        <3>4. OpenedIn(close, {"if"}, i + 1, m - 1)
            BY <1>3, <3>3, OpenedFrom
        <3>5. ~Level0(i, m, "if", "end_if")
            BY <1>4, <1>8, <3>2, <3>4, LevelIs, ClosingIs
        <3> QED  BY <2>2, <3>5
    <2>9. p = o
        BY <1>2, <1>4, <2>5, <2>6, <2>7, <2>8
    <2> QED  BY <2>1, <2>2, <2>3, <2>4, <2>9 DEF Divides
<1>10. m \in Divides(close, o)
    <2>1. CASE m = close[o]
        BY <2>1 DEF Divides
    <2>2. CASE m # close[o]
        <3>1. m < close[o]
            BY <1>2, <1>7, <1>8, <2>2
        <3> QED  BY <1>9, <3>1
    <2> QED  BY <2>1, <2>2
<1> QED  BY <1>1, <1>8, <1>10

\* A scan for a branch ends behind the statement, at the end of the program if
\* nothing else.
LEMMA EndOfThenType ==
    ASSUME program \in Programs, NEW i \in DOMAIN program
    PROVE  /\ EndOfThen(i) \in Lines /\ EndOfThen(i) > i
           /\ Op(EndOfThen(i)) \in {"else", "else_if", "end_if", "null"}
<1> DEFINE Found(j) == Op(j) \in {"else", "else_if", "end_if"} /\ Level0(i, j, "if", "end_if")
           S == {j \in Lines : j > i /\ (Found(j) \/ Op(j) = "null")}
<1>1. EndOfThen(i) = Min(S)
    BY DEF EndOfThen, Scan
<1>2. Len(program) + 1 \in S
    BY Text
<1>3. S \in SUBSET Nat
    BY Text
<1>4. Min(S) \in S
    <2> HIDE DEF S
    <2> QED  BY <1>2, <1>3, MinNat
<1> QED  BY <1>1, <1>4

\* T holds all places behind which the program may go on after the condition at i.
HoldsFrom(T, i) ==
    /\ i \in T
    /\ \A k \in T \cap DOMAIN program : k = i \/ Op(k) = "else_if" => EndOfThen(k) \in T

\* The recursive definition of Branches has a solution: the smallest such sets.
LEMMA BranchesDef ==
    ASSUME program \in Programs
    PROVE  Branches = [i \in DOMAIN program |->
             {i} \cup IF Op(EndOfThen(i)) = "else_if" THEN Branches[EndOfThen(i)]
                      ELSE {EndOfThen(i)}]
<1> DEFINE g == [i \in DOMAIN program |->
                   {y \in Lines : \A T \in SUBSET Lines : HoldsFrom(T, i) => y \in T}]
           R(i) == {i} \cup IF Op(EndOfThen(i)) = "else_if" THEN g[EndOfThen(i)]
                            ELSE {EndOfThen(i)}
<1>1. ASSUME NEW i \in DOMAIN program PROVE g[i] = R(i)
    <2> DEFINE e == EndOfThen(i)
    <2>1. e \in Lines /\ e # i /\ i \in Lines
        BY EndOfThenType, Text
    <2>2. Op(e) = "else_if" => e \in DOMAIN program
        BY <2>1, Text
    <2>3. R(i) \in SUBSET Lines
        BY <2>1, <2>2
    <2> HIDE DEF e
    <2>4. R(i) = {i} \cup IF Op(e) = "else_if" THEN g[e] ELSE {e}
        BY DEF e
    <2>5. Op(e) = "else_if" => HoldsFrom(g[e], e)
        <3> SUFFICES ASSUME Op(e) = "else_if" PROVE HoldsFrom(g[e], e)
            OBVIOUS
        <3>1. e \in g[e]
            BY <2>1, <2>2 DEF HoldsFrom
        <3>2. ASSUME NEW k \in g[e] \cap DOMAIN program, k = e \/ Op(k) = "else_if"
              PROVE  EndOfThen(k) \in g[e]
            <4>1. EndOfThen(k) \in Lines
                BY EndOfThenType
            <4>2. ASSUME NEW T \in SUBSET Lines, HoldsFrom(T, e) PROVE EndOfThen(k) \in T
                BY <2>2, <3>2, <4>2 DEF HoldsFrom
            <4> QED  BY <2>2, <4>1, <4>2
        <3> QED  BY <3>1, <3>2 DEF HoldsFrom
    <2>6. HoldsFrom(R(i), i)
        <3> HIDE DEF g, R
        <3>1. i \in R(i)
            BY <2>4
        <3>2. e \in R(i)
            BY <2>4, <2>5 DEF HoldsFrom
        <3>3. ASSUME NEW k \in R(i) \cap DOMAIN program, Op(k) = "else_if", k # i
              PROVE  EndOfThen(k) \in R(i)
            <4>1. Op(e) = "else_if" /\ k \in g[e]
                BY <2>4, <2>5, <3>3 DEF HoldsFrom
            <4> QED  BY <2>4, <2>5, <3>3, <4>1 DEF HoldsFrom
        <3> QED  BY <3>1, <3>2, <3>3 DEF HoldsFrom, e
    <2>7. g[i] \subseteq R(i)
        <3>1. \A y \in g[i] : \A T \in SUBSET Lines : HoldsFrom(T, i) => y \in T
            OBVIOUS
        <3> HIDE DEF g, R
        <3> QED  BY <2>3, <2>6, <3>1
    <2>8. ASSUME NEW y \in R(i) PROVE y \in g[i]
        <3>1. ASSUME NEW T \in SUBSET Lines, HoldsFrom(T, i) PROVE y \in T
            <4>1. i \in T /\ e \in T
                BY <3>1 DEF HoldsFrom, e
            <4>2. Op(e) = "else_if" => HoldsFrom(T, e)
                BY <3>1, <4>1 DEF HoldsFrom
            <4>3. CASE Op(e) = "else_if"
                <5>1. y = i \/ y \in g[e]
                    BY <2>4, <2>8, <4>3
                <5>2. y \in g[e] => y \in T
                    BY <2>2, <4>2, <4>3
                <5> QED  BY <4>1, <5>1, <5>2
            <4>4. CASE Op(e) # "else_if"
                <5>1. y = i \/ y = e
                    BY <2>4, <2>8, <4>4
                <5> QED  BY <4>1, <5>1
            <4> QED  BY <4>3, <4>4
        <3>2. y \in Lines
            BY <2>3, <2>8
        <3> QED  BY <3>1, <3>2
    <2> HIDE DEF g, R
    <2> QED  BY <2>7, <2>8
<1>2. g = [i \in DOMAIN program |-> R(i)]
    BY <1>1
<1>3. g = [i \in DOMAIN program |->
             {i} \cup IF Op(EndOfThen(i)) = "else_if" THEN g[EndOfThen(i)]
                      ELSE {EndOfThen(i)}]
    BY <1>2 DEF R
<1> HIDE DEF g
<1>4. \E f : f = [i \in DOMAIN program |->
             {i} \cup IF Op(EndOfThen(i)) = "else_if" THEN f[EndOfThen(i)]
                      ELSE {EndOfThen(i)}]
    BY <1>3
<1> QED  BY <1>4 DEF Branches

\* A condition is followed by its own branch or by one that divides its if.
LEMMA BranchesDivide ==
    ASSUME program \in Programs, NEW close, Nested(close), ElsesIn(close),
           NEW o \in Blocks, Op(o) = "if"
    PROVE  Branches[o] \subseteq {o} \cup Divides(close, o)
<1> DEFINE Bad == {i \in ({o} \cup Divides(close, o)) \cap DOMAIN program :
                     i # close[o] /\ ~(Branches[i] \subseteq {i} \cup Divides(close, o))}
<1>1. Bad \subseteq 0..Len(program) /\ Len(program) \in Nat
    BY Text
<1>2. o \in DOMAIN program /\ o # close[o]
    BY Block
<1>3. ASSUME NEW i \in Bad, \A j \in Bad : j <= i PROVE FALSE
    <2>1. i \in DOMAIN program /\ i \in Nat /\ i \in {o} \cup Divides(close, o) /\ i # close[o]
        BY Text
    <2> DEFINE e == EndOfThen(i)
    <2>2. e \in Divides(close, o) /\ e > i
        BY <2>1, EndOfThenIs
    <2>3. e \in Lines
        BY EndOfThenType, <2>1
    <2>4. e \in Nat
        BY <2>3, Text
    <2>5. Branches[i] = {i} \cup IF Op(e) = "else_if" THEN Branches[e] ELSE {e}
        BY <2>1, BranchesDef
    <2> HIDE DEF e
    <2>6. Op(e) = "else_if"
        <3> SUFFICES ASSUME Op(e) # "else_if" PROVE FALSE
            OBVIOUS
        <3>1. Branches[i] \subseteq {i} \cup Divides(close, o)
            BY <2>2, <2>5
        <3> QED  BY <3>1
    <2>7. e \in DOMAIN program
        BY <2>3, <2>6, Text
    <2>8. e \notin Bad
        BY <1>3, <2>1, <2>2, <2>4
    <2>9. e # close[o]
        BY <2>6, Block, ClosingIs
    <2>10. Branches[e] \subseteq {e} \cup Divides(close, o)
        BY <2>2, <2>7, <2>8, <2>9
    <2>11. Branches[i] \subseteq {i} \cup Divides(close, o)
        BY <2>2, <2>5, <2>6, <2>10
    <2> QED  BY <2>11
<1> HIDE DEF Bad
<1>4. Bad = {}
    BY <1>1, <1>3, Greatest
<1> QED  BY <1>2, <1>4 DEF Bad

\* These statements are branches of the if for the reference as well.
LEMMA DividesAreBranches ==
    ASSUME program \in Programs, NEW close, Nested(close),
           NEW o \in Blocks, Op(o) = "if", NEW j \in Divides(close, o)
    PROVE  j \in RefBranches(o)
<1>1. o \in Nat /\ close[o] \in Nat /\ o < close[o] /\ Op(close[o]) = "end_if"
      /\ close[o] \in Lines
    BY Block, ClosingIs
<1>2. Clear(close, All, o, o)
    BY <1>1 DEF Clear
<1>3. \A k \in Int : k < close[o] => Depth(o + 1, k) >= 0
    BY <1>2, DepthInside
<1>4. CASE j = close[o]
    <2>1. Depth(o + 1, j) = -1
        BY <1>2, <1>4, DepthAtEnd
    <2>2. \A k \in (o + 1)..(j - 1) : Depth(o + 1, k) >= 0
        BY <1>1, <1>3, <1>4
    <2> QED  BY <1>1, <1>4, <2>1, <2>2 DEF RefBranches
<1>5. CASE j # close[o]
    <2>1. j \in DOMAIN program /\ Op(j) \in {"else", "else_if"} /\ InIf(close, o, j)
        BY <1>5 DEF Divides
    <2>2. j \in Nat /\ j \in Lines /\ j > o /\ j < close[o] /\ j <= Len(program)
        BY <2>1, Text DEF InIf
    <2>3. OpenedIn(close, All, o + 1, j)
        BY <1>2, <2>2, OpenedFrom
    <2>4. ClosedIn(close, All, o + 1, j)
        <3> SUFFICES ASSUME NEW k \in Blocks, k \in (o + 1)..j PROVE close[k] \in (o + 1)..j
            BY DEF ClosedIn
        <3>1. k # j /\ k \in Nat /\ close[k] \in Nat /\ k < close[k]
            BY <2>1, Block
        <3>2. o < k /\ k < j
            BY <1>1, <2>2, <3>1
        <3>3. close[k] < j
            BY <2>1, <3>2 DEF InIf
        <3> QED  BY <1>1, <2>2, <3>1, <3>2, <3>3
    <2>5. Depth(o + 1, j) = 0
        BY <1>1, <2>2, <2>3, <2>4, DepthIs
    <2>6. \A k \in (o + 1)..(j - 1) : Depth(o + 1, k) >= 0
        BY <1>1, <1>3, <2>2
    <2> QED  BY <2>1, <2>2, <2>5, <2>6 DEF RefBranches
<1> QED  BY <1>4, <1>5

-----------------------------------------------------------------------------
(* The loops around a statement. *)

\* A loop around a statement is a block.
LEMMA LoopBlock ==
    ASSUME program \in Programs, NEW close, Nested(close), NEW i, NEW o \in LoopsAt(close, i)
    PROVE  /\ o \in Blocks /\ Op(o) \in {"while", "for"} /\ o \in Nat /\ close[o] \in Nat
           /\ o < i /\ i <= close[o]
BY Block DEF LoopsAt

\* A statement that neither opens nor closes a loop stays in it.
LEMMA LoopsStay ==
    ASSUME program \in Programs, NEW close, Nested(close), NEW i \in DOMAIN program,
           Op(i) \notin {"while", "for", "end_while", "next"}
    PROVE  LoopsAt(close, i + 1) = LoopsAt(close, i)
<1>1. i \in Nat
    BY Text
<1>2. ASSUME NEW m \in LoopsAt(close, i) PROVE m \in LoopsAt(close, i + 1)
    <2>1. m \in Blocks /\ Op(m) \in {"while", "for"} /\ m \in Nat /\ close[m] \in Nat
          /\ m < i /\ i <= close[m]
        BY LoopBlock
    <2>2. Op(close[m]) \in {"end_while", "next"}
        BY <2>1, Block, ClosingIs
    <2>3. i # close[m]
        BY <2>2
    <2>4. m < i + 1 /\ i + 1 <= close[m]
        BY <1>1, <2>1, <2>3
    <2> QED  BY <2>1, <2>4 DEF LoopsAt
<1>3. ASSUME NEW m \in LoopsAt(close, i + 1) PROVE m \in LoopsAt(close, i)
    <2>1. m \in Blocks /\ Op(m) \in {"while", "for"} /\ m \in Nat /\ close[m] \in Nat
          /\ m < i + 1 /\ i + 1 <= close[m]
        BY LoopBlock
    <2>2. m # i
        BY <2>1
    <2>3. m < i /\ i <= close[m]
        BY <1>1, <2>1, <2>2
    <2> QED  BY <2>1, <2>3 DEF LoopsAt
<1> QED  BY <1>2, <1>3

\* Behind the start of a loop it is the innermost one, and at its end too.
LEMMA LoopEnters ==
    ASSUME program \in Programs, NEW close, Nested(close), NEW o \in Blocks,
           Op(o) \in {"while", "for"}
    PROVE  LoopAt(close, o + 1, o) /\ LoopAt(close, close[o], o)
<1>1. o \in Nat /\ close[o] \in Nat /\ o < close[o]
    BY Block
<1>2. o \in LoopsAt(close, o + 1) /\ o \in LoopsAt(close, close[o])
    BY <1>1 DEF LoopsAt
<1>3. ASSUME NEW m \in LoopsAt(close, o + 1) PROVE m <= o
    <2>1. m \in Nat /\ m < o + 1
        BY LoopBlock
    <2> QED  BY <1>1, <2>1
<1>4. ASSUME NEW m \in LoopsAt(close, close[o]) PROVE m <= o
    <2>1. m \in Blocks /\ m \in Nat /\ close[m] \in Nat /\ m < close[o] /\ close[o] <= close[m]
        BY LoopBlock
    <2>2. o < m => close[m] < close[o]
        BY <2>1 DEF Nested
    <2> QED  BY <1>1, <2>1, <2>2
<1> QED  BY <1>2, <1>3, <1>4 DEF LoopAt

\* Behind a block the loops are those at its start.
LEMMA LoopsLeave ==
    ASSUME program \in Programs, NEW close, Nested(close), NEW o \in Blocks
    PROVE  LoopsAt(close, close[o] + 1) = LoopsAt(close, o)
<1>1. o \in Nat /\ close[o] \in Nat /\ o < close[o]
    BY Block
<1>2. ASSUME NEW m \in LoopsAt(close, close[o] + 1) PROVE m \in LoopsAt(close, o)
    <2>1. m \in Blocks /\ Op(m) \in {"while", "for"} /\ m \in Nat /\ close[m] \in Nat
          /\ m < close[o] + 1 /\ close[o] + 1 <= close[m]
        BY LoopBlock
    <2>2. m # close[o]
        BY <2>1, Block, ClosingIs
    <2>3. m # o
        BY <1>1, <2>1
    <2>4. o < m => close[m] < close[o]
        BY <1>1, <2>1, <2>2 DEF Nested
    <2>5. m < o /\ o <= close[m]
        BY <1>1, <2>1, <2>3, <2>4
    <2> QED  BY <2>1, <2>5 DEF LoopsAt
<1>3. ASSUME NEW m \in LoopsAt(close, o) PROVE m \in LoopsAt(close, close[o] + 1)
    <2>1. m \in Blocks /\ Op(m) \in {"while", "for"} /\ m \in Nat /\ close[m] \in Nat
          /\ m < o /\ o <= close[m]
        BY LoopBlock
    <2>2. o # close[m]
        BY <2>1, Block, ClosingIs
    <2>3. o < close[m]
        BY <1>1, <2>1, <2>2
    <2>4. close[o] < close[m]
        BY <2>1, <2>3 DEF Nested
    <2>5. m < close[o] + 1 /\ close[o] + 1 <= close[m]
        BY <1>1, <2>1, <2>4
    <2> QED  BY <2>1, <2>5 DEF LoopsAt
<1> QED  BY <1>2, <1>3

\* All that divides an if is in the same loops as the if.
LEMMA LoopsDivide ==
    ASSUME program \in Programs, NEW close, Nested(close),
           NEW o \in Blocks, Op(o) = "if", NEW j \in Divides(close, o)
    PROVE  LoopsAt(close, j) = LoopsAt(close, o)
<1>1. o \in Nat /\ close[o] \in Nat /\ o < close[o] /\ close[o] \in DOMAIN program
    BY Block
<1>2. CASE j = close[o]
    <2>1. LoopsAt(close, j + 1) = LoopsAt(close, j)
        BY <1>1, <1>2, Block, ClosingIs, LoopsStay
    <2> QED  BY <1>2, <2>1, LoopsLeave
<1>3. CASE j # close[o]
    <2>1. j \in DOMAIN program /\ InIf(close, o, j) /\ j \in Nat /\ Op(j) \in {"else", "else_if"}
        BY <1>3, Text DEF Divides
    <2>2. o < j /\ j < close[o]
        BY <2>1 DEF InIf
    <2>3. ASSUME NEW m \in LoopsAt(close, j) PROVE m \in LoopsAt(close, o)
        <3>1. m \in Blocks /\ Op(m) \in {"while", "for"} /\ m \in Nat /\ close[m] \in Nat
              /\ m < j /\ j <= close[m]
            BY LoopBlock
        <3>2. m # o
            BY <3>1
        <3>3. o < m => close[m] < j
            BY <2>1, <3>1 DEF InIf
        <3>4. m < o /\ o <= close[m]
            BY <1>1, <2>1, <2>2, <3>1, <3>2, <3>3
        <3> QED  BY <3>1, <3>4 DEF LoopsAt
    <2>4. ASSUME NEW m \in LoopsAt(close, o) PROVE m \in LoopsAt(close, j)
        <3>1. m \in Blocks /\ Op(m) \in {"while", "for"} /\ m \in Nat /\ close[m] \in Nat
              /\ m < o /\ o <= close[m]
            BY LoopBlock
        <3>2. o # close[m]
            BY <3>1, Block, ClosingIs
        <3>3. o < close[m]
            BY <1>1, <3>1, <3>2
        <3>4. close[o] < close[m]
            BY <3>1, <3>3 DEF Nested
        <3>5. m < j /\ j <= close[m]
            BY <1>1, <2>1, <2>2, <3>1, <3>4
        <3> QED  BY <3>1, <3>5 DEF LoopsAt
    <2> QED  BY <2>3, <2>4
<1> QED  BY <1>2, <1>3

\* A loop holds no label, end or end of the program.
LEMMA LoopHoldsNone ==
    ASSUME program \in Programs, NEW close, NEW sub, Nested(close), Divided(close, sub),
           NEW o \in Blocks, Op(o) \in {"while", "for"}, NEW j \in Lines, o < j, j <= close[o]
    PROVE  Op(j) \notin {"label", "end", "null"}
<1>1. o \in LoopsAt(close, j)
    BY DEF LoopsAt
<1> QED  BY <1>1 DEF Divided

\* Inside its innermost loop a statement leaves no loop open before it.
LEMMA LoopClear ==
    ASSUME program \in Programs, NEW close, Nested(close), NEW i \in DOMAIN program,
           NEW o, LoopAt(close, i, o), ~Opens(i), ~Closes(i), NEW op \in {"while", "for"}
    PROVE  Clear(close, {op}, o, i)
<1>1. o \in Blocks /\ o \in Nat /\ close[o] \in Nat /\ o < i /\ i <= close[o] /\ i \in Nat
    BY LoopBlock, Text DEF LoopAt
<1>2. i # close[o]
    BY <1>1, Block, ClosingIs DEF Closes
<1>3. ASSUME NEW k \in Blocks, Op(k) = op, o < k, k <= i PROVE close[k] <= i
    <2>1. k # i
        BY DEF Blocks
    <2>2. k \in Nat /\ close[k] \in Nat
        BY Block
    <2> SUFFICES ASSUME i < close[k] PROVE FALSE
        BY <1>1, <2>2
    <2>3. k \in LoopsAt(close, i)
        BY <1>1, <1>3, <2>1, <2>2 DEF LoopsAt
    <2> QED  BY <1>1, <1>3, <2>2, <2>3 DEF LoopAt
<1> QED  BY <1>1, <1>2, <1>3 DEF Clear

\* cmd_break_loop() and cmd_continue() find the end of the innermost loop.
LEMMA EndOfLoopIs ==
    ASSUME program \in Programs, NEW close, NEW sub, Nested(close), Divided(close, sub),
           NEW i \in DOMAIN program, Op(i) \in {"break_loop", "continue"},
           NEW o, LoopAt(close, i, o)
    PROVE  EndOfLoop(i) = close[o]
<1> DEFINE Found(j) == \/ Op(j) = "next" /\ Level0(i, j, "for", "next")
                       \/ Op(j) = "end_while" /\ Level0(i, j, "while", "end_while")
                       \/ Op(j) \in {"label", "end"}
           S == {j \in Lines : j > i /\ (Found(j) \/ Op(j) = "null")}
<1>1. EndOfLoop(i) = Min(S)
    BY DEF EndOfLoop, Scan
<1>2. o \in Blocks /\ Op(o) \in {"while", "for"} /\ o < i /\ i \in Nat /\ o \in Nat
    BY LoopBlock, Text DEF LoopAt
<1>3. ~Opens(i) /\ ~Closes(i)
    BY DEF Opens, Closes
<1>4. Clear(close, {"while"}, o, i) /\ Clear(close, {"for"}, o, i)
    BY <1>3, LoopClear
<1>5. close[o] \in Nat /\ close[o] \in Lines /\ i < close[o]
    BY <1>2, <1>4, Block DEF Clear
<1>6. Found(close[o])
    <2>1. CASE Op(o) = "while"
        BY <1>2, <1>4, <2>1, AtLevel, Block, ClosingIs
    <2>2. CASE Op(o) = "for"
        BY <1>2, <1>4, <2>2, AtLevel, Block, ClosingIs
    <2> QED  BY <1>2, <2>1, <2>2
<1>7. close[o] \in S
    BY <1>5, <1>6
<1>8. ASSUME NEW j \in S PROVE close[o] <= j
    <2>1. j \in Lines /\ j > i /\ j \in Nat
        BY Text
    <2> SUFFICES ASSUME j < close[o] PROVE FALSE
        BY <1>5, <2>1
    <2>2. j \in DOMAIN program /\ Op(j) # "null"
        BY <1>2, <2>1, BeforeEnd
    <2>3. Op(j) \notin {"label", "end"}
        BY <1>2, <1>5, <2>1, LoopHoldsNone
    <2>4. Found(j)
        BY <2>2
    <2>5. ~(Op(j) = "next" /\ Level0(i, j, "for", "next"))
        BY <1>4, <2>1, <2>2, NotAtLevel, ClosingIs
    <2>6. ~(Op(j) = "end_while" /\ Level0(i, j, "while", "end_while"))
        BY <1>4, <2>1, <2>2, NotAtLevel, ClosingIs
    <2> QED  BY <2>3, <2>4, <2>5, <2>6
<1>9. S \in SUBSET Int
    BY Text
<1> HIDE DEF S
<1> QED  BY <1>1, <1>7, <1>8, <1>9, MinIs

-----------------------------------------------------------------------------
(* The stack of a run. *)

\* Two statements in the same loops and the same subroutine have the same frames.
LEMMA FitsSame ==
    ASSUME NEW close, NEW sub, NEW i, NEW j, NEW s, Fits(close, sub, i, s),
           LoopsAt(close, j) = LoopsAt(close, i), sub[j] = sub[i]
    PROVE  Fits(close, sub, j, s)
<1>1. On(close, sub, j, s, Len(s))
    BY DEF Fits, On, LoopAt
<1> QED  BY <1>1 DEF Fits

\* The innermost loop is one statement.
LEMMA LoopIsOne ==
    ASSUME program \in Programs, NEW close, Nested(close), NEW i, NEW o, NEW p,
           LoopAt(close, i, o), LoopAt(close, i, p)
    PROVE  o = p
<1>1. o \in Nat /\ p \in Nat
    BY LoopBlock DEF LoopAt
<1>2. o <= p /\ p <= o
    BY DEF LoopAt
<1> QED  BY <1>1, <1>2

\* What the topmost frame is, in a loop and in a subroutine.
LEMMA TopLoop ==
    ASSUME program \in Programs, NEW close, NEW sub, Nested(close), NEW i,
           NEW s \in Seq(Frame), Fits(close, sub, i, s), NEW o, LoopAt(close, i, o)
    PROVE  /\ Len(s) \in Nat \ {0} /\ Len(s) \in DOMAIN s /\ s[Len(s)] \in Frame
           /\ s[Len(s)].start = o /\ s[Len(s)].kind = Op(o)
<1>1. LoopsAt(close, i) # {}
    BY DEF LoopAt
<1>2. Len(s) > 0 /\ LoopAt(close, i, s[Len(s)].start)
    BY <1>1 DEF Fits, On
<1>3. s[Len(s)].start = o
    BY <1>2, LoopIsOne
<1>4. Len(s) \in Nat \ {0} /\ Len(s) \in DOMAIN s /\ s[Len(s)] \in Frame
    BY <1>2, ElementOfSeq
<1>5. s[Len(s)].kind = Op(o)
    BY <1>3, <1>4 DEF Fits
<1> QED  BY <1>3, <1>4, <1>5

\* In a subroutine and out of loops the topmost frame is that of a gosub.
LEMMA TopCall ==
    ASSUME NEW close, NEW sub, NEW i, NEW s \in Seq(Frame), Fits(close, sub, i, s),
           LoopsAt(close, i) = {}, sub[i]
    PROVE  /\ Len(s) \in Nat \ {0} /\ Len(s) \in DOMAIN s /\ s[Len(s)] \in Frame
           /\ s[Len(s)].kind = "gosub" /\ Op(s[Len(s)].start) = "gosub"
           /\ s[Len(s)].start \in DOMAIN program
<1>1. Len(s) > 0 /\ s[Len(s)].kind = "gosub"
    BY DEF Fits, On, LoopAt
<1>2. Len(s) \in Nat \ {0} /\ Len(s) \in DOMAIN s /\ s[Len(s)] \in Frame
    BY <1>1, ElementOfSeq
<1>3. Op(s[Len(s)].start) = "gosub" /\ s[Len(s)].start \in DOMAIN program
    BY <1>1, <1>2 DEF Fits
<1> QED  BY <1>1, <1>2, <1>3

\* Out of loops and subroutines there is no frame.
LEMMA TopNone ==
    ASSUME NEW close, NEW sub, NEW i, NEW s \in Seq(Frame), Fits(close, sub, i, s),
           LoopsAt(close, i) = {}, ~sub[i]
    PROVE  s = <<>>
<1>1. Len(s) = 0
    BY DEF Fits, On, LoopAt
<1> QED  BY <1>1, EmptySeq

\* A frame that is pushed fits where it opens a loop or a subroutine.
LEMMA FitsPush ==
    ASSUME NEW close, NEW sub, NEW i \in DOMAIN program, NEW j, NEW s \in Seq(Frame),
           Fits(close, sub, i, s), NEW f \in Frame, f.start = i, f.kind = Op(i),
           \/ f.kind = "gosub" /\ LoopsAt(close, j) = {} /\ sub[j]
           \/ f.kind # "gosub" /\ LoopAt(close, j, i)
    PROVE  Fits(close, sub, j, Append(s, f))
<1> DEFINE t == Append(s, f)
           n == Len(s)
<1>1. t \in Seq(Frame) /\ Len(t) = n + 1 /\ n \in Nat /\ t[n + 1] = f
      /\ \A k \in 1..n : t[k] = s[k]
    BY AppendProperties
<1>2. DOMAIN t = 1..(n + 1) /\ DOMAIN s = 1..n
    BY <1>1
<1> HIDE DEF t, n
<1>3. On(close, sub, j, t, n + 1)
    BY <1>1 DEF On
<1>4. ASSUME NEW k \in DOMAIN t
      PROVE  /\ t[k].start \in DOMAIN program /\ Op(t[k].start) = t[k].kind
             /\ On(close, sub, t[k].start, t, k - 1)
    <2>1. CASE k \in 1..n
        <3>1. t[k] = s[k] /\ (k - 1 > 0 => t[k - 1] = s[k - 1])
            BY <1>1, <2>1
        <3>2. /\ s[k].start \in DOMAIN program /\ Op(s[k].start) = s[k].kind
              /\ On(close, sub, s[k].start, s, k - 1)
            BY <1>2, <2>1 DEF Fits
        <3> QED  BY <3>1, <3>2 DEF On
    <2>2. CASE k = n + 1
        <3>1. On(close, sub, i, s, n)
            BY DEF Fits, n
        <3>2. n > 0 => t[n] = s[n]
            BY <1>1
        <3>3. On(close, sub, i, t, n)
            BY <3>1, <3>2 DEF On
        <3>4. k - 1 = n
            BY <1>1, <2>2
        <3> QED  BY <1>1, <2>2, <3>3, <3>4
    <2> QED  BY <1>1, <1>2, <2>1, <2>2
<1> QED  BY <1>1, <1>3, <1>4 DEF Fits, t

\* Without its topmost frame the stack fits where that frame is from, and
\* wherever the same loops and subroutine are around.
LEMMA FitsPop ==
    ASSUME NEW close, NEW sub, NEW i, NEW j, NEW s \in Seq(Frame), Fits(close, sub, i, s),
           Len(s) \in Nat \ {0}, LoopsAt(close, j) = LoopsAt(close, s[Len(s)].start),
           sub[j] = sub[s[Len(s)].start]
    PROVE  /\ SubSeq(s, 1, Len(s) - 1) \in Seq(Frame)
           /\ Fits(close, sub, j, SubSeq(s, 1, Len(s) - 1))
<1> DEFINE n == Len(s)
           t == SubSeq(s, 1, n - 1)
<1>1. t \in Seq(Frame) /\ Len(t) = n - 1 /\ DOMAIN t = 1..(n - 1) /\ DOMAIN s = 1..n
      /\ \A k \in 1..(n - 1) : t[k] = s[k]
    <2>1. n \in Nat \ {0} /\ s \in Seq(Frame)
        OBVIOUS
    <2>2. DOMAIN s = 1..n
        OBVIOUS
    <2>3. t \in Seq(Frame)
        OBVIOUS
    <2>4. \A k \in 1..(n - 1) : s[k] \in Frame
        OBVIOUS
    <2> HIDE DEF n
    <2>5. /\ Len(t) = IF 1 <= n - 1 THEN (n - 1) - 1 + 1 ELSE 0
          /\ \A k \in 1..((n - 1) - 1 + 1) : t[k] = s[1 + k - 1]
        BY <2>1, <2>4, SubSeqProperties
    <2>6. Len(t) = n - 1 /\ \A k \in 1..(n - 1) : t[k] = s[k]
        BY <2>1, <2>5
    <2>7. DOMAIN t = 1..(n - 1)
        BY <2>3, <2>6
    <2> QED  BY <2>2, <2>3, <2>6, <2>7
<1>2. n \in DOMAIN s
    BY <1>1
<1>3. On(close, sub, s[n].start, s, n - 1)
    BY <1>2 DEF Fits
<1> HIDE DEF n, t
<1>4. n \in Nat \ {0}
    BY DEF n
<1>5. On(close, sub, j, t, n - 1)
    <2>1. n - 1 > 0 => t[n - 1] = s[n - 1]
        BY <1>1, <1>4
    <2>2. LoopsAt(close, j) = LoopsAt(close, s[n].start) /\ sub[j] = sub[s[n].start]
        BY DEF n
    <2> QED  BY <1>3, <2>1, <2>2 DEF On, LoopAt
<1>6. ASSUME NEW k \in DOMAIN t
      PROVE  /\ t[k].start \in DOMAIN program /\ Op(t[k].start) = t[k].kind
             /\ On(close, sub, t[k].start, t, k - 1)
    <2>1. k \in 1..(n - 1) /\ k \in DOMAIN s
        BY <1>1, <1>4
    <2>2. t[k] = s[k] /\ (k - 1 > 0 => t[k - 1] = s[k - 1])
        BY <1>1, <2>1
    <2>3. /\ s[k].start \in DOMAIN program /\ Op(s[k].start) = s[k].kind
          /\ On(close, sub, s[k].start, s, k - 1)
        BY <2>1 DEF Fits
    <2> QED  BY <2>2, <2>3 DEF On
<1> QED  BY <1>1, <1>5, <1>6 DEF Fits, n, t

-----------------------------------------------------------------------------
(* The levels that the frames have counted. *)

\* How many frames of a kind there are is a number.
LEMMA RankType == ASSUME NEW kind, NEW t, NEW k \in Nat PROVE Rank(kind, t, k) \in Nat
<1> DEFINE S == {m \in 1..k : t[m].kind = kind}
<1>1. IsFiniteSet(1..k)
    BY FS_Interval
<1>2. IsFiniteSet(S)
    BY <1>1, FS_Subset
<1> QED  BY <1>2, FS_CardinalityType DEF Rank

\* It does not fall from one frame to the next.
LEMMA RankGrows ==
    ASSUME NEW kind, NEW t, NEW k \in Nat, NEW j \in Nat, j <= k
    PROVE  Rank(kind, t, j) <= Rank(kind, t, k)
<1> DEFINE S == {m \in 1..k : t[m].kind = kind}
           T == {m \in 1..j : t[m].kind = kind}
<1>1. IsFiniteSet(1..k)
    BY FS_Interval
<1>2. IsFiniteSet(S)
    BY <1>1, FS_Subset
<1>3. T \in SUBSET S
    OBVIOUS
<1>4. Cardinality(T) <= Cardinality(S)
    BY <1>2, <1>3, FS_Subset
<1> QED  BY <1>4 DEF Rank

\* It grows by one with a frame of the kind.
LEMMA RankStep ==
    ASSUME NEW kind, NEW t, NEW k \in Nat
    PROVE  Rank(kind, t, k + 1) =
             IF t[k + 1].kind = kind THEN Rank(kind, t, k) + 1 ELSE Rank(kind, t, k)
<1> DEFINE S == {m \in 1..k : t[m].kind = kind}
           T == {m \in 1..(k + 1) : t[m].kind = kind}
<1>1. IsFiniteSet(1..k)
    BY FS_Interval
<1>2. IsFiniteSet(S)
    BY <1>1, FS_Subset
<1>3. CASE t[k + 1].kind = kind
    <2>1. T = S \cup {k + 1} /\ k + 1 \notin S
        BY <1>3
    <2>2. Cardinality(T) = Cardinality(S) + 1
        BY <1>2, <2>1, FS_AddElement
    <2> QED  BY <1>3, <2>2 DEF Rank
<1>4. CASE t[k + 1].kind # kind
    <2>1. T = S
        BY <1>4
    <2> QED  BY <1>4, <2>1 DEF Rank
<1> QED  BY <1>3, <1>4

\* It depends on the frames up to k only.
LEMMA RankSame ==
    ASSUME NEW kind, NEW t, NEW u, NEW k \in Nat, \A m \in 1..k : t[m] = u[m]
    PROVE  Rank(kind, t, k) = Rank(kind, u, k)
<1>1. {m \in 1..k : t[m].kind = kind} = {m \in 1..k : u[m].kind = kind}
    OBVIOUS
<1> QED  BY <1>1 DEF Rank

\* The level of a frame f that is counted last
LastLevel(f, g, w, n, R, W, F) ==
    /\ f.kind = "gosub" => g \in DOMAIN R /\ R[g] = f.start + 1
    /\ f.kind = "while" => w \in DOMAIN W /\ W[w] = f.start
    /\ f.kind = "for" => n \in DOMAIN F /\ F[n] = [at |-> f.start + 1, to |-> f.to]

\* A frame on top adds one to the count of its kind and has that level.
LEMMA CountedAppend ==
    ASSUME NEW t \in Seq(Frame), NEW f \in Frame, NEW g, NEW w, NEW n, NEW R, NEW W, NEW F
    PROVE  Counted(Append(t, f), g, w, n, R, W, F) <=>
             /\ g = IF f.kind = "gosub" THEN Rank("gosub", t, Len(t)) + 1
                    ELSE Rank("gosub", t, Len(t))
             /\ w = IF f.kind = "while" THEN Rank("while", t, Len(t)) + 1
                    ELSE Rank("while", t, Len(t))
             /\ n = IF f.kind = "for" THEN Rank("for", t, Len(t)) + 1
                    ELSE Rank("for", t, Len(t))
             /\ LastLevel(f, g, w, n, R, W, F)
             /\ \A k \in DOMAIN t : OwnLevel(t, k, R, W, F)
<1> DEFINE u == Append(t, f)
           l == Len(t)
<1>1. u \in Seq(Frame) /\ Len(u) = l + 1 /\ l \in Nat /\ u[l + 1] = f
      /\ \A k \in 1..l : u[k] = t[k]
    BY AppendProperties
<1>2. DOMAIN u = 1..(l + 1) /\ DOMAIN t = 1..l
    BY <1>1
<1> HIDE DEF u, l
<1>3. ASSUME NEW kind PROVE /\ \A k \in 1..l : Rank(kind, u, k) = Rank(kind, t, k)
                           /\ Rank(kind, u, l) = Rank(kind, t, l)
    <2>1. ASSUME NEW k \in 0..l PROVE Rank(kind, u, k) = Rank(kind, t, k)
        <3>1. k \in Nat /\ \A m \in 1..k : u[m] = t[m]
            BY <1>1
        <3> QED  BY <3>1, RankSame
    <2> QED  BY <1>1, <2>1
<1>4. ASSUME NEW kind
      PROVE  Rank(kind, u, l + 1) =
               IF f.kind = kind THEN Rank(kind, t, l) + 1 ELSE Rank(kind, t, l)
    BY <1>1, <1>3, RankStep
<1>5. \A k \in DOMAIN t : OwnLevel(u, k, R, W, F) <=> OwnLevel(t, k, R, W, F)
    <2> SUFFICES ASSUME NEW k \in DOMAIN t
                 PROVE  OwnLevel(u, k, R, W, F) <=> OwnLevel(t, k, R, W, F)
        OBVIOUS
    <2>1. u[k] = t[k]
        BY <1>1, <1>2
    <2>2. /\ Rank("gosub", u, k) = Rank("gosub", t, k)
          /\ Rank("while", u, k) = Rank("while", t, k)
          /\ Rank("for", u, k) = Rank("for", t, k)
        BY <1>2, <1>3
    <2> QED  BY ONLY <2>1, <2>2 DEF OwnLevel
<1>6. ASSUME g = Rank("gosub", u, l + 1), w = Rank("while", u, l + 1), n = Rank("for", u, l + 1)
      PROVE  OwnLevel(u, l + 1, R, W, F) <=> LastLevel(f, g, w, n, R, W, F)
    BY <1>1, <1>6 DEF OwnLevel, LastLevel
<1>7. (\A k \in DOMAIN u : OwnLevel(u, k, R, W, F)) <=>
        OwnLevel(u, l + 1, R, W, F) /\ \A k \in DOMAIN t : OwnLevel(u, k, R, W, F)
    <2>1. \A k : k \in DOMAIN u <=> k \in DOMAIN t \/ k = l + 1
        BY <1>1, <1>2
    <2> QED  BY <2>1
<1>8. Counted(u, g, w, n, R, W, F) <=>
        /\ g = Rank("gosub", u, l + 1) /\ w = Rank("while", u, l + 1)
        /\ n = Rank("for", u, l + 1) /\ LastLevel(f, g, w, n, R, W, F)
        /\ \A k \in DOMAIN t : OwnLevel(t, k, R, W, F)
    BY <1>1, <1>5, <1>6, <1>7 DEF Counted
<1> QED  BY <1>4, <1>8 DEF u, l

\* The counters of counted frames are numbers.
LEMMA CountedType ==
    ASSUME NEW t \in Seq(Frame), NEW g, NEW w, NEW n, NEW R, NEW W, NEW F,
           Counted(t, g, w, n, R, W, F)
    PROVE  g \in Nat /\ w \in Nat /\ n \in Nat
<1>1. Len(t) \in Nat
    OBVIOUS
<1> QED  BY <1>1, RankType DEF Counted

\* R and Q agree on the levels up to g
Agree(R, Q, g) == \A m \in DOMAIN R : m <= g => m \in DOMAIN Q /\ Q[m] = R[m]

\* Levels that are not counted do not matter.
LEMMA CountedKept ==
    ASSUME NEW t \in Seq(Frame), NEW g, NEW w, NEW n, NEW R, NEW W, NEW F, NEW Q, NEW V, NEW E,
           Counted(t, g, w, n, R, W, F), Agree(R, Q, g), Agree(W, V, w), Agree(F, E, n)
    PROVE  Counted(t, g, w, n, Q, V, E)
<1> SUFFICES ASSUME NEW k \in DOMAIN t PROVE OwnLevel(t, k, Q, V, E)
    BY DEF Counted
<1>1. k \in Nat /\ Len(t) \in Nat /\ k <= Len(t)
    OBVIOUS
<1>2. /\ Rank("gosub", t, k) <= g /\ Rank("while", t, k) <= w /\ Rank("for", t, k) <= n
    BY <1>1, RankGrows DEF Counted
<1>3. OwnLevel(t, k, R, W, F)
    BY DEF Counted
<1> QED  BY <1>2, <1>3 DEF OwnLevel, Agree

\* variable_put() of the next level leaves the levels below alone.
LEMMA PutAgrees ==
    ASSUME NEW R, NEW g \in Int, NEW x
    PROVE  /\ Agree(R, variable_put(R, g + 1, x), g)
           /\ g + 1 \in DOMAIN variable_put(R, g + 1, x)
           /\ variable_put(R, g + 1, x)[g + 1] = x
<1>2. ASSUME NEW m \in DOMAIN R, m <= g
      PROVE  m \in DOMAIN variable_put(R, g + 1, x) /\ variable_put(R, g + 1, x)[m] = R[m]
    <2>1. m # g + 1
        <3>1. ~(g + 1 <= g)
            OBVIOUS
        <3> QED  BY <1>2, <3>1
    <2> QED  BY <2>1 DEF variable_put
<1>3. g + 1 \in DOMAIN variable_put(R, g + 1, x) /\ variable_put(R, g + 1, x)[g + 1] = x
    BY DEF variable_put
<1> QED  BY <1>2, <1>3 DEF Agree

\* A call, and the start of a loop, counts a level and sets its variable.
LEMMA CountedCall ==
    ASSUME NEW t \in Seq(Frame), NEW f \in Frame, f.kind = "gosub",
           NEW g, NEW w, NEW n, NEW R, NEW W, NEW F, Counted(t, g, w, n, R, W, F)
    PROVE  Counted(Append(t, f), g + 1, w, n, variable_put(R, g + 1, f.start + 1), W, F)
<1> DEFINE Q == variable_put(R, g + 1, f.start + 1)
<1>1. g \in Nat /\ w \in Nat /\ n \in Nat
    BY CountedType
<1>2. Agree(R, Q, g) /\ Agree(W, W, w) /\ Agree(F, F, n)
      /\ g + 1 \in DOMAIN Q /\ Q[g + 1] = f.start + 1
    <2>1. Agree(W, W, w) /\ Agree(F, F, n)
        BY DEF Agree
    <2>2. Agree(R, Q, g) /\ g + 1 \in DOMAIN Q
        BY <1>1, PutAgrees
    <2>3. Q[g + 1] = f.start + 1
        BY <1>1, PutAgrees
    <2> QED  BY <2>1, <2>2, <2>3
<1> HIDE DEF Q
<1>3. Counted(t, g, w, n, Q, W, F)
    BY <1>2, CountedKept
<1>4. LastLevel(f, g + 1, w, n, Q, W, F)
    BY <1>2 DEF LastLevel
<1>5. Counted(Append(t, f), g + 1, w, n, Q, W, F)
    BY <1>3, <1>4, CountedAppend DEF Counted
<1> QED  BY <1>5 DEF Q

\* A while counts its frame.
LEMMA CountedWhile ==
    ASSUME NEW t \in Seq(Frame), NEW f \in Frame, f.kind = "while",
           NEW g, NEW w, NEW n, NEW R, NEW W, NEW F, Counted(t, g, w, n, R, W, F)
    PROVE  Counted(Append(t, f), g, w + 1, n, R, variable_put(W, w + 1, f.start), F)
<1> DEFINE V == variable_put(W, w + 1, f.start)
<1>1. g \in Nat /\ w \in Nat /\ n \in Nat
    BY CountedType
<1>2. Agree(R, R, g) /\ Agree(W, V, w) /\ Agree(F, F, n)
      /\ w + 1 \in DOMAIN V /\ V[w + 1] = f.start
    <2>1. Agree(R, R, g) /\ Agree(F, F, n)
        BY DEF Agree
    <2>2. Agree(W, V, w) /\ w + 1 \in DOMAIN V
        BY <1>1, PutAgrees
    <2>3. V[w + 1] = f.start
        BY <1>1, PutAgrees
    <2> QED  BY <2>1, <2>2, <2>3
<1> HIDE DEF V
<1>3. Counted(t, g, w, n, R, V, F)
    BY <1>2, CountedKept
<1>4. LastLevel(f, g, w + 1, n, R, V, F)
    BY <1>2 DEF LastLevel
<1>5. Counted(Append(t, f), g, w + 1, n, R, V, F)
    BY <1>3, <1>4, CountedAppend DEF Counted
<1> QED  BY <1>5 DEF V

\* A for counts its frame.
LEMMA CountedFor ==
    ASSUME NEW t \in Seq(Frame), NEW f \in Frame, f.kind = "for",
           NEW g, NEW w, NEW n, NEW R, NEW W, NEW F, Counted(t, g, w, n, R, W, F)
    PROVE  Counted(Append(t, f), g, w, n + 1, R, W,
                   variable_put(F, n + 1, [at |-> f.start + 1, to |-> f.to]))
<1> DEFINE E == variable_put(F, n + 1, [at |-> f.start + 1, to |-> f.to])
<1>1. g \in Nat /\ w \in Nat /\ n \in Nat
    BY CountedType
<1>2. Agree(R, R, g) /\ Agree(W, W, w) /\ Agree(F, E, n)
      /\ n + 1 \in DOMAIN E /\ E[n + 1] = [at |-> f.start + 1, to |-> f.to]
    <2>1. Agree(R, R, g) /\ Agree(W, W, w)
        BY DEF Agree
    <2>2. Agree(F, E, n) /\ n + 1 \in DOMAIN E
        BY <1>1, PutAgrees
    <2>3. E[n + 1] = [at |-> f.start + 1, to |-> f.to]
        BY <1>1, PutAgrees
    <2> QED  BY <2>1, <2>2, <2>3
<1> HIDE DEF E
<1>3. Counted(t, g, w, n, R, W, E)
    BY <1>2, CountedKept
<1>4. LastLevel(f, g, w, n + 1, R, W, E)
    BY <1>2 DEF LastLevel
<1>5. Counted(Append(t, f), g, w, n + 1, R, W, E)
    BY <1>3, <1>4, CountedAppend DEF Counted
<1> QED  BY <1>5 DEF E

\* The topmost frame has the last level of its kind; without it one is left less.
LEMMA CountedTop ==
    ASSUME NEW t \in Seq(Frame), NEW f \in Frame, NEW g, NEW w, NEW n, NEW R, NEW W, NEW F,
           Counted(Append(t, f), g, w, n, R, W, F)
    PROVE  /\ LastLevel(f, g, w, n, R, W, F)
           /\ g \in Nat /\ w \in Nat /\ n \in Nat
           /\ f.kind = "gosub" => g >= 1 /\ Counted(t, g - 1, w, n, R, W, F)
           /\ f.kind = "while" => w >= 1 /\ Counted(t, g, w - 1, n, R, W, F)
           /\ f.kind = "for" => n >= 1 /\ Counted(t, g, w, n - 1, R, W, F)
<1> DEFINE a == Rank("gosub", t, Len(t))
           b == Rank("while", t, Len(t))
           c == Rank("for", t, Len(t))
<1>1. a \in Nat /\ b \in Nat /\ c \in Nat
    <2>1. Len(t) \in Nat
        OBVIOUS
    <2> QED  BY <2>1, RankType
<1>2. /\ g = (IF f.kind = "gosub" THEN a + 1 ELSE a)
      /\ w = (IF f.kind = "while" THEN b + 1 ELSE b)
      /\ n = (IF f.kind = "for" THEN c + 1 ELSE c)
      /\ LastLevel(f, g, w, n, R, W, F)
      /\ \A k \in DOMAIN t : OwnLevel(t, k, R, W, F)
    BY CountedAppend
<1>3. Counted(t, a, b, c, R, W, F)
    BY <1>2 DEF Counted
<1> HIDE DEF a, b, c
<1>4. g \in Nat /\ w \in Nat /\ n \in Nat
    BY <1>1, <1>2
<1>5. f.kind = "gosub" => g = a + 1 /\ w = b /\ n = c
    BY <1>2
<1>6. f.kind = "while" => g = a /\ w = b + 1 /\ n = c
    BY <1>2
<1>7. f.kind = "for" => g = a /\ w = b /\ n = c + 1
    BY <1>2
<1>8. f.kind = "gosub" => g >= 1 /\ Counted(t, g - 1, w, n, R, W, F)
    <2>1. f.kind = "gosub" => g - 1 = a /\ w = b /\ n = c /\ g >= 1
        BY <1>1, <1>5
    <2> QED  BY <1>3, <2>1
<1>9. f.kind = "while" => w >= 1 /\ Counted(t, g, w - 1, n, R, W, F)
    <2>1. f.kind = "while" => g = a /\ w - 1 = b /\ n = c /\ w >= 1
        BY <1>1, <1>6
    <2> QED  BY <1>3, <2>1
<1>10. f.kind = "for" => n >= 1 /\ Counted(t, g, w, n - 1, R, W, F)
    <2>1. f.kind = "for" => g = a /\ w = b /\ n - 1 = c /\ n >= 1
        BY <1>1, <1>7
    <2> QED  BY <1>3, <2>1
<1> QED  BY <1>2, <1>4, <1>8, <1>9, <1>10

\* The frames of two runs, with one more on top and without the topmost.
LEMMA OnTop ==
    ASSUME NEW b \in Seq(Frame), NEW s \in Seq(Frame), NEW f \in Frame
    PROVE  b \o Append(s, f) = Append(b \o s, f)
<1>1. Append(s, f) = s \o <<f>> /\ Append(b \o s, f) = (b \o s) \o <<f>>
    BY AppendIsConcat, ConcatProperties
<1>2. <<f>> \in Seq(Frame)
    OBVIOUS
<1> QED  BY <1>1, <1>2, ConcatAssociative

\* A stack is its topmost frame on the frames below it.
LEMMA TopOff ==
    ASSUME NEW s \in Seq(Frame), Len(s) \in Nat \ {0}
    PROVE  s = Append(SubSeq(s, 1, Len(s) - 1), s[Len(s)])
<1> DEFINE n == Len(s)
           t == SubSeq(s, 1, n - 1)
<1>1. n \in Nat \ {0} /\ s \in Seq(Frame) /\ DOMAIN s = 1..n
    OBVIOUS
<1>2. \A k \in 1..(n - 1) : s[k] \in Frame
    OBVIOUS
<1>3. s[n] \in Frame
    OBVIOUS
<1>4. n = Len(s)
    OBVIOUS
<1> HIDE DEF n
<1>5. /\ t \in Seq(Frame) /\ Len(t) = IF 1 <= n - 1 THEN (n - 1) - 1 + 1 ELSE 0
      /\ \A k \in 1..((n - 1) - 1 + 1) : t[k] = s[1 + k - 1]
    BY <1>1, <1>2, SubSeqProperties
<1>6. Len(t) = n - 1 /\ \A k \in 1..(n - 1) : t[k] = s[k]
    BY <1>1, <1>5
<1>7. t \in Seq(Frame)
    BY <1>5
<1> HIDE DEF t
<1> DEFINE u == Append(t, s[n])
<1>8. /\ u \in Seq(Frame) /\ Len(u) = Len(t) + 1 /\ u[Len(t) + 1] = s[n]
      /\ \A i \in 1..Len(t) : u[i] = t[i]
    BY <1>3, <1>7, AppendProperties
<1> HIDE DEF u
<1>9. Len(u) = n /\ \A k \in 1..n : u[k] = s[k]
    <2>1. Len(u) = n /\ u[n] = s[n] /\ \A k \in 1..(n - 1) : u[k] = s[k]
        BY <1>1, <1>6, <1>8
    <2> QED  BY <1>1, <2>1
<1>10. u = s
    BY <1>1, <1>4, <1>8, <1>9, SeqEqual
<1> QED  BY <1>10 DEF u, t, n

-----------------------------------------------------------------------------
(* Steps of the run that is executed. *)

\* The frames of the run aside are frames.
LEMMA AsideType ==
    ASSUME NEW close, NEW sub, NEW b, Aside(close, sub, b)
    PROVE  b \in Seq(Frame)
<1>1. CASE b = <<>>
    BY <1>1
<1>2. CASE \E w : GoodRun(close, sub, w) /\ b = w.ref.stack
    <2>1. PICK w : w \in Run /\ b = w.ref.stack
        BY <1>2 DEF GoodRun
    <2>2. w.ref \in Place
        BY <2>1 DEF Run
    <2> QED  BY <2>1, <2>2 DEF Place
<1> QED  BY <1>1, <1>2 DEF Aside

\* What is known while a statement is executed.
LEMMA RunFacts ==
    ASSUME NEW close, NEW sub, NEW b, StepInv(close, sub, b), mode = "run"
    PROVE  /\ program \in Programs /\ Nested(close) /\ Divided(close, sub)
           /\ val \in [Vars -> Nat]
           /\ idx \in Lines /\ idx \in Nat /\ ref \in Place /\ ref.at = idx
           /\ ref.stack \in Seq(Frame) /\ b \in Seq(Frame) /\ b \o ref.stack \in Seq(Frame)
           /\ Fits(close, sub, idx, ref.stack)
           /\ Counted(b \o ref.stack, nest, while_nest, for_nest, RETURN, WHILE, FOR)
<1>1. program \in Programs /\ Nested(close) /\ Divided(close, sub) /\ Aside(close, sub, b)
      /\ Running(close, sub, b) /\ val \in [Vars -> Nat]
    BY DEF StepInv, Accounts
<1>2. idx \in Lines /\ ref \in Place /\ ref.at = idx /\ Fits(close, sub, idx, ref.stack)
      /\ Counted(b \o ref.stack, nest, while_nest, for_nest, RETURN, WHILE, FOR)
    BY <1>1 DEF Running, Levels
<1>3. ref.stack \in Seq(Frame)
    BY <1>2 DEF Place
<1>4. b \in Seq(Frame)
    BY <1>1, AsideType
<1>5. b \o ref.stack \in Seq(Frame)
    BY <1>3, <1>4, ConcatProperties
<1>6. idx \in Nat
    BY <1>1, <1>2, Text
<1> QED  BY <1>1, <1>2, <1>3, <1>4, <1>5, <1>6

\* The statement that is executed is one of the program.
LEMMA Executed ==
    ASSUME NEW close, NEW sub, NEW b, StepInv(close, sub, b), NEW op, op # "null", Executes(op)
    PROVE  /\ mode = "run" /\ idx \in DOMAIN program /\ Op(idx) = op /\ idx + 1 \in Lines
           /\ Arg \in Nat /\ Arg = program[idx].arg
<1>1. mode = "run" /\ Op(idx) = op
    BY DEF Executes
<1>2. program \in Programs /\ idx \in Lines
    BY <1>1, RunFacts
<1>3. idx \in DOMAIN program
    BY <1>1, <1>2, Text
<1> QED  BY <1>1, <1>2, <1>3, Text DEF Arg

\* The program and what is known of its text do not change.
LEMMA TextStays ==
    ASSUME NEW close, NEW sub, program \in Programs, Nested(close), Divided(close, sub),
           program' = program
    PROVE  (program \in Programs)' /\ Nested(close)' /\ Divided(close, sub)'
<1>1. Nested(close)'
    BY DEF Nested, Blocks, Opens, Closes, Op
<1>2. Divided(close, sub)'
    BY DEF Divided, JumpsTo, LoopsAt, LoopAt, InIf, Blocks, Opens, Op, Lines
<1> QED  BY <1>1, <1>2

\* Neither does what is known of the runs aside, when they stay.
LEMMA FitsStays ==
    ASSUME NEW close, NEW sub, NEW i, NEW s, program' = program, Fits(close, sub, i, s)
    PROVE  Fits(close, sub, i, s)'
BY DEF Fits, On, LoopsAt, LoopAt, Blocks, Opens, Op

LEMMA GoodRunStays ==
    ASSUME NEW close, NEW sub, NEW w, program' = program, GoodRun(close, sub, w)
    PROVE  GoodRun(close, sub, w)'
<1>1. Fits(close, sub, w.idx, w.ref.stack)'
    BY FitsStays DEF GoodRun
<1> QED  BY <1>1 DEF GoodRun, Lines

LEMMA AsideStays ==
    ASSUME NEW close, NEW sub, NEW b, program' = program, UNCHANGED <<outer, waiting>>,
           Aside(close, sub, b)
    PROVE  Aside(close, sub, b)'
<1>1. CASE outer = <<>> /\ waiting = {} /\ b = <<>>
    BY <1>1 DEF Aside
<1>2. CASE ~(outer = <<>> /\ waiting = {} /\ b = <<>>)
    <2>1. PICK w \in waiting \cup {outer[k] : k \in DOMAIN outer} :
            /\ GoodRun(close, sub, w) /\ b = w.ref.stack
            /\ \/ outer = <<>> /\ waiting = {w}
               \/ outer = <<w>> /\ waiting = {}
        BY <1>2 DEF Aside
    <2>2. GoodRun(close, sub, w)'
        BY <2>1, GoodRunStays
    <2> QED  BY <2>1, <2>2 DEF Aside
<1> QED  BY <1>1, <1>2

\* What is to be shown of a statement that goes on with the run.
LEMMA RunsOn ==
    ASSUME NEW close, NEW sub, NEW b, StepInv(close, sub, b), mode = "run",
           program' = program, UNCHANGED context, val' = val \/ val' \in [Vars -> Nat],
           idx' \in Lines,
           NEW s \in Seq(Frame), GoesTo(idx', s), Fits(close, sub, idx', s),
           Counted(b \o s, nest', while_nest', for_nest', RETURN', WHILE', FOR')
    PROVE  StepInv(close, sub, b)'
<1>1. (program \in Programs)' /\ Nested(close)' /\ Divided(close, sub)' /\ Aside(close, sub, b)'
      /\ mode' = "run"
    BY RunFacts, TextStays, AsideStays DEF context, StepInv, Accounts
<1>2. ref' = [at |-> idx', stack |-> s]
    BY DEF GoesTo
<1>3. idx' \in Lines' /\ idx' \in Nat
    BY RunFacts, Text DEF Lines
<1>4. ref' \in Place /\ ref'.at = idx' /\ ref'.stack = s
    BY <1>2, <1>3 DEF Place
<1>5. Fits(close, sub, idx, ref.stack)'
    <2>1. PICK i : i = idx'
        OBVIOUS
    <2>2. idx' = i /\ ref'.stack = s /\ program' = program /\ Fits(close, sub, i, s)
        BY <1>4, <2>1
    <2> QED  BY ONLY <2>2 DEF Fits, On, LoopsAt, LoopAt, Blocks, Opens, Op
<1>6. Levels(b \o ref.stack)'
    BY <1>4 DEF Levels
<1>7. Running(close, sub, b)'
    BY <1>3, <1>4, <1>5, <1>6 DEF Running
<1>8. val' \in [Vars -> Nat]
    BY RunFacts
<1> QED  BY <1>1, <1>7, <1>8 DEF StepInv, Accounts

\* A statement that moves the program and its reference alike.
LEMMA MovesOn ==
    ASSUME NEW close, NEW sub, NEW b, StepInv(close, sub, b), mode = "run",
           NEW to \in Lines, Moves(to, to), LoopsAt(close, to) = LoopsAt(close, idx),
           sub[to] = sub[idx]
    PROVE  StepInv(close, sub, b)'
<1>1. /\ ref.stack \in Seq(Frame) /\ Fits(close, sub, idx, ref.stack)
      /\ Counted(b \o ref.stack, nest, while_nest, for_nest, RETURN, WHILE, FOR)
    BY RunFacts
<1>2. /\ program' = program /\ UNCHANGED context /\ idx' = to /\ GoesTo(idx', ref.stack)
      /\ UNCHANGED <<nest, while_nest, for_nest, RETURN, WHILE, FOR, val>>
    BY DEF Moves, Steps, GoesTo, levels
<1>3. Fits(close, sub, to, ref.stack)
    BY <1>1, FitsSame
<1> QED  BY <1>1, <1>2, <1>3, RunsOn

\* A statement behind which the same loops and the same subroutine are around.
LEMMA NextLine ==
    ASSUME program \in Programs, NEW close, NEW sub, Nested(close), Divided(close, sub),
           NEW i \in DOMAIN program,
           Op(i) \notin {"while", "for", "end_while", "next", "return", "label", "end", "goto"}
    PROVE  i + 1 \in Lines /\ LoopsAt(close, i + 1) = LoopsAt(close, i) /\ sub[i + 1] = sub[i]
<1>1. i + 1 \in Lines
    BY Text
<1>2. LoopsAt(close, i + 1) = LoopsAt(close, i)
    BY LoopsStay
<1>3. sub[i + 1] = sub[i]
    BY DEF Divided
<1> QED  BY <1>1, <1>2, <1>3

\* The statements that do not direct the program.
LEMMA PlainInStep ==
    ASSUME NEW close, NEW sub, NEW b, StepInv(close, sub, b),
           Plain \/ EndIf \/ NoError \/ Send
    PROVE  StepInv(close, sub, b)'
<1>1. PICK op \in {"plain", "end_if", "no_error", "send"} :
        Executes(op) /\ Moves(idx + 1, idx + 1)
    BY DEF Plain, EndIf, NoError, Send
<1>2. mode = "run" /\ idx \in DOMAIN program /\ Op(idx) = op
    BY <1>1, Executed
<1>3. program \in Programs /\ Nested(close) /\ Divided(close, sub)
    BY <1>2, RunFacts
<1>4. idx + 1 \in Lines /\ LoopsAt(close, idx + 1) = LoopsAt(close, idx)
      /\ sub[idx + 1] = sub[idx]
    BY <1>1, <1>2, <1>3, NextLine
<1> QED  BY <1>1, <1>2, <1>4, MovesOn

\* goto, and an error that is handled.
LEMMA JumpInStep ==
    ASSUME NEW close, NEW sub, NEW b, StepInv(close, sub, b), Goto \/ Handled
    PROVE  StepInv(close, sub, b)'
<1>1. PICK op \in {"goto", "fails"} :
        Executes(op) /\ Moves(Arg, Arg) /\ (op = "fails" => Arg # 0)
    BY DEF Goto, Handled
<1>2. mode = "run" /\ idx \in DOMAIN program /\ Op(idx) = op /\ Arg = program[idx].arg
    BY <1>1, Executed
<1>3. Divided(close, sub)
    BY <1>2, RunFacts
<1>4. Op(idx) = "goto" \/ (Op(idx) = "fails" /\ program[idx].arg # 0)
    BY <1>1, <1>2
<1>5. JumpsTo(close, sub, idx, program[idx].arg)
    BY <1>2, <1>3, <1>4 DEF Divided
<1> QED  BY <1>1, <1>2, <1>5, MovesOn DEF JumpsTo

\* All that divides an if has the loops and the subroutine of the if behind it.
LEMMA DividesLike ==
    ASSUME program \in Programs, NEW close, NEW sub, Nested(close), Divided(close, sub),
           NEW o \in Blocks, Op(o) = "if", NEW j \in Divides(close, o)
    PROVE  /\ j \in DOMAIN program /\ j + 1 \in Lines
           /\ LoopsAt(close, j) = LoopsAt(close, o) /\ LoopsAt(close, j + 1) = LoopsAt(close, o)
           /\ sub[j] = sub[o] /\ sub[j + 1] = sub[o]
<1>1. j \in DOMAIN program /\ Op(j) \in {"else", "else_if", "end_if"}
    BY Block, ClosingIs DEF Divides
<1>2. j + 1 \in Lines /\ LoopsAt(close, j + 1) = LoopsAt(close, j) /\ sub[j + 1] = sub[j]
    BY <1>1, NextLine
<1>3. o \in Nat /\ close[o] \in Nat /\ o < close[o] /\ j \in Nat
    BY <1>1, Block, Text
<1>4. o <= j /\ j <= close[o]
    BY <1>3 DEF Divides, InIf
<1>5. j \in o..(close[o] + 1)
    BY <1>3, <1>4
<1>6. sub[j] = sub[o]
    BY <1>5 DEF Divided
<1>7. LoopsAt(close, j) = LoopsAt(close, o)
    BY LoopsDivide
<1> QED  BY <1>1, <1>2, <1>6, <1>7

\* cmd_else() and cmd_else_if().
LEMMA ElseInStep ==
    ASSUME NEW close, NEW sub, NEW b, StepInv(close, sub, b), Else
    PROVE  StepInv(close, sub, b)'
<1>1. PICK op \in {"else", "else_if"} : Executes(op)
    BY DEF Else
<1>2. mode = "run" /\ idx \in DOMAIN program /\ Op(idx) = op
    BY <1>1, Executed
<1>3. program \in Programs /\ Nested(close) /\ Divided(close, sub)
    BY <1>2, RunFacts
<1>4. PICK o \in Blocks : InIf(close, o, idx)
    BY <1>1, <1>2, <1>3 DEF Divided
<1>5. Op(o) = "if" /\ idx \in Divides(close, o) /\ close[o] \in Divides(close, o)
    BY <1>1, <1>2, <1>4 DEF InIf, Divides
<1>6. EndOfIf(idx) = close[o]
      /\ Min({j \in Lines : j > idx /\ Depth(idx, j) = -1}) = close[o]
    BY <1>1, <1>2, <1>3, <1>4, EndOfIfIs, ElseEndIs
<1>7. Moves(close[o] + 1, close[o] + 1)
    BY <1>6 DEF Else
<1>8. /\ close[o] + 1 \in Lines
      /\ LoopsAt(close, close[o] + 1) = LoopsAt(close, o) /\ sub[close[o] + 1] = sub[o]
      /\ LoopsAt(close, idx) = LoopsAt(close, o) /\ sub[idx] = sub[o]
    BY <1>3, <1>5, DividesLike
<1> QED  BY <1>2, <1>7, <1>8, MovesOn

\* cmd_if(), whichever conditions are true.
LEMMA IfInStep ==
    ASSUME NEW close, NEW sub, NEW b, StepInv(close, sub, b), If
    PROVE  StepInv(close, sub, b)'
<1>1. mode = "run" /\ idx \in DOMAIN program /\ Op(idx) = "if"
    BY Executed DEF If
<1>2. program \in Programs /\ Nested(close) /\ Divided(close, sub)
    BY <1>1, RunFacts
<1>3. idx \in Blocks
    BY <1>1 DEF Blocks, Opens
<1>4. ElsesIn(close)
    BY <1>2 DEF Divided, ElsesIn
<1>5. PICK j \in Branches[idx] :
        Moves(j + 1, IF j \in {idx} \cup RefBranches(idx) THEN j + 1 ELSE 0)
    BY DEF If
<1>6. j \in {idx} \cup Divides(close, idx)
    BY <1>1, <1>2, <1>3, <1>4, BranchesDivide
<1>7. j \in {idx} \cup RefBranches(idx)
    BY <1>1, <1>2, <1>3, <1>6, DividesAreBranches
<1>8. Moves(j + 1, j + 1)
    BY <1>5, <1>7
<1>9. j + 1 \in Lines /\ LoopsAt(close, j + 1) = LoopsAt(close, idx) /\ sub[j + 1] = sub[idx]
    <2>1. CASE j = idx
        BY <1>1, <1>2, <2>1, NextLine
    <2>2. CASE j \in Divides(close, idx)
        BY <1>1, <1>2, <1>3, <2>2, DividesLike
    <2> QED  BY <1>6, <2>1, <2>2
<1> QED  BY <1>1, <1>8, <1>9, MovesOn

\* cmd_gosub(): the level and the frame are made together.
LEMMA GosubInStep ==
    ASSUME NEW close, NEW sub, NEW b, StepInv(close, sub, b), Gosub
    PROVE  StepInv(close, sub, b)'
<1>1. mode = "run" /\ idx \in DOMAIN program /\ Op(idx) = "gosub" /\ Arg = program[idx].arg
    BY Executed DEF Gosub
<1>2. /\ program \in Programs /\ Nested(close) /\ Divided(close, sub) /\ idx \in Nat
      /\ ref.stack \in Seq(Frame) /\ b \in Seq(Frame) /\ b \o ref.stack \in Seq(Frame)
      /\ Fits(close, sub, idx, ref.stack)
      /\ Counted(b \o ref.stack, nest, while_nest, for_nest, RETURN, WHILE, FOR)
    BY <1>1, RunFacts
<1> DEFINE f == [kind |-> "gosub", start |-> idx, to |-> 0]
<1>3. f \in Frame /\ f.kind = "gosub" /\ f.start = idx
    BY <1>2 DEF Frame
<1>4. Arg \in Lines /\ sub[Arg] /\ LoopsAt(close, Arg) = {}
    BY <1>1, <1>2 DEF Divided
<1>5. /\ program' = program /\ UNCHANGED context /\ idx' = Arg
      /\ GoesTo(Arg, Append(ref.stack, f))
      /\ nest' = nest + 1 /\ RETURN' = variable_put(RETURN, nest + 1, idx + 1)
      /\ UNCHANGED <<while_nest, for_nest, WHILE, FOR, val>>
    BY DEF Gosub, Enters
<1> HIDE DEF f
<1>6. Append(ref.stack, f) \in Seq(Frame)
    BY <1>2, <1>3, AppendProperties
<1>7. Fits(close, sub, Arg, Append(ref.stack, f))
    BY <1>1, <1>2, <1>3, <1>4, FitsPush
<1>8. Counted(Append(b \o ref.stack, f), nest', while_nest', for_nest', RETURN', WHILE', FOR')
    BY <1>2, <1>3, <1>5, CountedCall
<1>9. b \o Append(ref.stack, f) = Append(b \o ref.stack, f)
    BY <1>2, <1>3, OnTop
<1> QED  BY <1>1, <1>4, <1>5, <1>6, <1>7, <1>8, <1>9, RunsOn

\* The topmost frame f and the rest s of the stack.
LEMMA Top ==
    ASSUME NEW close, NEW sub, NEW b, StepInv(close, sub, b), mode = "run",
           Len(ref.stack) \in Nat \ {0}, NEW f, f = ref.stack[Len(ref.stack)],
           NEW s, s = SubSeq(ref.stack, 1, Len(ref.stack) - 1)
    PROVE  /\ f \in Frame /\ s \in Seq(Frame)
           /\ LastLevel(f, nest, while_nest, for_nest, RETURN, WHILE, FOR)
           /\ nest \in Nat /\ while_nest \in Nat /\ for_nest \in Nat
           /\ f.kind = "gosub" => nest >= 1 /\
                Counted(b \o s, nest - 1, while_nest, for_nest, RETURN, WHILE, FOR)
           /\ f.kind = "while" => while_nest >= 1 /\
                Counted(b \o s, nest, while_nest - 1, for_nest, RETURN, WHILE, FOR)
           /\ f.kind = "for" => for_nest >= 1 /\
                Counted(b \o s, nest, while_nest, for_nest - 1, RETURN, WHILE, FOR)
<1>1. /\ ref.stack \in Seq(Frame) /\ b \in Seq(Frame)
      /\ Counted(b \o ref.stack, nest, while_nest, for_nest, RETURN, WHILE, FOR)
    BY RunFacts
<1>2. ref.stack = Append(s, f)
    BY <1>1, TopOff
<1>3. f \in Frame
    BY <1>1, ElementOfSeq
<1>4. s \in Seq(Frame)
    <2>1. \A k \in 1..(Len(ref.stack) - 1) : ref.stack[k] \in Frame
        BY <1>1
    <2> QED  BY <2>1, SubSeqProperties
<1>5. b \o ref.stack = Append(b \o s, f) /\ b \o s \in Seq(Frame)
    <2>1. b \o Append(s, f) = Append(b \o s, f)
        BY <1>1, <1>3, <1>4, OnTop
    <2>2. b \o s \in Seq(Frame)
        BY <1>1, <1>4, ConcatProperties
    <2> QED  BY <1>2, <2>1, <2>2
<1>6. Counted(Append(b \o s, f), nest, while_nest, for_nest, RETURN, WHILE, FOR)
    BY <1>1, <1>5
<1> QED  BY <1>3, <1>4, <1>5, <1>6, CountedTop

\* The innermost frame of the kind of the topmost one is the topmost one.
LEMMA InnermostIs ==
    ASSUME ref.stack \in Seq(Frame), Len(ref.stack) \in Nat \ {0}, NEW kinds,
           ref.stack[Len(ref.stack)].kind \in kinds
    PROVE  /\ Innermost(kinds) = {Len(ref.stack)}
           /\ Below(Len(ref.stack)) = SubSeq(ref.stack, 1, Len(ref.stack) - 1)
           /\ Below(Len(ref.stack) + 1) = ref.stack
<1> DEFINE n == Len(ref.stack)
<1>1. DOMAIN ref.stack = 1..n /\ n \in Nat \ {0}
    OBVIOUS
<1>2. SubSeq(ref.stack, 1, n) = ref.stack
    BY SubSeqFull
<1> HIDE DEF n
<1>3. ref.stack[n].kind \in kinds
    BY DEF n
<1>4. n \in Innermost(kinds)
    BY <1>1, <1>3 DEF Innermost
<1>5. ASSUME NEW k \in Innermost(kinds) PROVE k = n
    <2>1. k \in 1..n /\ \A m \in 1..n : m > k => ref.stack[m].kind \notin kinds
        BY <1>1 DEF Innermost
    <2> QED  BY <1>1, <1>3, <2>1
<1>6. n + 1 - 1 = n
    BY <1>1
<1> QED  BY <1>2, <1>4, <1>5, <1>6 DEF Below, n

\* cmd_return(): the level is that of the gosub of this run.
LEMMA ReturnInStep ==
    ASSUME NEW close, NEW sub, NEW b, StepInv(close, sub, b), Return
    PROVE  StepInv(close, sub, b)'
<1>1. mode = "run" /\ idx \in DOMAIN program /\ Op(idx) = "return"
    BY Executed DEF Return
<1>2. /\ program \in Programs /\ Nested(close) /\ Divided(close, sub) /\ idx \in Nat
      /\ ref.stack \in Seq(Frame) /\ Fits(close, sub, idx, ref.stack)
    BY <1>1, RunFacts
<1>3. sub[idx] /\ LoopsAt(close, idx) = {}
    BY <1>1, <1>2 DEF Divided
<1> DEFINE n == Len(ref.stack)
           f == ref.stack[n]
           s == SubSeq(ref.stack, 1, n - 1)
<1>4. /\ n \in Nat \ {0} /\ f.kind = "gosub" /\ f.start \in DOMAIN program
      /\ Op(f.start) = "gosub"
    BY <1>2, <1>3, TopCall
<1>5. /\ f \in Frame /\ s \in Seq(Frame) /\ nest \in Nat /\ nest >= 1
      /\ nest \in DOMAIN RETURN /\ RETURN[nest] = f.start + 1
      /\ Counted(b \o s, nest - 1, while_nest, for_nest, RETURN, WHILE, FOR)
    BY <1>1, <1>4, Top DEF LastLevel
<1>6. Innermost({"gosub"}) = {n} /\ Below(n) = s
    BY <1>2, <1>4, InnermostIs
<1>7. f.start + 1 \in Lines /\ LoopsAt(close, f.start + 1) = LoopsAt(close, f.start)
      /\ sub[f.start + 1] = sub[f.start]
    BY <1>2, <1>4, NextLine
<1>8. Fits(close, sub, f.start + 1, s)
    BY <1>2, <1>4, <1>7, FitsPop
<1>9. GoesTo(f.start + 1, s)
    <2>1. Leaves({"gosub"}, After, idx + 1)
        BY DEF Return
    <2> HIDE DEF n, s
    <2>2. GoesTo(After(ref.stack[n]), s)
        BY <1>6, <2>1 DEF Leaves
    <2> QED  BY <2>2 DEF After
<1>10. /\ program' = program /\ UNCHANGED context /\ idx' = RETURN[nest] /\ nest' = nest - 1
       /\ UNCHANGED <<while_nest, for_nest, RETURN, WHILE, FOR, val>>
    BY <1>5 DEF Return
<1> HIDE DEF n, f, s
<1> QED  BY <1>1, <1>5, <1>7, <1>8, <1>9, <1>10, RunsOn

\* Behind a block the program is as it was at its start.
LEMMA BehindBlock ==
    ASSUME program \in Programs, NEW close, NEW sub, Nested(close), Divided(close, sub),
           NEW o \in Blocks
    PROVE  /\ close[o] + 1 \in Lines /\ LoopsAt(close, close[o] + 1) = LoopsAt(close, o)
           /\ sub[close[o] + 1] = sub[o]
<1>1. o \in Nat /\ close[o] \in Nat /\ o < close[o] /\ close[o] + 1 \in Lines
    BY Block
<1>2. close[o] + 1 \in o..(close[o] + 1)
    BY <1>1
<1>3. sub[close[o] + 1] = sub[o]
    BY <1>2 DEF Divided
<1> QED  BY <1>1, <1>3, LoopsLeave

\* The loop whose start or whose topmost frame it is.
LEMMA WhileInStep ==
    ASSUME NEW close, NEW sub, NEW b, StepInv(close, sub, b), While
    PROVE  StepInv(close, sub, b)'
<1>1. mode = "run" /\ idx \in DOMAIN program /\ Op(idx) = "while" /\ idx + 1 \in Lines
    BY Executed DEF While
<1>2. /\ program \in Programs /\ Nested(close) /\ Divided(close, sub) /\ idx \in Nat
      /\ ref.stack \in Seq(Frame) /\ b \in Seq(Frame) /\ b \o ref.stack \in Seq(Frame)
      /\ Fits(close, sub, idx, ref.stack)
      /\ Counted(b \o ref.stack, nest, while_nest, for_nest, RETURN, WHILE, FOR)
    BY <1>1, RunFacts
<1>3. idx \in Blocks
    BY <1>1 DEF Blocks, Opens
<1>4. /\ program' = program /\ UNCHANGED context
      /\ WHILE' = variable_put(WHILE, while_nest + 1, idx)
      /\ UNCHANGED <<nest, for_nest, RETURN, FOR, val>>
    BY DEF While
<1>5. CASE while_nest' = while_nest + 1 /\ idx' = idx + 1 /\ Enters(idx + 1, "while", 0)
    <2> DEFINE f == [kind |-> "while", start |-> idx, to |-> 0]
    <2>1. f \in Frame /\ f.kind = "while" /\ f.start = idx
        BY <1>2 DEF Frame
    <2>2. GoesTo(idx + 1, Append(ref.stack, f))
        BY <1>5 DEF Enters
    <2> HIDE DEF f
    <2>3. Append(ref.stack, f) \in Seq(Frame)
        BY <1>2, <2>1, AppendProperties
    <2>4. LoopAt(close, idx + 1, idx)
        BY <1>1, <1>2, <1>3, LoopEnters
    <2>5. Fits(close, sub, idx + 1, Append(ref.stack, f))
        BY <1>1, <1>2, <2>1, <2>4, FitsPush
    <2>6. Counted(Append(b \o ref.stack, f), nest', while_nest', for_nest', RETURN', WHILE', FOR')
        BY <1>2, <1>4, <1>5, <2>1, CountedWhile
    <2>7. b \o Append(ref.stack, f) = Append(b \o ref.stack, f)
        BY <1>2, <2>1, OnTop
    <2> QED  BY <1>1, <1>4, <1>5, <2>2, <2>3, <2>5, <2>6, <2>7, RunsOn
<1>6. CASE idx' = EndOfWhile(idx) + 1 /\ Steps(Partner(idx) + 1) /\ UNCHANGED while_nest
    <2>1. EndOfWhile(idx) = close[idx] /\ Partner(idx) = close[idx]
        BY <1>1, <1>2, <1>3, EndOfWhileIs, PartnerIs
    <2>2. idx' = close[idx] + 1 /\ GoesTo(close[idx] + 1, ref.stack)
        BY <1>6, <2>1 DEF Steps
    <2>3. close[idx] + 1 \in Lines /\ LoopsAt(close, close[idx] + 1) = LoopsAt(close, idx)
          /\ sub[close[idx] + 1] = sub[idx]
        BY <1>2, <1>3, BehindBlock
    <2>4. Fits(close, sub, close[idx] + 1, ref.stack)
        BY <1>2, <2>3, FitsSame
    <2>5. Counted(b \o ref.stack, nest, while_nest, for_nest, RETURN, WHILE', FOR)
        <3>1. nest \in Nat /\ while_nest \in Nat /\ for_nest \in Nat
            BY <1>2, CountedType
        <3>2. Agree(WHILE, WHILE', while_nest)
            BY <1>4, <3>1, PutAgrees
        <3>3. Agree(RETURN, RETURN, nest) /\ Agree(FOR, FOR, for_nest)
            BY DEF Agree
        <3> QED  BY <1>2, <3>2, <3>3, CountedKept
    <2> QED  BY <1>1, <1>2, <1>4, <1>6, <2>2, <2>3, <2>4, <2>5, RunsOn
<1> QED  BY <1>5, <1>6 DEF While

\* At the end of a loop its own frame is on top.
LEMMA AtLoopEnd ==
    ASSUME NEW close, NEW sub, NEW b, StepInv(close, sub, b), mode = "run",
           idx \in DOMAIN program, NEW op \in {"while", "for"}, Op(idx) = Closing(op)
    PROVE  \E o \in Blocks :
             /\ Op(o) = op /\ idx = close[o] /\ Len(ref.stack) \in Nat \ {0}
             /\ ref.stack[Len(ref.stack)].start = o /\ ref.stack[Len(ref.stack)].kind = op
<1>1. /\ program \in Programs /\ Nested(close) /\ Divided(close, sub)
      /\ ref.stack \in Seq(Frame) /\ Fits(close, sub, idx, ref.stack)
    BY RunFacts
<1>2. PICK o \in Blocks : idx = close[o] /\ Op(o) = op
    BY <1>1, ClosesKind
<1>3. LoopAt(close, idx, o)
    BY <1>1, <1>2, LoopEnters
<1>4. /\ Len(ref.stack) \in Nat \ {0} /\ ref.stack[Len(ref.stack)].start = o
      /\ ref.stack[Len(ref.stack)].kind = op
    BY <1>1, <1>2, <1>3, TopLoop
<1> QED  BY <1>2, <1>4

\* cmd_end_while(): the level is that of the while of this loop.
LEMMA EndWhileInStep ==
    ASSUME NEW close, NEW sub, NEW b, StepInv(close, sub, b), EndWhile
    PROVE  StepInv(close, sub, b)'
<1>1. mode = "run" /\ idx \in DOMAIN program /\ Op(idx) = "end_while"
    BY Executed DEF EndWhile
<1>2. /\ program \in Programs /\ Nested(close) /\ Divided(close, sub)
      /\ ref.stack \in Seq(Frame) /\ Fits(close, sub, idx, ref.stack)
    BY <1>1, RunFacts
<1> DEFINE n == Len(ref.stack)
           f == ref.stack[n]
           s == SubSeq(ref.stack, 1, n - 1)
<1>3. PICK o \in Blocks : n \in Nat \ {0} /\ f.start = o /\ f.kind = "while"
    BY <1>1, AtLoopEnd, ClosingIs
<1>4. /\ s \in Seq(Frame) /\ while_nest \in Nat /\ while_nest >= 1
      /\ WHILE[while_nest] = o
      /\ Counted(b \o s, nest, while_nest - 1, for_nest, RETURN, WHILE, FOR)
    BY <1>1, <1>3, Top DEF LastLevel
<1>5. Innermost({"while"}) = {n} /\ Below(n) = s
    BY <1>2, <1>3, InnermostIs
<1>6. Fits(close, sub, o, s) /\ o \in Lines
    BY <1>2, <1>3, FitsPop, Block
<1>7. GoesTo(o, s)
    <2>1. Leaves({"while"}, Start, idx + 1)
        BY DEF EndWhile
    <2>2. ref.stack[n].start = o
        BY <1>3
    <2> HIDE DEF n, s
    <2>3. GoesTo(Start(ref.stack[n]), s)
        BY <1>5, <2>1 DEF Leaves
    <2> QED  BY <2>2, <2>3 DEF Start
<1>8. /\ program' = program /\ UNCHANGED context /\ idx' = WHILE[while_nest]
      /\ while_nest' = while_nest - 1
      /\ UNCHANGED <<nest, for_nest, RETURN, WHILE, FOR, val>>
    BY <1>4 DEF EndWhile
<1> HIDE DEF n, f, s
<1> QED  BY <1>1, <1>4, <1>6, <1>7, <1>8, RunsOn

\* One of the loops around a statement is the innermost.
LEMMA HasLoop ==
    ASSUME program \in Programs, NEW close, NEW i, LoopsAt(close, i) # {}
    PROVE  \E o : LoopAt(close, i, o)
<1>1. LoopsAt(close, i) \in SUBSET (0..Len(program)) /\ Len(program) \in Nat
    BY Text DEF LoopsAt, Blocks
<1>2. \E x \in LoopsAt(close, i) : \A y \in LoopsAt(close, i) : y <= x
    BY <1>1, Greatest
<1> QED  BY <1>2 DEF LoopAt

\* cmd_break_loop() in a while loop.
LEMMA BreakLoopInStep ==
    ASSUME NEW close, NEW sub, NEW b, StepInv(close, sub, b), BreakLoop
    PROVE  StepInv(close, sub, b)'
<1>1. mode = "run" /\ idx \in DOMAIN program /\ Op(idx) = "break_loop"
    BY Executed DEF BreakLoop
<1>2. /\ program \in Programs /\ Nested(close) /\ Divided(close, sub) /\ Len(program) \in Nat
      /\ ref.stack \in Seq(Frame) /\ Fits(close, sub, idx, ref.stack)
    BY <1>1, RunFacts, Text
<1>3. LoopsAt(close, idx) # {}
    BY <1>1, <1>2 DEF Divided
<1>4. PICK o : LoopAt(close, idx, o)
    BY <1>2, <1>3, HasLoop
<1>5. o \in Blocks
    BY <1>4 DEF LoopAt, LoopsAt
<1>6. Op(o) = "while" /\ Op(close[o]) = "end_while"
    <2>1. Op(o) = "while"
        BY <1>1, <1>2, <1>4, <1>5 DEF Divided
    <2> QED  BY <1>2, <1>5, <2>1, Block, ClosingIs
<1>7. EndOfLoop(idx) = close[o] /\ Partner(o) = close[o]
    BY <1>1, <1>2, <1>4, <1>5, EndOfLoopIs, PartnerIs
<1> DEFINE n == Len(ref.stack)
           f == ref.stack[n]
           s == SubSeq(ref.stack, 1, n - 1)
<1>8. n \in Nat \ {0} /\ f.start = o /\ f.kind = "while"
    BY <1>2, <1>4, <1>6, TopLoop
<1>9. /\ s \in Seq(Frame) /\ while_nest \in Nat
      /\ Counted(b \o s, nest, while_nest - 1, for_nest, RETURN, WHILE, FOR)
    BY <1>1, <1>8, Top
<1>10. Innermost({"while", "for"}) = {n} /\ Below(n) = s
    BY <1>2, <1>8, InnermostIs
<1>11. /\ close[o] + 1 \in Lines /\ LoopsAt(close, close[o] + 1) = LoopsAt(close, o)
       /\ sub[close[o] + 1] = sub[o]
    BY <1>2, <1>5, BehindBlock
<1>12. Fits(close, sub, close[o] + 1, s)
    BY <1>2, <1>8, <1>11, FitsPop
<1>13. GoesTo(close[o] + 1, s)
    <2>1. Leaves({"while", "for"}, Exit, 0)
        BY DEF BreakLoop
    <2>2. ref.stack[n].start = o
        BY <1>8
    <2> HIDE DEF n, s
    <2>3. GoesTo(Exit(ref.stack[n]), s)
        BY <1>10, <2>1 DEF Leaves
    <2> QED  BY <1>7, <2>2, <2>3 DEF Exit
<1>14. /\ program' = program /\ UNCHANGED context /\ idx' = close[o] + 1
       /\ while_nest' = while_nest - 1
       /\ UNCHANGED <<nest, for_nest, RETURN, WHILE, FOR, val>>
    BY <1>6, <1>7 DEF BreakLoop
<1> HIDE DEF n, f, s
<1> QED  BY <1>1, <1>9, <1>11, <1>12, <1>13, <1>14, RunsOn

\* cmd_continue().
LEMMA ContinueInStep ==
    ASSUME NEW close, NEW sub, NEW b, StepInv(close, sub, b), Continue
    PROVE  StepInv(close, sub, b)'
<1>1. mode = "run" /\ idx \in DOMAIN program /\ Op(idx) = "continue"
    BY Executed DEF Continue
<1>2. /\ program \in Programs /\ Nested(close) /\ Divided(close, sub)
      /\ ref.stack \in Seq(Frame) /\ Fits(close, sub, idx, ref.stack)
      /\ Counted(b \o ref.stack, nest, while_nest, for_nest, RETURN, WHILE, FOR)
    BY <1>1, RunFacts
<1>3. LoopsAt(close, idx) # {}
    BY <1>1, <1>2 DEF Divided
<1>4. PICK o : LoopAt(close, idx, o)
    BY <1>2, <1>3, HasLoop
<1>5. o \in Blocks /\ Op(o) \in {"while", "for"} /\ Op(close[o]) \in {"next", "end_while"}
      /\ close[o] \in Lines /\ close[o] \in Nat /\ o \in Nat /\ o < close[o]
    BY <1>2, <1>4, Block, ClosingIs DEF LoopAt, LoopsAt
<1>6. EndOfLoop(idx) = close[o] /\ Partner(o) = close[o]
    BY <1>1, <1>2, <1>4, <1>5, EndOfLoopIs, PartnerIs
<1> DEFINE n == Len(ref.stack)
<1>7. n \in Nat \ {0} /\ ref.stack[n].start = o /\ ref.stack[n].kind \in {"while", "for"}
    BY <1>2, <1>4, <1>5, TopLoop
<1>8. Innermost({"while", "for"}) = {n} /\ Below(n + 1) = ref.stack
    BY <1>2, <1>7, InnermostIs
<1>9. idx' = close[o] /\ program' = program /\ UNCHANGED <<levels, context>>
    BY <1>5, <1>6 DEF Continue
<1>10. GoesTo(close[o], ref.stack)
    <2> HIDE DEF n
    <2>1. GoesTo(Partner(ref.stack[n].start), Below(n + 1))
        BY <1>8 DEF Continue
    <2> QED  BY <1>6, <1>7, <1>8, <2>1
<1>11. Fits(close, sub, close[o], ref.stack)
    <2>1. LoopAt(close, close[o], o)
        BY <1>2, <1>5, LoopEnters
    <2>2. On(close, sub, close[o], ref.stack, n)
        BY <1>7, <2>1 DEF On
    <2> QED  BY <1>2, <2>2 DEF Fits
<1> HIDE DEF n
<1> QED  BY <1>1, <1>2, <1>5, <1>9, <1>10, <1>11, RunsOn DEF levels

\* cmd_for(), whatever the limit.
LEMMA ForInStep ==
    ASSUME NEW close, NEW sub, NEW b, StepInv(close, sub, b), For
    PROVE  StepInv(close, sub, b)'
<1>1. mode = "run" /\ idx \in DOMAIN program /\ Op(idx) = "for" /\ idx + 1 \in Lines
      /\ Arg = program[idx].arg
    BY Executed DEF For
<1>2. /\ program \in Programs /\ Nested(close) /\ Divided(close, sub) /\ idx \in Nat
      /\ ref.stack \in Seq(Frame) /\ b \in Seq(Frame) /\ b \o ref.stack \in Seq(Frame)
      /\ Fits(close, sub, idx, ref.stack) /\ val \in [Vars -> Nat]
      /\ Counted(b \o ref.stack, nest, while_nest, for_nest, RETURN, WHILE, FOR)
    BY <1>1, RunFacts
<1>3. idx \in Blocks
    BY <1>1 DEF Blocks, Opens
<1>4. program' = program /\ UNCHANGED context /\ UNCHANGED <<nest, while_nest, RETURN, WHILE>>
    BY DEF For
<1>5. val' \in [Vars -> Nat]
    <2>1. val' = [val EXCEPT ![Arg] = 1]
        BY DEF For
    <2> QED  BY <1>2, <2>1
<1>6. PICK y \in Limits :
        /\ FOR' = variable_put(FOR, for_nest + 1, [at |-> idx + 1, to |-> y])
        /\ \/ for_nest' = for_nest + 1 /\ idx' = idx + 1 /\ Enters(idx + 1, "for", y)
           \/ idx' = EndOfFor(idx) + 1 /\ Steps(Partner(idx) + 1) /\ for_nest' = for_nest
    BY DEF For
<1>7. y \in Nat
    BY ControlAssumption
<1>8. CASE for_nest' = for_nest + 1 /\ idx' = idx + 1 /\ Enters(idx + 1, "for", y)
    <2> DEFINE f == [kind |-> "for", start |-> idx, to |-> y]
    <2>1. f \in Frame /\ f.kind = "for" /\ f.start = idx /\ f.to = y
        BY <1>2, <1>7 DEF Frame
    <2>2. GoesTo(idx + 1, Append(ref.stack, f))
        BY <1>8 DEF Enters
    <2> HIDE DEF f
    <2>3. Append(ref.stack, f) \in Seq(Frame)
        BY <1>2, <2>1, AppendProperties
    <2>4. LoopAt(close, idx + 1, idx)
        BY <1>1, <1>2, <1>3, LoopEnters
    <2>5. Fits(close, sub, idx + 1, Append(ref.stack, f))
        BY <1>1, <1>2, <2>1, <2>4, FitsPush
    <2>6. Counted(Append(b \o ref.stack, f), nest', while_nest', for_nest', RETURN', WHILE', FOR')
        BY <1>2, <1>4, <1>6, <1>8, <2>1, CountedFor
    <2>7. b \o Append(ref.stack, f) = Append(b \o ref.stack, f)
        BY <1>2, <2>1, OnTop
    <2> QED  BY <1>1, <1>4, <1>5, <1>8, <2>2, <2>3, <2>5, <2>6, <2>7, RunsOn
<1>9. CASE idx' = EndOfFor(idx) + 1 /\ Steps(Partner(idx) + 1) /\ for_nest' = for_nest
    <2>1. EndOfFor(idx) = close[idx] /\ Partner(idx) = close[idx]
        BY <1>1, <1>2, <1>3, EndOfForIs, PartnerIs
    <2>2. idx' = close[idx] + 1 /\ GoesTo(close[idx] + 1, ref.stack)
        BY <1>9, <2>1 DEF Steps
    <2>3. close[idx] + 1 \in Lines /\ LoopsAt(close, close[idx] + 1) = LoopsAt(close, idx)
          /\ sub[close[idx] + 1] = sub[idx]
        BY <1>2, <1>3, BehindBlock
    <2>4. Fits(close, sub, close[idx] + 1, ref.stack)
        BY <1>2, <2>3, FitsSame
    <2>5. Counted(b \o ref.stack, nest, while_nest, for_nest, RETURN, WHILE, FOR')
        <3>1. nest \in Nat /\ while_nest \in Nat /\ for_nest \in Nat
            BY <1>2, CountedType
        <3>2. Agree(FOR, FOR', for_nest)
            BY <1>6, <3>1, PutAgrees
        <3>3. Agree(RETURN, RETURN, nest) /\ Agree(WHILE, WHILE, while_nest)
            BY DEF Agree
        <3> QED  BY <1>2, <3>2, <3>3, CountedKept
    <2> QED  BY <1>1, <1>2, <1>4, <1>5, <1>9, <2>2, <2>3, <2>4, <2>5, RunsOn
<1> QED  BY <1>6, <1>8, <1>9

\* At a next its own loop is counted last.
LEMMA AtNext ==
    ASSUME NEW close, NEW sub, NEW b, StepInv(close, sub, b), Executes("next"),
           NEW n, n = Len(ref.stack), NEW f, f = ref.stack[n]
    PROVE  /\ \E o \in Blocks : Op(o) = "for" /\ idx = close[o] /\ f.start = o
           /\ n \in Nat \ {0} /\ f \in Frame /\ f.kind = "for"
           /\ for_nest \in Nat /\ for_nest \in DOMAIN FOR
           /\ FOR[for_nest].at = f.start + 1 /\ FOR[for_nest].to = f.to /\ f.to \in Nat
<1>1. mode = "run" /\ idx \in DOMAIN program /\ Op(idx) = "next"
    BY Executed
<1>2. PICK o \in Blocks : /\ Op(o) = "for" /\ idx = close[o] /\ n \in Nat \ {0}
                          /\ f.start = o /\ f.kind = "for"
    BY <1>1, AtLoopEnd, ClosingIs
<1>3. /\ f \in Frame /\ for_nest \in Nat /\ for_nest \in DOMAIN FOR
      /\ FOR[for_nest] = [at |-> f.start + 1, to |-> f.to]
    BY <1>1, <1>2, Top DEF LastLevel
<1>4. f.to \in Nat
    BY <1>3 DEF Frame
<1> QED  BY <1>2, <1>3, <1>4

\* cmd_next(): the limit is that of this loop.
LEMMA NextLoopInStep ==
    ASSUME NEW close, NEW sub, NEW b, StepInv(close, sub, b), NextLoop
    PROVE  StepInv(close, sub, b)'
<1>1. Executes("next") /\ mode = "run" /\ idx \in DOMAIN program /\ Op(idx) = "next"
      /\ Arg = program[idx].arg
    BY Executed DEF NextLoop
<1>2. /\ program \in Programs /\ Nested(close) /\ Divided(close, sub) /\ idx \in Nat
      /\ ref.stack \in Seq(Frame) /\ b \in Seq(Frame) /\ b \o ref.stack \in Seq(Frame)
      /\ Fits(close, sub, idx, ref.stack) /\ val \in [Vars -> Nat]
      /\ Counted(b \o ref.stack, nest, while_nest, for_nest, RETURN, WHILE, FOR)
    BY <1>1, RunFacts
<1> DEFINE n == Len(ref.stack)
           f == ref.stack[n]
           s == SubSeq(ref.stack, 1, n - 1)
           x == val[Arg] + 1
<1>3. PICK o \in Blocks : Op(o) = "for" /\ idx = close[o] /\ f.start = o
    BY <1>1, AtNext
<1>4. /\ n \in Nat \ {0} /\ f \in Frame /\ f.kind = "for" /\ f.to \in Nat
      /\ FOR[for_nest].at = o + 1 /\ FOR[for_nest].to = f.to
    BY <1>1, <1>3, AtNext
<1>5. Arg \in Vars
    BY <1>1, <1>2, <1>3 DEF Nested
<1>6. x \in Nat
    BY <1>2, <1>5
<1>7. Innermost({"for"}) = {n} /\ Below(n) = s
    BY <1>2, <1>4, InnermostIs
<1>8. program' = program /\ UNCHANGED context
      /\ UNCHANGED <<nest, while_nest, RETURN, WHILE, FOR>>
    BY DEF NextLoop
<1>9. RefNext(x) /\ \/ /\ x <= FOR[for_nest].to /\ idx' = FOR[for_nest].at
                       /\ val' = [val EXCEPT ![Arg] = x] /\ for_nest' = for_nest
                    \/ /\ x > FOR[for_nest].to /\ idx' = idx + 1
                       /\ for_nest' = for_nest - 1 /\ val' = val
    BY DEF NextLoop
<1>10. \/ x <= f.to /\ Steps(o + 1)
       \/ x > f.to /\ GoesTo(idx + 1, s)
    <2>1. ref.stack[n].start = o /\ ref.stack[n].to = f.to
        BY <1>3
    <2> HIDE DEF n, s, x, f
    <2>2. \/ x <= ref.stack[n].to /\ Steps(After(ref.stack[n]))
          \/ x > ref.stack[n].to /\ GoesTo(idx + 1, s)
        BY <1>7, <1>9 DEF RefNext
    <2> QED  BY <2>1, <2>2 DEF After
<1>11. /\ s \in Seq(Frame) /\ for_nest \in Nat
       /\ Counted(b \o s, nest, while_nest, for_nest - 1, RETURN, WHILE, FOR)
    BY <1>1, <1>4, Top
<1>12. CASE x <= f.to
    <2>1. Steps(o + 1)
        BY <1>4, <1>6, <1>10, <1>12
    <2>2. idx' = o + 1 /\ val' = [val EXCEPT ![Arg] = x] /\ for_nest' = for_nest
        BY <1>4, <1>6, <1>9, <1>12
    <2>3. val' \in [Vars -> Nat]
        BY <1>2, <1>6, <2>2
    <2>4. LoopAt(close, o + 1, o) /\ o + 1 \in Lines
        BY <1>2, <1>3, LoopEnters, Block
    <2>5. On(close, sub, o + 1, ref.stack, n)
        BY <1>3, <1>4, <2>4 DEF On
    <2>6. Fits(close, sub, o + 1, ref.stack)
        BY <1>2, <2>5 DEF Fits
    <2>7. GoesTo(idx', ref.stack)
        BY <2>1, <2>2 DEF Steps
    <2> HIDE DEF n, f, s, x
    <2> QED  BY <1>1, <1>2, <1>8, <2>2, <2>3, <2>4, <2>6, <2>7, RunsOn
<1>13. CASE x > f.to
    <2>1. GoesTo(idx + 1, s)
        BY <1>4, <1>6, <1>10, <1>13
    <2>2. idx' = idx + 1 /\ val' = val /\ for_nest' = for_nest - 1
        BY <1>4, <1>6, <1>9, <1>13
    <2>3. /\ idx + 1 \in Lines /\ LoopsAt(close, idx + 1) = LoopsAt(close, o)
          /\ sub[idx + 1] = sub[o]
        BY <1>2, <1>3, BehindBlock
    <2>4. Fits(close, sub, idx + 1, s)
        BY <1>2, <1>3, <1>4, <2>3, FitsPop
    <2> HIDE DEF n, f, s, x
    <2> QED  BY <1>1, <1>8, <1>11, <2>1, <2>2, <2>3, <2>4, RunsOn
<1> QED  BY <1>4, <1>6, <1>12, <1>13

-----------------------------------------------------------------------------
(* Runs that start, end and are set aside. *)

\* No frames, and all counters 0.
LEMMA NoneCounted ==
    ASSUME NEW R, NEW W, NEW F
    PROVE  Counted(<<>>, 0, 0, 0, R, W, F)
<1>1. ASSUME NEW kind PROVE Rank(kind, <<>>, 0) = 0
    <2>1. {m \in 1..0 : <<>>[m].kind = kind} = {}
        OBVIOUS
    <2> QED  BY <2>1, FS_EmptySet DEF Rank
<1>2. Len(<<>>) = 0 /\ DOMAIN <<>> = {}
    OBVIOUS
<1> QED  BY <1>1, <1>2 DEF Counted

\* No frames above or below b.
LEMMA EmptyAside ==
    ASSUME NEW b \in Seq(Frame)
    PROVE  b \o <<>> = b /\ <<>> \o b = b
BY ConcatEmptySeq

\* With nothing in waiting and outer there is no frame below those of the run.
LEMMA AsideNone ==
    ASSUME NEW close, NEW sub, NEW b, Aside(close, sub, b), outer = <<>>, waiting = {}
    PROVE  b = <<>>
<1>1. \A w : waiting # {w} /\ outer # <<w>>
    OBVIOUS
<1> QED  BY <1>1 DEF Aside

\* A send that may set its run aside finds no other run there.
LEMMA AsideFree ==
    ASSUME NEW close, NEW sub, NEW b, Aside(close, sub, b), MaxAside <= 1,
           Cardinality(waiting) + Len(outer) < MaxAside
    PROVE  outer = <<>> /\ waiting = {} /\ b = <<>>
<1>1. MaxAside \in Nat
    BY ControlAssumption
<1>2. ASSUME NEW w, outer = <<>>, waiting = {w} PROVE FALSE
    <2>1. Cardinality(waiting) = 1
        BY <1>2, FS_Singleton
    <2>2. Len(outer) = 0
        BY <1>2
    <2> QED  BY <1>1, <2>1, <2>2
<1>3. ASSUME NEW w, outer = <<w>>, waiting = {} PROVE FALSE
    <2>1. Cardinality(waiting) = 0
        BY <1>3, FS_EmptySet
    <2>2. Len(outer) = 1
        BY <1>3
    <2> QED  BY <1>1, <2>1, <2>2
<1> QED  BY <1>2, <1>3 DEF Aside

\* What is to be shown of a step after which run i at place p is executed, with
\* frames c aside.
LEMMA Starting ==
    ASSUME NEW close, NEW sub, NEW c, (program \in Programs)', (val \in [Vars -> Nat])',
           Nested(close)', Divided(close, sub)', Aside(close, sub, c)', mode' = "run",
           program' = program, NEW i, NEW p, idx' = i, ref' = p, i \in Lines, p \in Place,
           p.at = i, Fits(close, sub, i, p.stack),
           Counted(c \o p.stack, nest', while_nest', for_nest', RETURN', WHILE', FOR')
    PROVE  StepInv(close, sub, c)'
<1>1. idx' = i /\ ref'.stack = p.stack /\ program' = program
    OBVIOUS
<1>2. Fits(close, sub, idx, ref.stack)'
    <2>1. PICK s : s = p.stack
        OBVIOUS
    <2>2. ref'.stack = s /\ Fits(close, sub, i, s)
        BY <1>1, <2>1
    <2> QED  BY ONLY <1>1, <2>2 DEF Fits, On, LoopsAt, LoopAt, Blocks, Opens, Op
<1>3. Levels(c \o ref.stack)'
    BY DEF Levels
<1>4. idx' \in Lines'
    BY DEF Lines
<1>5. Running(close, sub, c)'
    BY <1>2, <1>3, <1>4 DEF Running
<1> QED  BY <1>5 DEF StepInv, Accounts

\* execute() returns: the run that was interrupted goes on, or the server loop.
LEMMA OverInStep ==
    ASSUME NEW close, NEW sub, NEW b, StepInv(close, sub, b), mode = "run",
           program' = program, val' = val, waiting' = waiting, Over,
           Counted(b, nest', while_nest', for_nest', RETURN', WHILE', FOR')
    PROVE  \E c : StepInv(close, sub, c)'
<1>1. /\ program \in Programs /\ Nested(close) /\ Divided(close, sub) /\ val \in [Vars -> Nat]
      /\ Aside(close, sub, b) /\ b \in Seq(Frame)
    BY RunFacts DEF StepInv, Accounts
<1>2. /\ (program \in Programs)' /\ Nested(close)' /\ Divided(close, sub)'
      /\ (val \in [Vars -> Nat])'
    BY <1>1, TextStays
<1>3. CASE outer = <<>>
    <2>1. mode' = "idle" /\ outer' = outer
        BY <1>3 DEF Over
    <2>2. Aside(close, sub, b)'
        BY <1>1, <2>1, AsideStays
    <2>3. Levels(b)'
        BY DEF Levels
    <2>4. StepInv(close, sub, b)'
        BY <1>2, <1>3, <2>1, <2>2, <2>3 DEF StepInv, Accounts
    <2> QED  BY <2>4
<1>4. CASE outer # <<>>
    <2>1. PICK w : GoodRun(close, sub, w) /\ b = w.ref.stack /\ outer = <<w>> /\ waiting = {}
        BY <1>1, <1>4 DEF Aside
    <2>2. Len(outer) = 1 /\ outer[1] = w
        BY <2>1
    <2>3. mode' = "run" /\ idx' = w.idx /\ ref' = w.ref /\ outer' = SubSeq(outer, 1, 0)
        BY <1>4, <2>2 DEF Over
    <2>4. outer' = <<>>
        BY <2>3, SubSeqEmpty
    <2>5. w \in Run /\ w.idx \in Lines /\ w.ref.at = w.idx
          /\ Fits(close, sub, w.idx, w.ref.stack)
        BY <2>1 DEF GoodRun
    <2>6. w.ref \in Place
        BY <2>5 DEF Run
    <2>7. Aside(close, sub, <<>>)'
        BY <2>1, <2>4 DEF Aside
    <2>8. <<>> \o w.ref.stack = b
        BY <1>1, <2>1, EmptyAside
    <2>9. StepInv(close, sub, <<>>)'
        BY <1>2, <2>3, <2>5, <2>6, <2>7, <2>8, Starting
    <2> QED  BY <2>9
<1> QED  BY <1>3, <1>4

\* A run that ends has left all its loops and subroutines.
LEMMA EndRunInStep ==
    ASSUME NEW close, NEW sub, NEW b, StepInv(close, sub, b), EndRun
    PROVE  \E c : StepInv(close, sub, c)'
<1>1. mode = "run" /\ Op(idx) \in {"label", "end", "null"} /\ Over
      /\ program' = program /\ waiting' = waiting /\ UNCHANGED levels
    BY DEF EndRun
<1>2. /\ program \in Programs /\ Nested(close) /\ Divided(close, sub) /\ idx \in Lines
      /\ ref.stack \in Seq(Frame) /\ b \in Seq(Frame) /\ Fits(close, sub, idx, ref.stack)
      /\ Counted(b \o ref.stack, nest, while_nest, for_nest, RETURN, WHILE, FOR)
    BY <1>1, RunFacts
<1>3. ~sub[idx] /\ LoopsAt(close, idx) = {}
    BY <1>1, <1>2 DEF Divided
<1>4. ref.stack = <<>>
    BY <1>2, <1>3, TopNone
<1>5. b \o ref.stack = b
    BY <1>2, <1>4, EmptyAside
<1>6. /\ Counted(b, nest', while_nest', for_nest', RETURN', WHILE', FOR') /\ val' = val
    BY <1>1, <1>2, <1>5 DEF levels
<1> QED  BY <1>1, <1>6, OverInStep

\* A statement fails and nothing handles it: no other run is counted.
LEMMA FailsInStep ==
    ASSUME NEW close, NEW sub, NEW b, StepInv(close, sub, b), Unshared, Fails
    PROVE  \E c : StepInv(close, sub, c)'
<1>1. mode = "run"
    BY Executed DEF Fails
<1>2. waiting = {} /\ outer = <<>>
    BY DEF Fails, Unshared
<1>3. b = <<>>
    BY <1>2, AsideNone DEF StepInv, Accounts
<1>4. /\ program' = program /\ waiting' = waiting /\ val' = val /\ Over
      /\ nest' = 0 /\ while_nest' = 0 /\ for_nest' = 0
    BY DEF Fails
<1>5. Counted(b, nest', while_nest', for_nest', RETURN', WHILE', FOR')
    BY <1>3, <1>4, NoneCounted
<1> QED  BY <1>1, <1>4, <1>5, OverInStep

\* A run that is set aside with its frames c, to go on at i.
LEMMA GoodRunIs ==
    ASSUME program \in Programs, NEW close, NEW sub, NEW i \in Lines, NEW c \in Seq(Frame),
           Fits(close, sub, i, c), NEW w, w = [idx |-> i, ref |-> [at |-> i, stack |-> c]]
    PROVE  GoodRun(close, sub, w) /\ w.ref.stack = c
<1>1. i \in Nat
    BY Text
<1>2. [at |-> i, stack |-> c] \in Place
    BY <1>1 DEF Place
<1>3. w \in Run
    BY <1>1, <1>2 DEF Run
<1>4. w.idx = i /\ w.ref.at = i /\ w.ref.stack = c
    OBVIOUS
<1> QED  BY <1>3, <1>4 DEF GoodRun

\* send with the wait bit: its frames stay counted.
LEMMA SendWaitInStep ==
    ASSUME NEW close, NEW sub, NEW b, StepInv(close, sub, b), Unshared, SendWait
    PROVE  \E c : StepInv(close, sub, c)'
<1>1. mode = "run" /\ idx \in DOMAIN program /\ Op(idx) = "send"
    BY Executed DEF SendWait
<1>2. /\ program \in Programs /\ Nested(close) /\ Divided(close, sub) /\ val \in [Vars -> Nat]
      /\ ref.stack \in Seq(Frame) /\ b \in Seq(Frame) /\ Fits(close, sub, idx, ref.stack)
      /\ Counted(b \o ref.stack, nest, while_nest, for_nest, RETURN, WHILE, FOR)
      /\ ref \in Place
    BY <1>1, RunFacts
<1>3. outer = <<>> /\ waiting = {} /\ b = <<>>
    BY AsideFree DEF StepInv, Accounts, SendWait, Unshared
<1>4. PICK c : c = ref.stack
    OBVIOUS
<1>5. PICK w : w = [idx |-> idx + 1, ref |-> [at |-> idx + 1, stack |-> c]]
    OBVIOUS
<1>6. [ref EXCEPT !.at = idx + 1] = [at |-> idx + 1, stack |-> c]
    BY <1>2, <1>4 DEF Place
<1>7. mode' = "idle" /\ outer' = <<>> /\ waiting' = {w} /\ program' = program /\ UNCHANGED levels
    BY <1>3, <1>5, <1>6 DEF SendWait, Over
<1>8. idx + 1 \in Lines /\ LoopsAt(close, idx + 1) = LoopsAt(close, idx)
      /\ sub[idx + 1] = sub[idx]
    BY <1>1, <1>2, NextLine
<1>9. Fits(close, sub, idx + 1, c)
    BY <1>2, <1>4, <1>8, FitsSame
<1>10. GoodRun(close, sub, w) /\ c = w.ref.stack
    BY <1>2, <1>4, <1>5, <1>8, <1>9, GoodRunIs
<1>11. GoodRun(close, sub, w)'
    BY <1>7, <1>10, GoodRunStays
<1>12. Aside(close, sub, c)'
    BY <1>7, <1>10, <1>11 DEF Aside
<1>13. b \o ref.stack = c
    BY <1>2, <1>3, <1>4, EmptyAside
<1>14. Levels(c)'
    BY <1>2, <1>7, <1>13 DEF Levels, levels
<1>15. /\ (program \in Programs)' /\ Nested(close)' /\ Divided(close, sub)'
       /\ (val \in [Vars -> Nat])'
    BY <1>2, <1>7, TextStays DEF levels
<1>16. StepInv(close, sub, c)'
    BY <1>7, <1>12, <1>14, <1>15 DEF StepInv, Accounts
<1> QED  BY <1>16

\* A run starts on top of the frames of the run aside.
LEMMA EventInStep ==
    ASSUME NEW close, NEW sub, NEW b, StepInv(close, sub, b), Unshared, Event
    PROVE  \E c : StepInv(close, sub, c)'
<1>1. PICK i \in DOMAIN program :
        program[i] = EventLabel /\ Starts(i + 1, [at |-> i + 1, stack |-> <<>>])
    BY DEF Event
<1>2. waiting' = waiting
    BY DEF Event
<1>3. /\ program \in Programs /\ Nested(close) /\ Divided(close, sub) /\ val \in [Vars -> Nat]
      /\ Aside(close, sub, b) /\ b \in Seq(Frame)
    BY AsideType DEF StepInv, Accounts
<1> DEFINE p == [at |-> i + 1, stack |-> <<>>]
<1>4. /\ mode' = "run" /\ idx' = i + 1 /\ ref' = p /\ program' = program /\ UNCHANGED levels
    BY <1>1 DEF Starts
<1>5. Op(i) = "label" /\ i \in Lines /\ i + 1 \in Lines /\ i + 1 \in Nat
    <2>1. Op(i) = program[i].op /\ i \in Lines /\ i + 1 \in Lines /\ i + 1 \in Nat
        BY <1>3, Text
    <2> QED  BY <1>1, <2>1 DEF EventLabel
<1>6. LoopsAt(close, i + 1) = {} /\ ~sub[i + 1]
    <2>1. LoopsAt(close, i) = {}
        BY <1>3, <1>5 DEF Divided
    <2>2. ~sub[i + 1]
        BY <1>1, <1>3 DEF Divided
    <2> QED  BY <1>3, <1>5, <2>1, <2>2, LoopsStay
<1>7. p \in Place /\ p.at = i + 1 /\ p.stack = <<>>
    <2>1. <<>> \in Seq(Frame)
        OBVIOUS
    <2> QED  BY <1>5, <2>1 DEF Place
<1>8. Fits(close, sub, i + 1, p.stack)
    <2>1. Len(<<>>) = 0 /\ DOMAIN <<>> = {}
        OBVIOUS
    <2> QED  BY <1>6, <1>7, <2>1 DEF Fits, On
<1>9. /\ (program \in Programs)' /\ Nested(close)' /\ Divided(close, sub)'
      /\ (val \in [Vars -> Nat])'
    BY <1>3, <1>4, TextStays DEF levels
<1> HIDE DEF p
<1>10. CASE mode = "idle"
    <2>1. outer' = outer
        BY <1>1, <1>10 DEF Starts, Executes
    <2>2. Aside(close, sub, b)'
        BY <1>2, <1>3, <1>4, <2>1, AsideStays
    <2>3. Counted(b, nest, while_nest, for_nest, RETURN, WHILE, FOR)
        BY <1>10 DEF StepInv, Accounts, Levels
    <2>4. b \o p.stack = b
        BY <1>3, <1>7, EmptyAside
    <2>5. Counted(b \o p.stack, nest', while_nest', for_nest', RETURN', WHILE', FOR')
        BY <1>4, <2>3, <2>4 DEF levels
    <2>6. StepInv(close, sub, b)'
        BY <1>4, <1>5, <1>7, <1>8, <1>9, <2>2, <2>5, Starting
    <2> QED  BY <2>6
<1>11. CASE mode # "idle"
    <2>1. Executes("send") /\ Cardinality(waiting) + Len(outer) < MaxAside
          /\ outer' = Append(outer, [idx |-> idx, ref |-> ref])
        BY <1>1, <1>11 DEF Starts
    <2>2. mode = "run"
        BY <2>1 DEF Executes
    <2>3. /\ idx \in Lines /\ ref \in Place /\ ref.at = idx /\ ref.stack \in Seq(Frame)
          /\ Fits(close, sub, idx, ref.stack)
          /\ Counted(b \o ref.stack, nest, while_nest, for_nest, RETURN, WHILE, FOR)
        BY <2>2, RunFacts
    <2>4. outer = <<>> /\ waiting = {} /\ b = <<>>
        BY <1>3, <2>1, AsideFree DEF Unshared
    <2>5. PICK c : c = ref.stack
        OBVIOUS
    <2>6. PICK w : w = [idx |-> idx, ref |-> [at |-> idx, stack |-> c]]
        OBVIOUS
    <2>7. ref = [at |-> idx, stack |-> c]
        BY <2>3, <2>5 DEF Place
    <2>8. outer' = <<w>> /\ waiting' = {}
        BY <1>2, <2>1, <2>4, <2>6, <2>7
    <2>9. GoodRun(close, sub, w) /\ c = w.ref.stack
        BY <1>3, <2>3, <2>5, <2>6, GoodRunIs
    <2>10. GoodRun(close, sub, w)'
        BY <1>4, <2>9, GoodRunStays
    <2>11. Aside(close, sub, c)'
        <3>1. w \in {outer'[k] : k \in DOMAIN outer'}
            BY <2>8
        <3> QED  BY <2>8, <2>9, <2>10, <3>1 DEF Aside
    <2>12. b \o ref.stack = c /\ c \o p.stack = c
        BY <1>7, <2>3, <2>4, <2>5, EmptyAside
    <2>13. Counted(c \o p.stack, nest', while_nest', for_nest', RETURN', WHILE', FOR')
        BY <1>4, <2>3, <2>12 DEF levels
    <2>14. StepInv(close, sub, c)'
        BY <1>4, <1>5, <1>7, <1>8, <1>9, <2>11, <2>13, Starting
    <2> QED  BY <2>14
<1> QED  BY <1>10, <1>11

\* The reply of the only run that is set aside: it goes on where it was.
LEMMA ResumeInStep ==
    ASSUME NEW close, NEW sub, NEW b, StepInv(close, sub, b), Unshared, Resume
    PROVE  \E c : StepInv(close, sub, c)'
<1>1. PICK w \in waiting : Starts(w.idx, w.ref) /\ waiting' = waiting \ {w}
    BY DEF Resume
<1>2. /\ program \in Programs /\ Nested(close) /\ Divided(close, sub) /\ val \in [Vars -> Nat]
      /\ Aside(close, sub, b) /\ b \in Seq(Frame)
    BY AsideType DEF StepInv, Accounts
<1>3. /\ mode' = "run" /\ idx' = w.idx /\ ref' = w.ref /\ program' = program /\ UNCHANGED levels
    BY <1>1 DEF Starts
<1>4. waiting = {w} /\ outer = <<>> /\ GoodRun(close, sub, w) /\ b = w.ref.stack
    BY <1>1, <1>2 DEF Aside
<1>5. mode = "idle" /\ outer' = <<>>
    <2>1. CASE mode = "idle" /\ outer' = outer
        BY <1>4, <2>1
    <2>2. CASE Cardinality(waiting) + Len(outer) < MaxAside
        <3>1. waiting = {}
            BY <1>2, <2>2, AsideFree DEF Unshared
        <3> QED  BY <1>4, <3>1
    <2> QED  BY <1>1, <2>1, <2>2 DEF Starts
<1>6. /\ (program \in Programs)' /\ Nested(close)' /\ Divided(close, sub)'
      /\ (val \in [Vars -> Nat])'
    BY <1>2, <1>3, TextStays DEF levels
<1>7. w \in Run /\ w.idx \in Lines /\ w.ref.at = w.idx
      /\ Fits(close, sub, w.idx, w.ref.stack)
    BY <1>4 DEF GoodRun
<1>8. w.ref \in Place
    BY <1>7 DEF Run
<1>9. Aside(close, sub, <<>>)'
    <2>1. waiting' = {}
        BY <1>1, <1>4
    <2> QED  BY <1>5, <2>1 DEF Aside
<1>10. Counted(b, nest, while_nest, for_nest, RETURN, WHILE, FOR)
    BY <1>5 DEF StepInv, Accounts, Levels
<1>11. <<>> \o w.ref.stack = b
    BY <1>2, <1>4, EmptyAside
<1>12. Counted(<<>> \o w.ref.stack, nest', while_nest', for_nest', RETURN', WHILE', FOR')
    BY <1>3, <1>10, <1>11 DEF levels
<1>13. StepInv(close, sub, <<>>)'
    BY <1>3, <1>6, <1>7, <1>8, <1>9, <1>12, Starting
<1> QED  BY <1>13

\* cmd_next() of such a program always has a level of its own.
LEMMA NotFatal ==
    ASSUME NEW close, NEW sub, NEW b, StepInv(close, sub, b)
    PROVE  ~NextFatal
<1> SUFFICES ASSUME NextFatal PROVE FALSE
    OBVIOUS
<1>1. Executes("next") /\ for_nest \notin DOMAIN FOR
    BY DEF NextFatal
<1> QED  BY <1>1, AtNext

\* Nothing changes.
LEMMA StopsInStep ==
    ASSUME NEW close, NEW sub, NEW b, StepInv(close, sub, b), UNCHANGED vars
    PROVE  StepInv(close, sub, b)'
<1>1. program' = program /\ val' = val /\ UNCHANGED <<outer, waiting>> /\ idx' = idx
      /\ ref' = ref /\ mode' = mode /\ UNCHANGED levels
    BY DEF vars, levels
<1>2. /\ program \in Programs /\ Nested(close) /\ Divided(close, sub) /\ val \in [Vars -> Nat]
      /\ Aside(close, sub, b)
    BY DEF StepInv, Accounts
<1>3. /\ (program \in Programs)' /\ Nested(close)' /\ Divided(close, sub)'
      /\ Aside(close, sub, b)' /\ (val \in [Vars -> Nat])'
    BY <1>1, <1>2, TextStays, AsideStays
<1>4. CASE mode = "idle"
    <2>1. outer = <<>> /\ Counted(b, nest, while_nest, for_nest, RETURN, WHILE, FOR)
        BY <1>4 DEF StepInv, Accounts, Levels
    <2>2. Levels(b)'
        BY <1>1, <2>1 DEF Levels, levels
    <2> QED  BY <1>1, <1>3, <1>4, <2>1, <2>2 DEF StepInv, Accounts
<1>5. CASE mode = "run"
    <2>1. PICK i, p : i = idx /\ p = ref
        OBVIOUS
    <2>2. /\ i \in Lines /\ p \in Place /\ p.at = i /\ Fits(close, sub, i, p.stack)
          /\ Counted(b \o p.stack, nest, while_nest, for_nest, RETURN, WHILE, FOR)
        BY <1>5, <2>1, RunFacts
    <2>3. Counted(b \o p.stack, nest', while_nest', for_nest', RETURN', WHILE', FOR')
        BY <1>1, <2>2 DEF levels
    <2>4. idx' = i /\ ref' = p /\ mode' = "run"
        BY <1>1, <1>5, <2>1
    <2> QED  BY <1>1, <1>3, <2>2, <2>3, <2>4, Starting
<1> QED  BY <1>4, <1>5 DEF StepInv, Accounts

\* The inductive invariant: the frames of the runs aside and of the run that is
\* executed account for every level that is counted.
StepOk == \E close, sub, b : StepInv(close, sub, b)

\* A well-formed program starts in step.
LEMMA StepInit == Init /\ WellFormed => StepOk
<1> SUFFICES ASSUME Init, WellFormed PROVE StepOk
    OBVIOUS
<1>1. PICK close, sub : Nested(close) /\ Divided(close, sub)
    BY DEF WellFormed
<1>2. program \in Programs /\ mode = "idle" /\ outer = <<>> /\ waiting = {}
      /\ nest = 0 /\ while_nest = 0 /\ for_nest = 0 /\ val = [v \in Vars |-> 0]
    BY DEF Init
<1>3. val \in [Vars -> Nat]
    BY <1>2
<1>4. Levels(<<>>)
    BY <1>2, NoneCounted DEF Levels
<1>5. Aside(close, sub, <<>>)
    BY <1>2 DEF Aside
<1>6. StepInv(close, sub, <<>>)
    BY <1>1, <1>2, <1>3, <1>4, <1>5 DEF StepInv, Accounts
<1> QED  BY <1>6 DEF StepOk

\* Every step keeps it.
LEMMA StepNext == StepOk /\ Unshared /\ [Next]_vars => StepOk'
<1> SUFFICES ASSUME StepOk, Unshared, [Next]_vars PROVE StepOk'
    OBVIOUS
<1>1. PICK close, sub, b : StepInv(close, sub, b)
    BY DEF StepOk
<1> SUFFICES \E c : StepInv(close, sub, c)'
    BY DEF StepOk
<1>2. CASE Plain \/ EndIf \/ NoError \/ Send
    BY <1>1, <1>2, PlainInStep
<1>3. CASE Goto \/ Handled
    BY <1>1, <1>3, JumpInStep
<1>4. CASE Else \/ If
    BY <1>1, <1>4, ElseInStep, IfInStep
<1>5. CASE Gosub \/ Return
    BY <1>1, <1>5, GosubInStep, ReturnInStep
<1>6. CASE While \/ EndWhile
    BY <1>1, <1>6, WhileInStep, EndWhileInStep
<1>7. CASE For \/ NextLoop
    BY <1>1, <1>7, ForInStep, NextLoopInStep
<1>8. CASE BreakLoop \/ Continue
    BY <1>1, <1>8, BreakLoopInStep, ContinueInStep
<1>9. CASE EndRun \/ Fails \/ SendWait \/ Event \/ Resume
    BY <1>1, <1>9, EndRunInStep, FailsInStep, SendWaitInStep, EventInStep, ResumeInStep
<1>10. CASE NextFatal
    BY <1>1, <1>10, NotFatal
<1>11. CASE Stops \/ UNCHANGED vars
    <2>1. UNCHANGED vars
        BY <1>11 DEF Stops
    <2> QED  BY <1>1, <2>1, StopsInStep
<1> QED
    BY <1>2, <1>3, <1>4, <1>5, <1>6, <1>7, <1>8, <1>9, <1>10, <1>11 DEF Next

\* For every program whose blocks, labels and subroutines are where they belong,
\* and every order of events, sends, replies and errors with at most one run
\* aside, every statement is the one that a stack per run would execute: the
\* shared counters and the scans for the ends of blocks are as good as a stack.
THEOREM ProgramInStep == Spec /\ WellFormed /\ []Unshared => []InStep
<1>1. StepOk => InStep
    <2> SUFFICES ASSUME NEW close, NEW sub, NEW b, StepInv(close, sub, b), mode = "run"
                 PROVE  idx = ref.at
        BY DEF StepOk, InStep
    <2> QED  BY RunFacts
<1> QED  BY <1>1, StepInit, StepNext, PTL DEF Spec

\* The same with the counters: no level is left over or missing, and the
\* variables RETURN.n, WHILE.n and FOR.n of each are those of its own statement.
THEOREM LevelsAccounted ==
    Spec /\ WellFormed /\ []Unshared => [](\E close, sub, b : Accounts(close, sub, b))
<1>1. StepOk => \E close, sub, b : Accounts(close, sub, b)
    BY DEF StepOk, StepInv
<1> QED  BY <1>1, StepInit, StepNext, PTL DEF Spec

\* cmd_next() never ends sc with "Internal error for the FOR NEXT" in such a
\* program.
THEOREM NeverDies == Spec /\ WellFormed /\ []Unshared => [](mode # "dead")
<1>1. StepOk => mode # "dead"
    BY DEF StepOk, StepInv, Accounts
<1> QED  BY <1>1, StepInit, StepNext, PTL DEF Spec

-----------------------------------------------------------------------------
(* Types: where a run is, for any number of runs aside. *)

\* Place p with the next statement i
Here(i, p) ==
    /\ i \in Lines /\ p \in Place
    /\ \A k \in DOMAIN p.stack : p.stack[k].start \in DOMAIN program

Held ==
    /\ outer \in Seq(Run) /\ waiting \subseteq Run /\ IsFiniteSet(waiting)
    /\ Cardinality(waiting) + Len(outer) <= MaxAside
    /\ \A w \in waiting : Here(w.idx, w.ref)
    /\ \A k \in DOMAIN outer : Here(outer[k].idx, outer[k].ref)

Numbers ==
    /\ nest \in 0..MaxNest /\ for_nest \in 0..MaxNest
    /\ while_nest \in (-MaxNest)..MaxNest
    /\ RETURN \in [DOMAIN RETURN -> Lines] /\ WHILE \in [DOMAIN WHILE -> Lines]
    /\ FOR \in [DOMAIN FOR -> [at : Lines, to : Limits]]
    /\ val \in [Vars -> Nat]

TypeInv(close, sub) ==
    /\ program \in Programs /\ Nested(close) /\ Divided(close, sub)
    /\ mode \in {"idle", "run", "dead"} /\ events \in 0..MaxEvents
    /\ Here(idx, ref) /\ Held /\ Numbers /\ LevelsInv

\* The partner of a block is a line.
LEMMA PartnerType ==
    ASSUME program \in Programs, NEW i \in DOMAIN program
    PROVE  Partner(i) \in Lines /\ Partner(i) \in Nat /\ Partner(i) + 1 \in Nat
<1> DEFINE S == {j \in Lines : j > i /\ (Depth(i, j) = 0 \/ Op(j) = "null")}
<1>1. S \subseteq Nat /\ S # {}
    <2>1. Len(program) + 1 \in S
        BY Text
    <2> QED  BY <2>1, Text
<1>2. Min(S) \in S
    BY <1>1, MinNat
<1>3. Partner(i) = Min(S)
    BY DEF Partner
<1> QED  BY <1>2, <1>3, Text

\* A step that changes neither the program nor what is held keeps the types.
LEMMA HereStays ==
    ASSUME NEW i, NEW p, Here(i, p), program' = program
    PROVE  Here(i, p)'
BY DEF Here, Lines

LEMMA HeldStays ==
    ASSUME Held, program' = program, UNCHANGED <<outer, waiting>>
    PROVE  Held'
BY DEF Held, Here, Lines

\* A statement that leaves the counters alone.
LEMMA NumbersStay ==
    ASSUME Numbers, program' = program, UNCHANGED levels
    PROVE  Numbers'
BY DEF Numbers, Lines, levels

\* A statement goes to place n with stack s.
LEMMA HereGoes ==
    ASSUME program \in Programs, program' = program, NEW s \in Seq(Frame), NEW n \in Nat,
           \A k \in DOMAIN s : s[k].start \in DOMAIN program, GoesTo(n, s), idx' \in Lines
    PROVE  Here(idx, ref)'
<1>1. ref' = [at |-> n, stack |-> s]
    BY DEF GoesTo
<1>2. ref' \in Place /\ ref'.stack = s
    BY <1>1 DEF Place
<1> QED  BY <1>2 DEF Here, Lines

\* A statement that keeps its stack.
LEMMA HereSteps ==
    ASSUME program \in Programs, program' = program, Here(idx, ref), NEW n \in Nat,
           Steps(n), idx' \in Lines
    PROVE  Here(idx, ref)'
<1>1. PICK s : s = ref.stack
    OBVIOUS
<1>2. s \in Seq(Frame) /\ \A k \in DOMAIN s : s[k].start \in DOMAIN program
    BY <1>1 DEF Here, Place
<1> QED  BY <1>1, <1>2, HereGoes DEF Steps

\* A frame more for the statement at idx.
LEMMA HereEnters ==
    ASSUME program \in Programs, program' = program, Here(idx, ref), NEW n \in Nat,
           idx \in DOMAIN program, NEW kind \in {"gosub", "while", "for"}, NEW y \in Nat,
           Enters(n, kind, y), idx' \in Lines
    PROVE  Here(idx, ref)'
<1>1. PICK f : f = [kind |-> kind, start |-> idx, to |-> y]
    OBVIOUS
<1>2. PICK s : s = Append(ref.stack, f)
    OBVIOUS
<1>3. f \in Frame /\ f.start \in DOMAIN program
    BY <1>1, Text DEF Frame
<1>4. ref.stack \in Seq(Frame)
      /\ \A k \in DOMAIN ref.stack : ref.stack[k].start \in DOMAIN program
    BY DEF Here, Place
<1>5. s \in Seq(Frame)
    BY <1>2, <1>3, <1>4, AppendProperties
<1>6. ASSUME NEW k \in DOMAIN s PROVE s[k].start \in DOMAIN program
    <2>1. (k \in DOMAIN ref.stack /\ s[k] = ref.stack[k]) \/ s[k] = f
        BY <1>2, <1>3, <1>4
    <2> QED  BY <1>3, <1>4, <2>1
<1>7. GoesTo(n, s)
    BY <1>1, <1>2 DEF Enters
<1> QED  BY <1>5, <1>6, <1>7, HereGoes

\* Frames are left.
LEMMA BelowType ==
    ASSUME Here(idx, ref), NEW k \in DOMAIN ref.stack, NEW m \in {k, k + 1}
    PROVE  /\ Below(m) \in Seq(Frame) /\ k \in Nat
           /\ \A j \in DOMAIN Below(m) : Below(m)[j].start \in DOMAIN program
<1>1. ref.stack \in Seq(Frame)
      /\ \A j \in DOMAIN ref.stack : ref.stack[j].start \in DOMAIN program
    BY DEF Here, Place
<1>2. k \in 1..Len(ref.stack) /\ Len(ref.stack) \in Nat /\ DOMAIN ref.stack = 1..Len(ref.stack)
    BY <1>1
<1>3. m - 1 \in 0..Len(ref.stack) /\ m - 1 \in Int
    BY <1>2
<1>4. PICK s : s = Below(m)
    OBVIOUS
<1>5. s = SubSeq(ref.stack, 1, m - 1)
    BY <1>4 DEF Below
<1>6. \A j \in 1..(m - 1) : ref.stack[j] \in Frame /\ j \in DOMAIN ref.stack
    BY <1>1, <1>2, <1>3, ElementOfSeq
<1>7. s \in Seq(Frame)
    BY <1>1, <1>3, <1>5
<1>8. \A j \in DOMAIN s : j \in DOMAIN ref.stack /\ s[j] = ref.stack[j]
    BY <1>1, <1>2, <1>3, <1>5
<1> QED  BY <1>1, <1>2, <1>4, <1>7, <1>8

\* A statement that leaves frame k, or the frames above it.
LEMMA HereBelow ==
    ASSUME program \in Programs, program' = program, Here(idx, ref), idx' \in Lines,
           NEW k \in DOMAIN ref.stack, NEW m \in {k, k + 1}, NEW n \in Nat, GoesTo(n, Below(m))
    PROVE  Here(idx, ref)'
<1>1. PICK s : s = Below(m)
    OBVIOUS
<1>2. s \in Seq(Frame) /\ \A j \in DOMAIN s : s[j].start \in DOMAIN program
    BY <1>1, BelowType
<1> QED  BY <1>1, <1>2, HereGoes

\* What is known where a statement is executed.
LEMMA TypeFacts ==
    ASSUME NEW close, NEW sub, TypeInv(close, sub), NEW op, op # "null", Executes(op)
    PROVE  /\ program \in Programs /\ Nested(close) /\ Divided(close, sub)
           /\ idx \in DOMAIN program /\ idx \in Nat /\ idx + 1 \in Lines /\ Op(idx) = op
           /\ Here(idx, ref) /\ Lines \subseteq Nat /\ Arg \in Nat /\ Arg = program[idx].arg
           /\ \A k \in DOMAIN ref.stack : ref.stack[k].start \in DOMAIN program
           /\ ref.stack \in Seq(Frame)
<1>1. /\ program \in Programs /\ Nested(close) /\ Divided(close, sub) /\ Here(idx, ref)
      /\ idx \in Lines /\ Op(idx) = op
    BY DEF TypeInv, Here, Executes
<1>2. idx \in DOMAIN program
    BY <1>1, Text
<1> QED  BY <1>1, <1>2, Text DEF Arg, Here, Place

\* What is to be shown of a statement.
LEMMA StatementTyped ==
    ASSUME NEW close, NEW sub, TypeInv(close, sub), program' = program, UNCHANGED context,
           Here(idx, ref)', Numbers', LevelsInv'
    PROVE  TypeInv(close, sub)'
<1>1. /\ program \in Programs /\ Nested(close) /\ Divided(close, sub) /\ Held
    BY DEF TypeInv
<1>2. (program \in Programs)' /\ Nested(close)' /\ Divided(close, sub)' /\ Held'
    BY <1>1, TextStays, HeldStays DEF context
<1>3. (mode \in {"idle", "run", "dead"} /\ events \in 0..MaxEvents)'
    BY DEF TypeInv, context
<1> QED  BY <1>2, <1>3 DEF TypeInv

\* A statement that moves the index only.
LEMMA MovesTyped ==
    ASSUME NEW close, NEW sub, TypeInv(close, sub), LevelsInv', NEW to \in Lines, NEW n \in Nat,
           Moves(to, n)
    PROVE  TypeInv(close, sub)'
<1>1. /\ program' = program /\ UNCHANGED levels /\ UNCHANGED context /\ idx' = to /\ Steps(n)
    BY DEF Moves
<1>2. program \in Programs /\ Here(idx, ref) /\ Numbers
    BY DEF TypeInv
<1>3. Here(idx, ref)'
    BY <1>1, <1>2, HereSteps
<1>4. Numbers'
    BY <1>1, <1>2, NumbersStay
<1> QED  BY <1>1, <1>3, <1>4, StatementTyped

LEMMA PlainTyped ==
    ASSUME NEW close, NEW sub, TypeInv(close, sub), LevelsInv',
           Plain \/ EndIf \/ NoError \/ Send \/ Goto \/ Handled
    PROVE  TypeInv(close, sub)'
<1>1. CASE Plain \/ EndIf \/ NoError \/ Send
    <2>1. PICK op \in {"plain", "end_if", "no_error", "send"} :
            Executes(op) /\ Moves(idx + 1, idx + 1)
        BY <1>1 DEF Plain, EndIf, NoError, Send
    <2>2. idx + 1 \in Lines /\ idx + 1 \in Nat
        BY <2>1, TypeFacts
    <2> QED  BY <2>1, <2>2, MovesTyped
<1>2. CASE Goto \/ Handled
    <2>1. PICK op \in {"goto", "fails"} :
            Executes(op) /\ Moves(Arg, Arg) /\ (op = "fails" => Arg # 0)
        BY <1>2 DEF Goto, Handled
    <2>2. /\ Divided(close, sub) /\ idx \in DOMAIN program /\ Op(idx) = op /\ Arg \in Nat
          /\ Arg = program[idx].arg
        BY <2>1, TypeFacts
    <2>3. JumpsTo(close, sub, idx, program[idx].arg)
        BY <2>1, <2>2 DEF Divided
    <2> QED  BY <2>1, <2>2, <2>3, MovesTyped DEF JumpsTo
<1> QED  BY <1>1, <1>2

LEMMA BranchTyped ==
    ASSUME NEW close, NEW sub, TypeInv(close, sub), LevelsInv', Else \/ If
    PROVE  TypeInv(close, sub)'
<1>1. CASE Else
    <2>1. PICK op \in {"else", "else_if"} : Executes(op)
        BY <1>1 DEF Else
    <2>2. /\ program \in Programs /\ Nested(close) /\ Divided(close, sub)
          /\ idx \in DOMAIN program /\ Op(idx) = op
        BY <2>1, TypeFacts
    <2>3. PICK o \in Blocks : InIf(close, o, idx)
        BY <2>1, <2>2 DEF Divided
    <2>4. EndOfIf(idx) = close[o]
          /\ Min({j \in Lines : j > idx /\ Depth(idx, j) = -1}) = close[o]
        BY <2>1, <2>2, <2>3, EndOfIfIs, ElseEndIs
    <2>5. Moves(close[o] + 1, close[o] + 1)
        BY <1>1, <2>4 DEF Else
    <2>6. close[o] + 1 \in Lines /\ close[o] + 1 \in Nat
        BY <2>2, Block
    <2> QED  BY <2>5, <2>6, MovesTyped
<1>2. CASE If
    <2>1. Executes("if")
        BY <1>2 DEF If
    <2>2. /\ program \in Programs /\ Nested(close) /\ Divided(close, sub)
          /\ idx \in DOMAIN program /\ Op(idx) = "if" /\ idx + 1 \in Lines /\ Lines \subseteq Nat
        BY <2>1, TypeFacts
    <2>3. idx \in Blocks /\ ElsesIn(close)
        BY <2>2 DEF Blocks, Opens, Divided, ElsesIn
    <2>4. PICK j \in Branches[idx] :
            Moves(j + 1, IF j \in {idx} \cup RefBranches(idx) THEN j + 1 ELSE 0)
        BY <1>2 DEF If
    <2>5. j \in {idx} \cup Divides(close, idx)
        BY <2>2, <2>3, BranchesDivide
    <2>6. j + 1 \in Lines
        BY <2>2, <2>3, <2>5, DividesLike
    <2>7. PICK n \in Nat : n = IF j \in {idx} \cup RefBranches(idx) THEN j + 1 ELSE 0
        BY <2>2, <2>6
    <2>8. Moves(j + 1, n)
        BY <2>4, <2>7
    <2> QED  BY <2>6, <2>8, MovesTyped
<1> QED  BY <1>1, <1>2

\* variable_put() of a value of the right type.
LEMMA PutType ==
    ASSUME NEW f, NEW T, f \in [DOMAIN f -> T], NEW n, NEW x \in T
    PROVE  variable_put(f, n, x) \in [DOMAIN variable_put(f, n, x) -> T]
BY DEF variable_put

LEMMA CallTyped ==
    ASSUME NEW close, NEW sub, TypeInv(close, sub), LevelsInv', Gosub \/ Return
    PROVE  TypeInv(close, sub)'
<1>1. program' = program /\ UNCHANGED context
      /\ UNCHANGED <<while_nest, for_nest, WHILE, FOR, val>>
    BY DEF Gosub, Return
<1>2. Numbers /\ MaxNest \in Nat /\ LevelsInv
    BY ControlAssumption DEF TypeInv
<1>3. CASE Gosub
    <2>1. Executes("gosub") /\ nest < MaxNest /\ nest' = nest + 1 /\ idx' = Arg
          /\ RETURN' = variable_put(RETURN, nest + 1, idx + 1) /\ Enters(Arg, "gosub", 0)
        BY <1>3 DEF Gosub
    <2>2. /\ program \in Programs /\ Divided(close, sub) /\ Here(idx, ref) /\ Op(idx) = "gosub"
          /\ idx \in DOMAIN program /\ Arg \in Nat /\ Arg = program[idx].arg /\ idx + 1 \in Lines
        BY <2>1, TypeFacts
    <2>3. Arg \in Lines
        BY <2>2 DEF Divided
    <2>4. Here(idx, ref)'
        BY <1>1, <2>1, <2>2, <2>3, HereEnters
    <2>5. nest' \in 0..MaxNest
        BY <1>2, <2>1 DEF Numbers
    <2>6. RETURN' \in [DOMAIN RETURN' -> Lines]
        BY <1>2, <2>1, <2>2, PutType DEF Numbers
    <2>7. Numbers'
        BY <1>1, <1>2, <2>5, <2>6 DEF Numbers, Lines
    <2> QED  BY <1>1, <2>4, <2>7, StatementTyped
<1>4. CASE Return
    <2>1. /\ Executes("return") /\ RETURN' = RETURN /\ Leaves({"gosub"}, After, idx + 1)
          /\ ((nest < 1 /\ idx' = idx + 1 /\ nest' = nest)
              \/ (nest >= 1 /\ idx' = RETURN[nest] /\ nest' = nest - 1))
        BY <1>4 DEF Return
    <2>2. /\ program \in Programs /\ Here(idx, ref) /\ idx + 1 \in Lines /\ Lines \subseteq Nat
          /\ \A k \in DOMAIN ref.stack : ref.stack[k].start \in DOMAIN program
        BY <2>1, TypeFacts
    <2>3. nest \in Nat /\ (nest >= 1 => nest \in DOMAIN RETURN)
        BY <1>2 DEF LevelsInv, LevelsKnown
    <2>4. idx' \in Lines /\ nest' \in 0..MaxNest
        BY <1>2, <2>1, <2>2, <2>3 DEF Numbers
    <2>5. Here(idx, ref)'
        <3>1. CASE Steps(idx + 1)
            BY <1>1, <2>2, <2>4, <3>1, HereSteps
        <3>2. CASE \E k \in Innermost({"gosub"}) : GoesTo(After(ref.stack[k]), Below(k))
            <4>1. PICK k \in DOMAIN ref.stack : GoesTo(After(ref.stack[k]), Below(k))
                BY <3>2 DEF Innermost
            <4>2. After(ref.stack[k]) \in Nat
                BY <2>2, Text DEF After
            <4> QED  BY <1>1, <2>2, <2>4, <4>1, <4>2, HereBelow
        <3> QED  BY <2>1, <3>1, <3>2 DEF Leaves
    <2>6. Numbers'
        BY <1>1, <1>2, <2>1, <2>4 DEF Numbers, Lines
    <2> QED  BY <1>1, <2>5, <2>6, StatementTyped
<1> QED  BY <1>3, <1>4

LEMMA WhileTyped ==
    ASSUME NEW close, NEW sub, TypeInv(close, sub), LevelsInv', While \/ EndWhile
    PROVE  TypeInv(close, sub)'
<1>1. program' = program /\ UNCHANGED context /\ UNCHANGED <<nest, for_nest, RETURN, FOR, val>>
    BY DEF While, EndWhile
<1>2. Numbers /\ MaxNest \in Nat /\ LevelsInv
    BY ControlAssumption DEF TypeInv
<1>3. CASE While
    <2>1. Executes("while") /\ while_nest < MaxNest
          /\ WHILE' = variable_put(WHILE, while_nest + 1, idx)
        BY <1>3 DEF While
    <2>2. /\ program \in Programs /\ Nested(close) /\ Here(idx, ref) /\ Op(idx) = "while"
          /\ idx \in DOMAIN program /\ idx + 1 \in Lines /\ Lines \subseteq Nat /\ idx \in Lines
        BY <2>1, TypeFacts, Text
    <2>3. idx \in Blocks
        BY <2>2 DEF Blocks, Opens
    <2>4. EndOfWhile(idx) = close[idx] /\ Partner(idx) = close[idx] /\ close[idx] + 1 \in Lines
        BY <2>2, <2>3, EndOfWhileIs, PartnerIs, Block
    <2>5. while_nest' \in (-MaxNest)..MaxNest
        BY <1>2, <1>3, <2>1 DEF Numbers, While
    <2>6. WHILE' \in [DOMAIN WHILE' -> Lines]
        BY <1>2, <2>1, <2>2, PutType DEF Numbers
    <2>7. Here(idx, ref)'
        <3>1. CASE idx' = idx + 1 /\ Enters(idx + 1, "while", 0)
            BY <1>1, <2>2, <3>1, HereEnters
        <3>2. CASE idx' = EndOfWhile(idx) + 1 /\ Steps(Partner(idx) + 1)
            BY <1>1, <2>2, <2>4, <3>2, HereSteps
        <3> QED  BY <1>3, <3>1, <3>2 DEF While
    <2>8. Numbers'
        BY <1>1, <1>2, <2>5, <2>6 DEF Numbers, Lines
    <2> QED  BY <1>1, <2>7, <2>8, StatementTyped
<1>4. CASE EndWhile
    <2>1. /\ Executes("end_while") /\ WHILE' = WHILE /\ Leaves({"while"}, Start, idx + 1)
          /\ ((while_nest < 1 /\ idx' = idx + 1 /\ while_nest' = while_nest)
              \/ (while_nest >= 1 /\ idx' = WHILE[while_nest] /\ while_nest' = while_nest - 1))
        BY <1>4 DEF EndWhile
    <2>2. /\ program \in Programs /\ Here(idx, ref) /\ idx + 1 \in Lines /\ Lines \subseteq Nat
          /\ \A k \in DOMAIN ref.stack : ref.stack[k].start \in DOMAIN program
        BY <2>1, TypeFacts
    <2>3. while_nest \in Int /\ (while_nest >= 1 => while_nest \in DOMAIN WHILE)
        BY <1>2 DEF LevelsInv, LevelsKnown
    <2>4. idx' \in Lines /\ while_nest' \in (-MaxNest)..MaxNest
        BY <1>2, <2>1, <2>2, <2>3 DEF Numbers
    <2>5. Here(idx, ref)'
        <3>1. CASE Steps(idx + 1)
            BY <1>1, <2>2, <2>4, <3>1, HereSteps
        <3>2. CASE \E k \in Innermost({"while"}) : GoesTo(Start(ref.stack[k]), Below(k))
            <4>1. PICK k \in DOMAIN ref.stack : GoesTo(Start(ref.stack[k]), Below(k))
                BY <3>2 DEF Innermost
            <4>2. Start(ref.stack[k]) \in Nat
                BY <2>2, Text DEF Start
            <4> QED  BY <1>1, <2>2, <2>4, <4>1, <4>2, HereBelow
        <3> QED  BY <2>1, <3>1, <3>2 DEF Leaves
    <2>6. Numbers'
        BY <1>1, <1>2, <2>1, <2>4 DEF Numbers, Lines
    <2> QED  BY <1>1, <2>5, <2>6, StatementTyped
<1> QED  BY <1>3, <1>4

LEMMA ForTyped ==
    ASSUME NEW close, NEW sub, TypeInv(close, sub), LevelsInv', For
    PROVE  TypeInv(close, sub)'
<1>1. program' = program /\ UNCHANGED context /\ UNCHANGED <<nest, while_nest, RETURN, WHILE>>
    BY DEF For
<1>2. Numbers /\ MaxNest \in Nat /\ Limits \subseteq Nat
    BY ControlAssumption DEF TypeInv
<1>3. Executes("for") /\ for_nest < MaxNest /\ val' = [val EXCEPT ![Arg] = 1]
    BY DEF For
<1>4. /\ program \in Programs /\ Nested(close) /\ Here(idx, ref) /\ Op(idx) = "for"
      /\ idx \in DOMAIN program /\ idx + 1 \in Lines /\ Lines \subseteq Nat /\ idx \in Lines
    BY <1>3, TypeFacts, Text
<1>5. idx \in Blocks
    BY <1>4 DEF Blocks, Opens
<1>6. EndOfFor(idx) = close[idx] /\ Partner(idx) = close[idx] /\ close[idx] + 1 \in Lines
    BY <1>4, <1>5, EndOfForIs, PartnerIs, Block
<1>7. PICK y \in Limits :
        /\ FOR' = variable_put(FOR, for_nest + 1, [at |-> idx + 1, to |-> y])
        /\ \/ for_nest' = for_nest + 1 /\ idx' = idx + 1 /\ Enters(idx + 1, "for", y)
           \/ idx' = EndOfFor(idx) + 1 /\ Steps(Partner(idx) + 1) /\ for_nest' = for_nest
    BY DEF For
<1>8. Here(idx, ref)'
    <2>1. CASE idx' = idx + 1 /\ Enters(idx + 1, "for", y)
        BY <1>1, <1>2, <1>4, <2>1, HereEnters
    <2>2. CASE idx' = EndOfFor(idx) + 1 /\ Steps(Partner(idx) + 1)
        BY <1>1, <1>4, <1>6, <2>2, HereSteps
    <2> QED  BY <1>7, <2>1, <2>2
<1>9. for_nest' \in 0..MaxNest
    BY <1>2, <1>3, <1>7 DEF Numbers
<1>10. FOR' \in [DOMAIN FOR' -> [at : Lines, to : Limits]]
    <2>1. [at |-> idx + 1, to |-> y] \in [at : Lines, to : Limits]
        BY <1>4
    <2> QED  BY <1>2, <1>7, <2>1, PutType DEF Numbers
<1>11. val' \in [Vars -> Nat]
    BY <1>2, <1>3 DEF Numbers
<1>12. Numbers'
    BY <1>1, <1>2, <1>9, <1>10, <1>11 DEF Numbers, Lines
<1> QED  BY <1>1, <1>8, <1>12, StatementTyped

LEMMA NextTyped ==
    ASSUME NEW close, NEW sub, TypeInv(close, sub), LevelsInv', NextLoop
    PROVE  TypeInv(close, sub)'
<1>1. program' = program /\ UNCHANGED context
      /\ UNCHANGED <<nest, while_nest, RETURN, WHILE, FOR>>
    BY DEF NextLoop
<1>2. Numbers /\ MaxNest \in Nat /\ LevelsInv
    BY ControlAssumption DEF TypeInv
<1>3. Executes("next") /\ for_nest \in DOMAIN FOR
    BY DEF NextLoop
<1>4. /\ program \in Programs /\ Nested(close) /\ Here(idx, ref) /\ Op(idx) = "next"
      /\ idx \in DOMAIN program /\ idx + 1 \in Lines /\ Lines \subseteq Nat /\ idx \in Lines
      /\ Arg = program[idx].arg
      /\ \A k \in DOMAIN ref.stack : ref.stack[k].start \in DOMAIN program
    BY <1>3, TypeFacts, Text
<1>5. PICK x : /\ x = val[Arg] + 1 /\ RefNext(x)
               /\ \/ /\ idx' = FOR[for_nest].at /\ for_nest' = for_nest
                     /\ val' = [val EXCEPT ![Arg] = x]
                  \/ idx' = idx + 1 /\ for_nest' = for_nest - 1 /\ val' = val
    BY DEF NextLoop
<1>6. Arg \in Vars
    <2>1. PICK o \in Blocks : idx = close[o]
        BY <1>4 DEF Nested, Closes
    <2>2. Op(o) = "for"
        BY <1>4, <2>1, Block, ClosingIs
    <2> QED  BY <1>4, <2>1, <2>2 DEF Nested
<1>7. x \in Nat
    BY <1>2, <1>5, <1>6 DEF Numbers
<1>8. val' \in [Vars -> Nat]
    BY <1>2, <1>5, <1>7 DEF Numbers
<1>9. idx' \in Lines /\ for_nest' \in 0..MaxNest
    <2>1. FOR[for_nest].at \in Lines
        BY <1>2, <1>3 DEF Numbers
    <2>2. for_nest \in 0..MaxNest /\ for_nest' \in Nat
        BY <1>2 DEF Numbers, LevelsInv
    <2> QED  BY <1>2, <1>4, <1>5, <2>1, <2>2
<1>10. Here(idx, ref)'
    <2>1. CASE Steps(0)
        BY <1>1, <1>4, <1>9, <2>1, HereSteps
    <2>2. CASE \E k \in DOMAIN ref.stack :
                 Steps(After(ref.stack[k])) \/ GoesTo(idx + 1, Below(k))
        <3>1. PICK k \in DOMAIN ref.stack :
                Steps(After(ref.stack[k])) \/ GoesTo(idx + 1, Below(k))
            BY <2>2
        <3>2. After(ref.stack[k]) \in Nat /\ idx + 1 \in Nat
            BY <1>4, Text DEF After
        <3>3. CASE Steps(After(ref.stack[k]))
            BY <1>1, <1>4, <1>9, <3>2, <3>3, HereSteps
        <3>4. CASE GoesTo(idx + 1, Below(k))
            BY <1>1, <1>4, <1>9, <3>2, <3>4, HereBelow
        <3> QED  BY <3>1, <3>3, <3>4
    <2> QED  BY <1>5, <2>1, <2>2 DEF RefNext, Innermost
<1>11. Numbers'
    BY <1>1, <1>2, <1>8, <1>9 DEF Numbers, Lines
<1> QED  BY <1>1, <1>10, <1>11, StatementTyped

LEMMA LoopEndTyped ==
    ASSUME NEW close, NEW sub, TypeInv(close, sub), LevelsInv', BreakLoop \/ Continue
    PROVE  TypeInv(close, sub)'
<1>1. PICK op \in {"break_loop", "continue"} : Executes(op)
    BY DEF BreakLoop, Continue
<1>2. /\ program \in Programs /\ Nested(close) /\ Divided(close, sub) /\ Here(idx, ref)
      /\ Op(idx) = op /\ idx \in DOMAIN program /\ Lines \subseteq Nat
      /\ \A k \in DOMAIN ref.stack : ref.stack[k].start \in DOMAIN program
    BY <1>1, TypeFacts
<1>3. LoopsAt(close, idx) # {}
    BY <1>1, <1>2 DEF Divided
<1>4. PICK o : LoopAt(close, idx, o)
    BY <1>2, <1>3, HasLoop
<1>5. o \in Blocks /\ Op(o) \in {"while", "for"} /\ Op(close[o]) \in {"next", "end_while"}
      /\ close[o] \in Lines /\ close[o] + 1 \in Lines
    BY <1>2, <1>4, Block, ClosingIs DEF LoopAt, LoopsAt
<1>6. EndOfLoop(idx) = close[o]
    BY <1>1, <1>2, <1>4, EndOfLoopIs
<1>7. program' = program /\ UNCHANGED context
      /\ UNCHANGED <<nest, for_nest, RETURN, WHILE, FOR, val>>
    BY DEF BreakLoop, Continue, levels
<1>8. Numbers /\ MaxNest \in Nat
    BY ControlAssumption DEF TypeInv
<1>9. idx' \in Lines
    BY <1>5, <1>6 DEF BreakLoop, Continue
<1>10. while_nest' \in (-MaxNest)..MaxNest
    <2>1. while_nest' = while_nest \/ (while_nest > -MaxNest /\ while_nest' = while_nest - 1)
        BY DEF BreakLoop, Continue, levels
    <2> QED  BY <1>8, <2>1 DEF Numbers
<1>11. Here(idx, ref)'
    <2>1. CASE Steps(0)
        BY <1>2, <1>7, <1>9, <2>1, HereSteps
    <2>2. CASE \E k \in DOMAIN ref.stack : \/ GoesTo(Exit(ref.stack[k]), Below(k))
                                           \/ GoesTo(Partner(ref.stack[k].start), Below(k + 1))
        <3>1. PICK k \in DOMAIN ref.stack : \/ GoesTo(Exit(ref.stack[k]), Below(k))
                                            \/ GoesTo(Partner(ref.stack[k].start), Below(k + 1))
            BY <2>2
        <3>2. Exit(ref.stack[k]) \in Nat /\ Partner(ref.stack[k].start) \in Nat
            BY <1>2, PartnerType DEF Exit
        <3>3. CASE GoesTo(Exit(ref.stack[k]), Below(k))
            BY <1>2, <1>7, <1>9, <3>2, <3>3, HereBelow
        <3>4. CASE GoesTo(Partner(ref.stack[k].start), Below(k + 1))
            BY <1>2, <1>7, <1>9, <3>2, <3>4, HereBelow
        <3> QED  BY <3>1, <3>3, <3>4
    <2> QED  BY <2>1, <2>2 DEF BreakLoop, Continue, Leaves, Innermost
<1>12. Numbers'
    BY <1>7, <1>8, <1>10 DEF Numbers, Lines
<1> QED  BY <1>7, <1>11, <1>12, StatementTyped

-----------------------------------------------------------------------------

\* execute() returns, with runs W suspended.
LEMMA OverTyped ==
    ASSUME NEW close, NEW sub, TypeInv(close, sub), LevelsInv', Numbers', Over,
           program' = program, mode = "run", events' = events,
           waiting' \subseteq Run, IsFiniteSet(waiting'),
           Cardinality(waiting') + Len(outer) <= MaxAside,
           \A w \in waiting' : Here(w.idx, w.ref)
    PROVE  TypeInv(close, sub)'
<1>1. /\ program \in Programs /\ Nested(close) /\ Divided(close, sub) /\ Here(idx, ref)
      /\ outer \in Seq(Run) /\ Held /\ events \in 0..MaxEvents
    BY DEF TypeInv, Held
<1>2. (program \in Programs)' /\ Nested(close)' /\ Divided(close, sub)'
    BY <1>1, TextStays
<1>3. /\ \A w \in waiting' : Here(w.idx, w.ref)'
    BY HereStays
<1>4. CASE outer = <<>>
    <2>1. mode' = "idle" /\ idx' = idx /\ ref' = ref /\ outer' = outer
        BY <1>4 DEF Over
    <2>2. Here(idx, ref)'
        BY <1>1, <2>1 DEF Here, Lines
    <2>3. Held'
        BY <1>1, <1>3, <2>1 DEF Held, Here, Lines
    <2> QED  BY <1>1, <1>2, <2>1, <2>2, <2>3 DEF TypeInv
<1>5. CASE outer # <<>>
    <2> DEFINE n == Len(outer)
    <2>1. mode' = mode /\ idx' = outer[n].idx /\ ref' = outer[n].ref
          /\ outer' = SubSeq(outer, 1, n - 1)
        BY <1>5 DEF Over
    <2>2. n \in Nat \ {0} /\ DOMAIN outer = 1..n /\ n \in DOMAIN outer
        BY <1>1, <1>5, EmptySeq
    <2>3. Here(outer[n].idx, outer[n].ref)
        BY <1>1, <2>2 DEF Held
    <2>4. Here(idx, ref)'
        BY <2>1, <2>3 DEF Here, Lines
    <2>5. outer' \in Seq(Run) /\ Len(outer') = n - 1
          /\ \A k \in DOMAIN outer' : k \in DOMAIN outer /\ outer'[k] = outer[k]
        BY <1>1, <2>1, <2>2
    <2>6. \A k \in DOMAIN outer' : Here(outer'[k].idx, outer'[k].ref)
        BY <1>1, <2>5 DEF Held
    <2>7. Cardinality(waiting') + Len(outer') <= MaxAside
        <3>1. Cardinality(waiting') \in Nat /\ MaxAside \in Nat
            BY FS_CardinalityType, ControlAssumption
        <3> QED  BY <2>2, <2>5, <3>1
    <2>8. Held'
        BY <1>3, <2>5, <2>6, <2>7 DEF Held, Here, Lines
    <2> QED  BY <1>1, <1>2, <2>1, <2>4, <2>8 DEF TypeInv
<1> QED  BY <1>4, <1>5

LEMMA EndTyped ==
    ASSUME NEW close, NEW sub, TypeInv(close, sub), LevelsInv', EndRun \/ Fails
    PROVE  TypeInv(close, sub)'
<1>1. /\ Held /\ Numbers /\ MaxNest \in Nat
    BY ControlAssumption DEF TypeInv
<1>2. /\ mode = "run" /\ Over /\ program' = program /\ waiting' = waiting /\ events' = events
    BY DEF EndRun, Fails, Executes
<1>3. Numbers'
    <2>1. CASE EndRun
        BY <1>1, <1>2, <2>1, NumbersStay DEF EndRun
    <2>2. CASE Fails
        <3>1. nest' = 0 /\ while_nest' = 0 /\ for_nest' = 0
              /\ UNCHANGED <<RETURN, WHILE, FOR, val>>
            BY <2>2 DEF Fails
        <3> QED  BY <1>1, <1>2, <3>1 DEF Numbers, Lines
    <2> QED  BY <2>1, <2>2
<1>4. /\ waiting' \subseteq Run /\ IsFiniteSet(waiting')
      /\ Cardinality(waiting') + Len(outer) <= MaxAside
      /\ \A w \in waiting' : Here(w.idx, w.ref)
    BY <1>1, <1>2 DEF Held
<1> QED  BY <1>2, <1>3, <1>4, OverTyped

LEMMA SendWaitTyped ==
    ASSUME NEW close, NEW sub, TypeInv(close, sub), LevelsInv', SendWait
    PROVE  TypeInv(close, sub)'
<1>1. /\ Held /\ Numbers /\ MaxAside \in Nat
    BY ControlAssumption DEF TypeInv
<1>2. /\ Executes("send") /\ Cardinality(waiting) + Len(outer) < MaxAside /\ mode = "run"
      /\ Over /\ program' = program /\ events' = events /\ UNCHANGED levels
    BY DEF SendWait, Executes
<1>3. PICK w : w = [idx |-> idx + 1, ref |-> [ref EXCEPT !.at = idx + 1]]
    OBVIOUS
<1>4. waiting' = waiting \cup {w}
    BY <1>3 DEF SendWait
<1>5. /\ program \in Programs /\ idx + 1 \in Lines /\ idx + 1 \in Nat /\ Here(idx, ref)
    BY <1>2, TypeFacts
<1>6. w \in Run /\ Here(w.idx, w.ref)
    <2>1. [ref EXCEPT !.at = idx + 1] \in Place
          /\ [ref EXCEPT !.at = idx + 1].stack = ref.stack
        BY <1>5 DEF Here, Place
    <2> QED  BY <1>3, <1>5, <2>1 DEF Here, Run
<1>7. IsFiniteSet(waiting')
      /\ Cardinality(waiting') <= Cardinality(waiting) + 1 /\ Cardinality(waiting') \in Nat
      /\ Cardinality(waiting) \in Nat /\ Len(outer) \in Nat
    <2>1. IsFiniteSet(waiting) /\ outer \in Seq(Run)
        BY <1>1 DEF Held
    <2>2. Cardinality(waiting) \in Nat /\ Len(outer) \in Nat
        BY <2>1, FS_CardinalityType
    <2>3. CASE w \in waiting
        <3>1. waiting' = waiting
            BY <1>4, <2>3
        <3> QED  BY <2>1, <2>2, <3>1
    <2>4. CASE w \notin waiting
        <3>1. IsFiniteSet(waiting') /\ Cardinality(waiting') = Cardinality(waiting) + 1
            BY <1>4, <2>1, <2>4, FS_AddElement
        <3> QED  BY <2>2, <3>1
    <2> QED  BY <2>3, <2>4
<1>8. Cardinality(waiting') + Len(outer) <= MaxAside
    BY <1>1, <1>2, <1>7
<1>9. Numbers'
    BY <1>1, <1>2, NumbersStay
<1>10. waiting' \subseteq Run /\ \A v \in waiting' : Here(v.idx, v.ref)
    BY <1>1, <1>4, <1>6 DEF Held
<1> QED  BY <1>2, <1>7, <1>8, <1>9, <1>10, OverTyped

\* A run starts at i and place p while W are suspended.
LEMMA StartsTyped ==
    ASSUME NEW close, NEW sub, TypeInv(close, sub), LevelsInv', NEW i, NEW p, Starts(i, p),
           Here(i, p), events' \in 0..MaxEvents, waiting' \subseteq waiting
    PROVE  TypeInv(close, sub)'
<1>1. /\ program \in Programs /\ Nested(close) /\ Divided(close, sub) /\ Here(idx, ref)
      /\ Held /\ Numbers /\ MaxAside \in Nat
    BY ControlAssumption DEF TypeInv
<1>2. mode' = "run" /\ idx' = i /\ ref' = p /\ program' = program /\ UNCHANGED levels
    BY DEF Starts
<1>3. (program \in Programs)' /\ Nested(close)' /\ Divided(close, sub)' /\ Numbers'
    BY <1>1, <1>2, TextStays, NumbersStay
<1>4. Here(idx, ref)'
    BY <1>2 DEF Here, Lines
<1>5. /\ IsFiniteSet(waiting') /\ Cardinality(waiting') <= Cardinality(waiting)
      /\ Cardinality(waiting') \in Nat /\ Cardinality(waiting) \in Nat
      /\ outer \in Seq(Run) /\ Len(outer) \in Nat
      /\ Cardinality(waiting) + Len(outer) <= MaxAside
    BY <1>1, FS_Subset, FS_CardinalityType DEF Held
<1>6. waiting' \subseteq Run /\ \A v \in waiting' : Here(v.idx, v.ref)'
    BY <1>1, <1>2, HereStays DEF Held
<1>7. /\ outer' \in Seq(Run) /\ Cardinality(waiting') + Len(outer') <= MaxAside
      /\ \A k \in DOMAIN outer' : Here(outer'[k].idx, outer'[k].ref)
    <2>1. CASE outer' = outer
        BY <1>1, <1>5, <2>1 DEF Held
    <2>2. CASE /\ Executes("send") /\ Cardinality(waiting) + Len(outer) < MaxAside
               /\ outer' = Append(outer, [idx |-> idx, ref |-> ref])
        <3>1. PICK r : r = [idx |-> idx, ref |-> ref]
            OBVIOUS
        <3>2. r \in Run /\ Here(r.idx, r.ref)
            BY <1>1, <3>1, Text DEF Here, Run
        <3>3. outer' = Append(outer, r)
            BY <2>2, <3>1
        <3>4. outer' \in Seq(Run) /\ Len(outer') = Len(outer) + 1
            BY <1>5, <3>2, <3>3, AppendProperties
        <3>5. Cardinality(waiting') + Len(outer') <= MaxAside
            BY <1>1, <1>5, <2>2, <3>4
        <3>6. ASSUME NEW k \in DOMAIN outer' PROVE Here(outer'[k].idx, outer'[k].ref)
            <4>1. (k \in DOMAIN outer /\ outer'[k] = outer[k]) \/ outer'[k] = r
                BY <1>5, <3>2, <3>3
            <4> QED  BY <1>1, <3>2, <4>1 DEF Held
        <3> QED  BY <3>4, <3>5, <3>6
    <2> QED  BY <2>1, <2>2 DEF Starts
<1>8. Held'
    BY <1>2, <1>5, <1>6, <1>7 DEF Held, Here, Lines
<1> QED  BY <1>2, <1>3, <1>4, <1>8 DEF TypeInv

LEMMA StartTyped ==
    ASSUME NEW close, NEW sub, TypeInv(close, sub), LevelsInv', Event \/ Resume
    PROVE  TypeInv(close, sub)'
<1>1. program \in Programs /\ Held /\ events \in 0..MaxEvents /\ MaxEvents \in Nat
    BY ControlAssumption DEF TypeInv
<1>2. CASE Event
    <2>1. PICK i \in DOMAIN program : Starts(i + 1, [at |-> i + 1, stack |-> <<>>])
        BY <1>2 DEF Event
    <2>2. events' \in 0..MaxEvents /\ waiting' = waiting
        BY <1>1, <1>2 DEF Event
    <2>3. PICK p : p = [at |-> i + 1, stack |-> <<>>]
        OBVIOUS
    <2>4. Here(i + 1, p)
        <3>1. i + 1 \in Lines /\ i + 1 \in Nat
            BY <1>1, Text
        <3>2. p \in Place /\ p.stack = <<>>
            BY <2>3, <3>1 DEF Place
        <3> QED  BY <3>1, <3>2 DEF Here
    <2> QED  BY <2>1, <2>2, <2>3, <2>4, StartsTyped
<1>3. CASE Resume
    <2>1. PICK w \in waiting : Starts(w.idx, w.ref) /\ waiting' = waiting \ {w}
        BY <1>3 DEF Resume
    <2>2. events' \in 0..MaxEvents /\ Here(w.idx, w.ref) /\ waiting' \subseteq waiting
        BY <1>1, <1>3, <2>1 DEF Resume, Held
    <2> QED  BY <2>1, <2>2, StartsTyped
<1> QED  BY <1>2, <1>3

LEMMA StopTyped ==
    ASSUME NEW close, NEW sub, TypeInv(close, sub), LevelsInv', NextFatal \/ UNCHANGED vars
    PROVE  TypeInv(close, sub)'
<1>1. /\ program' = program /\ UNCHANGED levels /\ UNCHANGED <<outer, waiting>>
      /\ idx' = idx /\ ref' = ref /\ mode' \in {mode, "dead"} /\ events' = events
    BY DEF NextFatal, vars, levels
<1>2. /\ program \in Programs /\ Nested(close) /\ Divided(close, sub) /\ Here(idx, ref)
      /\ Held /\ Numbers
    BY DEF TypeInv
<1>3. /\ (program \in Programs)' /\ Nested(close)' /\ Divided(close, sub)'
      /\ Held' /\ Numbers'
    BY <1>1, <1>2, TextStays, HeldStays, NumbersStay
<1>4. Here(idx, ref)'
    BY <1>1, <1>2 DEF Here, Lines
<1> QED  BY <1>1, <1>3, <1>4 DEF TypeInv

\* The inductive invariant of the types
Typed == \E close, sub : TypeInv(close, sub)

\* A well-formed program starts typed.
LEMMA TypedInit == Init /\ WellFormed => Typed
<1> SUFFICES ASSUME Init, WellFormed PROVE Typed
    OBVIOUS
<1>1. PICK close, sub : Nested(close) /\ Divided(close, sub)
    BY DEF WellFormed
<1>2. program \in Programs /\ MaxNest \in Nat /\ MaxEvents \in Nat /\ MaxAside \in Nat
    BY ControlAssumption DEF Init
<1>3. Here(idx, ref)
    <2>1. idx = 1 /\ ref = [at |-> 1, stack |-> <<>>]
        BY DEF Init
    <2>2. 1 \in Lines
        BY <1>2, Text
    <2>3. ref \in Place /\ ref.stack = <<>>
        BY <2>1 DEF Place
    <2> QED  BY <2>1, <2>2, <2>3 DEF Here
<1>4. Held
    <2>1. outer = <<>> /\ waiting = {}
        BY DEF Init
    <2>2. IsFiniteSet(waiting) /\ Cardinality(waiting) = 0 /\ Len(outer) = 0 /\ DOMAIN outer = {}
          /\ outer \in Seq(Run)
        BY <2>1, FS_EmptySet
    <2> QED  BY <1>2, <2>1, <2>2 DEF Held
<1>5. Numbers
    BY <1>2 DEF Numbers, Init
<1>6. LevelsInv
    BY LevelsInit
<1>7. mode \in {"idle", "run", "dead"} /\ events \in 0..MaxEvents
    BY <1>2 DEF Init
<1>8. TypeInv(close, sub)
    BY <1>1, <1>2, <1>3, <1>4, <1>5, <1>6, <1>7 DEF TypeInv
<1> QED  BY <1>8 DEF Typed

\* Every step keeps it.
LEMMA TypedNext == Typed /\ [Next]_vars => Typed'
<1> SUFFICES ASSUME Typed, [Next]_vars PROVE Typed'
    OBVIOUS
<1>1. PICK close, sub : TypeInv(close, sub)
    BY DEF Typed
<1> SUFFICES TypeInv(close, sub)'
    BY DEF Typed
<1>2. LevelsInv'
    BY <1>1, LevelsNext DEF TypeInv
<1>3. CASE Plain \/ EndIf \/ NoError \/ Send \/ Goto \/ Handled
    BY <1>1, <1>2, <1>3, PlainTyped
<1>4. CASE Else \/ If
    BY <1>1, <1>2, <1>4, BranchTyped
<1>5. CASE Gosub \/ Return
    BY <1>1, <1>2, <1>5, CallTyped
<1>6. CASE While \/ EndWhile
    BY <1>1, <1>2, <1>6, WhileTyped
<1>7. CASE For
    BY <1>1, <1>2, <1>7, ForTyped
<1>8. CASE NextLoop
    BY <1>1, <1>2, <1>8, NextTyped
<1>9. CASE BreakLoop \/ Continue
    BY <1>1, <1>2, <1>9, LoopEndTyped
<1>10. CASE EndRun \/ Fails
    BY <1>1, <1>2, <1>10, EndTyped
<1>11. CASE SendWait
    BY <1>1, <1>2, <1>11, SendWaitTyped
<1>12. CASE Event \/ Resume
    BY <1>1, <1>2, <1>12, StartTyped
<1>13. CASE NextFatal \/ Stops \/ UNCHANGED vars
    <2>1. NextFatal \/ UNCHANGED vars
        BY <1>13 DEF Stops
    <2> QED  BY <1>1, <1>2, <2>1, StopTyped
<1> QED
    BY <1>3, <1>4, <1>5, <1>6, <1>7, <1>8, <1>9, <1>10, <1>11, <1>12, <1>13 DEF Next

\* Whatever runs overlap, a program whose statements are where they belong keeps
\* its counters in their bounds and its index, its suspended runs and the levels
\* RETURN.n, WHILE.n and FOR.n at statements of the program.
THEOREM ControlTypes == Spec /\ WellFormed => []TypeOK
<1>1. Typed => TypeOK
    <2> SUFFICES ASSUME NEW close, NEW sub, TypeInv(close, sub) PROVE TypeOK
        BY DEF Typed
    <2>1. program \in Seq([op : STRING, arg : Nat])
        BY ControlAssumption DEF TypeInv
    <2>2. idx \in Lines /\ ref \in Place
        BY DEF TypeInv, Here
    <2>3. outer \in Seq(Run) /\ waiting \subseteq Run
          /\ Cardinality(waiting) + Len(outer) <= MaxAside
        BY DEF TypeInv, Held
    <2> QED  BY <2>1, <2>2, <2>3 DEF TypeInv, Numbers, TypeOK
<1> QED  BY <1>1, TypedInit, TypedNext, PTL DEF Spec
=============================================================================
