------------------------------ MODULE Variables ------------------------------
(***************************************************************************)
(* variables.c and the statements that use it: the table of variables,     *)
(* ordered by hash and searched with bsearch(), under the scopes of the    *)
(* language.  A name belongs to a label of a program, to a program, or to  *)
(* the default program, which every program sees.  A parameter that gosub  *)
(* passes by reference is a variable whose value is a full name.           *)
(***************************************************************************)
EXTENDS SortedTable

CONSTANTS
    Programs,     \* names of programs, Default among them
    Default,      \* DEFAULT_PROGRAM
    Labels,       \* labels; NoLabel, outside of all, is not one of them
    NoLabel,
    Idents,       \* identifiers of variables
    Arrays,       \* those used for arrays
    Values,       \* values of expressions
    EnumSize,     \* sizeof(enum token_types)
    MaxVars,      \* bound: variables in the table
    MaxCalls      \* bound: gosubs that have not returned

ASSUME VariablesAssumption ==
    /\ Default \in Programs
    /\ NoLabel \notin Labels
    /\ {MaxVars, MaxCalls} \subseteq Nat /\ EnumSize \in Nat \ {0}

\* Names: of variables and labels, and of the elements of arrays
Simple == {<<x>> : x \in Idents \cup Labels}
Elements == {<<x, k>> : x \in Arrays, k \in Values \cup {0, 1}}
FullNames ==
    [sc : BOOLEAN, program : Programs, label : Labels \cup {NoLabel},
     name : Simple \cup Elements]

\* What strcmp() is: an order of the full names
ASSUME OrderAssumption ==
    \A m, n \in FullNames :
        /\ get_hash(m) \in Int /\ strcmp(m) \in Int
        /\ strcmp(m) = strcmp(n) => m = n

VARIABLES
    table,      \* variable_root
    place,      \* program and label of the statement being executed
    calls,      \* gosubs in progress
    dead,       \* FATAL, or a null pointer followed
    wrote,      \* history: what the last statement assigned, if it did
    tangled     \* history: references met a case they do not handle

vars == <<table, place, calls, dead, wrote, tangled>>

\* The type of an entry, as far as something depends on it
Kinds == {"plain", "DEFINE", "REF", "LABEL"}
Kind(type) == IF type \in Kinds THEN type ELSE "plain"
Places == [program : Programs, label : Labels \cup {NoLabel}]
\* A value is one of an expression, or the full name a reference stands for
Val(v) == <<v>>
NameOf(n) == <<n, "name">>
IsName(c) == Len(c) = 2

NoWrite == [name |-> <<>>, value |-> <<>>]

-----------------------------------------------------------------------------
(* Full names. *)

\* var_prefix[type], the program and, within a label, the label
FullName(type, program, label, name) ==
    [sc |-> type \in {"SC", "LABEL"}, program |-> program, label |-> label,
     name |-> name]

-----------------------------------------------------------------------------
(* variable_put() and variable_get(), on a table t at a place p. *)

\* Mutant of PutName: let does not look into the label
PutName_Program(t, p, name, type) ==
    FullName(type, IF type = "GLOBAL" /\ t # <<>> THEN Default ELSE p.program,
             IF type \in {"LOCAL", "REF"} THEN p.label ELSE NoLabel, name)

\* Mutant of PutName: a local variable belongs to the program
PutName_Wide(t, p, name, type) ==
    LET inLabel == FullName(type, p.program, p.label, name)
    IN IF t # <<>> /\ type = "GLOBAL" THEN FullName(type, Default, NoLabel, name)
       ELSE IF t # <<>> /\ (type = "REF" \/ (type # "LOCAL" /\ Found(t, inLabel)))
       THEN inLabel
       ELSE FullName(type, p.program, NoLabel, name)

\* The name variable_put() writes to.  The first variable of all goes to the
\* program, whatever its type.
PutName(t, p, name, type) ==
    LET inLabel == FullName(type, p.program, p.label, name)
        inProgram == FullName(type, p.program, NoLabel, name)
    IN IF t = <<>> THEN inProgram
       ELSE IF type = "GLOBAL" THEN FullName(type, Default, NoLabel, name)
       ELSE IF type \in {"LOCAL", "REF"} \/ Found(t, inLabel) THEN inLabel
       ELSE inProgram

Stopped(t) == [table |-> t, dead |-> TRUE]
Holds(t) == [table |-> t, dead |-> FALSE]

\* Mutant of Update: "define" protects nothing
Update_Define(t, i, value, type) ==
    IF type # "REF" /\ t[i].type = "REF"
    THEN LET j == IF IsName(t[i].value) THEN bsearch(t, t[i].value[1]) ELSE 0
         IN IF j = 0 THEN Stopped(t) ELSE Holds([t EXCEPT ![j].value = value])
    ELSE IF t[i].type = "LABEL" THEN Stopped(t)
    ELSE Holds([t EXCEPT ![i].value = value])

\* A variable that exists keeps its type.  A write to a reference goes to the
\* variable it names, one step and no further.
Update(t, i, value, type) ==
    IF type = "REF" THEN Holds([t EXCEPT ![i].value = value])
    ELSE IF t[i].type = "REF"
    THEN LET j == IF IsName(t[i].value) THEN bsearch(t, t[i].value[1]) ELSE 0
         IN IF j = 0 THEN Stopped(t) ELSE Holds([t EXCEPT ![j].value = value])
    ELSE IF t[i].type = "DEFINE" THEN Holds(t)
    ELSE IF t[i].type = "LABEL" THEN Stopped(t)
    ELSE Holds([t EXCEPT ![i].value = value])

variable_put(t, p, name, value, type) ==
    LET n == PutName(t, p, name, type)
        i == bsearch(t, n)
        entry == [name |-> n, value |-> value, type |-> Kind(type)]
    IN IF i # 0 THEN Update(t, i, value, type) ELSE Holds(Insert(t, entry))

\* The full names variable_get() tries, in this order
Scopes(p, name, type) ==
    LET n(program, label) == FullName(type, program, label, name)
    IN IF p.label = NoLabel THEN <<n(p.program, NoLabel), n(Default, NoLabel)>>
       ELSE <<n(p.program, p.label), n(p.program, NoLabel), n(Default, NoLabel)>>

\* The entry variable_get() finds, 0 when there is none
Visible(t, p, name, type) ==
    LET names == Scopes(p, name, type)
        hits == {k \in DOMAIN names : Found(t, names[k])}
    IN IF hits = {} THEN 0 ELSE bsearch(t, names[Min(hits)])

NotFound == <<>>
\* Mutant of variable_get: a reference has its own value
variable_get_Self(t, p, name, type) ==
    LET i == Visible(t, p, name, type) IN
    IF i = 0 THEN NotFound
    ELSE IF type = "REF" THEN NameOf(t[i].name) ELSE t[i].value

variable_get(t, p, name, type) ==
    LET i == Visible(t, p, name, type) IN
    IF i = 0 THEN NotFound
    ELSE IF type = "REF" THEN NameOf(t[i].name)
    ELSE IF t[i].type # "REF" THEN t[i].value
    ELSE LET j == IF IsName(t[i].value) THEN bsearch(t, t[i].value[1]) ELSE 0
         IN IF j = 0 THEN NotFound ELSE t[j].value

Init ==
    /\ table = <<>> /\ calls = <<>> /\ dead = FALSE
    /\ place = [program |-> Default, label |-> NoLabel]
    /\ wrote = NoWrite /\ tangled = FALSE

-----------------------------------------------------------------------------
(* The statements. *)

Room(n) == Len(table) + n <= MaxVars
Runs == ~dead

Becomes(s) == table' = s.table /\ dead' = s.dead

cmd_let ==
    /\ Runs /\ Room(1)
    /\ \E x \in Idents, v \in Values :
         /\ Becomes(variable_put(table, place, <<x>>, Val(v), "USER"))
         /\ wrote' = [name |-> <<x>>, value |-> Val(v)]
    /\ UNCHANGED <<place, calls, tangled>>

\* glet, and the console's "set"
cmd_glet ==
    /\ Runs /\ Room(1)
    /\ \E x \in Idents, v \in Values :
          Becomes(variable_put(table, place, <<x>>, Val(v), "GLOBAL"))
    /\ wrote' = NoWrite
    /\ UNCHANGED <<place, calls, tangled>>

cmd_local_var ==
    /\ Runs /\ Room(1)
    /\ \E x \in Idents, v \in Values :
         /\ Becomes(variable_put(table, place, <<x>>, Val(v), "LOCAL"))
         /\ wrote' = [name |-> <<x>>, value |-> Val(v)]
    /\ UNCHANGED <<place, calls, tangled>>

cmd_define ==
    /\ Runs /\ Room(1)
    /\ \E x \in Idents, v \in Values :
          Becomes(variable_put(table, place, <<x>>, Val(v), "DEFINE"))
    /\ wrote' = NoWrite
    /\ UNCHANGED <<place, calls, tangled>>

\* Two variable_put() of the type DEFINE, one after the other
PutBoth(t, p, m, v, n, w) ==
    LET first == variable_put(t, p, m, v, "DEFINE")
    IN IF first.dead THEN first ELSE variable_put(first.table, p, n, w, "DEFINE")

\* name[1], name[2], ... and their number as name[0]
cmd_define_array ==
    /\ Runs /\ Room(2)
    /\ \E x \in Arrays, v \in Values :
          Becomes(PutBoth(table, place, <<x, 1>>, Val(v), <<x, 0>>, Val(1)))
    /\ wrote' = NoWrite
    /\ UNCHANGED <<place, calls, tangled>>

\* name[v] = w and name[w] = v
cmd_define_xref ==
    /\ Runs /\ Room(2)
    /\ \E x \in Arrays, v, w \in Values :
          Becomes(PutBoth(table, place, <<x, v>>, Val(w), <<x, w>>, Val(v)))
    /\ wrote' = NoWrite
    /\ UNCHANGED <<place, calls, tangled>>

\* define_labels() puts every label at the level of its program, once
DefineLabel ==
    /\ Runs /\ Room(1) /\ place.label = NoLabel
    /\ \E l \in Labels :
          Becomes(variable_put(table, place, <<l>>, Val(0), "LABEL"))
    /\ wrote' = NoWrite
    /\ UNCHANGED <<place, calls, tangled>>

\* The program runs on, or another begins: the index is in another label
Move ==
    /\ Runs
    /\ place' \in Places
    /\ calls' = <<>> /\ wrote' = NoWrite
    /\ UNCHANGED <<table, dead, tangled>>

\* variable_delete() looks for the program's name and the name, which no full
\* name is equal to: its parentheses are missing.  Nothing is deleted, and
\* sorting the table changes nothing.  (Left out is what a text that begins like
\* a full name deletes in the default program, whose own name is empty: delete "*"
\* empties all, and a full name with its parentheses empties that one.)
variable_delete(t) == t

cmd_delete ==
    /\ Runs
    /\ table' = variable_delete(table)
    /\ wrote' = NoWrite
    /\ UNCHANGED <<place, calls, dead, tangled>>

\* Reading a program
variable_delete_all ==
    /\ Runs
    /\ table' = <<>> /\ calls' = <<>> /\ wrote' = NoWrite
    /\ place' = [program |-> Default, label |-> NoLabel]
    /\ UNCHANGED <<dead, tangled>>

-----------------------------------------------------------------------------
(* gosub with an argument. *)

\* An argument is queued as type, length and data, with all bytes of the type;
\* one byte of the type is taken off, and then the length.  Unless that is what
\* comes next, its value leads out of the queue.
Queued == [i \in 1..EnumSize |-> "type"] \o <<"length", "data">>
QueueFits == Queued[2] = "length"

\* The entry the parameter has before the call, if any
Before(there, x) == bsearch(table, FullName("LOCAL", there.program, there.label, <<x>>))

\* By value: a variable of the label.  A reference that an earlier call left
\* under this name is written through.
GosubValue ==
    /\ Runs /\ Room(1) /\ Len(calls) < MaxCalls
    /\ \E l \in Labels, x \in Idents, v \in Values :
         LET there == [place EXCEPT !.label = l]
             i == Before(there, x)
         IN /\ place' = there
            /\ Becomes(IF QueueFits
                       THEN variable_put(table, there, <<x>>, Val(v), "LOCAL")
                       ELSE Stopped(table))
            /\ tangled' = (tangled \/ (i # 0 /\ table[i].type = "REF"))
            /\ calls' = Append(calls, [back |-> place, to |-> there, arg |-> <<>>,
                                       param |-> <<x>>])
            /\ wrote' = [name |-> <<x>>, value |-> Val(v)]

\* A call in progress has its argument in this reference
InUse(there, x) ==
    \E k \in DOMAIN calls :
        calls[k].to = there /\ calls[k].param = <<x>> /\ calls[k].arg # <<>>

\* By reference: the parameter's value is the full name of the argument.  It
\* is no reference if the name exists with another type, or names one; and a
\* label that calls itself takes its caller's reference away.
GosubRef ==
    /\ Runs /\ Room(1) /\ Len(calls) < MaxCalls
    /\ \E l \in Labels, x, a \in Idents :
         LET there == [place EXCEPT !.label = l]
             i == Before(there, x)
             n == variable_get(table, place, <<a>>, "REF")
         IN /\ n # NotFound
            /\ place' = there
            /\ Becomes(IF QueueFits
                       THEN variable_put(table, there, <<x>>, n, "REF")
                       ELSE Stopped(table))
            /\ tangled' = (tangled \/ (i # 0 /\ table[i].type # "REF")
                             \/ table[bsearch(table, n[1])].type = "REF"
                             \/ InUse(there, x))
            /\ calls' = Append(calls, [back |-> place, to |-> there, arg |-> n,
                                       param |-> <<x>>])
            /\ wrote' = NoWrite

cmd_return ==
    /\ Runs /\ calls # <<>>
    /\ place' = Last(calls).back
    /\ calls' = Front(calls)
    /\ wrote' = NoWrite
    /\ UNCHANGED <<table, dead, tangled>>

Dies == dead /\ UNCHANGED vars

Next == cmd_let \/ cmd_glet \/ cmd_local_var \/ cmd_define \/ cmd_define_array
        \/ cmd_define_xref \/ DefineLabel \/ Move \/ cmd_delete
        \/ variable_delete_all \/ GosubValue \/ GosubRef \/ cmd_return \/ Dies

Spec == Init /\ [][Next]_vars

-----------------------------------------------------------------------------
(* Properties. *)

\* EveryNameFound: whatever was put in whatever order, with hashes that collide,
\* bsearch() finds every variable that is in the table, each under a name of
\* its own.
EveryNameFound == \A i \in DOMAIN table : bsearch(table, table[i].name) = i

\* LetReadsBack: a name that let, local_var or a value argument has just given a
\* value reads back as that value at this place, whichever scope it went to;
\* except for a defined variable, which stays as it was defined.
LetReadsBack ==
    wrote # NoWrite /\ ~dead /\ ~tangled =>
      LET i == Visible(table, place, wrote.name, "USER") IN
      \/ variable_get(table, place, wrote.name, "USER") = wrote.value
      \/ i # 0 /\ table[i].type = "DEFINE"

\* Seen by the program at place p
Seen(t, p, x) == variable_get(t, p, <<x>>, "USER")

\* LocalsStay: declaring a local variable, or passing a value to a label,
\* changes nothing that is seen outside that label; except by references into
\* it, and when the name already is a reference out of it.
LocalsStay ==
    [][cmd_local_var \/ GosubValue =>
         LET i == Before(place', wrote'.name[1]) IN
         \/ place'.label = NoLabel \/ table = <<>> \/ dead'
         \/ i # 0 /\ table[i].type = "REF"
         \/ \A p \in Places \ {place'}, x \in Idents :
              LET k == Visible(table, p, <<x>>, "USER") IN
              \/ Seen(table', p, x) = Seen(table, p, x)
              \/ k # 0 /\ table[k].type = "REF"]_vars

\* Alias: while a label that was passed a variable by reference runs, its
\* parameter has the value of that variable, whoever assigns either of them and
\* whatever the names hide; unless the name was no reference to begin with, or
\* the label was called again with another variable before it returned.
Alias ==
    calls # <<>> /\ ~dead /\ ~tangled =>
      LET c == Last(calls) IN
      c.arg # <<>> => variable_get(table, place, c.param, "USER")
                        = table[bsearch(table, c.arg[1])].value

\* ArgumentsPassed: gosub queues its arguments as type, length and data and takes
\* them off the queue the same way, so that a label called with an argument runs;
\* unless its parameters are references to references.
ArgumentsPassed == calls # <<>> /\ ~tangled => ~dead

\* The map that a table stands for
StoreOf(t) ==
    [n \in {t[i].name : i \in DOMAIN t} |->
        LET i == CHOOSE i \in DOMAIN t : t[i].name = n
        IN [value |-> t[i].value, type |-> t[i].type]]

Store == INSTANCE VariableStore WITH store <- StoreOf(table)

\* IsStore: the sorted table is a map from full names to values: no statement
\* loses a variable, gives another one a value, or changes one that is defined.
IsStore == Store!Spec
=============================================================================
