---------------------------- MODULE TmpVariables ----------------------------
(***************************************************************************)
(* tmp_variables.c: the variables of the event being handled.  A message   *)
(* is added entry by entry and sorted at the end; the program may put, add *)
(* and sort as it likes.  A text is its content and its length; the table  *)
(* keeps the length apart from the content.                                *)
(***************************************************************************)
EXTENDS SortedTable

CONSTANTS NUM_TMP_VARS   \* entries allocated at a time

ASSUME TmpAssumption == NUM_TMP_VARS \in Nat \ {0}

Text(content, size) == [content |-> content, size |-> size]

\* root is the table, alloc the entries there is memory for, max the static
\* variable_count_max of tmp_variable_add()
Entry(n, text) == [name |-> n, content |-> text.content, length |-> text.size]
NoTmp == [root |-> <<>>, alloc |-> 0, max |-> 0]


\* An entry that exists gets the new content; its length stays as it is
tmp_variable_put(s, n, text) ==
    LET i == bsearch(s.root, n) IN
    IF s.root = <<>>
    THEN [s EXCEPT !.root = <<Entry(n, text)>>, !.alloc = 1]
    ELSE IF i # 0
    THEN [s EXCEPT !.root[i].content = text.content]
    ELSE [s EXCEPT !.root = Insert(s.root, Entry(n, text)),
                   !.alloc = Len(s.root) + 1]

\* Mutant of tmp_variable_add: the first allocation leaves the maximum alone
tmp_variable_add_OldMax(s, n, text) ==
    LET count == Len(s.root)
        grown == IF count = 0 THEN [s EXCEPT !.alloc = NUM_TMP_VARS,
                                     !.max = IF @ = 0 THEN NUM_TMP_VARS ELSE @]
                 ELSE IF count >= s.max
                 THEN [s EXCEPT !.alloc = count + NUM_TMP_VARS, !.max = @ + NUM_TMP_VARS]
                 ELSE s
    IN [grown EXCEPT !.root = Append(@, Entry(n, text))]

\* At the end, without looking for the name
tmp_variable_add(s, n, text) ==
    LET count == Len(s.root)
        grown == IF count = 0
                 THEN [s EXCEPT !.alloc = NUM_TMP_VARS, !.max = NUM_TMP_VARS]
                 ELSE IF count >= s.max
                 THEN [s EXCEPT !.alloc = count + NUM_TMP_VARS, !.max = @ + NUM_TMP_VARS]
                 ELSE s
    IN [grown EXCEPT !.root = Append(@, Entry(n, text))]

tmp_variable_sort(s) == [s EXCEPT !.root = qsort(@)]

NoText == <<>>
tmp_variable_get(s, n) ==
    LET i == bsearch(s.root, n) IN
    IF i = 0 THEN NoText
    ELSE <<Text(s.root[i].content, s.root[i].length)>>

tmp_variable_delete_all(s) == [s EXCEPT !.root = <<>>, !.alloc = 0]

\* make_tmp_variables(): ARGS, then name=value or the next ARGn for each word
\* of the text, then NUM_ARG.  A word is a pair of a name, <<>> when it has
\* none, and a text; numbers are the texts of the numbers of arguments.  ARGS is
\* made on request, and every caller requests it.
Arg(n) == <<"ARG", n, 0>>
make_tmp_variables(s, args, words, numbers) ==
    LET emptied == tmp_variable_put(tmp_variable_delete_all(s), <<"ARGS">>, args)
        Word(acc, w) ==
          IF w[1] # <<>> THEN [acc EXCEPT !.s = tmp_variable_put(@, w[1], w[2])]
          ELSE [s |-> tmp_variable_put(acc.s, Arg(acc.n), w[2]), n |-> acc.n + 1]
        all == FoldLeft(Word, [s |-> emptied, n |-> 0], words)
    IN tmp_variable_put(all.s, <<"NUM_ARG">>, numbers[all.n])
=============================================================================
