----------------------------- MODULE SortedTable -----------------------------
(***************************************************************************)
(* The tables of variables.c and tmp_variables.c: entries ordered by the   *)
(* hash of their name, and by the name where hashes collide.               *)
(***************************************************************************)
EXTENDS Integers, SequencesExt

CONSTANTS
    get_hash(_),  \* the hash of a name
    strcmp(_)     \* the rank of a name in the order of strcmp()

\* Hashes first, names for those that collide
name_cmp(m, n) ==
    IF get_hash(m) < get_hash(n) THEN -1
    ELSE IF get_hash(m) > get_hash(n) THEN 1
    ELSE strcmp(m) - strcmp(n)

\* One step of bsearch(): compares with the entry in the middle of [l, u) and
\* goes on in the half below or above it
Halve(t, n, search, l, u) ==
    LET mid == (l + u) \div 2
        c == name_cmp(n, t[mid + 1].name)
    IN IF l >= u THEN 0
       ELSE IF c < 0 THEN search[<<l, mid>>]
       ELSE IF c > 0 THEN search[<<mid + 1, u>>]
       ELSE mid + 1

\* bsearch() of the C library: the entry with this name, 0 when there is none
Parts(t) == (0..Len(t)) \X (0..Len(t))
bsearch(t, n) ==
    LET search[p \in Parts(t)] == Halve(t, n, search, p[1], p[2])
    IN search[<<0, Len(t)>>]

Found(t, n) == bsearch(t, n) # 0

\* The place of a new entry: behind the leading entries that are smaller
Spot(t, n) ==
    CHOOSE i \in 1..(Len(t) + 1) :
        /\ \A j \in 1..(i - 1) : name_cmp(t[j].name, n) < 0
        /\ i <= Len(t) => name_cmp(t[i].name, n) >= 0

\* Mutant of Insert: behind the entry it belongs before
Insert_Behind(t, e) ==
    InsertAt(t, IF Spot(t, e.name) <= Len(t) THEN Spot(t, e.name) + 1 ELSE Spot(t, e.name), e)

Insert(t, e) == InsertAt(t, Spot(t, e.name), e)

\* Entry j belongs before entry i; equals, whose order qsort() leaves open, stay
\* in order
Earlier(t, j, i) ==
    LET c == name_cmp(t[j].name, t[i].name)
    IN c < 0 \/ (c = 0 /\ j < i)

\* qsort() of the C library: an entry has as many before it as belong there
qsort(t) ==
    LET Rank(i) == Cardinality({j \in DOMAIN t : Earlier(t, j, i)})
        places == {<<Rank(i) + 1, i>> : i \in DOMAIN t}
    IN [k \in DOMAIN t |-> t[(CHOOSE p \in places : p[1] = k)[2]]]
=============================================================================
