--------------------------- MODULE VariableStore ---------------------------
(***************************************************************************)
(* What the table of variables promises: a map from full names to typed    *)
(* values.  A step forgets no name, unless it empties the map, and changes *)
(* at most one that exists.  A name keeps the type it was created with,    *)
(* and what "define" made changes only through a reference to it.          *)
(***************************************************************************)
CONSTANT NameOf(_)   \* the value of a reference to a name

VARIABLE store

Init == DOMAIN store = {}

Changed == {n \in DOMAIN store : store'[n] # store[n]}

Assign ==
    /\ DOMAIN store \subseteq DOMAIN store'
    /\ \A m, n \in Changed : m = n
    /\ \A n \in Changed :
         /\ store'[n].type = store[n].type
         /\ store[n].type = "DEFINE" =>
              \E r \in DOMAIN store : store[r].type = "REF"
                                       /\ store[r].value = NameOf(n)

Clear == store' = [m \in {} |-> m]

Next == Assign \/ Clear

Spec == Init /\ [][Next]_store
=============================================================================
