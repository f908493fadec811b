----------------------------- MODULE MCVariables -----------------------------
(***************************************************************************)
(* Variables for TLC: hashes that collide, and an order of the names.      *)
(***************************************************************************)
EXTENDS Variables, TLC

Place(x, s) == CHOOSE i \in DOMAIN s : s[i] = x

MCStrcmp(n) ==
    (IF n.sc THEN 2000 ELSE 0)
      + 300 * Place(n.program, <<"", "p">>)
      + 100 * Place(n.label, <<"none", "l">>)
      + 20 * Place(n.name[1], <<"x", "y", "l">>)
      + (IF Len(n.name) = 1 THEN 10 ELSE n.name[2])

\* Three hashes for all names
MCHash(n) == MCStrcmp(n) % 3
=============================================================================
