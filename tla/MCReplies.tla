------------------------------ MODULE MCReplies ------------------------------
(***************************************************************************)
(* Replies for TLC.                                                        *)
(***************************************************************************)
EXTENDS Replies

MCProto == [n \in Names |-> n]
=============================================================================
