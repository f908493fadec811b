----------------------------- MODULE MCSecsLine -----------------------------
(* Instances of SecsLine for TLC. *)
EXTENDS SecsLine
=============================================================================
