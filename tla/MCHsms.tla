------------------------------- MODULE MCHsms -------------------------------
(* Hsms for TLC. *)
EXTENDS Hsms, TLC
=============================================================================
