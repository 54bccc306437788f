----------------------------- MODULE MCJobGraph -----------------------------
(* Small instances of JobGraph for TLC. *)
EXTENDS JobGraph, TLC

=============================================================================
