---------------------------- MODULE MCInputLoop ----------------------------
(* Small instances of InputLoop for TLC. *)
EXTENDS InputLoop

\* Minimised, and two sizes of a visible window.
ThreeSizes == 0..2
=============================================================================
