---------------------------- MODULE MCWebservLoop ----------------------------
(* Small instances of WebservLoop for TLC. *)
EXTENDS WebservLoop

CONSTANTS c1, c2, c3
==============================================================================
