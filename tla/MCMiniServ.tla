----------------------------- MODULE MCMiniServ -----------------------------
(* Small instances of MiniServ for TLC. *)
EXTENDS MiniServ, TLC

CONSTANTS c1, c2, c3

MCSymmetry == Permutations(Prompt) \cup Permutations(Client \ Prompt)
=============================================================================
