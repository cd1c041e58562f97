------------------------------ MODULE MCMinitalk ------------------------------
(* A small instance of Minitalk for TLC. *)
EXTENDS Minitalk, TLC

CONSTANTS c1, c2

\* Texts of one character of two bits each: a text is two characters with its zero.
MCMessages == {c1 :> <<3>> @@ c2 :> <<2>>}
===============================================================================
