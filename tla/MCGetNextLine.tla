---------------------------- MODULE MCGetNextLine ----------------------------
(* A small instance of GetNextLine for TLC.                                 *)
EXTENDS GetNextLine

MCMaxText == <<3, 2>>
==============================================================================
