----------------------------- MODULE LineStream -----------------------------
(***************************************************************************)
(* What get_next_line promises the reader of one descriptor: the lines of  *)
(* what is written to it, whole, in order and each once. What was read     *)
(* ahead of a file outlives it: it comes before the lines of the next file *)
(* with its descriptor, unless a call found the descriptor closed.         *)
(***************************************************************************)
EXTENDS Naturals, Sequences

CONSTANTS Fd, Byte, NewLine, NoLine

VARIABLES
    text,    \* text[fd]: what there was and is to be read from fd
    ended,   \* ended[fd]: nothing more will be written to it
    open,    \* open[fd]: fd can be read
    past,    \* past[fd]: the bytes the reader is done with
    line     \* line[fd]: what the last call for fd returned since it was opened

vars == <<text, ended, open, past, line>>

Init ==
    /\ text = [fd \in Fd |-> <<>>]
    /\ ended = [fd \in Fd |-> FALSE]
    /\ open = [fd \in Fd |-> TRUE]
    /\ past = [fd \in Fd |-> 0]
    /\ line = [fd \in Fd |-> NoLine]

Write(fd, byte) ==
    /\ open[fd]
    /\ ~ended[fd]
    /\ text' = [text EXCEPT ![fd] = Append(@, byte)]
    /\ UNCHANGED <<ended, open, past, line>>

End(fd) ==
    /\ open[fd]
    /\ ended' = [ended EXCEPT ![fd] = TRUE]
    /\ UNCHANGED <<text, open, past, line>>

\* Some of what was not delivered has been read ahead, the rest is lost.
Close(fd) ==
    /\ open[fd]
    /\ open' = [open EXCEPT ![fd] = FALSE]
    /\ \E n \in past[fd] .. Len(text[fd]) :
          text' = [text EXCEPT ![fd] = SubSeq(@, 1, n)]
    /\ UNCHANGED <<ended, past, line>>

Open(fd) ==
    /\ ~open[fd]
    /\ open' = [open EXCEPT ![fd] = TRUE]
    /\ ended' = [ended EXCEPT ![fd] = FALSE]
    /\ line' = [line EXCEPT ![fd] = NoLine]
    /\ UNCHANGED <<text, past>>

\* The bytes up to the next new line, or the last ones of a text that has ended.
Deliver(fd) ==
    /\ open[fd]
    /\ \E n \in past[fd] + 1 .. Len(text[fd]) :
          /\ \A k \in past[fd] + 1 .. n - 1 : text[fd][k] # NewLine
          /\ text[fd][n] = NewLine \/ (n = Len(text[fd]) /\ ended[fd])
          /\ line' = [line EXCEPT ![fd] = SubSeq(text[fd], past[fd] + 1, n)]
          /\ past' = [past EXCEPT ![fd] = n]
    /\ UNCHANGED <<text, ended, open>>

Nothing(fd) ==
    /\ open[fd]
    /\ ended[fd]
    /\ past[fd] = Len(text[fd])
    /\ line' = [line EXCEPT ![fd] = NoLine]
    /\ UNCHANGED <<text, ended, open, past>>

\* A call for a descriptor that is closed drops what was read ahead.
Forget(fd) ==
    /\ ~open[fd]
    /\ past' = [past EXCEPT ![fd] = Len(text[fd])]
    /\ line' = [line EXCEPT ![fd] = NoLine]
    /\ UNCHANGED <<text, ended, open>>

Next ==
    \E fd \in Fd :
        \/ \E byte \in Byte : Write(fd, byte)
        \/ End(fd) \/ Close(fd) \/ Open(fd)
        \/ Deliver(fd) \/ Nothing(fd) \/ Forget(fd)

Spec == Init /\ [][Next]_vars
=============================================================================
