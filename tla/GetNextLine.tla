----------------------------- MODULE GetNextLine -----------------------------
(***************************************************************************)
(* get_next_line: a line per call, read in pieces of at most BUFFER_SIZE   *)
(* bytes, with what was read beyond it kept in a stash for the next call.  *)
(* The mandatory version has one stash for all the descriptors, the bonus  *)
(* one for each. The descriptors are files or pipes that others write to;  *)
(* the caller may close one and open it again on something else.           *)
(*                                                                         *)
(* A string is a sequence of bytes; no byte is 0. The null stash and the   *)
(* empty one are not told apart: the code replaces one by the other.       *)
(* malloc succeeds.                                                        *)
(***************************************************************************)
EXTENDS Naturals, Sequences

CONSTANTS Fd, Byte, NewLine, BUFFER_SIZE,
          MaxText   \* bound: so many bytes are written to each descriptor

ASSUME NewLineAssumption == NewLine \in Byte
ASSUME BufferSizeAssumption == BUFFER_SIZE \in Nat \ {0}
ASSUME MaxTextAssumption == MaxText \in [Fd -> Nat]

\* A returned string is not empty: this stands for NULL.
NoLine == <<>>

VARIABLES
    bonus,    \* which of the two versions it is
    text,     \* text[fd]: what was read from fd, and what is there to be read
    ended,    \* ended[fd]: nothing more will be
    open,     \* open[fd]: fd can be read
    offset,   \* offset[fd]: how much of text[fd] was read
    stash,    \* by slot
    pc,       \* "caller", "stash_filling", "extract", or "crashed"
    current,  \* the fd of the call
    line,     \* line[fd]: what the last call for fd returned since fd was opened
    got,      \* history, by slot: the bytes read for it
    past      \* history, by slot: how many of them were returned or dropped

source == <<text, ended, open>>
vars == <<bonus, source, offset, stash, pc, current, line, got, past>>

\* Where the stash of fd is: the mandatory version has one for all of them.
Slot == Fd \cup {0}

\* Mutant of slot: the bonus version with the stash of the mandatory one.
slotShared(fd) == 0

slot(fd) == IF bonus THEN fd ELSE 0

Init ==
    /\ bonus \in BOOLEAN
    /\ text = [fd \in Fd |-> <<>>]
    /\ ended = [fd \in Fd |-> FALSE]
    /\ open = [fd \in Fd |-> TRUE]
    /\ offset = [fd \in Fd |-> 0]
    /\ stash = [s \in Slot |-> <<>>]
    /\ pc = "caller"
    /\ current \in Fd
    /\ line = [fd \in Fd |-> NoLine]
    /\ got = [s \in Slot |-> <<>>]
    /\ past = [s \in Slot |-> 0]
-----------------------------------------------------------------------------
(* get_next_line *)

Call(fd) ==
    /\ pc = "caller"
    /\ open[fd]
    /\ current' = fd
    /\ pc' = "stash_filling"
    /\ UNCHANGED <<bonus, source, offset, stash, line, got, past>>

\* The probe, a read of no bytes, fails.
CallFails(fd) ==
    /\ pc = "caller"
    /\ ~open[fd]
    /\ current' = fd
    /\ stash' = [stash EXCEPT ![slot(fd)] = <<>>]
    /\ past' = [past EXCEPT ![slot(fd)] = Len(got[slot(fd)])]
    /\ line' = [line EXCEPT ![fd] = NoLine]
    /\ UNCHANGED <<bonus, source, offset, pc, got>>

\* The probe is not made when fd < 0. The mandatory version drops its stash as
\* well; the bonus frees and clears the word before its array, which is nobody's
\* stash: it crashes, or it does not.
CallNegative ==
    /\ pc = "caller"
    /\ \/ /\ ~bonus
          /\ stash' = [stash EXCEPT ![0] = <<>>]
          /\ past' = [past EXCEPT ![0] = Len(got[0])]
          /\ UNCHANGED pc
       \/ /\ bonus
          /\ pc' \in {"caller", "crashed"}
          /\ UNCHANGED <<stash, past>>
    /\ UNCHANGED <<bonus, source, offset, current, line, got>>

\* What read returns: some of what is there, nothing at the end; it waits if
\* there is nothing yet.
Pieces(fd) ==
    LET left == Len(text[fd]) - offset[fd]
        most == IF left < BUFFER_SIZE THEN left ELSE BUFFER_SIZE
    IN  {SubSeq(text[fd], offset[fd] + 1, offset[fd] + nbytes) :
            nbytes \in IF left = 0 /\ ended[fd] THEN {0} ELSE 1 .. most}

Has(string, byte) == \E k \in DOMAIN string : string[k] = byte

\* Mutants of Complete: any piece ends the loop, the end of the file does not.
CompleteAtOnce(buffer) == TRUE
CompleteOnNewLine(buffer) == Has(buffer, NewLine)

\* Only the piece just read is searched for a new line: the stash may hold one
\* already.
Complete(buffer) == Has(buffer, NewLine) \/ buffer = <<>>

\* A turn of the loop.
stash_filling ==
    /\ pc = "stash_filling"
    /\ \E buffer \in Pieces(current) :
          /\ offset' = [offset EXCEPT ![current] = @ + Len(buffer)]
          /\ got' = [got EXCEPT ![slot(current)] = @ \o buffer]
          /\ stash' = [stash EXCEPT ![slot(current)] = @ \o buffer]
          /\ pc' = IF Complete(buffer) THEN "extract" ELSE pc
    /\ UNCHANGED <<bonus, source, current, line, past>>

\* read fails: the stash becomes null and is read through.
ReadFails ==
    /\ pc = "stash_filling"
    /\ pc' = "crashed"
    /\ UNCHANGED <<bonus, source, offset, stash, current, line, got, past>>

\* How long the first line of a string is, new line included.
LineLength(string) ==
    CHOOSE n \in 0 .. Len(string) :
        /\ \A k \in 1 .. n - 1 : string[k] # NewLine
        /\ n = Len(string) \/ (n > 0 /\ string[n] = NewLine)

\* Mutant of extract_new_stash: the new line stays.
extract_new_stashWithNewLine(string) ==
    LET n == LineLength(string)
    IN  SubSeq(string, IF n > 1 THEN n ELSE n + 1, Len(string))

extract_line(string) == SubSeq(string, 1, LineLength(string))
extract_new_stash(string) == SubSeq(string, LineLength(string) + 1, Len(string))

Return ==
    /\ pc = "extract"
    /\ LET s == slot(current)
       IN  /\ line' = [line EXCEPT ![current] = extract_line(stash[s])]
           /\ past' = [past EXCEPT ![s] = @ + LineLength(stash[s])]
           /\ stash' = [stash EXCEPT ![s] = extract_new_stash(@)]
    /\ pc' = "caller"
    /\ UNCHANGED <<bonus, source, offset, current, got>>
-----------------------------------------------------------------------------
(* The rest of the program, and the writers *)

\* What was not read can no longer be read; get_next_line is not told.
Close(fd) ==
    /\ pc = "caller"
    /\ open[fd]
    /\ open' = [open EXCEPT ![fd] = FALSE]
    /\ text' = [text EXCEPT ![fd] = SubSeq(@, 1, offset[fd])]
    /\ UNCHANGED <<bonus, ended, offset, stash, pc, current, line, got, past>>

\* The descriptor is another file now: what it holds comes after what was read
\* of the last one.
Open(fd) ==
    /\ pc = "caller"
    /\ ~open[fd]
    /\ open' = [open EXCEPT ![fd] = TRUE]
    /\ ended' = [ended EXCEPT ![fd] = FALSE]
    /\ line' = [line EXCEPT ![fd] = NoLine]
    /\ UNCHANGED <<bonus, text, offset, stash, pc, current, got, past>>

Write(fd, byte) ==
    /\ open[fd]
    /\ ~ended[fd]
    /\ Len(text[fd]) < MaxText[fd]
    /\ text' = [text EXCEPT ![fd] = Append(@, byte)]
    /\ UNCHANGED <<bonus, ended, open, offset, stash, pc, current, line, got, past>>

End(fd) ==
    /\ open[fd]
    /\ ~ended[fd]
    /\ ended' = [ended EXCEPT ![fd] = TRUE]
    /\ UNCHANGED <<bonus, text, open, offset, stash, pc, current, line, got, past>>

get_next_line == stash_filling \/ Return

Next ==
    \/ get_next_line
    \/ ReadFails
    \/ CallNegative
    \/ \E fd \in Fd :
          \/ Call(fd) \/ CallFails(fd) \/ Close(fd) \/ Open(fd) \/ End(fd)
          \/ \E byte \in Byte : Write(fd, byte)

Spec == Init /\ [][Next]_vars

\* The call in progress is executed. Nobody has to call, or to write.
FairSpec == Spec /\ WF_vars(get_next_line)
-----------------------------------------------------------------------------
(* Properties *)

TypeOK ==
    /\ bonus \in BOOLEAN
    /\ text \in [Fd -> Seq(Byte)]
    /\ ended \in [Fd -> BOOLEAN]
    /\ open \in [Fd -> BOOLEAN]
    /\ offset \in [Fd -> Nat]
    /\ \A fd \in Fd : offset[fd] <= Len(text[fd])
    /\ stash \in [Slot -> Seq(Byte)]
    /\ pc \in {"caller", "stash_filling", "extract", "crashed"}
    /\ current \in Fd
    /\ line \in [Fd -> Seq(Byte)]
    /\ got \in [Slot -> Seq(Byte)]
    /\ past \in [Slot -> Nat]

\* What a stash holds are the bytes that were read for it, in pieces of any size,
\* and neither returned nor dropped yet: none of these is lost, doubled or moved.
\* A call that fails drops all of them, in the mandatory version those of the
\* other descriptors as well.
BytesKept ==
    \A s \in Slot :
        /\ past[s] + Len(stash[s]) = Len(got[s])
        /\ \A k \in DOMAIN stash[s] : stash[s][k] = got[s][past[s] + k]

\* What a call returns has no new line but at its end, and none there only if
\* the descriptor has no more: an unfinished line waits, however the pieces fall
\* and whatever a descriptor with the same number has left behind.
OneLineEach ==
    \A fd \in Fd :
        /\ \A k \in DOMAIN line[fd] : line[fd][k] = NewLine => k = Len(line[fd])
        /\ line[fd] # NoLine /\ ~Has(line[fd], NewLine) => ended[fd]

\* What LineStream sees: nothing in the mandatory version, which keeps the
\* bytes of all the descriptors in one stash.
StreamText == [fd \in Fd |-> IF bonus THEN text[fd] ELSE <<>>]
StreamEnded == [fd \in Fd |-> IF bonus THEN ended[fd] ELSE FALSE]
StreamOpen == [fd \in Fd |-> IF bonus THEN open[fd] ELSE TRUE]
StreamPast == [fd \in Fd |-> IF bonus THEN past[fd] ELSE 0]
StreamLine == [fd \in Fd |-> IF bonus THEN line[fd] ELSE NoLine]

\* The bonus version gives each descriptor its lines, each once, whatever the
\* calls for other descriptors do in between: only a call for a descriptor that
\* is closed drops what was read ahead. Without one, a descriptor that is opened
\* again begins with what was read ahead of the last file.
LS == INSTANCE LineStream WITH text <- StreamText, ended <- StreamEnded,
                               open <- StreamOpen, past <- StreamPast,
                               line <- StreamLine
LinesInOrder == LS!Spec

\* A call for a descriptor that has ended returns, or crashes on a read error.
CallsReturn ==
    \A fd \in Fd :
        (pc = "stash_filling" /\ current = fd /\ ended[fd])
            ~> pc \in {"caller", "crashed"}
=============================================================================
