------------------------------ MODULE Minitalk ------------------------------
(***************************************************************************)
(* Minitalk: clients send text to a server one bit at a time, SIGUSR1 for  *)
(* 0 and SIGUSR2 for 1.  The kernel keeps at most one pending signal of    *)
(* each kind, in no order, and the clients' usleep(50) promises nothing    *)
(* about when the server has handled one.                                  *)
(*                                                                         *)
(* A character is a number of Bits bits, the most significant first, and 0 *)
(* ends a text; Bits is 8 in the code.                                     *)
(***************************************************************************)
EXTENDS Integers, Sequences, FiniteSets

CONSTANTS Client,
          Bits,   \* bits of a character
          Messages \* what the clients send: functions from Client to texts

ASSUME BitsAssumption == Bits \in 1 .. 8

\* Power[n + 1] is 2 to the n.
Power == <<1, 2, 4, 8, 16, 32, 64, 128, 256>>

Characters == 1 .. Power[Bits + 1] - 1
ASSUME MessagesAssumption ==
    \A m \in Messages : m \in [Client -> Seq(Characters)] /\ \A c \in Client : m[c] # <<>>

Signal == {"SIGUSR1", "SIGUSR2"}

VARIABLES
    message,   \* the text of each client
    position,  \* bits each client has sent
    pending,   \* signals not delivered yet
    sa_mask,   \* blocked during a handler besides its own signal; never
               \* initialised, so any signals at all
    frames,    \* the handlers in progress, the innermost last
    counter, result, final,  \* the statics of signal_handler
    printed,   \* the lines the server has printed
    order,     \* the clients in the order of their first signals
    died,      \* clients killed before their end
    disturbed  \* a signal came too early, from two clients, or not at all

client == <<message, position, order, died>>
statics == <<counter, result, final, printed>>
vars == <<client, pending, sa_mask, frames, statics, disturbed>>

\* The bit at an offset of the text and its final zero.
Letter(text, n) == IF n \div Bits < Len(text) THEN text[n \div Bits + 1] ELSE 0
Bit(text, n) == (Letter(text, n) \div Power[Bits - (n % Bits)]) % 2
Size(text) == (Len(text) + 1) * Bits

Done(c) == position[c] = Size(message[c])
Midway(c) == position[c] > 0 /\ ~Done(c)
----------------------------------------------------------------------------
Init ==
    /\ message \in Messages
    /\ position = [c \in Client |-> 0]
    /\ pending = {} /\ sa_mask \in SUBSET Signal /\ frames = <<>>
    /\ counter = 0 /\ result = 0 /\ final = <<>> /\ printed = <<>>
    /\ order = <<>> /\ died = {}
    /\ disturbed = FALSE

\* kill(): a signal that is pending already is lost.
Send(c) ==
    /\ c \notin died
    /\ ~Done(c)
    /\ LET signal == IF Bit(message[c], position[c]) = 0 THEN "SIGUSR1" ELSE "SIGUSR2"
       IN  pending' = pending \cup {signal}
    /\ position' = [position EXCEPT ![c] = @ + 1]
    /\ order' = IF position[c] = 0 THEN Append(order, c) ELSE order
    /\ disturbed' = \/ disturbed
                    \/ pending # {} \/ frames # <<>>
                    \/ \E d \in Client \ {c} : Midway(d)
    /\ UNCHANGED <<message, died, sa_mask, frames, statics>>

Die(c) ==
    /\ c \notin died
    /\ ~Done(c)
    /\ died' = died \cup {c}
    /\ disturbed' = (disturbed \/ Midway(c))
    /\ UNCHANGED <<message, position, order, pending, sa_mask, frames, statics>>

\* A handler may be interrupted by a signal it does not block.  Each of its
\* steps reads or writes one static; value is what it carries from one to the
\* next.
Deliver(s) ==
    /\ s \in pending
    /\ frames # <<>> => s \notin sa_mask
    /\ \A k \in 1 .. Len(frames) : frames[k].signal # s
    /\ pending' = pending \ {s}
    /\ frames' = Append(frames, [signal |-> s, at |-> "weigh", value |-> 0])
    /\ UNCHANGED <<client, sa_mask, statics, disturbed>>

Runs(at) == frames # <<>> /\ frames[Len(frames)].at = at
Now == frames[Len(frames)]
GoesTo(at, value) ==
    frames' = [frames EXCEPT ![Len(frames)].at = at, ![Len(frames)].value = value]
Returns == frames' = SubSeq(frames, 1, Len(frames) - 1)

\* What ft_recursive_power(2, 7 - counter) gives, negative powers included.
Weight == IF counter < Bits THEN Power[Bits - counter] ELSE 0

\* Mutant of Weigh: the least significant bit first.
WeighReversed ==
    /\ Runs("weigh")
    /\ GoesTo("add", IF Now.signal = "SIGUSR2" /\ counter < Bits
                     THEN Power[counter + 1] ELSE 0)
    /\ UNCHANGED <<client, pending, sa_mask, statics, disturbed>>

Weigh ==
    /\ Runs("weigh")
    /\ GoesTo("add", IF Now.signal = "SIGUSR2" THEN Weight ELSE 0)
    /\ UNCHANGED <<client, pending, sa_mask, statics, disturbed>>

AddBit ==
    /\ Runs("add")
    /\ GoesTo("store", result + Now.value)
    /\ UNCHANGED <<client, pending, sa_mask, statics, disturbed>>

StoreResult ==
    /\ Runs("store")
    /\ result' = Now.value
    /\ GoesTo("count", 0)
    /\ UNCHANGED <<client, pending, sa_mask, counter, final, printed, disturbed>>

CountBit ==
    /\ Runs("count")
    /\ GoesTo("counted", counter + 1)
    /\ UNCHANGED <<client, pending, sa_mask, statics, disturbed>>

StoreCounter ==
    /\ Runs("counted")
    /\ counter' = Now.value
    /\ GoesTo("test", 0)
    /\ UNCHANGED <<client, pending, sa_mask, result, final, printed, disturbed>>

\* Only a counter of exactly Bits completes a character.
Test ==
    /\ Runs("test")
    /\ IF counter = Bits THEN GoesTo("complete", 0) ELSE Returns
    /\ UNCHANGED <<client, pending, sa_mask, statics, disturbed>>

\* letter_to_string: the letter is a char, and a zero char adds nothing.
Extended ==
    LET letter == result % Power[Bits + 1]
    IN  IF letter = 0 THEN final ELSE Append(final, letter)

\* The character is added to the text; the one that is 0 ends it.
Complete ==
    /\ Runs("complete")
    /\ IF result = 0
       THEN printed' = Append(printed, Extended) /\ final' = <<>>
       ELSE printed' = printed /\ final' = Extended
    /\ counter' = 0
    /\ GoesTo("reset", 0)
    /\ UNCHANGED <<client, pending, sa_mask, result, disturbed>>

\* Mutant of Reset: result is not reset.
ResetNothing ==
    /\ Runs("reset")
    /\ Returns
    /\ UNCHANGED <<client, pending, sa_mask, statics, disturbed>>

Reset ==
    /\ Runs("reset")
    /\ result' = 0
    /\ Returns
    /\ UNCHANGED <<client, pending, sa_mask, counter, final, printed, disturbed>>

Server ==
    \/ \E s \in Signal : Deliver(s)
    \/ Weigh \/ AddBit \/ StoreResult \/ CountBit \/ StoreCounter
    \/ Test \/ Complete \/ Reset


Next == Server \/ \E c \in Client : Send(c) \/ Die(c)

Spec == Init /\ [][Next]_vars

\* Signals are delivered and handlers return; clients may stop at any time.
FairSpec == Spec /\ WF_vars(Server)
----------------------------------------------------------------------------
(* Properties *)

\* Every variable has its type; where the handlers block each other, the bits
\* of a character stay within its range whatever signals are lost or mixed.
TypeOK ==
    /\ message \in Messages
    /\ position \in [Client -> Nat]
    /\ pending \subseteq Signal /\ sa_mask \subseteq Signal
    /\ frames \in Seq([signal : Signal, value : Nat,
                       at : {"weigh", "add", "store", "count", "counted",
                             "test", "complete", "reset"}])
    /\ counter \in Nat /\ result \in Nat
    /\ sa_mask = Signal => counter \in 0 .. Bits /\ result \in 0 .. Power[Bits + 1] - 1
    /\ final \in Seq(Characters) /\ printed \in Seq(Seq(Characters))
    /\ order \in Seq(Client) /\ died \subseteq Client
    /\ disturbed \in BOOLEAN

\* As long as each signal was handled before the next was sent and no client
\* began or died in the middle of another's text, the server has printed the
\* texts of the clients, whole and in order.
PrintsWhatWasSent ==
    ~disturbed =>
        /\ Len(printed) <= Len(order)
        /\ \A k \in 1 .. Len(printed) : printed[k] = message[order[k]]

\* Then every text sent to the end is printed in the end.
EveryTextIsPrinted ==
    \A c \in Client : Done(c) ~> disturbed \/ \E k \in 1 .. Len(printed) : order[k] = c
============================================================================
