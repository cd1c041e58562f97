---------------------------- MODULE DiningTable ----------------------------
(***************************************************************************)
(* What the forks of the philosophers promise: a philosopher takes his     *)
(* left fork, then his right one, and puts them down in the same order; a  *)
(* fork is taken only from the table, unless the death of a philosopher it *)
(* belongs to has been reported.                                           *)
(***************************************************************************)
EXTENDS Integers

CONSTANT N

Phil == 0 .. N - 1
Left(p) == p
Right(p) == IF p = N - 1 THEN 0 ELSE p + 1
Forks(p) == {Left(p), Right(p)}

VARIABLES
    hand,       \* the forks each philosopher holds
    spoiled     \* the forks that exclude nobody any more

vars == <<hand, spoiled>>

Init == hand = [p \in Phil |-> {}] /\ spoiled = {}

Available(f) == f \in spoiled \/ \A p \in Phil : f \notin hand[p]

Move(p, from, to) == hand[p] = from /\ hand' = [hand EXCEPT ![p] = to]

TakeLeft(p) == Available(Left(p)) /\ Move(p, {}, {Left(p)})
TakeRight(p) == Available(Right(p)) /\ Move(p, {Left(p)}, Forks(p))
DropLeft(p) == Move(p, Forks(p), {Right(p)})
DropRight(p) == Move(p, {Right(p)}, {})

Report(p) == spoiled' = spoiled \cup Forks(p) /\ UNCHANGED hand

Next ==
    \E p \in Phil :
        \/ Report(p)
        \/ /\ TakeLeft(p) \/ TakeRight(p) \/ DropLeft(p) \/ DropRight(p)
           /\ UNCHANGED spoiled

Spec == Init /\ [][Next]_vars
============================================================================
