----------------------------- MODULE StackMachine -----------------------------
(***************************************************************************)
(* What push_swap writes its instructions for: two stacks of numbers, the  *)
(* first element of each at its top. Numbers are put on stack a, and then  *)
(* it does what it is told.                                                *)
(***************************************************************************)
EXTENDS Integers, Sequences

VARIABLES
    a, b,
    told    \* the instructions so far

vars == <<a, b, told>>

Init == a = <<>> /\ b = <<>> /\ told = <<>>

Load ==
    /\ a = <<>> /\ b = <<>> /\ told = <<>>
    /\ a' \in Seq(Int)
    /\ UNCHANGED <<b, told>>

Top(stack) == stack[1]
Last(stack) == stack[Len(stack)]
WithoutLast(stack) == SubSeq(stack, 1, Len(stack) - 1)

sa ==
    /\ Len(a) > 1
    /\ a' = <<a[2], a[1]>> \o SubSeq(a, 3, Len(a))
    /\ b' = b
    /\ told' = Append(told, "sa")

ra ==
    /\ a # <<>>
    /\ a' = Append(Tail(a), Top(a))
    /\ b' = b
    /\ told' = Append(told, "ra")

rra ==
    /\ a # <<>>
    /\ a' = <<Last(a)>> \o WithoutLast(a)
    /\ b' = b
    /\ told' = Append(told, "rra")

pa ==
    /\ b # <<>>
    /\ a' = <<Top(b)>> \o a
    /\ b' = Tail(b)
    /\ told' = Append(told, "pa")

pb ==
    /\ a # <<>>
    /\ a' = Tail(a)
    /\ b' = <<Top(a)>> \o b
    /\ told' = Append(told, "pb")

Next == Load \/ sa \/ ra \/ rra \/ pa \/ pb

Spec == Init /\ [][Next]_vars
=============================================================================
