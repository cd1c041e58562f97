----------------------------- MODULE MCPushSwap -----------------------------
(* Digits of base 3 and ints of four bits: -8 .. 7, or -22 .. 21 in base 3. *)
EXTENDS PushSwap

MCMaxText == <<2, 1>>
MCMinText == <<2, 2>>

Texts(n) == UNION {[1 .. m -> Char] : m \in 0 .. n}

\* Some of the ints, in order.
Numbers == <<<<Minus, 2, 2>>, <<Minus, 2, 1>>, <<Minus, 1, 0>>, <<Minus, 1>>, <<0>>,
             <<Plus, 2>>, <<1, 0>>, <<1, 1>>, <<2, 0>>, <<2, 1>>>>

Arranged(order) == [k \in DOMAIN order |-> Numbers[order[k]]]

\* Any order of up to six numbers, and some orders of ten.
Orders ==
    UNION {{order \in [1 .. n -> 1 .. n] :
                \A k, m \in 1 .. n : k # m => order[k] # order[m]} : n \in 3 .. 6}
    \cup {[k \in 1 .. 10 |-> (m * k) % 11] : m \in 1 .. 10}

\* Besides these, any word of up to four characters alone or after another.
MCInputs ==
    {[one |-> TRUE, words |-> <<w>>] : w \in Texts(4) \ {<<>>}}
    \cup {[one |-> FALSE, words |-> <<<<1>>, w>>] : w \in Texts(4)}
    \cup {[one |-> FALSE, words |-> Arranged(order)] : order \in Orders}
=============================================================================
