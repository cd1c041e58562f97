------------------------------ MODULE PushSwap ------------------------------
(***************************************************************************)
(* push_swap: reads numbers from its arguments, replaces them by their     *)
(* ranks, and sorts these with the instructions of two stacks, printing    *)
(* each. A stack is an array, of which the first int_a or int_b elements   *)
(* count. Up to five numbers are sorted by cases, more by a radix sort.    *)
(*                                                                         *)
(* malloc succeeds. The instructions sb, ss, rb, rr, rrb and rrr are never *)
(* used and not modelled.                                                  *)
(***************************************************************************)
EXTENDS Integers, Sequences, FiniteSets

CONSTANTS
    Inputs,   \* the arguments: whether there is one (argc = 2), and its words
    Base,     \* digits are 0 .. Base - 1 (10)
    Half,     \* an int is in -Half .. Half - 1 (2^31)
    MaxText,  \* the digits of Half - 1 ("2147483647")
    MinText   \* those of Half ("2147483648")

\* Characters, in the order of their codes: anything else, signs, digits.
Other == -3
Plus == -2
Minus == -1
Digit == 0 .. Base - 1
Char == {Other, Plus, Minus} \cup Digit

ASSUME InputsAssumption ==
    Inputs \subseteq [one : BOOLEAN, words : Seq(Seq(Char))]

\* The powers of 2 that an int can be divided by with >>.
Power == <<1, 2, 4, 8, 16, 32, 64, 128, 256, 512, 1024, 2048, 4096, 8192, 16384,
           32768, 65536, 131072, 262144, 524288, 1048576, 2097152, 4194304,
           8388608, 16777216, 33554432, 67108864, 134217728, 268435456,
           536870912, 1073741824>>

\* An array of ints has fewer elements than that.
ASSUME LengthAssumption ==
    \A input \in Inputs : Len(input.words) < 1073741824
-----------------------------------------------------------------------------
(* The arguments *)

\* The value that gcc's code gives to an int that overflowed, which is undefined.
Wrap(value) == ((value + Half) % (2 * Half)) - Half

IsNumber(word) ==
    LET signed == Len(word) > 1 /\ word[1] \in {Plus, Minus} /\ word[2] \in Digit
    IN  \A k \in (IF signed THEN 2 ELSE 1) .. Len(word) : word[k] \in Digit

\* strncmp(s, t, Len(s)) < 0
Less(s, t) ==
    \E k \in 1 .. Len(s) :
        s[k] < t[k] /\ \A m \in 1 .. k - 1 : s[m] = t[m]

\* Mutant of InRange: a number of the greatest length is not compared.
InRangeByLength(word) ==
    IF word # <<>> /\ word[1] = Minus THEN Len(word) <= Len(MinText) + 1
                                      ELSE Len(word) <= Len(MaxText)

InRange(word) ==
    IF word # <<>> /\ word[1] = Minus
    THEN \/ Len(word) <= Len(MinText)
         \/ Len(word) = Len(MinText) + 1 /\ ~Less(<<Minus>> \o MinText, word)
    ELSE \/ Len(word) < Len(MaxText)
         \/ Len(word) = Len(MaxText) /\ ~Less(MaxText, word)

Start(word) == IF word # <<>> /\ word[1] \in {Plus, Minus} THEN 1 ELSE 0
Sign(word) == IF Start(word) = 1 /\ word[1] = Minus THEN -1 ELSE 1

\* It works with ints throughout.
ft_atoi(word) ==
    LET value[k \in Start(word) .. Len(word)] ==
            IF k = Start(word) THEN 0
            ELSE Wrap(Wrap(value[k - 1] * Base) + word[k])
    IN  Wrap(value[Len(word)] * Sign(word))

Accepted(word) == IsNumber(word) /\ InRange(word)

\* The number that the digits of a text are in the base, up to each of them.
Value(word) ==
    LET value[k \in Start(word) .. Len(word)] ==
            IF k = Start(word) THEN 0 ELSE value[k - 1] * Base + word[k]
    IN  value

Meaning(word) == Value(word)[Len(word)] * Sign(word)

\* In ft_atoi a product or a sum is no int.
Overflows(word) ==
    \E k \in Start(word) + 1 .. Len(word) :
        Value(word)[k - 1] * Base >= Half \/ Value(word)[k] >= Half

ASSUME IntAssumption ==
    /\ Base \in Nat /\ Base > 1
    /\ Half \in Nat \ {0}
    /\ \A text \in {MaxText, MinText} :
          text \in Seq(Digit) /\ text # <<>> /\ text[1] # 0
    /\ Meaning(MaxText) = Half - 1 /\ Meaning(MinText) = Half
-----------------------------------------------------------------------------
VARIABLES
    input,
    counter,   \* 0 if every instruction is to be printed
    pc,        \* the function, or what is left of it
    pile_a, int_a, pile_b, int_b,
    todo,      \* for up to five numbers: the instructions and calls to come
    i, j,      \* of the radix sort: the bit, and the turns of this pass
    given,     \* history: the numbers read
    out        \* history: what was printed

stacks == <<pile_a, int_a, pile_b, int_b>>
vars == <<input, counter, pc, stacks, todo, i, j, given, out>>

words == input.words
size == Len(words)
Index == 0 .. size - 1

Instruction == {"sa", "ra", "rra", "pa", "pb"}

\* What malloc left there.
Garbage == "?"

\* With several arguments counter is never given a value.
Init ==
    /\ input \in Inputs
    /\ counter \in IF input.one /\ words # <<>> THEN {0} ELSE {0, 1}
    /\ pc = "main"
    /\ pile_a = [k \in Index |-> Garbage]
    /\ int_a = size
    /\ pile_b = [k \in Index |-> Garbage]
    /\ int_b = 0
    /\ todo = <<>>
    /\ i = 0
    /\ j = 0
    /\ given = pile_a
    /\ out = <<>>

main ==
    /\ pc = "main"
    /\ IF \A k \in 1 .. size : Accepted(words[k])
       THEN /\ pile_a' = [k \in Index |-> ft_atoi(words[k + 1])]
            /\ given' = pile_a'
            /\ pc' = "check"
       ELSE /\ pc' = "error"
            /\ UNCHANGED <<pile_a, given>>
    /\ UNCHANGED <<input, counter, int_a, pile_b, int_b, todo, i, j, out>>

check_doubles == \E k, m \in Index : k < m /\ pile_a[k] = pile_a[m]

check_order == \A k \in 0 .. int_a - 2 : pile_a[k] <= pile_a[k + 1]

Check ==
    /\ pc = "check"
    /\ pc' = CASE check_doubles -> "error"
               [] check_order /\ ~check_doubles -> "exit"
               [] OTHER -> "normalize"
    /\ UNCHANGED <<input, counter, stacks, todo, i, j, given, out>>

rank(numbers, k) == size - Cardinality({m \in Index : numbers[k] < numbers[m]})

ft_normalize ==
    /\ pc = "normalize"
    /\ pile_a' = [k \in Index |-> rank(pile_a, k)]
    /\ pc' = "algorithms"
    /\ UNCHANGED <<input, counter, int_a, pile_b, int_b, todo, i, j, given, out>>
-----------------------------------------------------------------------------
(* The instructions *)

Says(instruction) ==
    out' = IF counter = 0 \/ instruction \in {"pa", "pb"}
           THEN Append(out, instruction)
           ELSE out

ft_swapa ==
    /\ IF int_a > 1
       THEN /\ pile_a' = [pile_a EXCEPT ![0] = pile_a[1], ![1] = pile_a[0]]
            /\ Says("sa")
       ELSE UNCHANGED <<pile_a, out>>
    /\ UNCHANGED <<int_a, pile_b, int_b>>

ft_rotatea ==
    /\ pile_a' = [k \in Index |-> IF k = int_a - 1 THEN pile_a[0]
                                  ELSE IF k < int_a - 1 THEN pile_a[k + 1]
                                  ELSE pile_a[k]]
    /\ Says("ra")
    /\ UNCHANGED <<int_a, pile_b, int_b>>

\* Mutant of ft_reverse_rotatea: prints what ft_reverse_rotateb prints for b.
ft_reverse_rotateaSaysRa ==
    /\ pile_a' = [k \in Index |-> IF k = 0 THEN pile_a[int_a - 1]
                                  ELSE IF k < int_a THEN pile_a[k - 1]
                                  ELSE pile_a[k]]
    /\ Says("ra")
    /\ UNCHANGED <<int_a, pile_b, int_b>>

ft_reverse_rotatea ==
    /\ pile_a' = [k \in Index |-> IF k = 0 THEN pile_a[int_a - 1]
                                  ELSE IF k < int_a THEN pile_a[k - 1]
                                  ELSE pile_a[k]]
    /\ Says("rra")
    /\ UNCHANGED <<int_a, pile_b, int_b>>

\* The arrays after the first element of one, of n, goes to the other, of m.
Popped(pile, n) ==
    [k \in Index |-> IF k < n - 1 THEN pile[k + 1]
                     ELSE IF k = n - 1 THEN 0 ELSE pile[k]]

\* Mutant of Pushed: the elements are moved from the top down.
PushedDownwards(pile, m, first) ==
    [k \in Index |-> IF k = 0 THEN first
                     ELSE IF k <= m THEN pile[0] ELSE pile[k]]

Pushed(pile, m, first) ==
    [k \in Index |-> IF k = 0 THEN first
                     ELSE IF k <= m THEN pile[k - 1] ELSE pile[k]]

ft_pusha ==
    IF int_b > 0
    THEN /\ pile_a' = Pushed(pile_a, int_a, pile_b[0])
         /\ pile_b' = Popped(pile_b, int_b)
         /\ int_a' = int_a + 1
         /\ int_b' = int_b - 1
         /\ Says("pa")
    ELSE UNCHANGED <<stacks, out>>

ft_pushb ==
    IF int_a > 0
    THEN /\ pile_b' = Pushed(pile_b, int_b, pile_a[0])
         /\ pile_a' = Popped(pile_a, int_a)
         /\ int_a' = int_a - 1
         /\ int_b' = int_b + 1
         /\ Says("pb")
    ELSE UNCHANGED <<stacks, out>>

Do(instruction) ==
    \/ instruction = "sa" /\ ft_swapa
    \/ instruction = "ra" /\ ft_rotatea
    \/ instruction = "rra" /\ ft_reverse_rotatea
    \/ instruction = "pa" /\ ft_pusha
    \/ instruction = "pb" /\ ft_pushb
-----------------------------------------------------------------------------
(* Up to five numbers *)

\* Mutant of algorithms: five numbers are left to the procedure for four.
algorithmsFour ==
    /\ pc = "algorithms"
    /\ pc' = IF int_a >= 6 THEN "big_algorithm" ELSE "todo"
    /\ todo' = CASE int_a \in {4, 5} -> <<"four_int_alg">>
                 [] int_a = 3 -> <<"three_int_alg">>
                 [] int_a = 2 -> <<"two_args_alg">>
                 [] OTHER -> <<>>
    /\ UNCHANGED <<input, counter, stacks, i, j, given, out>>

algorithms ==
    /\ pc = "algorithms"
    /\ pc' = IF int_a >= 6 THEN "big_algorithm" ELSE "todo"
    /\ todo' = CASE int_a = 5 -> <<"five_int_alg">>
                 [] int_a = 4 -> <<"four_int_alg">>
                 [] int_a = 3 -> <<"three_int_alg">>
                 [] int_a = 2 -> <<"two_args_alg">>
                 [] OTHER -> <<>>
    /\ UNCHANGED <<input, counter, stacks, i, j, given, out>>

two_args_alg == IF pile_a[0] > pile_a[1] THEN <<"sa">> ELSE <<>>

three_int_alg ==
    LET x == pile_a[0]  y == pile_a[1]  z == pile_a[2]
    IN  CASE x > y /\ y < z /\ x > z -> <<"ra">>
          [] x > y /\ y < z /\ x <= z -> <<"sa">>
          [] x > y /\ y >= z -> <<"sa", "rra">>
          [] x <= y /\ x > z -> <<"rra">>
          [] x <= y /\ x <= z -> <<"ra", "sa", "rra">>

find_smallest ==
    CHOOSE k \in 0 .. int_a - 1 : \A m \in 0 .. int_a - 1 : pile_a[k] <= pile_a[m]

\* Mutant of push_up: turned too far.
push_upTooFar ==
    IF find_smallest < int_a \div 2
    THEN [k \in 1 .. find_smallest + 1 |-> "ra"]
    ELSE [k \in 1 .. int_a - find_smallest |-> "rra"]

push_up ==
    IF find_smallest < int_a \div 2
    THEN [k \in 1 .. find_smallest |-> "ra"]
    ELSE [k \in 1 .. int_a - find_smallest |-> "rra"]

\* What a call comes down to; four_int_alg and five_int_alg look at the order
\* when the smallest is at the top.
Body(call) ==
    CASE call = "two_args_alg" -> two_args_alg
      [] call = "three_int_alg" -> three_int_alg
      [] call = "four_int_alg" -> Append(push_up, "four: rest")
      [] call = "five_int_alg" -> Append(push_up, "five: rest")
      [] call = "four: rest" ->
            IF check_order THEN <<>> ELSE <<"pb", "three_int_alg", "pa">>
      [] call = "five: rest" ->
            IF check_order THEN <<>> ELSE <<"pb", "four_int_alg", "pa">>

Todo ==
    /\ pc = "todo"
    /\ todo # <<>>
    /\ IF Head(todo) \in Instruction
       THEN /\ Do(Head(todo))
            /\ todo' = Tail(todo)
       ELSE /\ todo' = Body(Head(todo)) \o Tail(todo)
            /\ UNCHANGED <<stacks, out>>
    /\ UNCHANGED <<input, counter, pc, i, j, given>>

AllDone ==
    /\ pc = "todo"
    /\ todo = <<>>
    /\ pc' = "exit"
    /\ UNCHANGED <<input, counter, stacks, todo, i, j, given, out>>
-----------------------------------------------------------------------------
(* More than five: the radix sort *)

\* Mutant of Bit: that of the next place.
BitNext(n, k) == (n \div (2 * Power[k + 1])) % 2

Shifted(n, k) == n \div Power[k + 1]
Bit(n, k) == Shifted(n, k) % 2

big_algorithm ==
    /\ pc = "big_algorithm"
    /\ pc' = IF check_order THEN "exit" ELSE "turn"
    /\ j' = 0
    /\ UNCHANGED <<input, counter, stacks, todo, i, given, out>>

\* The first number goes to b if its bit is 0, else behind the others.
Turn ==
    /\ pc = "turn"
    /\ j < size
    /\ ~check_order
    /\ j' = j + 1
    /\ IF Bit(pile_a[0], i) = 0 THEN ft_pushb ELSE ft_rotatea
    /\ UNCHANGED <<input, counter, pc, todo, i, given>>

\* Mutant of PassOver: stops a turn early.
PassOverEarly ==
    /\ pc = "turn"
    /\ j >= size - 1 \/ check_order
    /\ pc' = "back"
    /\ UNCHANGED <<input, counter, stacks, todo, i, j, given, out>>

\* A pass may end early, with b not empty.
PassOver ==
    /\ pc = "turn"
    /\ j >= size \/ check_order
    /\ pc' = "back"
    /\ UNCHANGED <<input, counter, stacks, todo, i, j, given, out>>

\* Mutant of Back: the last number stays on b.
BackButOne ==
    /\ pc = "back"
    /\ int_b > 1
    /\ ft_pusha
    /\ UNCHANGED <<input, counter, pc, todo, i, j, given>>

Back ==
    /\ pc = "back"
    /\ int_b > 0
    /\ ft_pusha
    /\ UNCHANGED <<input, counter, pc, todo, i, j, given>>

NextBit ==
    /\ pc = "back"
    /\ int_b = 0
    /\ i' = i + 1
    /\ pc' = "big_algorithm"
    /\ UNCHANGED <<input, counter, stacks, todo, j, given, out>>
-----------------------------------------------------------------------------
Next ==
    \/ main \/ Check \/ ft_normalize \/ algorithms
    \/ Todo \/ AllDone
    \/ big_algorithm \/ Turn \/ PassOver \/ Back \/ NextBit

\* The program has one thread.
Spec == Init /\ [][Next]_vars
FairSpec == Spec /\ WF_vars(Next)
-----------------------------------------------------------------------------
(* Properties *)

Sorting == {"algorithms", "todo", "big_algorithm", "turn", "back"}

TypeOK ==
    /\ input \in [one : BOOLEAN, words : Seq(Seq(Char))]
    /\ counter \in {0, 1}
    /\ pc \in {"main", "check", "normalize", "error", "exit"} \cup Sorting
    /\ int_a \in 0 .. size /\ int_b \in 0 .. size
    /\ DOMAIN pile_a = Index /\ DOMAIN pile_b = Index
    /\ pc \in Sorting =>
          /\ \A k \in 0 .. int_a - 1 : pile_a[k] \in 1 .. size
          /\ \A k \in 0 .. int_b - 1 : pile_b[k] \in 1 .. size
    /\ i \in 0 .. 30 /\ j \in 0 .. size

\* The numbers that are sorted are the ones in the arguments: what does not fit
\* an int was refused, by a comparison of texts, before ft_atoi. Of what is
\* accepted only the least int overflows there, and comes out right if overflow
\* wraps. (An empty argument counts as 0.)
ReadsNumbers ==
    pc = "check" =>
        \A k \in 1 .. size :
            /\ pile_a[k - 1] = Meaning(words[k])
            /\ Overflows(words[k]) => Meaning(words[k]) = -Half

\* Between the two stacks, each rank is always there once.
NoNumberLost ==
    pc \in Sorting =>
        /\ int_a + int_b = size
        /\ \A r \in 1 .. size :
              \/ \E k \in 0 .. int_a - 1 : pile_a[k] = r
              \/ \E k \in 0 .. int_b - 1 : pile_b[k] = r

\* When the program exits without an error all the numbers are in stack a, in
\* strict order.
Sorts ==
    pc = "exit" =>
        /\ int_a = size
        /\ \A k, m \in Index : k < m => pile_a[k] < pile_a[m]

\* Before pass i numbers that differ only below bit i are in order, although
\* the passes before may have ended early and left numbers where they were.
LowerBitsSorted ==
    pc = "big_algorithm" =>
        \A k, m \in Index :
            k < m /\ Shifted(pile_a[k], i) = Shifted(pile_a[m], i)
                => pile_a[k] < pile_a[m]

\* There is no pass for a bit that no rank has: no shift is too long.
PassesBounded == pc \in {"turn", "back"} => Power[i + 1] <= size

\* The stacks as the reader of the printed instructions has them, with the
\* numbers themselves, if every instruction is to be printed.
Sorted ==
    LET all == {given[k] : k \in Index}
    IN  [r \in 1 .. size |->
            CHOOSE n \in all : Cardinality({m \in all : m > n}) = size - r]
Ranked == ~ \A k, m \in Index : k < m => given[k] < given[m]
MachineA ==
    CASE counter # 0 \/ pc \notin Sorting \cup {"exit"} -> <<>>
      [] counter = 0 /\ pc \in Sorting \cup {"exit"} /\ Ranked ->
            LET sorted == Sorted IN [k \in 1 .. int_a |-> sorted[pile_a[k - 1]]]
      [] counter = 0 /\ pc = "exit" /\ ~Ranked -> [k \in 1 .. int_a |-> given[k - 1]]
MachineB ==
    IF counter = 0
    THEN LET sorted == Sorted IN [k \in 1 .. int_b |-> sorted[pile_b[k - 1]]]
    ELSE <<>>
MachineTold == IF counter = 0 THEN out ELSE <<>>

\* Who follows the printed instructions on two stacks of the given numbers has
\* at every moment the stacks of the program.
SM == INSTANCE StackMachine WITH a <- MachineA, b <- MachineB, told <- MachineTold
FollowsMachine == SM!Spec

\* The program ends.
Terminates == <>(pc \in {"exit", "error"})
=============================================================================
