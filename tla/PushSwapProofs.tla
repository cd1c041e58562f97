--------------------------- MODULE PushSwapProofs ---------------------------
(***************************************************************************)
(* Proofs about push_swap for any count of numbers: it reads the numbers   *)
(* that its arguments say, its instructions keep them, it sorts them, and  *)
(* who follows what it prints sorts them too.                              *)
(***************************************************************************)
EXTENDS PushSwap, FiniteSetTheorems, SequenceTheorems, WellFoundedInduction, TLAPS

-----------------------------------------------------------------------------
(* Bits *)

\* The powers double.
LEMMA PowerDoubles ==
    /\ Power[1] = 1 /\ Power[31] = 1073741824
    /\ \A k \in 1 .. 31 : Power[k] \in Nat \ {0}
    /\ \A k \in 1 .. 30 : Power[k + 1] = 2 * Power[k]
  BY SMTT(60) DEF Power

\* A division by a number that is not 0.
LEMMA Division ==
    ASSUME NEW x \in Nat, NEW p \in Nat \ {0}
    PROVE  /\ x \div p \in Nat
           /\ p * (x \div p) <= x
           /\ x < p * (x \div p) + p
  BY SMTT(30)

LEMMA DivisionBy2 ==
    ASSUME NEW x \in Nat, NEW p \in Nat \ {0}
    PROVE  x \div (2 * p) = (x \div p) \div 2
  BY SMTT(30)

LEMMA DivisionMonotone ==
    ASSUME NEW x \in Nat, NEW y \in Nat, NEW p \in Nat \ {0}, x \div p < y \div p
    PROVE  x < y
  BY SMTT(30)

LEMMA DivisionSmall ==
    ASSUME NEW x \in Nat, NEW p \in Nat \ {0}, x < p
    PROVE  x \div p = 0
  BY SMTT(30)

\* What is left of a number above bit k is twice what is left above the next
\* one, and the bit.
LEMMA Halves ==
    ASSUME NEW x \in Nat, NEW k \in 0 .. 29
    PROVE  /\ Bit(x, k) \in {0, 1}
           /\ Shifted(x, k) = 2 * Shifted(x, k + 1) + Bit(x, k)
           /\ Shifted(x, k) \in Nat /\ Shifted(x, k + 1) \in Nat
<1> DEFINE p == Power[k + 1]
           q == x \div p
<1>1. p \in Nat \ {0} /\ Power[k + 1 + 1] = 2 * p
  BY PowerDoubles
<1>2. Shifted(x, k) = q /\ Shifted(x, k + 1) = x \div (2 * p) /\ Bit(x, k) = q % 2
  BY <1>1 DEF Shifted, Bit
<1> HIDE DEF p
<1>3. q \in Nat /\ x \div (2 * p) = q \div 2
  BY <1>1, Division, DivisionBy2
<1> HIDE DEF q
<1>4. q % 2 \in {0, 1} /\ q = 2 * (q \div 2) + (q % 2) /\ q \div 2 \in Nat
  BY <1>3
<1> QED BY <1>2, <1>3, <1>4

LEMMA ShiftedType ==
    ASSUME NEW x \in Nat, NEW k \in 0 .. 30
    PROVE  Shifted(x, k) \in Nat
<1>1. Power[k + 1] \in Nat \ {0}
  BY PowerDoubles
<1> QED BY <1>1, Division DEF Shifted

\* Bit 0 has nothing below it.
LEMMA ShiftedBy0 ==
    ASSUME NEW x \in Nat
    PROVE  Shifted(x, 0) = x
  BY PowerDoubles DEF Shifted

\* What is left of a smaller number is not more.
LEMMA ShiftedOrder ==
    ASSUME NEW x \in Nat, NEW y \in Nat, NEW k \in 0 .. 30,
           Shifted(x, k) < Shifted(y, k)
    PROVE  x < y
<1>1. Power[k + 1] \in Nat \ {0}
  BY PowerDoubles
<1> QED BY <1>1, DivisionMonotone DEF Shifted

\* Nothing is left of a number that is less than the power.
LEMMA ShiftedSmall ==
    ASSUME NEW x \in Nat, NEW k \in 0 .. 30, x < Power[k + 1]
    PROVE  Shifted(x, k) = 0
<1>1. Power[k + 1] \in Nat \ {0}
  BY PowerDoubles
<1> QED BY <1>1, DivisionSmall DEF Shifted

Same(x, y, k) == Shifted(x, k) = Shifted(y, k)

\* Of two numbers that differ only up to bit k: the one without the bit is less;
\* if both have it, or neither, they differ only below it.
LEMMA NextPlace ==
    ASSUME NEW x \in Nat, NEW y \in Nat, NEW k \in 0 .. 29, Same(x, y, k + 1)
    PROVE  /\ Bit(x, k) = 0 /\ Bit(y, k) = 1 => x < y
           /\ Bit(x, k) = Bit(y, k) => Same(x, y, k)
<1>1. /\ Bit(x, k) \in {0, 1} /\ Bit(y, k) \in {0, 1}
      /\ Shifted(x, k) = 2 * Shifted(x, k + 1) + Bit(x, k)
      /\ Shifted(y, k) = 2 * Shifted(y, k + 1) + Bit(y, k)
      /\ Shifted(x, k) \in Nat /\ Shifted(x, k + 1) \in Nat
      /\ Shifted(y, k) \in Nat /\ Shifted(y, k + 1) \in Nat
  BY Halves
<1>2. Shifted(x, k + 1) = Shifted(y, k + 1)
  BY DEF Same
<1>3. ASSUME Bit(x, k) = 0, Bit(y, k) = 1 PROVE x < y
  <2>1. Shifted(x, k) < Shifted(y, k)
    BY <1>1, <1>2, <1>3
  <2> QED BY <2>1, ShiftedOrder
<1>4. ASSUME Bit(x, k) = Bit(y, k) PROVE Same(x, y, k)
  BY <1>1, <1>2, <1>4 DEF Same
<1> QED BY <1>3, <1>4
-----------------------------------------------------------------------------
(* Order *)

\* A set of natural numbers has a smallest element.
LEMMA Smallest ==
    ASSUME NEW T, T \subseteq Nat, T # {}
    PROVE  \E x \in T : \A y \in T : x <= y
<1> DEFINE R == OpToRel(<, Nat)
<1>1. IsWellFoundedOn(R, Nat)
  BY NatLessThanWellFounded
<1>2. \A x, y \in Nat : x < y => <<x, y>> \in R
  BY DEF OpToRel
<1> HIDE DEF R
<1>3. PICK x \in T : \A y \in T : ~ (<<y, x>> \in R)
  BY <1>1, WFMin
<1>4. ASSUME NEW y \in T PROVE x <= y
  <2>1. x \in Nat /\ y \in Nat /\ ~ (y < x)
    BY <1>2, <1>3
  <2> QED BY <2>1
<1> QED BY <1>4

\* What holds at the first number of a range, and at each after one where it
\* holds, holds in the whole range.
LEMMA Induction ==
    ASSUME NEW a \in Int, NEW b \in Int, NEW S, a \in S,
           \A k \in a .. b - 1 : k \in S => k + 1 \in S
    PROVE  \A k \in a .. b : k \in S
<1> DEFINE T == {d \in Nat : a + d <= b /\ a + d \notin S}
<1>1. ASSUME T # {} PROVE FALSE
  <2>1. PICK d \in T : \A e \in T : d <= e
    <3>1. T \subseteq Nat
      OBVIOUS
    <3> HIDE DEF T
    <3> QED BY <1>1, <3>1, Smallest
  <2>2. d \in Nat /\ a + d <= b /\ a + d \notin S /\ d # 0
    BY <2>1
  <2>3. d - 1 \in Nat /\ d - 1 \notin T /\ a + (d - 1) <= b
    BY <2>1, <2>2
  <2>4. a + (d - 1) \in S /\ a + (d - 1) \in a .. b - 1 /\ (a + (d - 1)) + 1 = a + d
    BY <2>2, <2>3
  <2> QED BY <2>2, <2>4
<1>2. ASSUME NEW k \in a .. b, k \notin S PROVE FALSE
  <2>1. k - a \in Nat /\ a + (k - a) = k /\ k <= b
    OBVIOUS
  <2>2. k - a \in T
    BY <1>2, <2>1
  <2> QED BY <1>1, <2>2
<1> QED BY <1>2

\* There is a function that begins with x and goes on by the steps.
Goes(f, T, a, b, x, step) ==
    /\ f \in [a .. b -> T]
    /\ f[a] = x
    /\ \A k \in a + 1 .. b : f[k] = step[<<f[k - 1], k>>]

LEMMA Recursion ==
    ASSUME NEW T, NEW a \in Int, NEW b \in Int, a <= b, NEW x \in T,
           NEW step \in [T \X (a .. b) -> T]
    PROVE  \E f : Goes(f, T, a, b, x, step)
<1> DEFINE S == {m \in a .. b : \E f : Goes(f, T, a, m, x, step)}
<1>1. a \in S
  <2> DEFINE f == [k \in a .. a |-> x]
  <2>1. Goes(f, T, a, a, x, step)
    BY DEF Goes
  <2> QED BY <2>1
<1>2. ASSUME NEW m \in a .. b - 1, m \in S PROVE m + 1 \in S
  <2>1. PICK f : Goes(f, T, a, m, x, step)
    BY <1>2
  <2> DEFINE g == [k \in a .. m + 1 |-> IF k = m + 1 THEN step[<<f[m], m + 1>>] ELSE f[k]]
  <2>2. f[m] \in T /\ m + 1 \in a .. b /\ m \in a .. m
    BY <2>1 DEF Goes
  <2>3. step[<<f[m], m + 1>>] \in T
    BY <2>2
  <2>4. /\ \A k \in a .. m : g[k] = f[k] /\ f[k] \in T
        /\ g[m + 1] = step[<<f[m], m + 1>>]
    BY <2>1 DEF Goes
  <2>5. g \in [a .. m + 1 -> T] /\ g[a] = x
    BY <2>1, <2>3, <2>4 DEF Goes
  <2> HIDE DEF g
  <2>6. ASSUME NEW k \in a + 1 .. m + 1 PROVE g[k] = step[<<g[k - 1], k>>]
    <3>1. k - 1 \in a .. m /\ g[k - 1] = f[k - 1]
      BY <2>4
    <3>2. CASE k = m + 1
      BY <2>4, <3>1, <3>2
    <3>3. CASE k # m + 1
      BY <2>1, <2>4, <3>1, <3>3 DEF Goes
    <3> QED BY <3>2, <3>3
  <2>7. Goes(g, T, a, m + 1, x, step)
    BY <2>5, <2>6 DEF Goes
  <2> QED BY <2>2, <2>7
<1>3. \A m \in a .. b : m \in S
  <2> HIDE DEF S
  <2> QED BY <1>1, <1>2, Induction
<1>4. b \in S
  BY <1>3
<1> QED BY <1>4

\* Neighbours in order are all in order: the first element after k that is less
\* would come after one that is not.
LEMMA NeighboursInOrder ==
    ASSUME NEW n \in Nat, NEW f,
           \A k \in 0 .. n - 1 : f[k] \in Int,
           \A k \in 0 .. n - 2 : f[k] <= f[k + 1]
    PROVE  \A k, m \in 0 .. n - 1 : k < m => f[k] <= f[m]
<1> SUFFICES ASSUME NEW k \in 0 .. n - 1 PROVE \A m \in k + 1 .. n - 1 : f[k] <= f[m]
  OBVIOUS
<1> DEFINE T == {m \in k + 1 .. n - 1 : ~ (f[k] <= f[m])}
<1>1. ASSUME T # {} PROVE FALSE
  <2>1. PICK m \in T : \A l \in T : m <= l
    <3>1. T \subseteq Nat
      OBVIOUS
    <3> HIDE DEF T
    <3> QED BY <1>1, <3>1, Smallest
  <2>2. m \in k + 1 .. n - 1 /\ ~ (f[k] <= f[m])
    BY <2>1
  <2>3. m - 1 \notin T
    BY <2>1, <2>2
  <2>4. f[k] <= f[m - 1]
    <3>1. CASE m = k + 1
      BY <3>1
    <3>2. CASE m # k + 1
      BY <2>2, <2>3, <3>2
    <3> QED BY <3>1, <3>2
  <2>5. f[m - 1] <= f[m]
    BY <2>2
  <2> QED BY <2>2, <2>4, <2>5
<1> QED BY <1>1
-----------------------------------------------------------------------------
(* The invariant *)

\* The numbers this pass has not looked at yet are the first of stack a; those it
\* kept follow, and those it moved are on stack b, the last one first.
Untouched == size - j

\* While the pass goes on: each of the three is in order among the numbers that
\* agree in bit i and above, and what was looked at comes before what was not.
InTurn ==
    /\ Untouched <= int_a
    /\ \A k, m \in 0 .. Untouched - 1 :
          k < m /\ Same(pile_a[k], pile_a[m], i) => pile_a[k] < pile_a[m]
    /\ \A k \in Untouched .. int_a - 1 : Bit(pile_a[k], i) = 1
    /\ \A k, m \in Untouched .. int_a - 1 :
          k < m /\ Same(pile_a[k], pile_a[m], i) => pile_a[k] < pile_a[m]
    /\ \A k \in 0 .. int_b - 1 : Bit(pile_b[k], i) = 0
    /\ \A k, m \in 0 .. int_b - 1 :
          k < m /\ Same(pile_b[k], pile_b[m], i) => pile_b[m] < pile_b[k]
    /\ \A k \in Untouched .. int_a - 1, m \in 0 .. Untouched - 1 :
          Same(pile_a[k], pile_a[m], i) => pile_a[k] < pile_a[m]
    /\ \A k \in 0 .. int_b - 1, m \in 0 .. Untouched - 1 :
          Same(pile_b[k], pile_a[m], i) => pile_b[k] < pile_a[m]

\* When it is over, however early: stack b, from its bottom, then stack a are in
\* order among the numbers that agree above bit i.
InBack ==
    /\ \A k, m \in 0 .. int_a - 1 :
          k < m /\ Same(pile_a[k], pile_a[m], i + 1) => pile_a[k] < pile_a[m]
    /\ \A k, m \in 0 .. int_b - 1 :
          k < m /\ Same(pile_b[k], pile_b[m], i + 1) => pile_b[m] < pile_b[k]
    /\ \A k \in 0 .. int_b - 1, m \in 0 .. int_a - 1 :
          Same(pile_b[k], pile_a[m], i + 1) => pile_b[k] < pile_a[m]

Before == {"check", "normalize", "algorithms"}
Radix == {"big_algorithm", "turn", "back"}

Types ==
    /\ input \in Inputs
    /\ DOMAIN pile_a = Index /\ DOMAIN pile_b = Index
    /\ pc \in Before \cup {"main"} =>
          int_a = size /\ int_b = 0 /\ i = 0 /\ j = 0
    /\ pc \in {"check", "normalize"} => \A k \in Index : pile_a[k] \in Int
    /\ pc = "normalize" => \A k, m \in Index : k # m => pile_a[k] # pile_a[m]
    /\ pc = "algorithms" =>
          /\ \A k \in Index : pile_a[k] \in 1 .. size
          /\ \A k, m \in Index : k # m => pile_a[k] # pile_a[m]
    /\ pc \in Radix =>
          /\ int_a \in Nat /\ int_b \in Nat /\ int_a + int_b = size
          /\ \A k \in 0 .. int_a - 1 : pile_a[k] \in 1 .. size
          /\ \A k \in 0 .. int_b - 1 : pile_b[k] \in 1 .. size
          /\ i \in 0 .. 30 /\ j \in 0 .. size
    /\ pc = "big_algorithm" => int_b = 0

IInv ==
    /\ Types
    /\ PassesBounded
    /\ LowerBitsSorted
    /\ pc = "turn" => InTurn
    /\ pc = "back" => InBack

LEMMA SizeType ==
    ASSUME Types
    PROVE  size \in Nat /\ size < Power[31]
<1>1. input \in [one : BOOLEAN, words : Seq(Seq(Char))] /\ Len(input.words) < 1073741824
  BY InputsAssumption, LengthAssumption DEF Types
<1>2. input.words \in Seq(Seq(Char))
  BY <1>1
<1> QED BY <1>1, <1>2, PowerDoubles, LenProperties DEF size, words

\* A pass with a bit that is not too high.
LEMMA BitBounded ==
    ASSUME Types, PassesBounded, pc \in {"turn", "back"}
    PROVE  i \in 0 .. 29
<1>1. i \in 0 .. 30 /\ Power[i + 1] <= size /\ size < Power[31] /\ size \in Nat
  BY SizeType DEF Types, PassesBounded, Radix
<1>2. i # 30
  BY <1>1, PowerDoubles
<1> QED BY <1>1, <1>2

LEMMA InitInv == Init => IInv
<1> SUFFICES ASSUME Init PROVE IInv
  OBVIOUS
<1> QED BY DEF Init, IInv, Types, PassesBounded, LowerBitsSorted, Before, Radix
-----------------------------------------------------------------------------
(* The arguments *)

\* What the digits of a text come to up to each.
Values(w, f) ==
    /\ f \in [Start(w) .. Len(w) -> Int]
    /\ f[Start(w)] = 0
    /\ \A k \in Start(w) + 1 .. Len(w) : f[k] = f[k - 1] * Base + w[k]

\* The same with ints.
IntValues(w, g) ==
    /\ g \in [Start(w) .. Len(w) -> Int]
    /\ g[Start(w)] = 0
    /\ \A k \in Start(w) + 1 .. Len(w) : g[k] = Wrap(Wrap(g[k - 1] * Base) + w[k])

LEMMA WordIs ==
    ASSUME NEW w \in Seq(Int)
    PROVE  /\ Len(w) \in Nat /\ Start(w) \in {0, 1} /\ Start(w) <= Len(w)
           /\ \A k \in Start(w) + 1 .. Len(w) : w[k] \in Int
           /\ w = <<>> <=> Len(w) = 0
<1>1. Len(w) \in Nat /\ (w = <<>> <=> Len(w) = 0) /\ \A k \in 1 .. Len(w) : w[k] \in Int
  BY LenProperties, EmptySeq
<1>2. Start(w) \in {0, 1} /\ (Start(w) = 1 => Len(w) # 0)
  BY <1>1 DEF Start
<1> QED BY <1>1, <1>2

LEMMA WrapType ==
    ASSUME NEW x \in Int
    PROVE  Wrap(x) \in Int
<1> DEFINE y == (x + Half) % (2 * Half)
<1>1. Half \in Nat /\ Half > 0
  BY IntAssumption
<1>2. y \in Int
  BY <1>1
<1> QED BY <1>1, <1>2 DEF Wrap

LEMMA MeaningIs ==
    ASSUME NEW w \in Seq(Int)
    PROVE  Values(w, Value(w)) /\ Meaning(w) = Value(w)[Len(w)] * Sign(w)
<1> DEFINE a == Start(w)
           n == Len(w)
           Fits(v) == v = [k \in a .. n |-> IF k = a THEN 0 ELSE v[k - 1] * Base + w[k]]
           step == [p \in Int \X (a .. n) |-> IF p[2] = a THEN 0 ELSE p[1] * Base + w[p[2]]]
<1>1. /\ a \in Int /\ n \in Int /\ a <= n /\ Base \in Int
      /\ \A k \in a + 1 .. n : w[k] \in Int
  BY WordIs, IntAssumption
<1>2. \E f : Fits(f)
  <2>1. ASSUME NEW x \in Int, NEW k \in a .. n, k # a PROVE x * Base + w[k] \in Int
    <3>1. k \in a + 1 .. n /\ w[k] \in Int
      BY <1>1, <2>1
    <3>2. x * Base \in Int
      BY <1>1
    <3> HIDE DEF a, n
    <3> QED BY <1>1, <3>1, <3>2
  <2>2. step \in [Int \X (a .. n) -> Int]
    <3>1. ASSUME NEW p \in Int \X (a .. n)
          PROVE  (IF p[2] = a THEN 0 ELSE p[1] * Base + w[p[2]]) \in Int
      <4>1. p[1] \in Int /\ p[2] \in a .. n
        OBVIOUS
      <4>2. CASE p[2] = a
        BY <4>2
      <4>3. CASE p[2] # a
        BY <2>1, <4>1, <4>3
      <4> QED BY <4>2, <4>3
    <3> QED BY <3>1
  <2>3. \A x \in Int, k \in a + 1 .. n : step[<<x, k>>] = x * Base + w[k]
    <3> HIDE DEF a, n
    <3> QED BY <1>1
  <2> HIDE DEF step, a, n
  <2>4. PICK f : Goes(f, Int, a, n, 0, step)
    <3>1. 0 \in Int
      OBVIOUS
    <3> QED BY <1>1, <2>2, <3>1, Recursion
  <2>5. /\ f \in [a .. n -> Int] /\ f[a] = 0
        /\ \A k \in a + 1 .. n : f[k] = step[<<f[k - 1], k>>]
    BY <2>4 DEF Goes
  <2>6. \A k \in a + 1 .. n : f[k] = f[k - 1] * Base + w[k]
    <3> SUFFICES ASSUME NEW k \in a + 1 .. n PROVE f[k] = f[k - 1] * Base + w[k]
      OBVIOUS
    <3>1. f[k - 1] \in Int
      BY <1>1, <2>5
    <3> QED BY <2>3, <2>5, <3>1
  <2>7. Fits(f)
    <3>1. f = [k \in a .. n |-> f[k]]
      BY <2>5
    <3>2. \A k \in a .. n : f[k] = IF k = a THEN 0 ELSE f[k - 1] * Base + w[k]
      BY <1>1, <2>5, <2>6
    <3> QED BY <3>1, <3>2
  <2> HIDE DEF Fits
  <2> QED BY <2>7
<1> DEFINE f == CHOOSE v : Fits(v)
<1>3. Value(w) = f
  BY DEF Value
<1>4. Fits(f)
  <2> HIDE DEF Fits
  <2> QED BY <1>2
<1> HIDE DEF f
<1>5. /\ DOMAIN f = a .. n
      /\ \A k \in a .. n : f[k] = IF k = a THEN 0 ELSE f[k - 1] * Base + w[k]
  BY <1>4 DEF Fits
<1> HIDE DEF Fits, a, n
<1>6. f[a] = 0 /\ \A k \in a + 1 .. n : f[k] = f[k - 1] * Base + w[k]
  BY <1>1, <1>5
<1>7. \A k \in a .. n : f[k] \in Int
  <2> DEFINE S == {k \in a .. n : f[k] \in Int}
  <2>1. a \in S
    BY <1>1, <1>6
  <2>2. ASSUME NEW k \in a .. n - 1, k \in S PROVE k + 1 \in S
    <3>1. k + 1 \in a + 1 .. n /\ (k + 1) - 1 = k /\ k + 1 \in a .. n
      BY <1>1
    <3>2. f[k] * Base \in Int /\ w[k + 1] \in Int
      BY <1>1, <2>2, <3>1
    <3>3. f[k + 1] = f[k] * Base + w[k + 1]
      BY <1>6, <3>1
    <3>4. f[k + 1] \in Int
      BY <3>2, <3>3
    <3> QED BY <3>1, <3>4
  <2> HIDE DEF S
  <2>3. \A k \in a .. n : k \in S
    BY <1>1, <2>1, <2>2, Induction
  <2> QED BY <2>3 DEF S
<1>8. f = [k \in a .. n |-> f[k]]
  BY <1>4, <1>5 DEF Fits
<1>9. f \in [a .. n -> Int]
  BY <1>7, <1>8
<1>10. Values(w, f)
  BY <1>6, <1>9 DEF Values, a, n
<1> QED BY <1>3, <1>10 DEF n, Meaning

LEMMA AtoiIs ==
    ASSUME NEW w \in Seq(Int)
    PROVE  \E f : IntValues(w, f) /\ ft_atoi(w) = Wrap(f[Len(w)] * Sign(w))
<1> DEFINE a == Start(w)
           n == Len(w)
           Fits(v) == v = [k \in a .. n |-> IF k = a THEN 0 ELSE Wrap(Wrap(v[k - 1] * Base) + w[k])]
           step == [p \in Int \X (a .. n) |-> IF p[2] = a THEN 0 ELSE Wrap(Wrap(p[1] * Base) + w[p[2]])]
<1>1. /\ a \in Int /\ n \in Int /\ a <= n /\ Base \in Int
      /\ \A k \in a + 1 .. n : w[k] \in Int
  BY WordIs, IntAssumption
<1>2. \E f : Fits(f)
  <2>1. ASSUME NEW x \in Int, NEW k \in a .. n, k # a PROVE Wrap(Wrap(x * Base) + w[k]) \in Int
    <3>1. k \in a + 1 .. n /\ w[k] \in Int
      BY <1>1, <2>1
    <3>2. x * Base \in Int
      BY <1>1
    <3> HIDE DEF a, n
    <3>3. Wrap(x * Base) + w[k] \in Int
      <4>1. Wrap(x * Base) \in Int
        BY <3>2, WrapType
      <4> QED BY <3>1, <4>1
    <3> QED BY <3>3, WrapType
  <2>2. step \in [Int \X (a .. n) -> Int]
    <3>1. ASSUME NEW p \in Int \X (a .. n)
          PROVE  (IF p[2] = a THEN 0 ELSE Wrap(Wrap(p[1] * Base) + w[p[2]])) \in Int
      <4>1. p[1] \in Int /\ p[2] \in a .. n
        OBVIOUS
      <4>2. CASE p[2] = a
        BY <4>2
      <4>3. CASE p[2] # a
        BY <2>1, <4>1, <4>3
      <4> QED BY <4>2, <4>3
    <3> QED BY <3>1
  <2>3. \A x \in Int, k \in a + 1 .. n : step[<<x, k>>] = Wrap(Wrap(x * Base) + w[k])
    <3> HIDE DEF a, n
    <3> QED BY <1>1
  <2> HIDE DEF step, a, n
  <2>4. PICK f : Goes(f, Int, a, n, 0, step)
    <3>1. 0 \in Int
      OBVIOUS
    <3> QED BY <1>1, <2>2, <3>1, Recursion
  <2>5. /\ f \in [a .. n -> Int] /\ f[a] = 0
        /\ \A k \in a + 1 .. n : f[k] = step[<<f[k - 1], k>>]
    BY <2>4 DEF Goes
  <2>6. \A k \in a + 1 .. n : f[k] = Wrap(Wrap(f[k - 1] * Base) + w[k])
    <3> SUFFICES ASSUME NEW k \in a + 1 .. n PROVE f[k] = Wrap(Wrap(f[k - 1] * Base) + w[k])
      OBVIOUS
    <3>1. f[k - 1] \in Int
      BY <1>1, <2>5
    <3> QED BY <2>3, <2>5, <3>1
  <2>7. Fits(f)
    <3>1. f = [k \in a .. n |-> f[k]]
      BY <2>5
    <3>2. \A k \in a .. n : f[k] = IF k = a THEN 0 ELSE Wrap(Wrap(f[k - 1] * Base) + w[k])
      BY <1>1, <2>5, <2>6
    <3> QED BY <3>1, <3>2
  <2> HIDE DEF Fits
  <2> QED BY <2>7
<1> DEFINE f == CHOOSE v : Fits(v)
<1>3. ft_atoi(w) = Wrap(f[n] * Sign(w))
  BY DEF ft_atoi
<1>4. Fits(f)
  <2> HIDE DEF Fits
  <2> QED BY <1>2
<1> HIDE DEF f
<1>5. /\ DOMAIN f = a .. n
      /\ \A k \in a .. n : f[k] = IF k = a THEN 0 ELSE Wrap(Wrap(f[k - 1] * Base) + w[k])
  BY <1>4 DEF Fits
<1> HIDE DEF Fits, a, n
<1>6. f[a] = 0 /\ \A k \in a + 1 .. n : f[k] = Wrap(Wrap(f[k - 1] * Base) + w[k])
  BY <1>1, <1>5
<1>7. \A k \in a .. n : f[k] \in Int
  <2> DEFINE S == {k \in a .. n : f[k] \in Int}
  <2>1. a \in S
    BY <1>1, <1>6
  <2>2. ASSUME NEW k \in a .. n - 1, k \in S PROVE k + 1 \in S
    <3>1. k + 1 \in a + 1 .. n /\ (k + 1) - 1 = k /\ k + 1 \in a .. n
      BY <1>1
    <3>2. f[k] * Base \in Int /\ w[k + 1] \in Int
      BY <1>1, <2>2, <3>1
    <3>3. f[k + 1] = Wrap(Wrap(f[k] * Base) + w[k + 1])
      BY <1>6, <3>1
    <3>4. f[k + 1] \in Int
      <4>1. Wrap(f[k] * Base) \in Int
        BY <3>2, WrapType
      <4>2. Wrap(f[k] * Base) + w[k + 1] \in Int
        BY <3>2, <4>1
      <4> QED BY <3>3, <4>2, WrapType
    <3> QED BY <3>1, <3>4
  <2> HIDE DEF S
  <2>3. \A k \in a .. n : k \in S
    BY <1>1, <2>1, <2>2, Induction
  <2> QED BY <2>3 DEF S
<1>8. f = [k \in a .. n |-> f[k]]
  BY <1>4, <1>5 DEF Fits
<1>9. f \in [a .. n -> Int]
  BY <1>7, <1>8
<1>10. IntValues(w, f)
  BY <1>6, <1>9 DEF IntValues, a, n
<1> QED BY <1>3, <1>10 DEF n

LEMMA StaysLess ==
    ASSUME NEW x \in Nat, NEW y \in Nat, x < y, NEW d \in Digit, NEW e \in Digit
    PROVE  x * Base + d < y * Base + e
<1>1. Base \in Nat /\ d \in 0 .. Base - 1 /\ e \in 0 .. Base - 1
  BY IntAssumption DEF Digit
<1> DEFINE z == y - (x + 1)
<1>2. z \in Nat /\ y = x + 1 + z
  OBVIOUS
<1> HIDE DEF z
<1>3. z * Base >= 0 /\ z * Base \in Int /\ x * Base \in Int
  BY <1>1, <1>2
<1>4. y * Base = x * Base + Base + z * Base
  BY <1>1, <1>2
<1> QED BY <1>1, <1>3, <1>4

\* What the digits come to never gets less.
LEMMA ValuesGrow ==
    ASSUME NEW w, NEW f, Values(w, f), Len(w) \in Nat, Start(w) \in {0, 1},
           \A k \in Start(w) + 1 .. Len(w) : w[k] \in Digit
    PROVE  /\ \A k \in Start(w) .. Len(w) : f[k] \in Nat
           /\ \A k \in Start(w) + 1 .. Len(w) :
                 /\ w[k] \in Nat /\ f[k - 1] \in Nat
                 /\ f[k - 1] * Base \in Nat /\ f[k - 1] <= f[k - 1] * Base
           /\ \A k, m \in Start(w) .. Len(w) : k <= m => f[k] <= f[m]
<1> DEFINE a == Start(w)
           n == Len(w)
<1>1. /\ a \in Int /\ n \in Int /\ Base \in Nat /\ Base > 1
      /\ \A k \in a + 1 .. n : w[k] \in Nat
      /\ f[a] = 0 /\ \A k \in a + 1 .. n : f[k] = f[k - 1] * Base + w[k]
  BY IntAssumption DEF Digit, Values
<1> HIDE DEF a, n
<1>2. \A x \in Nat : x * Base \in Nat /\ x <= x * Base
  <2> SUFFICES ASSUME NEW x \in Nat PROVE x * Base \in Nat /\ x <= x * Base
    OBVIOUS
  <2>1. Base - 1 \in Nat /\ x * (Base - 1) \in Nat
    BY <1>1
  <2>2. x * Base = x * (Base - 1) + x
    BY <1>1
  <2> QED BY <2>1, <2>2
<1>3. \A k \in a .. n : f[k] \in Nat
  <2> DEFINE S == {k \in a .. n : f[k] \in Nat}
  <2>1. CASE a > n
    BY <1>1, <2>1
  <2>2. CASE a <= n
    <3>1. a \in S
      BY <1>1, <2>2
    <3>2. ASSUME NEW k \in a .. n - 1, k \in S PROVE k + 1 \in S
      <4>1. k + 1 \in a + 1 .. n /\ (k + 1) - 1 = k /\ k + 1 \in a .. n
        BY <1>1
      <4>2. f[k] * Base \in Nat
        BY <1>2, <3>2
      <4> QED BY <1>1, <4>1, <4>2
    <3> HIDE DEF S
    <3>3. \A k \in a .. n : k \in S
      BY <1>1, <3>1, <3>2, Induction
    <3> QED BY <3>3 DEF S
  <2> QED BY <1>1, <2>1, <2>2
<1>4. \A k \in a + 1 .. n : /\ w[k] \in Nat /\ f[k - 1] \in Nat
                            /\ f[k - 1] * Base \in Nat /\ f[k - 1] <= f[k - 1] * Base
  BY <1>1, <1>2, <1>3
<1>5. ASSUME NEW k \in a .. n PROVE \A m \in k .. n : f[k] <= f[m]
  <2> DEFINE S == {m \in k .. n : f[k] <= f[m]}
  <2>1. k \in S
    BY <1>1, <1>3
  <2>2. ASSUME NEW m \in k .. n - 1, m \in S PROVE m + 1 \in S
    <3>1. m + 1 \in a + 1 .. n /\ (m + 1) - 1 = m /\ m + 1 \in k .. n
      BY <1>1
    <3>2. f[m] <= f[m] * Base /\ f[m] * Base \in Nat /\ w[m + 1] \in Nat
      BY <1>4, <3>1
    <3>3. f[m + 1] = f[m] * Base + w[m + 1]
      BY <1>1, <3>1
    <3>4. f[k] <= f[m] /\ f[k] \in Nat /\ f[m] \in Nat
      BY <1>1, <1>3, <2>2
    <3>5. f[k] <= f[m + 1]
      BY <3>2, <3>3, <3>4
    <3> QED BY <3>1, <3>5
  <2> HIDE DEF S
  <2>3. \A m \in k .. n : m \in S
    <3>1. k \in Int
      BY <1>1
    <3> QED BY <1>1, <2>1, <2>2, <3>1, Induction
  <2> QED BY <2>3 DEF S
<1>6. \A k, m \in a .. n : k <= m => f[k] <= f[m]
  BY <1>1, <1>5
<1> QED BY <1>3, <1>4, <1>6 DEF a, n

\* A text with fewer digits than t, or as many that are not greater in their
\* order, does not come to more.
LEMMA NotMore ==
    ASSUME NEW w, NEW f, Values(w, f), Len(w) \in Nat, Start(w) \in {0, 1},
           Start(w) <= Len(w),
           \A k \in Start(w) + 1 .. Len(w) : w[k] \in Digit,
           NEW t, NEW h, Values(t, h), Len(t) \in Nat, Start(t) = 0,
           \A k \in 1 .. Len(t) : t[k] \in Digit,
           t[1] # 0,
           Len(w) - Start(w) <= Len(t),
           Len(w) - Start(w) = Len(t) =>
               \A k \in 1 .. Len(t) :
                   (\A m \in 1 .. k - 1 : t[m] = w[Start(w) + m]) => t[k] >= w[Start(w) + k]
    PROVE  f[Len(w)] <= h[Len(t)]
<1> DEFINE a == Start(w)
           n == Len(w)
           c == n - a
           l == Len(t)
           d == l - c
           S == {p \in 0 .. c : \/ f[a + p] < h[d + p]
                                \/ /\ d = 0 /\ f[a + p] = h[p]
                                   /\ \A m \in 1 .. p : t[m] = w[a + m]}
<1>1. /\ a \in Int /\ n \in Int /\ a <= n /\ l \in Int /\ c \in Nat /\ d \in Nat
      /\ Base \in Nat /\ Base > 1 /\ d + c = l /\ a + c = n
  <2>1. a \in Int /\ n \in Int /\ a <= n /\ l \in Int /\ n - a <= l
    OBVIOUS
  <2>2. Base \in Nat /\ Base > 1
    BY IntAssumption
  <2> HIDE DEF a, n, l
  <2> QED BY <2>1, <2>2
<1>2. /\ \A k \in a .. n : f[k] \in Nat
      /\ f[a] = 0 /\ \A k \in a + 1 .. n : f[k] = f[k - 1] * Base + w[k]
  BY ValuesGrow DEF Values
<1>3. /\ \A k \in 0 .. l : h[k] \in Nat
      /\ \A k, m \in 0 .. l : k <= m => h[k] <= h[m]
  <2>1. Start(t) \in {0, 1} /\ \A k \in Start(t) + 1 .. Len(t) : t[k] \in Digit
    OBVIOUS
  <2>2. /\ \A k \in Start(t) .. Len(t) : h[k] \in Nat
        /\ \A k, m \in Start(t) .. Len(t) : k <= m => h[k] <= h[m]
    BY <2>1, ValuesGrow
  <2> QED BY <2>2
<1>4. h[0] = 0 /\ \A k \in 1 .. l : h[k] = h[k - 1] * Base + t[k]
  BY DEF Values
<1>5. /\ \A k \in a + 1 .. n : w[k] \in Digit
      /\ \A k \in 1 .. l : t[k] \in Digit
      /\ \A x \in Digit : x \in Nat
  BY DEF Digit
<1>6. d = 0 => \A k \in 1 .. l : (\A m \in 1 .. k - 1 : t[m] = w[a + m]) => t[k] >= w[a + k]
  <2>1. ASSUME d = 0 PROVE n - a = l
    BY <1>1, <2>1
  <2> QED BY <2>1
<1> HIDE DEF a, n, l, c, d
<1>7. 0 \in S
  <2>1. CASE d = 0
    BY <1>1, <1>2, <1>4, <2>1
  <2>2. CASE d # 0
    <3>1. 1 \in 1 .. l /\ d \in 0 .. l /\ 1 \in 0 .. l
      BY <1>1, <2>2
    <3>2. t[1] \in Nat /\ t[1] # 0
      BY <1>5, <3>1
    <3>3. h[1] = t[1]
      <4>1. h[1] = h[1 - 1] * Base + t[1]
        BY <1>4, <3>1
      <4> QED BY <1>1, <1>4, <3>2, <4>1
    <3>4. h[1] <= h[d] /\ h[d] \in Nat
      BY <1>1, <1>3, <2>2, <3>1
    <3>5. f[a + 0] < h[d + 0]
      BY <1>1, <1>2, <3>2, <3>3, <3>4
    <3> QED BY <1>1, <3>5
  <2> QED BY <2>1, <2>2
<1>8. ASSUME NEW p \in 0 .. c - 1, p \in S PROVE p + 1 \in S
  <2> DEFINE x == f[a + p]
             y == h[d + p]
             u == w[a + (p + 1)]
             v == t[d + (p + 1)]
  <2>1. /\ p + 1 \in 0 .. c /\ p \in Nat
        /\ a + (p + 1) \in a + 1 .. n /\ (a + (p + 1)) - 1 = a + p /\ a + p \in a .. n
        /\ d + (p + 1) \in 1 .. l /\ (d + (p + 1)) - 1 = d + p /\ d + p \in 0 .. l
    BY <1>1
  <2>2. u \in Digit /\ v \in Digit /\ u \in Nat /\ v \in Nat /\ x \in Nat /\ y \in Nat
    BY <1>2, <1>3, <1>5, <2>1
  <2>3. f[a + (p + 1)] = x * Base + u /\ h[d + (p + 1)] = y * Base + v
    BY <1>2, <1>4, <2>1
  <2> HIDE DEF x, y, u, v
  <2>4. CASE x < y
    <3>1. x * Base + u < y * Base + v
      BY <2>2, <2>4, StaysLess
    <3> QED BY <2>1, <2>3, <3>1
  <2>5. CASE ~(x < y)
    <3>1. d = 0 /\ x = y /\ \A m \in 1 .. p : t[m] = w[a + m]
      BY <1>1, <1>8, <2>1, <2>5 DEF x, y
    <3>2. v = t[p + 1] /\ u = w[a + (p + 1)] /\ p + 1 \in 1 .. l /\ (p + 1) - 1 = p
      BY <2>1, <3>1 DEF v, u
    <3>3. v >= u
      BY <1>6, <3>1, <3>2
    <3>4. CASE v = u
      <4>1. \A m \in 1 .. p + 1 : t[m] = w[a + m]
        <5> SUFFICES ASSUME NEW m \in 1 .. p + 1 PROVE t[m] = w[a + m]
          OBVIOUS
        <5>1. CASE m = p + 1
          BY <3>2, <3>4, <5>1
        <5>2. CASE m # p + 1
          <6>1. m \in 1 .. p
            BY <2>1, <5>2
          <6> QED BY <3>1, <6>1
        <5> QED BY <5>1, <5>2
      <4>2. f[a + (p + 1)] = h[p + 1]
        BY <2>1, <2>3, <3>1, <3>4
      <4> QED BY <2>1, <3>1, <4>1, <4>2
    <3>5. CASE v # u
      <4>1. x * Base + u < y * Base + v
        BY <1>1, <2>2, <3>1, <3>3, <3>5
      <4> QED BY <2>1, <2>3, <4>1
    <3> QED BY <3>4, <3>5
  <2> QED BY <2>4, <2>5
<1> HIDE DEF S
<1>9. c \in S
  <2>1. \A p \in 0 .. c : p \in S
    <3>1. 0 \in Int /\ c \in Int
      BY <1>1
    <3> QED BY <1>7, <1>8, <3>1, Induction
  <2> QED BY <1>1, <2>1
<1>10. f[n] <= h[l]
  <2>1. f[a + c] <= h[d + c]
    <3>1. d = 0 => h[c] = h[d + c]
      BY <1>1
    <3>2. f[a + c] \in Nat /\ h[d + c] \in Nat
      BY <1>1, <1>2, <1>3
    <3> QED BY <1>9, <3>1, <3>2 DEF S
  <2> QED BY <1>1, <2>1
<1> QED BY <1>10 DEF n, l

\* MaxText and MinText without a sign.
LEMMA LimitIs ==
    ASSUME NEW t \in {MaxText, MinText}
    PROVE  /\ Len(t) \in Nat /\ Len(t) > 0 /\ Start(t) = 0 /\ t[1] # 0
           /\ \A k \in 1 .. Len(t) : t[k] \in Digit
           /\ \E h : Values(t, h) /\ h[Len(t)] = Meaning(t)
<1>1. t \in Seq(Digit) /\ t # <<>> /\ t[1] # 0
  BY IntAssumption
<1>2. Len(t) \in Nat /\ Len(t) > 0 /\ \A k \in 1 .. Len(t) : t[k] \in Digit
  BY <1>1, LenProperties, EmptySeq
<1>3. Start(t) = 0
  BY <1>2, IntAssumption DEF Start, Digit, Plus, Minus
<1>4. t \in Seq(Int)
  BY <1>1, IntAssumption DEF Digit
<1>5. \E h : Values(t, h) /\ Meaning(t) = h[Len(t)] * Sign(t)
  BY <1>4, MeaningIs
<1>6. PICK h : Values(t, h) /\ Meaning(t) = h[Len(t)] * Sign(t)
  BY <1>5
<1>7. h[Len(t)] \in Int
  BY <1>2, <1>3, <1>6 DEF Values
<1>8. Sign(t) = 1
  BY <1>3 DEF Sign
<1>9. Meaning(t) = h[Len(t)]
  BY <1>6, <1>7, <1>8
<1> QED BY <1>1, <1>2, <1>3, <1>6, <1>9

\* An accepted text is digits behind its sign.
LEMMA DigitsBehind ==
    ASSUME NEW w \in Seq(Char), IsNumber(w)
    PROVE  /\ w \in Seq(Int) /\ Len(w) \in Nat /\ Start(w) \in {0, 1} /\ Start(w) <= Len(w)
           /\ \A k \in Start(w) + 1 .. Len(w) : w[k] \in Digit
           /\ Start(w) = 1 <=> w # <<>> /\ w[1] \in {Plus, Minus}
<1>1. w \in Seq(Int)
  <2>1. Char \subseteq Int
    BY IntAssumption DEF Char, Digit, Other, Plus, Minus
  <2>2. Len(w) \in Nat /\ w \in [1 .. Len(w) -> Char]
    BY LenProperties
  <2>3. w \in [1 .. Len(w) -> Int]
    BY <2>1, <2>2
  <2> QED BY <2>2, <2>3, IsASeq
<1>2. Len(w) \in Nat /\ Start(w) \in {0, 1} /\ Start(w) <= Len(w) /\ (w = <<>> <=> Len(w) = 0)
  BY <1>1, WordIs
<1>3. Start(w) = 1 <=> w # <<>> /\ w[1] \in {Plus, Minus}
  BY DEF Start
<1>4. CASE Start(w) = 1
  <2>1. w[1] \notin Digit /\ 1 \in 1 .. Len(w)
    BY <1>2, <1>3, <1>4, IntAssumption DEF Digit, Plus, Minus
  <2>2. \A k \in 2 .. Len(w) : w[k] \in Digit
    BY <1>2, <2>1 DEF IsNumber
  <2> QED BY <1>1, <1>2, <1>3, <1>4, <2>2
<1>5. CASE Start(w) # 1
  <2>1. ~(w[1] \in {Plus, Minus} /\ Len(w) > 1) /\ Start(w) = 0
    BY <1>2, <1>3, <1>5
  <2>2. \A k \in 1 .. Len(w) : w[k] \in Digit
    BY <2>1 DEF IsNumber
  <2> QED BY <1>1, <1>2, <1>3, <2>1, <2>2
<1> QED BY <1>4, <1>5

\* Texts in range come to no more than an int.
LEMMA RangeIs ==
    ASSUME NEW w \in Seq(Char), Accepted(w), NEW f, Values(w, f)
    PROVE  /\ f[Len(w)] <= Half
           /\ Sign(w) = 1 => f[Len(w)] <= Half - 1
<1>1. /\ w \in Seq(Int) /\ Len(w) \in Nat /\ Start(w) \in {0, 1} /\ Start(w) <= Len(w)
      /\ \A k \in Start(w) + 1 .. Len(w) : w[k] \in Digit
      /\ Start(w) = 1 <=> w # <<>> /\ w[1] \in {Plus, Minus}
  BY DigitsBehind DEF Accepted
<1>2. f[Len(w)] \in Int
  BY <1>1 DEF Values
<1>3. \A t \in {MaxText, MinText} :
          /\ Len(t) \in Nat /\ Len(t) > 0 /\ Start(t) = 0 /\ t[1] # 0
          /\ \A k \in 1 .. Len(t) : t[k] \in Digit
  BY LimitIs
<1>4. \A t \in {MaxText, MinText} :
          /\ Len(w) - Start(w) <= Len(t)
          /\ Len(w) - Start(w) = Len(t) =>
               \A k \in 1 .. Len(t) :
                   (\A m \in 1 .. k - 1 : t[m] = w[Start(w) + m]) => t[k] >= w[Start(w) + k]
          => f[Len(w)] <= Meaning(t)
  <2> SUFFICES ASSUME NEW t \in {MaxText, MinText},
                      Len(w) - Start(w) <= Len(t),
                      Len(w) - Start(w) = Len(t) =>
                        \A k \in 1 .. Len(t) :
                          (\A m \in 1 .. k - 1 : t[m] = w[Start(w) + m])
                              => t[k] >= w[Start(w) + k]
               PROVE  f[Len(w)] <= Meaning(t)
    OBVIOUS
  <2>1. PICK h : Values(t, h) /\ h[Len(t)] = Meaning(t)
    BY LimitIs
  <2>2. f[Len(w)] <= h[Len(t)]
    BY <1>1, <1>3, <2>1, NotMore
  <2> QED BY <2>1, <2>2
<1>5. CASE w # <<>> /\ w[1] = Minus
  <2>1. Start(w) = 1 /\ Sign(w) = -1
    BY <1>1, <1>5 DEF Sign
  <2>2. \/ Len(w) <= Len(MinText)
        \/ Len(w) = Len(MinText) + 1 /\ ~Less(<<Minus>> \o MinText, w)
    BY <1>5 DEF Accepted, InRange
  <2>3. ASSUME Len(w) = Len(MinText) + 1, ~Less(<<Minus>> \o MinText, w),
               NEW k \in 1 .. Len(MinText), \A m \in 1 .. k - 1 : MinText[m] = w[1 + m]
        PROVE  MinText[k] >= w[1 + k]
    <3> DEFINE s == <<Minus>> \o MinText
    <3>1. /\ Len(s) = Len(MinText) + 1 /\ s[1] = Minus
          /\ \A m \in 1 .. Len(MinText) : s[m + 1] = MinText[m]
      <4>1. MinText \in Seq(Digit)
        BY IntAssumption
      <4>2. <<Minus>> \o MinText = [x \in 1 .. 1 + Len(MinText) |->
                                       IF x = 1 THEN Minus ELSE MinText[x - 1]]
        BY <4>1
      <4>3. Len(MinText) \in Nat
        BY <1>3
      <4> QED BY <4>1, <4>2, <4>3
    <3>2. Len(MinText) \in Nat
      BY <1>3
    <3> HIDE DEF s
    <3>3. \A m \in 1 .. k : s[m] = w[m]
      <4> SUFFICES ASSUME NEW m \in 1 .. k PROVE s[m] = w[m]
        OBVIOUS
      <4>1. CASE m = 1
        BY <1>5, <3>1, <4>1
      <4>2. CASE m # 1
        <5>1. m - 1 \in 1 .. k - 1 /\ m - 1 \in 1 .. Len(MinText) /\ 1 + (m - 1) = m
              /\ (m - 1) + 1 = m
          BY <3>2, <4>2
        <5>2. MinText[m - 1] = w[1 + (m - 1)] /\ s[(m - 1) + 1] = MinText[m - 1]
          BY <2>3, <3>1, <5>1
        <5> QED BY <5>1, <5>2
      <4> QED BY <4>1, <4>2
    <3>4. k + 1 \in 1 .. Len(s) /\ (k + 1) - 1 = k /\ 1 + k = k + 1
      BY <3>1, <3>2
    <3>5. ~(s[k + 1] < w[k + 1])
      <4>1. ~Less(s, w)
        BY <2>3 DEF s
      <4> QED BY <3>3, <3>4, <4>1 DEF Less
    <3>6. s[k + 1] = MinText[k] /\ MinText[k] \in Int
      BY <1>3, <3>1, IntAssumption DEF Digit
    <3>7. w[k + 1] \in Int
      <4>1. k + 1 \in Start(w) + 1 .. Len(w)
        BY <1>1, <2>1, <2>3, <3>2
      <4> QED BY <1>1, <4>1, IntAssumption DEF Digit
    <3> QED BY <3>4, <3>5, <3>6, <3>7
  <2>4. f[Len(w)] <= Meaning(MinText)
    <3>1. Len(MinText) \in Nat
      BY <1>3
    <3>2. Len(w) - 1 <= Len(MinText)
      BY <1>1, <2>2, <3>1
    <3>3. Len(w) - 1 = Len(MinText) =>
              /\ Len(w) = Len(MinText) + 1
              /\ ~Less(<<Minus>> \o MinText, w)
      BY <1>1, <2>2, <3>1
    <3> QED BY <1>4, <2>1, <2>3, <3>2, <3>3
  <2>5. -1 # 1
    OBVIOUS
  <2> QED BY <2>1, <2>4, <2>5, IntAssumption
<1>6. CASE ~(w # <<>> /\ w[1] = Minus)
  <2>1. \/ Len(w) < Len(MaxText)
        \/ Len(w) = Len(MaxText) /\ ~Less(MaxText, w)
    BY <1>6 DEF Accepted, InRange
  <2>2. Len(MaxText) \in Nat
    BY <1>3
  <2>3. ASSUME Len(w) - Start(w) = Len(MaxText),
               NEW k \in 1 .. Len(MaxText),
               \A m \in 1 .. k - 1 : MaxText[m] = w[Start(w) + m]
        PROVE  MaxText[k] >= w[Start(w) + k]
    <3>1. Start(w) = 0 /\ Len(w) = Len(MaxText) /\ ~Less(MaxText, w)
      BY <1>1, <2>1, <2>2, <2>3
    <3>2. \A m \in 1 .. k - 1 : MaxText[m] = w[m]
      <4> SUFFICES ASSUME NEW m \in 1 .. k - 1 PROVE MaxText[m] = w[m]
        OBVIOUS
      <4>1. 0 + m = m
        OBVIOUS
      <4> QED BY <2>3, <3>1, <4>1
    <3>3. ~(MaxText[k] < w[k])
      BY <3>1, <3>2 DEF Less
    <3>4. MaxText[k] \in Int
      BY <1>3, IntAssumption DEF Digit
    <3>5. w[k] \in Int
      <4>1. k \in Start(w) + 1 .. Len(w)
        BY <3>1
      <4> QED BY <1>1, <4>1, IntAssumption DEF Digit
    <3>6. Start(w) + k = k
      BY <3>1
    <3> QED BY <3>3, <3>4, <3>5, <3>6
  <2>4. f[Len(w)] <= Meaning(MaxText)
    <3>1. Len(w) - Start(w) <= Len(MaxText)
      BY <1>1, <2>1, <2>2
    <3> QED BY <1>4, <2>3, <3>1
  <2> QED BY <1>2, <2>4, IntAssumption
<1> QED BY <1>5, <1>6

LEMMA WrapIs ==
    ASSUME NEW x \in Int
    PROVE  /\ -Half <= x /\ x < Half => Wrap(x) = x
           /\ x = Half => Wrap(x) = -Half
<1> DEFINE n == 2 * Half
<1>1. Half \in Nat /\ Half > 0 /\ n \in Nat /\ n > 0
  BY IntAssumption
<1>2. ASSUME -Half <= x, x < Half PROVE Wrap(x) = x
  <2>1. x + Half \in 0 .. n - 1
    BY <1>1, <1>2
  <2>2. \A y \in 0 .. n - 1 : y % n = y
    <3> HIDE DEF n
    <3> QED BY <1>1
  <2>3. (x + Half) % n = x + Half
    BY <2>1, <2>2
  <2> QED BY <1>1, <2>3 DEF Wrap
<1>3. ASSUME x = Half PROVE Wrap(x) = -Half
  <2>1. n % n = 0
    <3> HIDE DEF n
    <3> QED BY <1>1
  <2>2. x + Half = n
    BY <1>1, <1>3
  <2> QED BY <1>1, <2>1, <2>2 DEF Wrap
<1> QED BY <1>2, <1>3

LEMMA TwiceAtLeast ==
    ASSUME NEW x \in Nat
    PROVE  x * Base >= x + x
<1>1. Base \in Nat /\ Base - 2 \in Nat
  BY IntAssumption
<1>2. x * (Base - 2) \in Nat
  BY <1>1
<1>3. x * Base = x * (Base - 2) + x + x
  BY <1>1
<1> QED BY <1>2, <1>3

\* ft_atoi reads an accepted text as the number that it means.
LEMMA ReadsExactly ==
    ASSUME NEW w \in Seq(Char), Accepted(w)
    PROVE  ft_atoi(w) \in Int /\ ft_atoi(w) = Meaning(w)
<1> DEFINE a == Start(w)
           n == Len(w)
<1>1. /\ w \in Seq(Int) /\ n \in Nat /\ a \in {0, 1} /\ a <= n
      /\ \A k \in a + 1 .. n : w[k] \in Digit
  BY DigitsBehind DEF Accepted
<1>2. PICK f : Values(w, f) /\ Meaning(w) = f[n] * Sign(w)
  BY <1>1, MeaningIs
<1>3. PICK g : IntValues(w, g) /\ ft_atoi(w) = Wrap(g[n] * Sign(w))
  BY <1>1, AtoiIs
<1>4. f[n] <= Half /\ (Sign(w) = 1 => f[n] <= Half - 1)
  BY <1>2, RangeIs
<1>5. /\ \A k \in a .. n : f[k] \in Nat
      /\ \A k \in a + 1 .. n : /\ w[k] \in Nat /\ f[k - 1] \in Nat
                               /\ f[k - 1] * Base \in Nat /\ f[k - 1] <= f[k - 1] * Base
      /\ \A k, m \in a .. n : k <= m => f[k] <= f[m]
  BY <1>1, <1>2, ValuesGrow
<1>6. f[a] = 0 /\ \A k \in a + 1 .. n : f[k] = f[k - 1] * Base + w[k]
  BY <1>2 DEF Values
<1>7. g[a] = 0 /\ \A k \in a + 1 .. n : g[k] = Wrap(Wrap(g[k - 1] * Base) + w[k])
  BY <1>3 DEF IntValues
<1>8. Half \in Nat /\ Half > 0 /\ Base \in Nat /\ Base > 1
  BY IntAssumption
<1>9. Sign(w) \in {1, -1}
  BY DEF Sign
<1> HIDE DEF a, n
<1> DEFINE S == {k \in a .. n : g[k] = Wrap(f[k])}
<1>10. a \in S
  BY <1>1, <1>6, <1>7, <1>8, WrapIs
<1>11. ASSUME NEW k \in a .. n - 1, k \in S PROVE k + 1 \in S
  <2> DEFINE x == f[k]
             y == f[k] * Base
             u == w[k + 1]
             z == f[k + 1]
  <2>1. k + 1 \in a + 1 .. n /\ (k + 1) - 1 = k /\ k + 1 \in a .. n /\ k \in a .. n /\ n \in a .. n
    BY <1>1
  <2>2. x \in Nat /\ y \in Nat /\ x <= y /\ u \in Nat /\ z \in Nat /\ z <= f[n] /\ f[n] \in Nat
    <3>1. f[k] * Base \in Nat /\ f[k] <= f[k] * Base /\ w[k + 1] \in Nat
      BY <1>5, <2>1
    <3>2. f[k + 1] <= f[n]
      BY <1>1, <1>5, <2>1
    <3> QED BY <1>5, <2>1, <3>1, <3>2
  <2>3. z = y + u /\ g[k + 1] = Wrap(Wrap(g[k] * Base) + u) /\ g[k] = Wrap(x)
    BY <1>6, <1>7, <1>11, <2>1
  <2>4. x < Half
    <3>1. CASE x = 0
      BY <1>8, <3>1
    <3>2. CASE x # 0
      <4>1. y >= x + x
        BY <2>2, TwiceAtLeast
      <4>2. x > 0 /\ y <= Half
        <5> HIDE DEF x, y, u, z
        <5> QED BY <1>4, <1>8, <2>2, <2>3, <3>2
      <4> HIDE DEF x, y, u, z
      <4> QED BY <1>8, <2>2, <4>1, <4>2
    <3> QED BY <3>1, <3>2
  <2>5. g[k] = x
    BY <1>8, <2>2, <2>3, <2>4, WrapIs
  <2>6. g[k + 1] = Wrap(Wrap(y) + u) /\ y + u <= Half /\ y + u = z
    BY <1>4, <1>8, <2>2, <2>3, <2>5
  <2> HIDE DEF x, y, u, z
  <2>7. CASE y < Half
    <3>1. Wrap(y) = y
      BY <1>8, <2>2, <2>7, WrapIs
    <3> QED BY <2>1, <2>6, <3>1 DEF z
  <2>8. CASE ~(y < Half)
    <3>1. y = Half /\ u = 0 /\ z = Half
      BY <1>8, <2>2, <2>6, <2>8
    <3>2. Wrap(y) = -Half /\ -Half + u = -Half
      BY <1>8, <3>1, WrapIs
    <3>3. -Half \in Int /\ Wrap(-Half) = -Half
      BY <1>8, WrapIs
    <3> QED BY <2>1, <2>6, <3>1, <3>2, <3>3 DEF z
  <2> QED BY <2>7, <2>8
<1> HIDE DEF S
<1>12. n \in S
  <2>1. \A k \in a .. n : k \in S
    <3>1. a \in Int /\ n \in Int
      BY <1>1
    <3> QED BY <1>10, <1>11, <3>1, Induction
  <2> QED BY <1>1, <2>1
<1>13. g[n] = Wrap(f[n]) /\ f[n] \in Nat
  BY <1>1, <1>5, <1>12 DEF S
<1>14. CASE f[n] < Half
  <2>1. g[n] = f[n]
    BY <1>8, <1>13, <1>14, WrapIs
  <2>2. f[n] * Sign(w) \in Int /\ -Half <= f[n] * Sign(w) /\ f[n] * Sign(w) < Half
    BY <1>8, <1>9, <1>13, <1>14
  <2> QED BY <1>2, <1>3, <2>1, <2>2, WrapIs
<1>15. CASE ~(f[n] < Half)
  <2>1. f[n] = Half /\ Sign(w) = -1
    BY <1>4, <1>8, <1>9, <1>13, <1>15
  <2>2. g[n] = -Half
    BY <1>8, <1>13, <2>1, WrapIs
  <2>3. g[n] * Sign(w) = Half /\ f[n] * Sign(w) = -Half
    BY <1>8, <2>1, <2>2
  <2>4. Wrap(Half) = -Half /\ -Half \in Int
    BY <1>8, WrapIs
  <2> QED BY <1>2, <1>3, <2>3, <2>4
<1> QED BY <1>14, <1>15

\* The least int is the only accepted text that ft_atoi overflows on: no value on
\* the way to a text's own is greater than it.
LEMMA OverflowsAtLeast ==
    ASSUME NEW w \in Seq(Char), Accepted(w), Overflows(w)
    PROVE  Meaning(w) = -Half
<1> DEFINE a == Start(w)
           n == Len(w)
           f == Value(w)
<1>1. /\ w \in Seq(Int) /\ n \in Nat /\ a \in {0, 1} /\ a <= n
      /\ \A k \in a + 1 .. n : w[k] \in Digit
  BY DigitsBehind DEF Accepted
<1>2. Values(w, f) /\ Meaning(w) = f[n] * Sign(w)
  BY <1>1, MeaningIs
<1>3. f[n] <= Half /\ (Sign(w) = 1 => f[n] <= Half - 1)
  BY <1>2, RangeIs
<1>4. /\ \A k \in a .. n : f[k] \in Nat
      /\ \A k \in a + 1 .. n : w[k] \in Nat /\ f[k - 1] * Base \in Nat
      /\ \A k, m \in a .. n : k <= m => f[k] <= f[m]
  BY <1>1, <1>2, ValuesGrow
<1>5. \A k \in a + 1 .. n : f[k] = f[k - 1] * Base + w[k]
  BY <1>2 DEF Values
<1>6. PICK k \in a + 1 .. n : f[k - 1] * Base >= Half \/ f[k] >= Half
  BY DEF Overflows
<1>7. Half \in Nat /\ Half > 0 /\ Sign(w) \in {1, -1}
  BY IntAssumption DEF Sign
<1> HIDE DEF a, n, f
<1>8. k \in a .. n /\ n \in a .. n /\ k <= n
  BY <1>1
<1>9. f[k] \in Nat /\ f[n] \in Nat /\ f[k] <= f[n]
  BY <1>4, <1>8
<1>10. f[k] >= Half
  <2> DEFINE y == f[k - 1] * Base
  <2>1. y \in Nat /\ w[k] \in Nat /\ f[k] = y + w[k] /\ (y >= Half \/ f[k] >= Half)
    BY <1>4, <1>5, <1>6
  <2> HIDE DEF y
  <2> QED BY <1>7, <2>1
<1>11. f[n] = Half /\ Sign(w) = -1
  BY <1>3, <1>7, <1>9, <1>10
<1> QED BY <1>2, <1>7, <1>11
-----------------------------------------------------------------------------
(* The steps before the radix sort *)

LEMMA MainStep == IInv /\ main => IInv'
<1> SUFFICES ASSUME IInv, main PROVE IInv'
  OBVIOUS
<1>1. size \in Nat /\ size' = size /\ Index' = Index
  BY SizeType DEF IInv, main, size, words, Index
<1>2. Types'
  <2>1. CASE \A k \in 1 .. size : Accepted(words[k])
    <3>1. \A k \in Index : ft_atoi(words[k + 1]) \in Int
      <4> SUFFICES ASSUME NEW k \in Index PROVE ft_atoi(words[k + 1]) \in Int
        OBVIOUS
      <4>1. k + 1 \in DOMAIN input.words
        <5>1. input \in Inputs
          BY DEF IInv, Types
        <5>2. input.words \in Seq(Seq(Char))
          BY <5>1, InputsAssumption
        <5>3. DOMAIN input.words = 1 .. size
          BY <5>2, LenProperties DEF size, words
        <5> QED BY <1>1, <5>3 DEF Index
      <4>2. Accepted(words[k + 1])
        BY <1>1, <2>1 DEF Index
      <4>3. words[k + 1] \in Seq(Char)
        <5>1. input.words \in Seq(Seq(Char))
          BY InputsAssumption DEF IInv, Types
        <5> QED BY <4>1, <5>1, ElementOfSeq, LenProperties DEF words
      <4> QED BY <4>2, <4>3, ReadsExactly
    <3>2. pile_a' = [k \in Index |-> ft_atoi(words[k + 1])] /\ pc' = "check"
      BY <2>1 DEF main
    <3> QED BY <1>1, <3>1, <3>2 DEF IInv, Types, main, Before, Radix
  <2>2. CASE ~ \A k \in 1 .. size : Accepted(words[k])
    BY <1>1, <2>2 DEF IInv, Types, main, Before, Radix
  <2> QED BY <2>1, <2>2
<1>3. pc' \in {"check", "error"}
  BY DEF main
<1> QED BY <1>2, <1>3 DEF IInv, PassesBounded, LowerBitsSorted

LEMMA CheckStep == IInv /\ Check => IInv'
<1> SUFFICES ASSUME IInv, Check PROVE IInv'
  OBVIOUS
<1>1. size \in Nat /\ size' = size /\ Index' = Index
  BY SizeType DEF IInv, Check, size, words, Index
<1>2. pc' \in {"error", "exit", "normalize"}
      /\ (pc' = "normalize" => ~ check_doubles)
  BY DEF Check
<1>3. pc' = "normalize" => \A k, m \in Index : k # m => pile_a[k] # pile_a[m]
  BY <1>1, <1>2 DEF check_doubles, Index
<1>4. Types'
  BY <1>1, <1>2, <1>3 DEF IInv, Types, Check, stacks, Before, Radix
<1> QED BY <1>2, <1>4 DEF IInv, PassesBounded, LowerBitsSorted

\* Ranks are in 1 .. size, and different numbers have different ones.
LEMMA RankType ==
    ASSUME size \in Nat, NEW numbers, \A k \in Index : numbers[k] \in Int,
           \A k, m \in Index : k # m => numbers[k] # numbers[m]
    PROVE  /\ \A k \in Index : rank(numbers, k) \in 1 .. size
           /\ \A k, m \in Index : numbers[k] < numbers[m] =>
                 rank(numbers, k) < rank(numbers, m)
<1> DEFINE Above(k) == {m \in Index : numbers[k] < numbers[m]}
<1>1. IsFiniteSet(Index) /\ Cardinality(Index) = size
  BY FS_Interval DEF Index
<1>2. ASSUME NEW k \in Index
      PROVE  /\ IsFiniteSet(Above(k)) /\ Cardinality(Above(k)) \in Nat
             /\ Cardinality(Above(k)) <= size - 1
  <2>1. IsFiniteSet(Index \ {k}) /\ Cardinality(Index \ {k}) = size - 1
    BY <1>1, FS_RemoveElement
  <2>2. Above(k) \in SUBSET (Index \ {k})
    OBVIOUS
  <2> HIDE DEF Above
  <2> QED BY <2>1, <2>2, FS_Subset, FS_CardinalityType
<1>3. ASSUME NEW k \in Index, NEW m \in Index, numbers[k] < numbers[m]
      PROVE  Cardinality(Above(m)) < Cardinality(Above(k))
  <2>1. Above(m) \in SUBSET Above(k) /\ m \in Above(k) /\ m \notin Above(m)
    BY <1>3
  <2> HIDE DEF Above
  <2>2. Above(m) # Above(k)
    BY <2>1
  <2>3. /\ Cardinality(Above(m)) <= Cardinality(Above(k))
        /\ Cardinality(Above(k)) = Cardinality(Above(m)) => Above(k) = Above(m)
    BY <1>2, <2>1, FS_Subset
  <2> QED BY <1>2, <2>2, <2>3
<1>4. \A k \in Index : rank(numbers, k) = size - Cardinality(Above(k))
  BY DEF rank
<1> HIDE DEF Above
<1> QED BY <1>2, <1>3, <1>4

LEMMA NormalizeStep == IInv /\ ft_normalize => IInv'
<1> SUFFICES ASSUME IInv, ft_normalize PROVE IInv'
  OBVIOUS
<1>1. size \in Nat /\ size' = size /\ Index' = Index
  BY SizeType DEF IInv, ft_normalize, size, words, Index
<1>2. /\ \A k \in Index : pile_a[k] \in Int
      /\ \A k, m \in Index : k # m => pile_a[k] # pile_a[m]
  BY DEF IInv, Types, ft_normalize
<1>3. /\ \A k \in Index : rank(pile_a, k) \in 1 .. size
      /\ \A k, m \in Index : pile_a[k] < pile_a[m] => rank(pile_a, k) < rank(pile_a, m)
  BY <1>1, <1>2, RankType
<1>4. \A k, m \in Index : k # m => rank(pile_a, k) # rank(pile_a, m)
  <2> SUFFICES ASSUME NEW k \in Index, NEW m \in Index, k # m
               PROVE  rank(pile_a, k) # rank(pile_a, m)
    OBVIOUS
  <2>1. pile_a[k] < pile_a[m] \/ pile_a[m] < pile_a[k]
    BY <1>2
  <2>2. rank(pile_a, k) < rank(pile_a, m) \/ rank(pile_a, m) < rank(pile_a, k)
    BY <1>3, <2>1
  <2> QED BY <1>1, <1>3, <2>2
<1>5. pile_a' = [k \in Index |-> rank(pile_a, k)] /\ pc' = "algorithms"
  BY DEF ft_normalize
<1>6. Types'
  BY <1>1, <1>3, <1>4, <1>5 DEF IInv, Types, ft_normalize, Before, Radix
<1> QED BY <1>5, <1>6 DEF IInv, PassesBounded, LowerBitsSorted

LEMMA AlgorithmsStep == IInv /\ algorithms => IInv'
<1> SUFFICES ASSUME IInv, algorithms PROVE IInv'
  OBVIOUS
<1>1. size \in Nat /\ size' = size /\ Index' = Index
  BY SizeType DEF IInv, algorithms, size, words, Index
<1>2. pc = "algorithms" /\ pc' \in {"big_algorithm", "todo"} /\ UNCHANGED <<stacks, input, i, j>>
  BY DEF algorithms
<1>3. /\ int_a = size /\ int_b = 0 /\ i = 0 /\ j = 0
      /\ \A k \in Index : pile_a[k] \in 1 .. size
      /\ \A k, m \in Index : k # m => pile_a[k] # pile_a[m]
  BY <1>2 DEF IInv, Types, Before
<1>4. Types'
  BY <1>1, <1>2, <1>3 DEF IInv, Types, Before, Radix, Index, stacks
<1>5. LowerBitsSorted'
  <2>1. \A k \in Index : Shifted(pile_a[k], 0) = pile_a[k]
    BY <1>1, <1>3, ShiftedBy0
  <2>2. pile_a' = pile_a /\ i' = 0
    BY <1>2, <1>3 DEF stacks
  <2> QED BY <1>1, <1>3, <2>1, <2>2 DEF LowerBitsSorted, Index
<1> QED BY <1>2, <1>4, <1>5 DEF IInv, PassesBounded
-----------------------------------------------------------------------------
(* The radix sort *)

\* A pass begins only if two neighbours are out of order: they differ in the bit
\* of the pass or above, so that some rank has it.
LEMMA BeginStep == IInv /\ big_algorithm => IInv'
<1> SUFFICES ASSUME IInv, big_algorithm PROVE IInv'
  OBVIOUS
<1>1. size \in Nat /\ size' = size /\ Index' = Index
  BY SizeType DEF IInv, big_algorithm, size, words, Index
<1>2. pc = "big_algorithm" /\ UNCHANGED <<stacks, input, i>> /\ j' = 0
      /\ pc' = IF check_order THEN "exit" ELSE "turn"
  BY DEF big_algorithm
<1>3. /\ int_a = size /\ int_b = 0 /\ i \in 0 .. 30
      /\ \A k \in 0 .. size - 1 : pile_a[k] \in 1 .. size
  BY <1>1, <1>2 DEF IInv, Types, Radix
<1>4. UNCHANGED <<pile_a, int_a, pile_b, int_b>>
  BY <1>2 DEF stacks
<1>5. Types'
  BY <1>1, <1>2, <1>3, <1>4 DEF IInv, Types, Before, Radix
<1>6. \A k, m \in 0 .. size - 1 :
         k < m /\ Same(pile_a[k], pile_a[m], i) => pile_a[k] < pile_a[m]
  BY <1>1, <1>2 DEF IInv, LowerBitsSorted, Index, Same
<1>7. ASSUME ~ check_order PROVE Power[i + 1] <= size
  <2>1. PICK k \in 0 .. size - 2 : ~ (pile_a[k] <= pile_a[k + 1])
    BY <1>3, <1>7 DEF check_order
  <2>2. /\ k \in 0 .. size - 1 /\ k + 1 \in 0 .. size - 1 /\ k < k + 1
        /\ pile_a[k] \in 1 .. size /\ pile_a[k + 1] \in 1 .. size
    BY <1>1, <1>3, <2>1
  <2>3. ~ Same(pile_a[k], pile_a[k + 1], i)
    BY <1>6, <2>1, <2>2
  <2>4. Power[i + 1] \in Nat
    BY <1>3, PowerDoubles
  <2>5. ~ (pile_a[k] < Power[i + 1] /\ pile_a[k + 1] < Power[i + 1])
    BY <1>3, <2>2, <2>3, ShiftedSmall DEF Same
  <2> QED BY <1>1, <2>2, <2>4, <2>5
<1>8. PassesBounded' /\ LowerBitsSorted'
  BY <1>1, <1>2, <1>7 DEF PassesBounded, LowerBitsSorted
<1>9. pc' = "turn" => InTurn'
  <2>1. Untouched' = size
    BY <1>1, <1>2 DEF Untouched
  <2> QED BY <1>1, <1>2, <1>3, <1>4, <1>6, <2>1 DEF InTurn
<1> QED BY <1>2, <1>5, <1>8, <1>9 DEF IInv

\* What a turn begins with.
LEMMA TurnType ==
    ASSUME IInv, pc = "turn"
    PROVE  /\ size \in Nat /\ int_a \in Nat /\ int_b \in Nat /\ int_a + int_b = size
           /\ j \in 0 .. size /\ i \in 0 .. 29
           /\ \A k \in 0 .. int_a - 1 : pile_a[k] \in 1 .. size
           /\ \A k \in 0 .. int_b - 1 : pile_b[k] \in 1 .. size
           /\ Untouched = size - j /\ Untouched <= int_a
<1>1. size \in Nat /\ i \in 0 .. 29
  BY SizeType, BitBounded DEF IInv
<1> QED BY <1>1 DEF IInv, Types, Radix, InTurn, Untouched

\* The first number goes to stack b.
LEMMA TurnToB ==
    ASSUME IInv, Turn, Bit(pile_a[0], i) = 0
    PROVE  IInv'
<1>1. /\ pc = "turn" /\ pc' = "turn" /\ j < size /\ j' = j + 1
      /\ UNCHANGED <<input, i>> /\ ft_pushb
  BY DEF Turn
<1>2. /\ size \in Nat /\ int_a \in Nat /\ int_b \in Nat /\ int_a + int_b = size
      /\ j \in 0 .. size /\ i \in 0 .. 29
      /\ \A k \in 0 .. int_a - 1 : pile_a[k] \in 1 .. size
      /\ \A k \in 0 .. int_b - 1 : pile_b[k] \in 1 .. size
      /\ Untouched = size - j /\ Untouched <= int_a
  BY <1>1, TurnType
<1>3. size' = size /\ Index' = Index /\ Index = 0 .. size - 1
  BY <1>1 DEF size, words, Index
<1>4. int_a > 0
  BY <1>1, <1>2
<1>5. /\ pile_b' = Pushed(pile_b, int_b, pile_a[0])
      /\ pile_a' = Popped(pile_a, int_a)
      /\ int_a' = int_a - 1
      /\ int_b' = int_b + 1
  BY <1>1, <1>4 DEF ft_pushb
<1>6. /\ DOMAIN pile_a' = Index /\ DOMAIN pile_b' = Index
      /\ \A k \in 0 .. int_a - 2 : pile_a'[k] = pile_a[k + 1]
      /\ pile_b'[0] = pile_a[0]
      /\ \A k \in 1 .. int_b : pile_b'[k] = pile_b[k - 1]
  BY <1>2, <1>3, <1>4, <1>5 DEF Pushed, Popped
<1>7. Untouched' = Untouched - 1 /\ Untouched \in Nat /\ Untouched > 0
  BY <1>1, <1>2, <1>3 DEF Untouched
<1>8. InTurn
  BY <1>1 DEF IInv
<1>9. Types'
  BY <1>1, <1>2, <1>3, <1>4, <1>5, <1>6 DEF IInv, Types, Before, Radix
<1>10. InTurn'
  <2>1. Untouched' <= int_a'
    BY <1>2, <1>5, <1>7
  <2>2. \A k, m \in 0 .. Untouched' - 1 :
          k < m /\ Same(pile_a'[k], pile_a'[m], i) => pile_a'[k] < pile_a'[m]
    BY <1>2, <1>5, <1>6, <1>7, <1>8 DEF InTurn
  <2>3. \A k \in Untouched' .. int_a' - 1 : Bit(pile_a'[k], i) = 1
    BY <1>2, <1>5, <1>6, <1>7, <1>8 DEF InTurn
  <2>4. \A k, m \in Untouched' .. int_a' - 1 :
          k < m /\ Same(pile_a'[k], pile_a'[m], i) => pile_a'[k] < pile_a'[m]
    BY <1>2, <1>5, <1>6, <1>7, <1>8 DEF InTurn
  <2>5. \A k \in 0 .. int_b' - 1 : Bit(pile_b'[k], i) = 0
    <3> SUFFICES ASSUME NEW k \in 0 .. int_b PROVE Bit(pile_b'[k], i) = 0
      BY <1>2, <1>5
    <3>1. k = 0 \/ (k \in 1 .. int_b /\ k - 1 \in 0 .. int_b - 1)
      BY <1>2
    <3> QED BY <1>6, <1>8, <3>1 DEF InTurn
  <2>6. \A k, m \in 0 .. int_b' - 1 :
          k < m /\ Same(pile_b'[k], pile_b'[m], i) => pile_b'[m] < pile_b'[k]
    <3> SUFFICES ASSUME NEW k \in 0 .. int_b, NEW m \in 0 .. int_b, k < m,
                        Same(pile_b'[k], pile_b'[m], i)
                 PROVE  pile_b'[m] < pile_b'[k]
      BY <1>2, <1>5
    <3>1. m \in 1 .. int_b /\ m - 1 \in 0 .. int_b - 1 /\ pile_b'[m] = pile_b[m - 1]
      BY <1>2, <1>6
    <3>2. CASE k = 0
      <4>1. Same(pile_b[m - 1], pile_a[0], i)
        BY <1>6, <3>1, <3>2 DEF Same
      <4>2. 0 \in 0 .. Untouched - 1
        BY <1>7
      <4> QED BY <1>6, <1>8, <3>1, <3>2, <4>1, <4>2 DEF InTurn
    <3>3. CASE k # 0
      <4>1. k - 1 \in 0 .. int_b - 1 /\ pile_b'[k] = pile_b[k - 1] /\ k - 1 < m - 1
        BY <1>2, <1>6, <3>1, <3>3
      <4> QED BY <1>8, <3>1, <4>1 DEF InTurn
    <3> QED BY <3>2, <3>3
  <2>7. \A k \in Untouched' .. int_a' - 1, m \in 0 .. Untouched' - 1 :
          Same(pile_a'[k], pile_a'[m], i) => pile_a'[k] < pile_a'[m]
    BY <1>2, <1>5, <1>6, <1>7, <1>8 DEF InTurn
  <2>8. \A k \in 0 .. int_b' - 1, m \in 0 .. Untouched' - 1 :
          Same(pile_b'[k], pile_a'[m], i) => pile_b'[k] < pile_a'[m]
    <3> SUFFICES ASSUME NEW k \in 0 .. int_b, NEW m \in 0 .. Untouched - 2,
                        Same(pile_b'[k], pile_a'[m], i)
                 PROVE  pile_b'[k] < pile_a'[m]
      BY <1>2, <1>5, <1>7
    <3>1. m + 1 \in 0 .. Untouched - 1 /\ pile_a'[m] = pile_a[m + 1]
      BY <1>2, <1>6, <1>7
    <3>2. CASE k = 0
      <4>1. 0 \in 0 .. Untouched - 1 /\ 0 < m + 1
        BY <1>7
      <4> QED BY <1>6, <1>8, <3>1, <3>2, <4>1 DEF InTurn
    <3>3. CASE k # 0
      <4>1. k - 1 \in 0 .. int_b - 1 /\ pile_b'[k] = pile_b[k - 1]
        BY <1>2, <1>6, <3>3
      <4> QED BY <1>8, <3>1, <4>1 DEF InTurn
    <3> QED BY <3>2, <3>3
  <2> QED BY <1>1, <2>1, <2>2, <2>3, <2>4, <2>5, <2>6, <2>7, <2>8 DEF InTurn
<1>11. PassesBounded'
  BY <1>1, <1>3 DEF IInv, PassesBounded
<1> QED BY <1>1, <1>9, <1>10, <1>11 DEF IInv, LowerBitsSorted

\* The first number goes behind the others of stack a.
LEMMA TurnBehind ==
    ASSUME IInv, Turn, Bit(pile_a[0], i) # 0
    PROVE  IInv'
<1>1. /\ pc = "turn" /\ pc' = "turn" /\ j < size /\ j' = j + 1
      /\ UNCHANGED <<input, i>> /\ ft_rotatea
  BY DEF Turn
<1>2. /\ size \in Nat /\ int_a \in Nat /\ int_b \in Nat /\ int_a + int_b = size
      /\ j \in 0 .. size /\ i \in 0 .. 29
      /\ \A k \in 0 .. int_a - 1 : pile_a[k] \in 1 .. size
      /\ \A k \in 0 .. int_b - 1 : pile_b[k] \in 1 .. size
      /\ Untouched = size - j /\ Untouched <= int_a
  BY <1>1, TurnType
<1>3. size' = size /\ Index' = Index /\ Index = 0 .. size - 1
  BY <1>1 DEF size, words, Index
<1>4. int_a > 0 /\ UNCHANGED <<int_a, pile_b, int_b>>
  BY <1>1, <1>2 DEF ft_rotatea
<1>5. /\ DOMAIN pile_a' = Index
      /\ \A k \in 0 .. int_a - 2 : pile_a'[k] = pile_a[k + 1]
      /\ pile_a'[int_a - 1] = pile_a[0]
  BY <1>1, <1>2, <1>3, <1>4 DEF ft_rotatea
<1>6. Untouched' = Untouched - 1 /\ Untouched \in Nat /\ Untouched > 0
  BY <1>1, <1>2, <1>3 DEF Untouched
<1>7. InTurn
  BY <1>1 DEF IInv
<1>8. Bit(pile_a[0], i) = 1
  <2>1. 0 \in 0 .. int_a - 1
    BY <1>2, <1>4
  <2>2. pile_a[0] \in Nat
    BY <1>2, <2>1
  <2>3. Bit(pile_a[0], i) \in {0, 1}
    BY <1>2, <2>2, Halves
  <2> QED BY <2>3
<1>9. Types'
  <2>1. \A k \in 0 .. int_a - 1 : pile_a'[k] \in 1 .. size
    <3> SUFFICES ASSUME NEW k \in 0 .. int_a - 1 PROVE pile_a'[k] \in 1 .. size
      OBVIOUS
    <3>1. k = int_a - 1 \/ (k \in 0 .. int_a - 2 /\ k + 1 \in 0 .. int_a - 1)
      BY <1>2
    <3> QED BY <1>2, <1>4, <1>5, <3>1
  <2> QED BY <1>1, <1>2, <1>3, <1>4, <1>5, <2>1 DEF IInv, Types, Before, Radix
<1>10. InTurn'
  <2>1. Untouched' <= int_a'
    BY <1>2, <1>4, <1>6
  <2>2. \A k, m \in 0 .. Untouched' - 1 :
          k < m /\ Same(pile_a'[k], pile_a'[m], i) => pile_a'[k] < pile_a'[m]
    BY <1>2, <1>4, <1>5, <1>6, <1>7 DEF InTurn
  <2>3. \A k \in Untouched' .. int_a' - 1 : Bit(pile_a'[k], i) = 1
    <3> SUFFICES ASSUME NEW k \in Untouched - 1 .. int_a - 1
                 PROVE  Bit(pile_a'[k], i) = 1
      BY <1>4, <1>6
    <3>1. k = int_a - 1
             \/ (k \in 0 .. int_a - 2 /\ k + 1 \in Untouched .. int_a - 1)
      BY <1>2, <1>6
    <3> QED BY <1>5, <1>7, <1>8, <3>1 DEF InTurn
  <2>4. \A k, m \in Untouched' .. int_a' - 1 :
          k < m /\ Same(pile_a'[k], pile_a'[m], i) => pile_a'[k] < pile_a'[m]
    <3> SUFFICES ASSUME NEW k \in Untouched - 1 .. int_a - 1,
                        NEW m \in Untouched - 1 .. int_a - 1, k < m,
                        Same(pile_a'[k], pile_a'[m], i)
                 PROVE  pile_a'[k] < pile_a'[m]
      BY <1>4, <1>6
    <3>1. /\ k \in 0 .. int_a - 2 /\ k + 1 \in Untouched .. int_a - 1
          /\ pile_a'[k] = pile_a[k + 1]
      BY <1>2, <1>5, <1>6
    <3>2. CASE m = int_a - 1
      <4>1. 0 \in 0 .. Untouched - 1
        BY <1>6
      <4> QED BY <1>5, <1>7, <3>1, <3>2, <4>1 DEF InTurn
    <3>3. CASE m # int_a - 1
      <4>1. /\ m \in 0 .. int_a - 2 /\ m + 1 \in Untouched .. int_a - 1
            /\ pile_a'[m] = pile_a[m + 1] /\ k + 1 < m + 1
        BY <1>2, <1>5, <1>6, <3>3
      <4> QED BY <1>7, <3>1, <4>1 DEF InTurn
    <3> QED BY <3>2, <3>3
  <2>5. \A k \in 0 .. int_b' - 1 : Bit(pile_b'[k], i) = 0
    BY <1>4, <1>7 DEF InTurn
  <2>6. \A k, m \in 0 .. int_b' - 1 :
          k < m /\ Same(pile_b'[k], pile_b'[m], i) => pile_b'[m] < pile_b'[k]
    BY <1>4, <1>7 DEF InTurn
  <2>7. \A k \in Untouched' .. int_a' - 1, m \in 0 .. Untouched' - 1 :
          Same(pile_a'[k], pile_a'[m], i) => pile_a'[k] < pile_a'[m]
    <3> SUFFICES ASSUME NEW k \in Untouched - 1 .. int_a - 1,
                        NEW m \in 0 .. Untouched - 2,
                        Same(pile_a'[k], pile_a'[m], i)
                 PROVE  pile_a'[k] < pile_a'[m]
      BY <1>4, <1>6
    <3>1. m + 1 \in 0 .. Untouched - 1 /\ pile_a'[m] = pile_a[m + 1] /\ 0 < m + 1
      BY <1>2, <1>5, <1>6
    <3>2. CASE k = int_a - 1
      <4>1. 0 \in 0 .. Untouched - 1
        BY <1>6
      <4> QED BY <1>5, <1>7, <3>1, <3>2, <4>1 DEF InTurn
    <3>3. CASE k # int_a - 1
      <4>1. k + 1 \in Untouched .. int_a - 1 /\ pile_a'[k] = pile_a[k + 1]
        BY <1>2, <1>5, <1>6, <3>3
      <4> QED BY <1>7, <3>1, <4>1 DEF InTurn
    <3> QED BY <3>2, <3>3
  <2>8. \A k \in 0 .. int_b' - 1, m \in 0 .. Untouched' - 1 :
          Same(pile_b'[k], pile_a'[m], i) => pile_b'[k] < pile_a'[m]
    BY <1>2, <1>4, <1>5, <1>6, <1>7 DEF InTurn
  <2> QED BY <1>1, <2>1, <2>2, <2>3, <2>4, <2>5, <2>6, <2>7, <2>8 DEF InTurn
<1>11. PassesBounded'
  BY <1>1, <1>3 DEF IInv, PassesBounded
<1> QED BY <1>1, <1>9, <1>10, <1>11 DEF IInv, LowerBitsSorted

\* A pass is over after all the numbers, or as soon as stack a is in order: what
\* it did not look at comes after what it moved all the same.
LEMMA PassOverStep == IInv /\ PassOver => IInv'
<1> SUFFICES ASSUME IInv, PassOver PROVE IInv'
  OBVIOUS
<1>1. /\ pc = "turn" /\ pc' = "back" /\ (j >= size \/ check_order)
      /\ UNCHANGED <<input, i, j, pile_a, int_a, pile_b, int_b>>
  BY DEF PassOver, stacks
<1>2. /\ size \in Nat /\ int_a \in Nat /\ int_b \in Nat /\ int_a + int_b = size
      /\ j \in 0 .. size /\ i \in 0 .. 29
      /\ \A k \in 0 .. int_a - 1 : pile_a[k] \in 1 .. size
      /\ \A k \in 0 .. int_b - 1 : pile_b[k] \in 1 .. size
      /\ Untouched = size - j /\ Untouched <= int_a
  BY <1>1, TurnType
<1>3. size' = size /\ Index' = Index
  BY <1>1 DEF size, words, Index
<1>4. InTurn
  BY <1>1 DEF IInv
<1>5. Untouched \in Nat
  BY <1>2
<1>6. /\ \A k \in 0 .. int_a - 1 : pile_a[k] \in Nat /\ Bit(pile_a[k], i) \in {0, 1}
      /\ \A k \in 0 .. int_b - 1 : pile_b[k] \in Nat /\ Bit(pile_b[k], i) = 0
  <2>1. \A x \in 1 .. size : x \in Nat /\ Bit(x, i) \in {0, 1}
    <3> SUFFICES ASSUME NEW x \in 1 .. size PROVE x \in Nat /\ Bit(x, i) \in {0, 1}
      OBVIOUS
    <3>1. x \in Nat
      BY <1>2
    <3> QED BY <1>2, <3>1, Halves
  <2> QED BY <1>2, <1>4, <2>1 DEF InTurn
<1>7. \A k, m \in 0 .. int_a - 1 :
         k < m /\ Same(pile_a[k], pile_a[m], i + 1) => pile_a[k] < pile_a[m]
  <2> SUFFICES ASSUME NEW k \in 0 .. int_a - 1, NEW m \in 0 .. int_a - 1, k < m,
                      Same(pile_a[k], pile_a[m], i + 1)
               PROVE  pile_a[k] < pile_a[m]
    OBVIOUS
  <2>1. CASE j >= size
    <3>1. k \in Untouched .. int_a - 1 /\ m \in Untouched .. int_a - 1
      BY <1>2, <2>1
    <3>2. Bit(pile_a[k], i) = Bit(pile_a[m], i)
      BY <1>4, <3>1 DEF InTurn
    <3>3. Same(pile_a[k], pile_a[m], i)
      BY <1>2, <1>6, <3>2, NextPlace
    <3> QED BY <1>4, <3>1, <3>3 DEF InTurn
  <2>2. CASE check_order
    <3>1. pile_a[k] <= pile_a[m]
      <4>1. \A l \in 0 .. int_a - 1 : pile_a[l] \in Int
        BY <1>6
      <4> QED BY <1>2, <2>2, <4>1, NeighboursInOrder DEF check_order
    <3>2. ASSUME pile_a[k] = pile_a[m] PROVE FALSE
      <4>1. Same(pile_a[k], pile_a[m], i) /\ Same(pile_a[m], pile_a[k], i)
        BY <3>2 DEF Same
      <4>2. CASE m \in 0 .. Untouched - 1
        <5>1. k \in 0 .. Untouched - 1
          BY <1>5, <4>2
        <5> QED BY <1>4, <1>6, <3>2, <4>1, <4>2, <5>1 DEF InTurn
      <4>3. CASE m \in Untouched .. int_a - 1 /\ k \in Untouched .. int_a - 1
        BY <1>4, <1>6, <3>2, <4>1, <4>3 DEF InTurn
      <4>4. CASE m \in Untouched .. int_a - 1 /\ k \in 0 .. Untouched - 1
        BY <1>4, <1>6, <3>2, <4>1, <4>4 DEF InTurn
      <4> QED BY <1>2, <1>5, <4>2, <4>3, <4>4
    <3> QED BY <1>6, <3>1, <3>2
  <2> QED BY <1>1, <2>1, <2>2
<1>8. \A k, m \in 0 .. int_b - 1 :
         k < m /\ Same(pile_b[k], pile_b[m], i + 1) => pile_b[m] < pile_b[k]
  <2> SUFFICES ASSUME NEW k \in 0 .. int_b - 1, NEW m \in 0 .. int_b - 1, k < m,
                      Same(pile_b[k], pile_b[m], i + 1)
               PROVE  pile_b[m] < pile_b[k]
    OBVIOUS
  <2>1. Same(pile_b[k], pile_b[m], i)
    BY <1>2, <1>6, NextPlace
  <2> QED BY <1>4, <2>1 DEF InTurn
<1>9. \A k \in 0 .. int_b - 1, m \in 0 .. int_a - 1 :
         Same(pile_b[k], pile_a[m], i + 1) => pile_b[k] < pile_a[m]
  <2> SUFFICES ASSUME NEW k \in 0 .. int_b - 1, NEW m \in 0 .. int_a - 1,
                      Same(pile_b[k], pile_a[m], i + 1)
               PROVE  pile_b[k] < pile_a[m]
    OBVIOUS
  <2>1. CASE Bit(pile_a[m], i) = 1
    BY <1>2, <1>6, <2>1, NextPlace
  <2>2. CASE Bit(pile_a[m], i) = 0
    <3>1. m \in 0 .. Untouched - 1
      BY <1>2, <1>4, <1>5, <2>2 DEF InTurn
    <3>2. Same(pile_b[k], pile_a[m], i)
      BY <1>2, <1>6, <2>2, NextPlace
    <3> QED BY <1>4, <3>1, <3>2 DEF InTurn
  <2> QED BY <1>6, <2>1, <2>2
<1>10. InBack'
  BY <1>1, <1>7, <1>8, <1>9 DEF InBack
<1>11. Types'
  BY <1>1, <1>2, <1>3 DEF IInv, Types, Before, Radix
<1>12. PassesBounded'
  BY <1>1, <1>3 DEF IInv, PassesBounded
<1> QED BY <1>1, <1>10, <1>11, <1>12 DEF IInv, LowerBitsSorted

\* What comes back from stack b goes before all of stack a.
LEMMA BackStep == IInv /\ Back => IInv'
<1> SUFFICES ASSUME IInv, Back PROVE IInv'
  OBVIOUS
<1>1. /\ pc = "back" /\ pc' = "back" /\ int_b > 0
      /\ UNCHANGED <<input, i, j>>
      /\ pile_a' = Pushed(pile_a, int_a, pile_b[0])
      /\ pile_b' = Popped(pile_b, int_b)
      /\ int_a' = int_a + 1
      /\ int_b' = int_b - 1
  BY DEF Back, ft_pusha
<1>2. /\ size \in Nat /\ int_a \in Nat /\ int_b \in Nat /\ int_a + int_b = size
      /\ \A k \in 0 .. int_a - 1 : pile_a[k] \in 1 .. size
      /\ \A k \in 0 .. int_b - 1 : pile_b[k] \in 1 .. size
      /\ i \in 0 .. 29 /\ InBack
  BY <1>1, SizeType, BitBounded DEF IInv, Types, Radix
<1>3. size' = size /\ Index' = Index /\ Index = 0 .. size - 1
  BY <1>1 DEF size, words, Index
<1>4. /\ DOMAIN pile_a' = Index /\ DOMAIN pile_b' = Index
      /\ \A k \in 0 .. int_b - 2 : pile_b'[k] = pile_b[k + 1]
      /\ pile_a'[0] = pile_b[0]
      /\ \A k \in 1 .. int_a : pile_a'[k] = pile_a[k - 1]
  BY <1>1, <1>2, <1>3 DEF Pushed, Popped
<1>5. \A k \in 0 .. int_a : k = 0 \/ (k \in 1 .. int_a /\ k - 1 \in 0 .. int_a - 1)
  BY <1>2
<1>6. Types'
  <2>1. \A k \in 0 .. int_a : pile_a'[k] \in 1 .. size
    BY <1>1, <1>2, <1>4, <1>5
  <2> QED BY <1>1, <1>2, <1>3, <1>4, <2>1 DEF IInv, Types, Before, Radix
<1>7. InBack'
  <2>1. \A k, m \in 0 .. int_a' - 1 :
           k < m /\ Same(pile_a'[k], pile_a'[m], i + 1) => pile_a'[k] < pile_a'[m]
    <3> SUFFICES ASSUME NEW k \in 0 .. int_a, NEW m \in 0 .. int_a, k < m,
                        Same(pile_a'[k], pile_a'[m], i + 1)
                 PROVE  pile_a'[k] < pile_a'[m]
      BY <1>1, <1>2
    <3>1. m - 1 \in 0 .. int_a - 1 /\ pile_a'[m] = pile_a[m - 1]
      BY <1>2, <1>4
    <3>2. CASE k = 0
      <4>1. 0 \in 0 .. int_b - 1
        BY <1>1, <1>2
      <4> QED BY <1>2, <1>4, <3>1, <3>2, <4>1 DEF InBack
    <3>3. CASE k # 0
      <4>1. k - 1 \in 0 .. int_a - 1 /\ pile_a'[k] = pile_a[k - 1] /\ k - 1 < m - 1
        BY <1>2, <1>4, <3>3
      <4> QED BY <1>2, <3>1, <4>1 DEF InBack
    <3> QED BY <3>2, <3>3
  <2>2. \A k, m \in 0 .. int_b' - 1 :
           k < m /\ Same(pile_b'[k], pile_b'[m], i + 1) => pile_b'[m] < pile_b'[k]
    BY <1>1, <1>2, <1>4 DEF InBack
  <2>3. \A k \in 0 .. int_b' - 1, m \in 0 .. int_a' - 1 :
           Same(pile_b'[k], pile_a'[m], i + 1) => pile_b'[k] < pile_a'[m]
    <3> SUFFICES ASSUME NEW k \in 0 .. int_b - 2, NEW m \in 0 .. int_a,
                        Same(pile_b'[k], pile_a'[m], i + 1)
                 PROVE  pile_b'[k] < pile_a'[m]
      BY <1>1, <1>2
    <3>1. k + 1 \in 0 .. int_b - 1 /\ pile_b'[k] = pile_b[k + 1] /\ 0 < k + 1
          /\ 0 \in 0 .. int_b - 1
      BY <1>1, <1>2, <1>4
    <3>2. CASE m = 0
      <4>1. Same(pile_b[0], pile_b[k + 1], i + 1)
        BY <1>4, <3>1, <3>2 DEF Same
      <4> QED BY <1>2, <1>4, <3>1, <3>2, <4>1 DEF InBack
    <3>3. CASE m # 0
      <4>1. m - 1 \in 0 .. int_a - 1 /\ pile_a'[m] = pile_a[m - 1]
        BY <1>2, <1>4, <3>3
      <4> QED BY <1>2, <3>1, <4>1 DEF InBack
    <3> QED BY <3>2, <3>3
  <2> QED BY <1>1, <2>1, <2>2, <2>3 DEF InBack
<1>8. PassesBounded'
  BY <1>1, <1>3 DEF IInv, PassesBounded
<1> QED BY <1>1, <1>6, <1>7, <1>8 DEF IInv, LowerBitsSorted

LEMMA NextBitStep == IInv /\ NextBit => IInv'
<1> SUFFICES ASSUME IInv, NextBit PROVE IInv'
  OBVIOUS
<1>1. /\ pc = "back" /\ pc' = "big_algorithm" /\ int_b = 0 /\ i' = i + 1
      /\ UNCHANGED <<input, j, pile_a, int_a, pile_b, int_b>>
  BY DEF NextBit, stacks
<1>2. size' = size /\ Index' = Index /\ Index = 0 .. size - 1
  BY <1>1 DEF size, words, Index
<1>3. size \in Nat /\ int_a \in Nat /\ int_a = size /\ i \in 0 .. 29 /\ InBack
  BY <1>1, SizeType, BitBounded DEF IInv, Types, Radix
<1>4. Types'
  BY <1>1, <1>2, <1>3 DEF IInv, Types, Before, Radix
<1>5. LowerBitsSorted'
  BY <1>1, <1>2, <1>3 DEF InBack, LowerBitsSorted, Same
<1> QED BY <1>1, <1>4, <1>5 DEF IInv, PassesBounded

\* Up to five numbers nothing is claimed here.
LEMMA TodoStep == IInv /\ (Todo \/ AllDone) => IInv'
<1> SUFFICES ASSUME IInv, Todo \/ AllDone PROVE IInv'
  OBVIOUS
<1>1. pc = "todo" /\ pc' \in {"todo", "exit"} /\ input' = input
  BY DEF Todo, AllDone
<1>2. DOMAIN pile_a' = Index /\ DOMAIN pile_b' = Index
  <2>1. DOMAIN pile_a = Index /\ DOMAIN pile_b = Index
    BY DEF IInv, Types
  <2>2. CASE AllDone
    BY <2>1, <2>2 DEF AllDone, stacks
  <2>3. CASE Todo
    <3>1. CASE Head(todo) \in Instruction
      <4>1. Do(Head(todo))
        BY <2>3, <3>1 DEF Todo
      <4> QED BY <2>1, <4>1 DEF Do, ft_swapa, ft_rotatea, ft_reverse_rotatea,
                                ft_pusha, ft_pushb, Pushed, Popped, stacks
    <3>2. CASE Head(todo) \notin Instruction
      BY <2>1, <2>3, <3>2 DEF Todo, stacks
    <3> QED BY <3>1, <3>2
  <2> QED BY <2>2, <2>3
<1>3. Index' = Index
  BY <1>1 DEF Index, size, words
<1>4. Types'
  BY <1>1, <1>2, <1>3 DEF IInv, Types, Before, Radix
<1> QED BY <1>1, <1>4 DEF IInv, PassesBounded, LowerBitsSorted
-----------------------------------------------------------------------------
\* What the counts, the ranks and the bits of the radix sort are at each point of
\* the program; the theorems below follow from it.
THEOREM Invariance == Spec => []IInv
<1>1. Init => IInv
  BY InitInv
<1>2. IInv /\ [Next]_vars => IInv'
  <2> SUFFICES ASSUME IInv, [Next]_vars PROVE IInv'
    OBVIOUS
  <2>1. CASE Turn
    BY <2>1, TurnToB, TurnBehind
  <2>2. CASE UNCHANGED vars
    BY <2>2 DEF IInv, Types, PassesBounded, LowerBitsSorted, InTurn, InBack, Untouched,
                vars, stacks, Index, size, words, Before, Radix
  <2> QED BY <2>1, <2>2, MainStep, CheckStep, NormalizeStep, AlgorithmsStep, TodoStep,
             BeginStep, PassOverStep, BackStep, NextBitStep DEF Next
<1> QED BY <1>1, <1>2, PTL DEF Spec

\* Before each pass of the radix sort the numbers are sorted by the bits below
\* it, for any count of numbers, although passes end early.
THEOREM PassesSort == Spec => []LowerBitsSorted
<1>1. IInv => LowerBitsSorted
  BY DEF IInv
<1> QED BY <1>1, Invariance, PTL

\* No pass looks at a bit that no rank has.
THEOREM PassesAreBounded == Spec => []PassesBounded
<1>1. IInv => PassesBounded
  BY DEF IInv
<1> QED BY <1>1, Invariance, PTL

\* The numbers that are sorted are the ones that the arguments say, for any width
\* of an int and any base: the check of the texts refuses each that does not fit.
\* Of the others ft_atoi overflows on the least int only.
THEOREM ReadsTheNumbers == Spec => []ReadsNumbers
<1>1. Init => ReadsNumbers
  BY DEF Init, ReadsNumbers
<1>2. IInv /\ ReadsNumbers /\ [Next]_vars => ReadsNumbers'
  <2> SUFFICES ASSUME IInv, ReadsNumbers, [Next]_vars PROVE ReadsNumbers'
    OBVIOUS
  <2>1. CASE main
    <3> SUFFICES ASSUME pc' = "check", NEW k \in 1 .. size'
                 PROVE  /\ pile_a'[k - 1] = Meaning(words'[k])
                        /\ Overflows(words'[k]) => Meaning(words'[k]) = -Half
      BY DEF ReadsNumbers
    <3>1. input' = input /\ words' = words /\ size' = size /\ size \in Nat
      BY <2>1, SizeType DEF main, words, size, IInv
    <3>2. /\ \A m \in 1 .. size : Accepted(words[m])
          /\ pile_a' = [m \in Index |-> ft_atoi(words[m + 1])]
      BY <2>1 DEF main
    <3>3. k \in 1 .. size /\ k - 1 \in Index /\ (k - 1) + 1 = k
      BY <3>1 DEF Index
    <3>4. words[k] \in Seq(Char)
      <4>1. words \in Seq(Seq(Char))
        BY InputsAssumption DEF IInv, Types, words
      <4> QED BY <3>3, <4>1, ElementOfSeq DEF size
    <3>5. ft_atoi(words[k]) = Meaning(words[k])
      BY <3>2, <3>3, <3>4, ReadsExactly
    <3>6. Overflows(words[k]) => Meaning(words[k]) = -Half
      BY <3>2, <3>3, <3>4, OverflowsAtLeast
    <3> QED BY <3>1, <3>2, <3>3, <3>5, <3>6
  <2>2. CASE UNCHANGED vars
    BY <2>2 DEF ReadsNumbers, vars, stacks, size, words
  <2>3. CASE Check \/ ft_normalize \/ algorithms \/ Todo \/ AllDone \/ big_algorithm
             \/ Turn \/ PassOver \/ Back \/ NextBit
    <3>1. pc' # "check"
      BY <2>3 DEF Check, ft_normalize, algorithms, Todo, AllDone, big_algorithm,
                  Turn, PassOver, Back, NextBit
    <3> QED BY <3>1 DEF ReadsNumbers
  <2> QED BY <2>1, <2>2, <2>3 DEF Next
<1> QED BY <1>1, <1>2, Invariance, PTL DEF Spec

\* big_algorithm leaves when all the numbers are in order.
LEMMA LastPass ==
    ASSUME IInv, big_algorithm
    PROVE  Sorts'
<1> SUFFICES ASSUME check_order PROVE Sorts'
  BY DEF big_algorithm, Sorts
<1>1. /\ pc = "big_algorithm" /\ pc' = "exit" /\ input' = input
      /\ UNCHANGED <<pile_a, int_a>>
  BY DEF big_algorithm, stacks
<1>2. /\ size \in Nat /\ int_a = size /\ i \in 0 .. 30
      /\ \A k \in 0 .. size - 1 : pile_a[k] \in Int
  BY <1>1, SizeType DEF IInv, Types, Radix
<1>3. \A k, m \in 0 .. size - 1 : k < m => pile_a[k] <= pile_a[m]
  BY <1>2, NeighboursInOrder DEF check_order
<1>4. \A k, m \in 0 .. size - 1 : k < m /\ pile_a[k] = pile_a[m] => pile_a[k] < pile_a[m]
  BY <1>1, <1>2 DEF IInv, LowerBitsSorted, Index
<1>5. \A k, m \in 0 .. size - 1 : k < m => pile_a[k] < pile_a[m]
  BY <1>2, <1>3, <1>4
<1> QED BY <1>1, <1>2, <1>5 DEF Sorts, size, words, Index
-----------------------------------------------------------------------------
(* The stacks keep the ranks *)

\* What every instruction keeps.
Held ==
    /\ int_a \in Nat /\ int_b \in Nat /\ int_a + int_b = size
    /\ DOMAIN pile_a = Index /\ DOMAIN pile_b = Index
    /\ \A k \in 0 .. int_a - 1 : pile_a[k] \in 1 .. size
    /\ \A k \in 0 .. int_b - 1 : pile_b[k] \in 1 .. size
    /\ \A r \in 1 .. size :
          \/ \E k \in 0 .. int_a - 1 : pile_a[k] = r
          \/ \E k \in 0 .. int_b - 1 : pile_b[k] = r

\* An instruction on stack a alone that moves its numbers around keeps them.
LEMMA StillHeld ==
    ASSUME Held, size' = size, Index' = Index, UNCHANGED <<int_a, pile_b, int_b>>,
           DOMAIN pile_a' = Index,
           \A k \in 0 .. int_a - 1 : pile_a'[k] \in 1 .. size,
           \A k \in 0 .. int_a - 1 : \E m \in 0 .. int_a - 1 : pile_a'[m] = pile_a[k]
    PROVE  Held'
<1>1. ASSUME NEW r \in 1 .. size
      PROVE  \/ \E k \in 0 .. int_a - 1 : pile_a'[k] = r
             \/ \E k \in 0 .. int_b - 1 : pile_b[k] = r
  <2>1. CASE \E k \in 0 .. int_a - 1 : pile_a[k] = r
    BY <2>1
  <2>2. CASE \E k \in 0 .. int_b - 1 : pile_b[k] = r
    BY <2>2
  <2> QED BY <2>1, <2>2 DEF Held
<1> QED BY <1>1 DEF Held

LEMMA SwapHolds ==
    ASSUME Held, size \in Nat, input' = input, ft_swapa
    PROVE  Held'
<1>1. size' = size /\ Index' = Index /\ Index = 0 .. size - 1
  BY DEF size, words, Index
<1>2. UNCHANGED <<int_a, pile_b, int_b>>
  BY DEF ft_swapa
<1>3. CASE int_a > 1
  <2>1. pile_a' = [pile_a EXCEPT ![0] = pile_a[1], ![1] = pile_a[0]]
    BY <1>3 DEF ft_swapa
  <2>2. /\ 0 \in Index /\ 1 \in Index /\ DOMAIN pile_a' = Index
        /\ 0 \in 0 .. int_a - 1 /\ 1 \in 0 .. int_a - 1
        /\ pile_a'[0] = pile_a[1] /\ pile_a'[1] = pile_a[0]
        /\ \A k \in Index : k # 0 /\ k # 1 => pile_a'[k] = pile_a[k]
    BY <1>1, <1>3, <2>1 DEF Held
  <2>3. \A k \in 0 .. int_a - 1 : pile_a'[k] \in 1 .. size
    BY <1>1, <2>2, SMTT(30) DEF Held
  <2>4. ASSUME NEW k \in 0 .. int_a - 1 PROVE \E m \in 0 .. int_a - 1 : pile_a'[m] = pile_a[k]
    BY <1>1, <2>2 DEF Held
  <2> QED BY <1>1, <1>2, <2>2, <2>3, <2>4, StillHeld
<1>4. CASE ~ (int_a > 1)
  BY <1>1, <1>2, <1>4 DEF Held, ft_swapa
<1> QED BY <1>3, <1>4

LEMMA RotateHolds ==
    ASSUME Held, size \in Nat, input' = input, ft_rotatea \/ ft_reverse_rotatea
    PROVE  Held'
<1>1. size' = size /\ Index' = Index /\ Index = 0 .. size - 1
  BY DEF size, words, Index
<1>2. UNCHANGED <<int_a, pile_b, int_b>> /\ DOMAIN pile_a' = Index
  BY DEF ft_rotatea, ft_reverse_rotatea
<1>3. CASE ft_rotatea
  <2>1. /\ \A k \in 0 .. int_a - 2 : pile_a'[k] = pile_a[k + 1]
        /\ int_a > 0 => pile_a'[int_a - 1] = pile_a[0]
    BY <1>1, <1>3 DEF Held, ft_rotatea
  <2>2. \A k \in 0 .. int_a - 1 : pile_a'[k] \in 1 .. size
    BY <2>1 DEF Held
  <2>3. ASSUME NEW k \in 0 .. int_a - 1 PROVE \E m \in 0 .. int_a - 1 : pile_a'[m] = pile_a[k]
    <3>1. CASE k = 0
      BY <2>1, <3>1 DEF Held
    <3>2. CASE k # 0
      <4>1. k - 1 \in 0 .. int_a - 2 /\ k - 1 \in 0 .. int_a - 1 /\ (k - 1) + 1 = k
        BY <3>2 DEF Held
      <4> QED BY <2>1, <4>1
    <3> QED BY <3>1, <3>2
  <2> QED BY <1>1, <1>2, <2>2, <2>3, StillHeld
<1>4. CASE ft_reverse_rotatea
  <2>1. /\ \A k \in 1 .. int_a - 1 : pile_a'[k] = pile_a[k - 1]
        /\ int_a > 0 => pile_a'[0] = pile_a[int_a - 1]
    BY <1>1, <1>4 DEF Held, ft_reverse_rotatea
  <2>2. \A k \in 0 .. int_a - 1 : pile_a'[k] \in 1 .. size
    BY <2>1 DEF Held
  <2>3. ASSUME NEW k \in 0 .. int_a - 1 PROVE \E m \in 0 .. int_a - 1 : pile_a'[m] = pile_a[k]
    <3>1. CASE k = int_a - 1
      BY <2>1, <3>1 DEF Held
    <3>2. CASE k # int_a - 1
      <4>1. k + 1 \in 1 .. int_a - 1 /\ k + 1 \in 0 .. int_a - 1 /\ (k + 1) - 1 = k
        BY <3>2 DEF Held
      <4> QED BY <2>1, <4>1
    <3> QED BY <3>1, <3>2
  <2> QED BY <1>1, <1>2, <2>2, <2>3, StillHeld
<1> QED BY <1>3, <1>4

\* A number went from the n first of one array to the m first of another.
Ranks(pile, n) == \A k \in 0 .. n - 1 : pile[k] \in 1 .. size
Moved(from, n, to, m, f, t) ==
    /\ DOMAIN f = Index /\ DOMAIN t = Index
    /\ \A k \in 0 .. n - 2 : f[k] \in 1 .. size
    /\ \A k \in 0 .. m : t[k] \in 1 .. size
    /\ \A k \in 0 .. n - 1 : \/ \E l \in 0 .. n - 2 : f[l] = from[k]
                             \/ \E l \in 0 .. m : t[l] = from[k]
    /\ \A k \in 0 .. m - 1 : \E l \in 0 .. m : t[l] = to[k]

LEMMA Moves ==
    ASSUME size \in Nat, NEW from, NEW to, NEW n \in Nat \ {0}, NEW m \in Nat,
           n + m = size, Ranks(from, n), Ranks(to, m)
    PROVE  Moved(from, n, to, m, Popped(from, n), Pushed(to, m, from[0]))
<1> DEFINE f == Popped(from, n)
           t == Pushed(to, m, from[0])
<1>0. /\ \A k \in 0 .. n - 1 : from[k] \in 1 .. size
      /\ \A k \in 0 .. m - 1 : to[k] \in 1 .. size
  BY DEF Ranks
<1>1. Index = 0 .. size - 1
  BY DEF Index
<1>2. /\ DOMAIN f = Index /\ DOMAIN t = Index
      /\ \A k \in 0 .. n - 2 : f[k] = from[k + 1]
      /\ t[0] = from[0]
      /\ \A k \in 1 .. m : t[k] = to[k - 1]
  BY <1>1 DEF Popped, Pushed
<1> HIDE DEF f, t
<1>3. \A k \in 0 .. n - 2 : f[k] \in 1 .. size
  BY <1>0, <1>2
<1>4. ASSUME NEW k \in 0 .. m PROVE t[k] \in 1 .. size
  <2>1. CASE k = 0
    BY <1>0, <1>2, <2>1
  <2>2. CASE k # 0
    <3>1. k \in 1 .. m /\ k - 1 \in 0 .. m - 1
      BY <2>2
    <3> QED BY <1>0, <1>2, <3>1
  <2> QED BY <2>1, <2>2
<1>5. ASSUME NEW k \in 0 .. n - 1
      PROVE  \/ \E l \in 0 .. n - 2 : f[l] = from[k]
             \/ \E l \in 0 .. m : t[l] = from[k]
  <2>1. CASE k = 0
    <3>1. 0 \in 0 .. m
      OBVIOUS
    <3> QED BY <1>0, <1>2, <2>1, <3>1
  <2>2. CASE k # 0
    <3>1. k - 1 \in 0 .. n - 2 /\ (k - 1) + 1 = k
      BY <2>2
    <3> QED BY <1>0, <1>2, <3>1
  <2> QED BY <2>1, <2>2
<1>6. ASSUME NEW k \in 0 .. m - 1 PROVE \E l \in 0 .. m : t[l] = to[k]
  <2>1. k + 1 \in 1 .. m /\ k + 1 \in 0 .. m /\ (k + 1) - 1 = k
    OBVIOUS
  <2> QED BY <1>0, <1>2, <2>1
<1>7. DOMAIN f = Index /\ DOMAIN t = Index
  BY <1>2
<1>8. Moved(from, n, to, m, f, t)
  BY <1>3, <1>4, <1>5, <1>6, <1>7 DEF Moved
<1> QED BY <1>8 DEF f, t

LEMMA PushHolds ==
    ASSUME Held, size \in Nat, input' = input, ft_pusha \/ ft_pushb
    PROVE  Held'
<1>1. size' = size /\ Index' = Index
  BY DEF size, words, Index
<1>2. CASE ft_pusha /\ int_b > 0
  <2>1. /\ pile_a' = Pushed(pile_a, int_a, pile_b[0])
        /\ pile_b' = Popped(pile_b, int_b)
        /\ int_a' = int_a + 1 /\ int_b' = int_b - 1
    BY <1>2 DEF ft_pusha
  <2>2. int_b \in Nat \ {0} /\ int_a \in Nat /\ int_b + int_a = size
    BY <1>2 DEF Held
  <2>3. /\ DOMAIN pile_a' = Index /\ DOMAIN pile_b' = Index
        /\ \A k \in 0 .. int_b - 2 : pile_b'[k] \in 1 .. size
        /\ \A k \in 0 .. int_a : pile_a'[k] \in 1 .. size
        /\ \A k \in 0 .. int_b - 1 : \/ \E l \in 0 .. int_b - 2 : pile_b'[l] = pile_b[k]
                                     \/ \E l \in 0 .. int_a : pile_a'[l] = pile_b[k]
        /\ \A k \in 0 .. int_a - 1 : \E l \in 0 .. int_a : pile_a'[l] = pile_a[k]
    <3>1. Ranks(pile_a, int_a) /\ Ranks(pile_b, int_b)
      BY DEF Held, Ranks
    <3>2. Moved(pile_b, int_b, pile_a, int_a, pile_b', pile_a')
      BY <2>1, <2>2, <3>1, Moves
    <3> QED BY <3>2 DEF Moved
  <2>4. int_a' \in Nat /\ int_b' \in Nat /\ int_a' + int_b' = size
        /\ int_a' - 1 = int_a /\ int_b' - 1 = int_b - 2
    BY <2>1, <2>2
  <2>5. \A r \in 1 .. size : \/ \E k \in 0 .. int_a : pile_a'[k] = r
                             \/ \E k \in 0 .. int_b - 2 : pile_b'[k] = r
    BY <2>3 DEF Held
  <2> QED BY <1>1, <2>3, <2>4, <2>5 DEF Held
<1>3. CASE ft_pushb /\ int_a > 0
  <2>1. /\ pile_b' = Pushed(pile_b, int_b, pile_a[0])
        /\ pile_a' = Popped(pile_a, int_a)
        /\ int_a' = int_a - 1 /\ int_b' = int_b + 1
    BY <1>3 DEF ft_pushb
  <2>2. int_a \in Nat \ {0} /\ int_b \in Nat /\ int_a + int_b = size
    BY <1>3 DEF Held
  <2>3. /\ DOMAIN pile_a' = Index /\ DOMAIN pile_b' = Index
        /\ \A k \in 0 .. int_a - 2 : pile_a'[k] \in 1 .. size
        /\ \A k \in 0 .. int_b : pile_b'[k] \in 1 .. size
        /\ \A k \in 0 .. int_a - 1 : \/ \E l \in 0 .. int_a - 2 : pile_a'[l] = pile_a[k]
                                     \/ \E l \in 0 .. int_b : pile_b'[l] = pile_a[k]
        /\ \A k \in 0 .. int_b - 1 : \E l \in 0 .. int_b : pile_b'[l] = pile_b[k]
    <3>1. Ranks(pile_a, int_a) /\ Ranks(pile_b, int_b)
      BY DEF Held, Ranks
    <3>2. Moved(pile_a, int_a, pile_b, int_b, pile_a', pile_b')
      BY <2>1, <2>2, <3>1, Moves
    <3> QED BY <3>2 DEF Moved
  <2>4. int_a' \in Nat /\ int_b' \in Nat /\ int_a' + int_b' = size
        /\ int_b' - 1 = int_b /\ int_a' - 1 = int_a - 2
    BY <2>1, <2>2
  <2>5. \A r \in 1 .. size : \/ \E k \in 0 .. int_a - 2 : pile_a'[k] = r
                             \/ \E k \in 0 .. int_b : pile_b'[k] = r
    BY <2>3 DEF Held
  <2> QED BY <1>1, <2>3, <2>4, <2>5 DEF Held
<1>4. CASE UNCHANGED stacks
  BY <1>1, <1>4 DEF Held, stacks
<1> QED BY <1>2, <1>3, <1>4 DEF ft_pusha, ft_pushb

\* The ranks of different numbers are all the ranks.
LEMMA RanksAreAll ==
    ASSUME size \in Nat, NEW ranks,
           \A k \in Index : ranks[k] \in 1 .. size,
           \A k, m \in Index : k # m => ranks[k] # ranks[m]
    PROVE  \A r \in 1 .. size : \E k \in Index : ranks[k] = r
<1> DEFINE f == [k \in Index |-> ranks[k]]
<1>1. f \in Injection(Index, 1 .. size)
  BY DEF Injection, IsInjective
<1>2. /\ IsFiniteSet(1 .. size) /\ Cardinality(1 .. size) = size
      /\ IsFiniteSet(Index) /\ Cardinality(Index) = size
  BY FS_Interval DEF Index
<1>3. f \in Surjection(Index, 1 .. size)
  <2> HIDE DEF f
  <2> QED BY <1>1, <1>2, FS_Injection
<1>4. \A r \in 1 .. size : \E k \in Index : f[k] = r
  <2> HIDE DEF f
  <2> QED BY <1>3 DEF Surjection
<1> QED BY <1>4

Keeps ==
    /\ counter \in {0, 1}
    /\ pc \in {"main", "check", "normalize", "error", "exit"} \cup Sorting
    /\ int_a \in 0 .. size /\ int_b \in 0 .. size
    /\ i \in 0 .. 30 /\ j \in 0 .. size
    /\ pc \in Sorting => Held

LEMMA KeepsStep ==
    ASSUME IInv, Keeps, [Next]_vars
    PROVE  Keeps'
<1>1. size \in Nat
  BY SizeType DEF IInv
<1>2. input' = input
  BY DEF Next, vars, main, Check, ft_normalize, algorithms, Todo, AllDone, big_algorithm,
         Turn, PassOver, Back, NextBit
<1>3. size' = size /\ Index' = Index /\ Index = 0 .. size - 1
  BY <1>2 DEF size, words, Index
<1>4. UNCHANGED stacks => (Held => Held')
  BY <1>3 DEF Held, stacks
<1>5. UNCHANGED <<int_a, int_b>> => int_a' \in 0 .. size' /\ int_b' \in 0 .. size'
  BY <1>3 DEF Keeps
<1>6. Held' => int_a' \in 0 .. size' /\ int_b' \in 0 .. size'
  <2>1. Held' => int_a' \in Nat /\ int_b' \in Nat /\ int_a' + int_b' = size'
    BY DEF Held
  <2> QED BY ONLY <2>1, <1>1, <1>3
<1>7. CASE main \/ Check
  BY <1>3, <1>5, <1>7 DEF Keeps, main, Check, stacks, Sorting
<1>8. CASE ft_normalize
  <2>1. /\ \A k \in Index : pile_a[k] \in Int
        /\ \A k, m \in Index : k # m => pile_a[k] # pile_a[m]
        /\ int_a = size /\ int_b = 0
        /\ DOMAIN pile_b = Index
    BY <1>8 DEF IInv, Types, ft_normalize, Before
  <2>2. IInv'
    BY <1>8, NormalizeStep
  <2>3. pc' = "algorithms" /\ UNCHANGED <<int_a, pile_b, int_b, i, j, counter>>
    BY <1>8 DEF ft_normalize
  <2>4. /\ DOMAIN pile_a' = Index
        /\ \A k \in Index : pile_a'[k] \in 1 .. size
        /\ \A k, m \in Index : k # m => pile_a'[k] # pile_a'[m]
    BY <1>3, <2>2, <2>3 DEF IInv, Types
  <2>5. \A r \in 1 .. size : \E k \in Index : pile_a'[k] = r
    BY <1>1, <2>4, RanksAreAll
  <2>6. Held'
    BY <1>1, <1>3, <2>1, <2>3, <2>4, <2>5 DEF Held
  <2> QED BY <1>3, <1>5, <2>3, <2>6 DEF Keeps, Sorting
<1>9. CASE algorithms \/ AllDone \/ big_algorithm
  BY <1>1, <1>3, <1>4, <1>5, <1>9 DEF Keeps, algorithms, AllDone, big_algorithm, stacks, Sorting
<1>10. CASE Todo
  <2>1. Held /\ UNCHANGED <<counter, pc, i, j>>
    BY <1>10 DEF Keeps, Todo, Sorting
  <2>2. Held'
    <3>1. CASE Head(todo) \in Instruction
      <4>1. Do(Head(todo))
        BY <1>10, <3>1 DEF Todo
      <4> QED BY <1>1, <1>2, <2>1, <4>1, SwapHolds, RotateHolds, PushHolds DEF Do
    <3>2. CASE Head(todo) \notin Instruction
      BY <1>4, <1>10, <2>1, <3>2 DEF Todo
    <3> QED BY <3>1, <3>2
  <2> QED BY <1>3, <1>6, <2>1, <2>2 DEF Keeps
<1>11. CASE Turn
  <2>1. Held /\ UNCHANGED <<counter, pc, i>> /\ j' = j + 1 /\ j < size
    BY <1>11 DEF Keeps, Turn, Sorting
  <2>2. ft_pushb \/ ft_rotatea
    BY <1>11 DEF Turn
  <2>3. Held'
    BY <1>1, <1>2, <2>1, <2>2, RotateHolds, PushHolds
  <2>4. j' \in 0 .. size
    BY <1>1, <2>1 DEF Keeps
  <2> QED BY <1>3, <1>6, <2>1, <2>3, <2>4 DEF Keeps
<1>12. CASE PassOver
  BY <1>3, <1>4, <1>5, <1>12 DEF Keeps, PassOver, stacks, Sorting
<1>13. CASE Back
  <2>1. Held /\ UNCHANGED <<counter, pc, i, j>> /\ ft_pusha
    BY <1>13 DEF Keeps, Back, Sorting
  <2>2. Held'
    BY <1>1, <1>2, <2>1, PushHolds
  <2> QED BY <1>3, <1>6, <2>1, <2>2 DEF Keeps
<1>14. CASE NextBit
  <2>1. i \in 0 .. 29
    BY <1>14, BitBounded DEF IInv, NextBit
  <2>2. i' \in 0 .. 30
    BY <1>14, <2>1 DEF NextBit
  <2> QED BY <1>3, <1>4, <1>5, <1>14, <2>2 DEF Keeps, NextBit, stacks, Sorting
<1>15. CASE UNCHANGED vars
  BY <1>3, <1>4, <1>5, <1>15 DEF Keeps, vars, stacks, Sorting
<1> QED BY <1>7, <1>8, <1>9, <1>10, <1>11, <1>12, <1>13, <1>14, <1>15 DEF Next

\* Every variable keeps its type; the arrays are never shifted past their ends.
THEOREM TypeCorrect == Spec => []TypeOK
<1>1. Init => Keeps
  BY InitInv, SizeType DEF Init, Keeps, IInv, Sorting
<1>2. IInv /\ Keeps => TypeOK
  BY InputsAssumption DEF IInv, Types, Keeps, Held, TypeOK, Sorting
<1> QED BY <1>1, <1>2, KeepsStep, Invariance, PTL DEF Spec

\* No instruction loses or doubles a number, for any count of them.
THEOREM KeepsNumbers == Spec => []NoNumberLost
<1>1. Init => Keeps
  BY InitInv, SizeType DEF Init, Keeps, IInv, Sorting
<1>2. Keeps => NoNumberLost
  BY DEF Keeps, Held, NoNumberLost
<1> QED BY <1>1, <1>2, KeepsStep, Invariance, PTL DEF Spec
-----------------------------------------------------------------------------
(* Up to five numbers *)

Word == Instruction \cup {"two_args_alg", "three_int_alg", "four_int_alg", "five_int_alg",
                          "four: rest", "five: rest"}

Then(x, s) == <<x>> \o s
Times(n, x, s) == [k \in 1 .. n |-> x] \o s

\* What brings the numbers of stack b back.
Pas == Times(int_b, "pa", <<>>)

\* A word before a text.
LEMMA JoinedToOne ==
    ASSUME NEW one \in Seq(Word), Len(one) = 1, NEW s \in Seq(Word)
    PROVE  /\ one \o s \in Seq(Word) /\ Len(one \o s) = 1 + Len(s)
           /\ \A k \in 1 .. 1 + Len(s) : (one \o s)[k] = IF k <= 1 THEN one[k] ELSE s[k - 1]
<1>1. /\ one \o s \in Seq(Word) /\ Len(one \o s) = Len(one) + Len(s)
      /\ \A k \in 1 .. Len(one) + Len(s) :
            (one \o s)[k] = IF k <= Len(one) THEN one[k] ELSE s[k - Len(one)]
  BY ConcatProperties, Zenon
<1> DEFINE joined == one \o s
<1> HIDE DEF joined
<1>2. /\ joined \in Seq(Word) /\ Len(joined) = Len(one) + Len(s)
      /\ \A k \in 1 .. Len(one) + Len(s) :
            joined[k] = IF k <= Len(one) THEN one[k] ELSE s[k - Len(one)]
  BY <1>1 DEF joined
<1>3. /\ joined \in Seq(Word) /\ Len(joined) = 1 + Len(s)
      /\ \A k \in 1 .. 1 + Len(s) : joined[k] = IF k <= 1 THEN one[k] ELSE s[k - 1]
  BY <1>2
<1> QED BY <1>3 DEF joined

LEMMA Associative == \A s, t, u \in Seq(Word) : (s \o t) \o u = s \o (t \o u)
  BY ConcatAssociative

\* A text of two or three words.
LEMMA TextOf ==
    ASSUME NEW x \in Word, NEW y \in Word, NEW z \in Word
    PROVE  <<x>> \o <<y>> = <<x, y>> /\ <<x, y>> \o <<z>> = <<x, y, z>>
<1>1. /\ <<x>> \in Seq(Word) /\ <<x, y>> \in Seq(Word)
  OBVIOUS
<1>2. Append(<<x>>, y) = <<x, y>>
  <2> DEFINE s == Append(<<x>>, y)
             t == <<x, y>>
  <2>1. /\ s \in Seq(Word) /\ t \in Seq(Word) /\ Len(s) = 2 /\ Len(t) = 2
        /\ s[1] = t[1] /\ s[2] = t[2]
    OBVIOUS
  <2> HIDE DEF s, t
  <2>2. \A k \in 1 .. Len(s) : s[k] = t[k]
    BY <2>1
  <2>3. s = t
    BY <2>1, <2>2, SeqEqual
  <2> QED BY <2>3 DEF s, t
<1>4. Append(<<x, y>>, z) = <<x, y, z>>
  <2> DEFINE s == Append(<<x, y>>, z)
             t == <<x, y, z>>
  <2>1. /\ s \in Seq(Word) /\ t \in Seq(Word) /\ Len(s) = 3 /\ Len(t) = 3
        /\ s[1] = t[1] /\ s[2] = t[2] /\ s[3] = t[3]
    OBVIOUS
  <2> HIDE DEF s, t
  <2>2. \A k \in 1 .. Len(s) : s[k] = t[k]
    BY <2>1
  <2>3. s = t
    BY <2>1, <2>2, SeqEqual
  <2> QED BY <2>3 DEF s, t
<1>3. ASSUME NEW s \in Seq(Word), NEW w \in Word PROVE Append(s, w) = s \o <<w>>
  BY AppendIsConcat
<1> QED BY <1>1, <1>2, <1>3, <1>4, Zenon

LEMMA OneWord ==
    ASSUME NEW x \in Word
    PROVE  <<x>> \in Seq(Word) /\ Len(<<x>>) = 1 /\ <<x>>[1] = x
  OBVIOUS

LEMMA ThenIs ==
    ASSUME NEW x \in Word, NEW s \in Seq(Word)
    PROVE  /\ Then(x, s) \in Seq(Word) /\ Then(x, s) # <<>>
           /\ Head(Then(x, s)) = x /\ Tail(Then(x, s)) = s
           /\ <<x>> \in Seq(Word)
<1>1. <<x>> \in Seq(Word) /\ Len(<<x>>) = 1 /\ <<x>>[1] = x
  BY OneWord
<1>2. /\ Then(x, s) \in Seq(Word) /\ Len(Then(x, s)) = 1 + Len(s)
      /\ \A k \in 1 .. 1 + Len(s) : Then(x, s)[k] = IF k <= 1 THEN x ELSE s[k - 1]
  <2> DEFINE one == <<x>>
  <2>1. one \in Seq(Word) /\ Len(one) = 1 /\ one[1] = x
    BY <1>1
  <2> HIDE DEF one
  <2>2. /\ one \o s \in Seq(Word) /\ Len(one \o s) = 1 + Len(s)
        /\ \A k \in 1 .. 1 + Len(s) : (one \o s)[k] = IF k <= 1 THEN one[k] ELSE s[k - 1]
    BY <2>1, JoinedToOne
  <2>3. Then(x, s) = one \o s
    BY DEF Then, one
  <2>4. \A k \in 1 .. 1 + Len(s) : k <= 1 => k = 1
    BY LenProperties
  <2> QED BY <2>1, <2>2, <2>3, <2>4
<1>3. Len(s) \in Nat
  BY LenProperties
<1>4. Then(x, s) # <<>>
  BY <1>2, <1>3, EmptySeq
<1>5. Head(Then(x, s)) = x
  BY <1>2, <1>3
<1>6. /\ Tail(Then(x, s)) \in Seq(Word) /\ Len(Tail(Then(x, s))) = Len(s)
      /\ \A k \in 1 .. Len(s) : Tail(Then(x, s))[k] = Then(x, s)[k + 1]
  BY <1>2, <1>3, <1>4, HeadTailProperties
<1>7. \A k \in 1 .. Len(s) : Tail(Then(x, s))[k] = s[k]
  BY <1>2, <1>3, <1>6
<1>8. Tail(Then(x, s)) = s
  BY <1>6, <1>7, SeqEqual
<1> QED BY <1>1, <1>2, <1>4, <1>5, <1>8

LEMMA Repeated ==
    ASSUME NEW x \in Word, NEW n \in Nat
    PROVE  LET r == [k \in 1 .. n |-> x]
           IN  /\ r \in Seq(Word) /\ Len(r) = n /\ \A k \in 1 .. n : r[k] = x
  OBVIOUS

LEMMA TimesIs ==
    ASSUME NEW x \in Word, NEW s \in Seq(Word), NEW n \in Nat
    PROVE  /\ Times(n, x, s) \in Seq(Word)
           /\ Times(0, x, s) = s
           /\ Times(n + 1, x, s) = Then(x, Times(n, x, s))
<1> DEFINE r == [k \in 1 .. n |-> x]
           t == [k \in 1 .. n + 1 |-> x]
<1>1. r \in Seq(Word) /\ Len(r) = n /\ \A k \in 1 .. n : r[k] = x
  BY Repeated
<1>2. t \in Seq(Word) /\ Len(t) = n + 1 /\ \A k \in 1 .. n + 1 : t[k] = x
  BY Repeated
<1>3. [k \in 1 .. 0 |-> x] = <<>>
  OBVIOUS
<1>4. Times(0, x, s) = s
  BY <1>3, ConcatEmptySeq DEF Times
<1>5. Times(n, x, s) = r \o s /\ Times(n + 1, x, s) = t \o s
  BY DEF Times
<1> HIDE DEF r, t
<1>6. Times(n, x, s) \in Seq(Word)
  BY <1>1, <1>5, ConcatProperties
<1>7. t = <<x>> \o r
  <2> DEFINE one == <<x>>
  <2>1. one \in Seq(Word) /\ Len(one) = 1 /\ one[1] = x
    BY ThenIs
  <2> HIDE DEF one
  <2>2. /\ one \o r \in Seq(Word) /\ Len(one \o r) = 1 + n
        /\ \A k \in 1 .. 1 + n : (one \o r)[k] = IF k <= 1 THEN one[k] ELSE r[k - 1]
    BY <1>1, <2>1, JoinedToOne
  <2>3. \A k \in 1 .. n + 1 : (one \o r)[k] = x
    <3> SUFFICES ASSUME NEW k \in 1 .. n + 1 PROVE (one \o r)[k] = x
      OBVIOUS
    <3>1. k = 1 \/ (~ (k <= 1) /\ k - 1 \in 1 .. n)
      OBVIOUS
    <3> QED BY <1>1, <2>1, <2>2, <3>1
  <2>4. t = one \o r
    <3> DEFINE u == one \o r
    <3> HIDE DEF u
    <3>1. u \in Seq(Word) /\ Len(u) = Len(t) /\ \A k \in 1 .. Len(t) : t[k] = u[k]
      BY <1>2, <2>2, <2>3 DEF u
    <3> QED BY <1>2, <3>1, SeqEqual DEF u
  <2> QED BY <2>4 DEF one
<1>8. t \o s = <<x>> \o (r \o s)
  <2> DEFINE one == <<x>>
  <2>1. one \in Seq(Word) /\ t = one \o r
    BY <1>7, OneWord
  <2> HIDE DEF one
  <2>2. t \o s = one \o (r \o s)
    BY <1>1, <2>1, Associative, ZenonT(30)
  <2> QED BY <2>2 DEF one
<1> QED BY <1>4, <1>5, <1>6, <1>8 DEF Then

\* The bodies of calls, word by word.
LEMMA Unfolds ==
    ASSUME NEW x \in Word, NEW y \in Word, NEW z \in Word, NEW s \in Seq(Word)
    PROVE  /\ <<>> \o s = s
           /\ <<x>> \o s = Then(x, s)
           /\ <<x, y>> \o s = Then(x, Then(y, s))
           /\ <<x, y, z>> \o s = Then(x, Then(y, Then(z, s)))
<1> DEFINE one == <<x>>
           two == <<y>>
           three == <<z>>
<1>1. one \in Seq(Word) /\ two \in Seq(Word) /\ three \in Seq(Word)
  BY OneWord
<1>2. one \o two = <<x, y>> /\ (one \o two) \o three = <<x, y, z>>
  <2>1. <<x>> \o <<y>> = <<x, y>> /\ <<x, y>> \o <<z>> = <<x, y, z>>
    BY TextOf
  <2> QED BY <2>1, Zenon
<1>3. Then(x, s) = one \o s /\ Then(y, s) = two \o s /\ Then(z, s) = three \o s
      /\ Then(x, Then(y, s)) = one \o (two \o s)
      /\ Then(x, Then(y, Then(z, s))) = one \o (two \o (three \o s))
  BY DEF Then
<1>4. <<>> \o s = s
  BY ConcatEmptySeq
<1>5. <<x>> \o s = Then(x, s)
  BY DEF Then
<1> HIDE DEF one, two, three
<1>6. one \o two \in Seq(Word) /\ three \o s \in Seq(Word)
  BY <1>1, ConcatProperties
<1>7. (one \o two) \o s = one \o (two \o s)
  BY <1>1, Associative, Zenon
<1>8. ((one \o two) \o three) \o s = (one \o two) \o (three \o s)
  <2> DEFINE both == one \o two
  <2>1. both \in Seq(Word)
    BY <1>6
  <2> HIDE DEF both
  <2>2. (both \o three) \o s = both \o (three \o s)
    BY <1>1, <2>1, Associative, ZenonT(30)
  <2> QED BY <2>2 DEF both
<1>9. (one \o two) \o (three \o s) = one \o (two \o (three \o s))
  <2> DEFINE rest == three \o s
  <2>1. rest \in Seq(Word)
    BY <1>6
  <2> HIDE DEF rest
  <2>2. (one \o two) \o rest = one \o (two \o rest)
    BY <1>1, <2>1, Associative, ZenonT(30)
  <2> QED BY <2>2 DEF rest
<1> QED BY <1>2, <1>3, <1>4, <1>5, <1>7, <1>8, <1>9

LEMMA ThreeWords ==
    ASSUME NEW x \in Word, NEW y \in Word, NEW z \in Word, NEW s \in Seq(Word)
    PROVE  <<x, y, z>> \o s = Then(x, Then(y, Then(z, s)))
<1>1. /\ <<>> \o s = s
      /\ <<x>> \o s = Then(x, s)
      /\ <<x, y>> \o s = Then(x, Then(y, s))
      /\ <<x, y, z>> \o s = Then(x, Then(y, Then(z, s)))
  BY Unfolds, ZenonT(40)
<1> QED BY <1>1, Zenon

LEMMA SomeWords ==
    ASSUME NEW s \in Seq(Word)
    PROVE  \A x, y, z \in Word : /\ <<x>> \o s = Then(x, s)
                                 /\ <<x, y>> \o s = Then(x, Then(y, s))
                                 /\ <<x, y, z>> \o s = Then(x, Then(y, Then(z, s)))
<1> SUFFICES ASSUME NEW x \in Word, NEW y \in Word, NEW z \in Word
             PROVE  /\ <<x>> \o s = Then(x, s)
                    /\ <<x, y>> \o s = Then(x, Then(y, s))
                    /\ <<x, y, z>> \o s = Then(x, Then(y, Then(z, s)))
  OBVIOUS
<1>1. /\ <<>> \o s = s
      /\ <<x>> \o s = Then(x, s)
      /\ <<x, y>> \o s = Then(x, Then(y, s))
      /\ <<x, y, z>> \o s = Then(x, Then(y, Then(z, s)))
  BY Unfolds
<1> QED BY <1>1, Zenon

LEMMA AppendUnfolds ==
    ASSUME NEW n \in Nat, NEW x \in Word, NEW y \in Word, NEW s \in Seq(Word)
    PROVE  Append([k \in 1 .. n |-> x], y) \o s = Times(n, x, Then(y, s))
<1> DEFINE r == [k \in 1 .. n |-> x]
           two == <<y>>
<1>1. r \in Seq(Word) /\ two \in Seq(Word)
  BY Repeated, OneWord
<1>2. Times(n, x, Then(y, s)) = r \o (two \o s)
  BY DEF Times, Then
<1>3. Append(r, y) = r \o two
  <2> HIDE DEF r
  <2> QED BY <1>1, AppendIsConcat
<1> HIDE DEF r, two
<1>4. (r \o two) \o s = r \o (two \o s)
  BY <1>1, Associative, Zenon
<1> QED BY <1>2, <1>3, <1>4 DEF r
-----------------------------------------------------------------------------
(* What is left to do, by the order of the numbers *)

Ascends == \A k, m \in 0 .. int_a - 1 : k < m => pile_a[k] < pile_a[m]
InOrder(x, y, z) == pile_a[x] < pile_a[y] /\ pile_a[y] < pile_a[z]
SmallestAt(k) == \A m \in 0 .. int_a - 1 : pile_a[k] <= pile_a[m]

Two ==
    \/ todo = Then("two_args_alg", Pas)
    \/ todo = Then("sa", Pas) /\ pile_a[1] < pile_a[0]

Three ==
    \/ todo = Then("three_int_alg", Pas) /\ ~Ascends
    \/ todo = Then("ra", Pas) /\ InOrder(1, 2, 0)
    \/ todo = Then("sa", Pas) /\ InOrder(1, 0, 2)
    \/ todo = Then("rra", Pas) /\ InOrder(2, 0, 1)
    \/ todo = Then("sa", Then("rra", Pas)) /\ InOrder(2, 1, 0)
    \/ todo = Then("ra", Then("sa", Then("rra", Pas))) /\ InOrder(0, 2, 1)

\* The smallest number is brought to the top, and if that is not enough to b.
More(call, rest, inner) ==
    \/ todo = Then(call, Pas)
    \/ \E k \in 0 .. int_a - 1 : todo = Times(k, "ra", Then(rest, Pas)) /\ SmallestAt(k)
    \/ \E k \in 1 .. int_a : todo = Times(k, "rra", Then(rest, Pas)) /\ SmallestAt(int_a - k)
    \/ todo = Then("pb", Then(inner, Then("pa", Pas))) /\ SmallestAt(0) /\ ~Ascends

Stage ==
    \/ todo = Pas /\ Ascends
    \/ int_a = 2 /\ Two
    \/ int_a = 3 /\ Three
    \/ int_a = 4 /\ More("four_int_alg", "four: rest", "three_int_alg")
    \/ int_a = 5 /\ More("five_int_alg", "five: rest", "four_int_alg")

\* Stack b has the smallest numbers, the greatest of them at the top.
Apart ==
    /\ \A k \in 0 .. int_b - 1 : pile_b[k] = int_b - k
    /\ \A k \in 0 .. int_a - 1 : pile_a[k] > int_b
    /\ \A k, m \in 0 .. int_a - 1 : k # m => pile_a[k] # pile_a[m]

SortInv ==
    /\ pc \in {"normalize", "algorithms"} => ~check_order
    /\ pc = "todo" => Apart /\ Stage
    /\ Sorts

LEMMA PasIs ==
    ASSUME int_b \in Nat
    PROVE  /\ Pas \in Seq(Word)
           /\ int_b = 0 => Pas = <<>>
           /\ int_b > 0 => /\ Times(int_b - 1, "pa", <<>>) \in Seq(Word)
                           /\ Pas = Then("pa", Times(int_b - 1, "pa", <<>>))
           /\ Then("pa", Pas) = Times(int_b + 1, "pa", <<>>)
<1>1. "pa" \in Word /\ <<>> \in Seq(Word)
  BY EmptySeq DEF Word, Instruction
<1>2. \A n \in Nat : /\ Times(n, "pa", <<>>) \in Seq(Word)
                     /\ Times(n + 1, "pa", <<>>) = Then("pa", Times(n, "pa", <<>>))
  BY <1>1, TimesIs
<1>3. Times(0, "pa", <<>>) = <<>>
  BY <1>1, TimesIs
<1>4. int_b > 0 => int_b - 1 \in Nat /\ (int_b - 1) + 1 = int_b
  OBVIOUS
<1> QED BY <1>1, <1>2, <1>3, <1>4 DEF Pas

\* The numbers of stack a are integers.
LEMMA Numbers ==
    ASSUME Held, size \in Nat
    PROVE  \A k \in 0 .. int_a - 1 : pile_a[k] \in Int
  BY DEF Held

LEMMA SwapA ==
    ASSUME Held, size \in Nat, ft_swapa, int_a > 1
    PROVE  /\ pile_a'[0] = pile_a[1] /\ pile_a'[1] = pile_a[0]
           /\ \A k \in 2 .. int_a - 1 : pile_a'[k] = pile_a[k]
           /\ UNCHANGED <<int_a, pile_b, int_b>>
<1>1. pile_a' = [pile_a EXCEPT ![0] = pile_a[1], ![1] = pile_a[0]]
  BY DEF ft_swapa
<1>2. /\ 0 \in Index /\ 1 \in Index
      /\ \A k \in 2 .. int_a - 1 : k \in Index /\ k # 0 /\ k # 1
  BY DEF Index, Held
<1> QED BY <1>1, <1>2 DEF Held, ft_swapa

LEMMA RotateA ==
    ASSUME Held, size \in Nat, ft_rotatea, int_a > 0
    PROVE  /\ pile_a'[int_a - 1] = pile_a[0]
           /\ \A k \in 0 .. int_a - 2 : pile_a'[k] = pile_a[k + 1]
           /\ UNCHANGED <<int_a, pile_b, int_b>>
<1>1. int_a - 1 \in Index /\ \A k \in 0 .. int_a - 2 : k \in Index /\ k < int_a - 1
  BY DEF Index, Held
<1> QED BY <1>1 DEF ft_rotatea

LEMMA ReverseA ==
    ASSUME Held, size \in Nat, ft_reverse_rotatea, int_a > 0
    PROVE  /\ pile_a'[0] = pile_a[int_a - 1]
           /\ \A k \in 1 .. int_a - 1 : pile_a'[k] = pile_a[k - 1]
           /\ UNCHANGED <<int_a, pile_b, int_b>>
<1>1. 0 \in Index /\ \A k \in 1 .. int_a - 1 : k \in Index /\ k # 0 /\ k < int_a
  BY DEF Index, Held
<1> QED BY <1>1 DEF ft_reverse_rotatea

LEMMA PushA ==
    ASSUME Held, size \in Nat, ft_pusha, int_b > 0
    PROVE  /\ pile_a'[0] = pile_b[0]
           /\ \A k \in 1 .. int_a : pile_a'[k] = pile_a[k - 1]
           /\ \A k \in 0 .. int_b - 2 : pile_b'[k] = pile_b[k + 1]
           /\ int_a' = int_a + 1 /\ int_b' = int_b - 1
<1>1. /\ 0 \in Index
      /\ \A k \in 1 .. int_a : k \in Index /\ k # 0 /\ k <= int_a
      /\ \A k \in 0 .. int_b - 2 : k \in Index /\ k < int_b - 1
  BY DEF Index, Held
<1>2. /\ pile_a' = Pushed(pile_a, int_a, pile_b[0])
      /\ pile_b' = Popped(pile_b, int_b)
      /\ int_a' = int_a + 1 /\ int_b' = int_b - 1
  BY DEF ft_pusha
<1> QED BY <1>1, <1>2 DEF Pushed, Popped

LEMMA PushB ==
    ASSUME Held, size \in Nat, ft_pushb, int_a > 0
    PROVE  /\ pile_b'[0] = pile_a[0]
           /\ \A k \in 1 .. int_b : pile_b'[k] = pile_b[k - 1]
           /\ \A k \in 0 .. int_a - 2 : pile_a'[k] = pile_a[k + 1]
           /\ int_a' = int_a - 1 /\ int_b' = int_b + 1
<1>1. /\ 0 \in Index
      /\ \A k \in 1 .. int_b : k \in Index /\ k # 0 /\ k <= int_b
      /\ \A k \in 0 .. int_a - 2 : k \in Index /\ k < int_a - 1
  BY DEF Index, Held
<1>2. /\ pile_b' = Pushed(pile_b, int_b, pile_a[0])
      /\ pile_a' = Popped(pile_a, int_a)
      /\ int_a' = int_a - 1 /\ int_b' = int_b + 1
  BY DEF ft_pushb
<1> QED BY <1>1, <1>2 DEF Pushed, Popped

\* Moving the numbers of stack a around keeps the stacks apart.
LEMMA ApartAfter ==
    ASSUME Held, Apart, UNCHANGED <<int_a, pile_b, int_b>>,
           NEW p \in [0 .. int_a - 1 -> 0 .. int_a - 1],
           \A k, m \in 0 .. int_a - 1 : p[k] = p[m] => k = m,
           \A k \in 0 .. int_a - 1 : pile_a'[k] = pile_a[p[k]]
    PROVE  Apart'
<1>1. \A k \in 0 .. int_a - 1 : p[k] \in 0 .. int_a - 1
  OBVIOUS
<1> QED BY <1>1 DEF Apart

LEMMA SwapApart ==
    ASSUME Held, Apart, size \in Nat, ft_swapa, int_a > 1
    PROVE  Apart'
<1> DEFINE p == [k \in 0 .. int_a - 1 |-> IF k = 0 THEN 1 ELSE IF k = 1 THEN 0 ELSE k]
<1>0. int_a \in Nat
  BY DEF Held
<1>1. p \in [0 .. int_a - 1 -> 0 .. int_a - 1]
      /\ \A k, m \in 0 .. int_a - 1 : p[k] = p[m] => k = m
  BY <1>0
<1>2. \A k \in 0 .. int_a - 1 : pile_a'[k] = pile_a[p[k]]
  BY <1>0, SwapA
<1>3. UNCHANGED <<int_a, pile_b, int_b>>
  BY SwapA
<1> HIDE DEF p
<1> QED BY <1>1, <1>2, <1>3, ApartAfter

LEMMA RotateApart ==
    ASSUME Held, Apart, size \in Nat, ft_rotatea, int_a > 0
    PROVE  Apart'
<1> DEFINE p == [k \in 0 .. int_a - 1 |-> IF k = int_a - 1 THEN 0 ELSE k + 1]
<1>0. int_a \in Nat
  BY DEF Held
<1>1. p \in [0 .. int_a - 1 -> 0 .. int_a - 1]
      /\ \A k, m \in 0 .. int_a - 1 : p[k] = p[m] => k = m
  BY <1>0
<1>2. ASSUME NEW k \in 0 .. int_a - 1 PROVE pile_a'[k] = pile_a[p[k]]
  <2>1. k = int_a - 1 \/ k \in 0 .. int_a - 2
    BY <1>0
  <2> QED BY <1>0, <2>1, RotateA
<1>3. UNCHANGED <<int_a, pile_b, int_b>>
  BY RotateA
<1> HIDE DEF p
<1> QED BY <1>1, <1>2, <1>3, ApartAfter

LEMMA ReverseApart ==
    ASSUME Held, Apart, size \in Nat, ft_reverse_rotatea, int_a > 0
    PROVE  Apart'
<1> DEFINE p == [k \in 0 .. int_a - 1 |-> IF k = 0 THEN int_a - 1 ELSE k - 1]
<1>0. int_a \in Nat
  BY DEF Held
<1>1. p \in [0 .. int_a - 1 -> 0 .. int_a - 1]
      /\ \A k, m \in 0 .. int_a - 1 : p[k] = p[m] => k = m
  BY <1>0
<1>2. ASSUME NEW k \in 0 .. int_a - 1 PROVE pile_a'[k] = pile_a[p[k]]
  <2>1. k = 0 \/ k \in 1 .. int_a - 1
    BY <1>0
  <2> QED BY <1>0, <2>1, ReverseA
<1>3. UNCHANGED <<int_a, pile_b, int_b>>
  BY ReverseA
<1> HIDE DEF p
<1> QED BY <1>1, <1>2, <1>3, ApartAfter

\* The last of the small numbers comes back under none that is less.
LEMMA PushApart ==
    ASSUME Held, Apart, size \in Nat, ft_pusha, int_b > 0
    PROVE  /\ Apart'
           /\ Ascends => Ascends'
<1>0. int_a \in Nat /\ int_b \in Nat \ {0}
  BY DEF Held
<1>1. /\ pile_a'[0] = pile_b[0]
      /\ \A k \in 1 .. int_a : pile_a'[k] = pile_a[k - 1]
      /\ \A k \in 0 .. int_b - 2 : pile_b'[k] = pile_b[k + 1]
      /\ int_a' = int_a + 1 /\ int_b' = int_b - 1
  BY PushA
<1>2. /\ \A k \in 0 .. int_b - 1 : pile_b[k] = int_b - k
      /\ \A k \in 0 .. int_a - 1 : pile_a[k] > int_b /\ pile_a[k] \in Int
      /\ \A k, m \in 0 .. int_a - 1 : k # m => pile_a[k] # pile_a[m]
  BY Numbers DEF Apart
<1>3. \A k \in 0 .. int_b' - 1 : pile_b'[k] = int_b' - k
  BY <1>0, <1>1, <1>2
<1>4. pile_a'[0] = int_b
  BY <1>0, <1>1, <1>2
<1>5. ASSUME NEW k \in 1 .. int_a
      PROVE  k - 1 \in 0 .. int_a - 1 /\ pile_a'[k] = pile_a[k - 1] /\ pile_a'[k] > int_b
  BY <1>0, <1>1, <1>2
<1>6. \A k \in 0 .. int_a' - 1 : k = 0 \/ k \in 1 .. int_a
  BY <1>0, <1>1
<1>7. \A k \in 0 .. int_a' - 1 : pile_a'[k] > int_b'
  BY <1>0, <1>1, <1>2, <1>4, <1>5, <1>6
<1>8. ASSUME NEW k \in 0 .. int_a' - 1, NEW m \in 0 .. int_a' - 1, k # m
      PROVE  pile_a'[k] # pile_a'[m]
  <2>1. CASE k = 0 \/ m = 0
    BY <1>0, <1>2, <1>4, <1>5, <1>6, <1>8, <2>1
  <2>2. CASE k # 0 /\ m # 0
    <3>1. k - 1 \in 0 .. int_a - 1 /\ m - 1 \in 0 .. int_a - 1 /\ k - 1 # m - 1
          /\ pile_a'[k] = pile_a[k - 1] /\ pile_a'[m] = pile_a[m - 1]
      BY <1>0, <1>5, <1>6, <1>8, <2>2
    <3> QED BY <1>2, <3>1
  <2> QED BY <2>1, <2>2
<1>9. ASSUME Ascends PROVE Ascends'
  <2> SUFFICES ASSUME NEW k \in 0 .. int_a' - 1, NEW m \in 0 .. int_a' - 1, k < m
               PROVE  pile_a'[k] < pile_a'[m]
    BY DEF Ascends
  <2>1. m \in 1 .. int_a /\ m - 1 \in 0 .. int_a - 1 /\ pile_a'[m] = pile_a[m - 1]
        /\ pile_a'[m] > int_b
    BY <1>0, <1>1, <1>5
  <2>2. CASE k = 0
    BY <1>0, <1>2, <1>4, <2>1, <2>2
  <2>3. CASE k # 0
    <3>1. k - 1 \in 0 .. int_a - 1 /\ pile_a'[k] = pile_a[k - 1] /\ k - 1 < m - 1
      BY <1>0, <1>1, <1>5, <2>3
    <3> QED BY <1>9, <2>1, <3>1 DEF Ascends
  <2> QED BY <2>2, <2>3
<1>10. Apart'
  BY <1>3, <1>7, <1>8 DEF Apart
<1> QED BY <1>9, <1>10

LEMMA PushBApart ==
    ASSUME Held, Apart, size \in Nat, ft_pushb, int_a > 0, SmallestAt(0)
    PROVE  /\ Apart'
           /\ Ascends' => Ascends
<1>0. int_a \in Nat \ {0} /\ int_b \in Nat /\ int_a + int_b = size
  BY DEF Held
<1>1. /\ pile_b'[0] = pile_a[0]
      /\ \A k \in 1 .. int_b : pile_b'[k] = pile_b[k - 1]
      /\ \A k \in 0 .. int_a - 2 : pile_a'[k] = pile_a[k + 1]
      /\ int_a' = int_a - 1 /\ int_b' = int_b + 1
  BY PushB
<1>2. /\ \A k \in 0 .. int_b - 1 : pile_b[k] = int_b - k
      /\ \A k \in 0 .. int_a - 1 : pile_a[k] > int_b /\ pile_a[k] \in Int
      /\ \A k, m \in 0 .. int_a - 1 : k # m => pile_a[k] # pile_a[m]
      /\ \A m \in 0 .. int_a - 1 : pile_a[0] <= pile_a[m]
  BY Numbers DEF Apart, SmallestAt
<1>3. pile_a[0] = int_b + 1
  <2>1. int_b + 1 \in 1 .. size
    BY <1>0
  <2>2. ~ \E k \in 0 .. int_b - 1 : pile_b[k] = int_b + 1
    BY <1>0, <1>2
  <2>3. PICK k \in 0 .. int_a - 1 : pile_a[k] = int_b + 1
    BY <2>1, <2>2 DEF Held
  <2>4. 0 \in 0 .. int_a - 1
    BY <1>0
  <2> QED BY <1>0, <1>2, <2>3, <2>4
<1>4. ASSUME NEW k \in 0 .. int_b' - 1 PROVE pile_b'[k] = int_b' - k
  <2>1. CASE k = 0
    BY <1>0, <1>1, <1>3, <2>1
  <2>2. CASE k # 0
    <3>1. k \in 1 .. int_b /\ k - 1 \in 0 .. int_b - 1
      BY <1>0, <1>1, <2>2
    <3> QED BY <1>0, <1>1, <1>2, <3>1
  <2> QED BY <2>1, <2>2
<1>5. ASSUME NEW k \in 0 .. int_a' - 1
      PROVE  k + 1 \in 0 .. int_a - 1 /\ pile_a'[k] = pile_a[k + 1]
  BY <1>0, <1>1
<1>6. ASSUME NEW k \in 0 .. int_a' - 1 PROVE pile_a'[k] > int_b'
  <2>1. k + 1 # 0 /\ 0 \in 0 .. int_a - 1
    BY <1>0
  <2>2. pile_a[k + 1] # pile_a[0] /\ pile_a[k + 1] > int_b /\ pile_a[k + 1] \in Int
    BY <1>2, <1>5, <2>1
  <2> QED BY <1>0, <1>1, <1>3, <1>5, <2>2
<1>7. ASSUME NEW k \in 0 .. int_a' - 1, NEW m \in 0 .. int_a' - 1, k # m
      PROVE  pile_a'[k] # pile_a'[m]
  <2>1. k + 1 # m + 1
    BY <1>0, <1>1, <1>7
  <2> QED BY <1>2, <1>5, <2>1
<1>8. ASSUME Ascends' PROVE Ascends
  <2> SUFFICES ASSUME NEW k \in 0 .. int_a - 1, NEW m \in 0 .. int_a - 1, k < m
               PROVE  pile_a[k] < pile_a[m]
    BY DEF Ascends
  <2>1. CASE k = 0
    <3>1. k # m
      BY <1>0
    <3> QED BY <1>2, <2>1, <3>1
  <2>2. CASE k # 0
    <3>1. /\ k - 1 \in 0 .. int_a' - 1 /\ m - 1 \in 0 .. int_a' - 1 /\ k - 1 < m - 1
          /\ (k - 1) + 1 = k /\ (m - 1) + 1 = m
      BY <1>0, <1>1, <2>2
    <3> QED BY <1>5, <1>8, <3>1 DEF Ascends
  <2> QED BY <2>1, <2>2
<1>9. Apart'
  BY <1>4, <1>6, <1>7 DEF Apart
<1> QED BY <1>8, <1>9

LEMMA Words ==
    /\ Instruction \subseteq Word
    /\ {"sa", "ra", "rra", "pa", "pb"} = Instruction
    /\ {"two_args_alg", "three_int_alg", "four_int_alg", "five_int_alg",
        "four: rest", "five: rest"} \subseteq Word \ Instruction
  BY DEF Word, Instruction

LEMMA TodoIs ==
    ASSUME Todo, NEW x \in Word, NEW s \in Seq(Word), todo = Then(x, s)
    PROVE  /\ x \in Instruction => Do(x) /\ todo' = s
           /\ x \notin Instruction => todo' = Body(x) \o s /\ UNCHANGED stacks
<1>1. Head(todo) = x /\ Tail(todo) = s
  BY ThenIs
<1> QED BY <1>1 DEF Todo

LEMMA Does ==
    /\ Do("sa") => ft_swapa
    /\ Do("ra") => ft_rotatea
    /\ Do("rra") => ft_reverse_rotatea
    /\ Do("pa") => ft_pusha
    /\ Do("pb") => ft_pushb
  BY DEF Do

\* Stack a is in order: only the small numbers are to come back.
LEMMA OrderedStep ==
    ASSUME Held, Apart, size \in Nat, Todo, todo = Pas, Ascends
    PROVE  Apart' /\ todo' = Pas' /\ Ascends'
<1>1. int_b \in Nat /\ int_b > 0
  BY PasIs DEF Held, Todo
<1>2. todo = Then("pa", Times(int_b - 1, "pa", <<>>)) /\ Times(int_b - 1, "pa", <<>>) \in Seq(Word)
  BY <1>1, PasIs
<1>3. ft_pusha /\ todo' = Times(int_b - 1, "pa", <<>>)
  BY <1>2, TodoIs, Words, Does
<1>4. int_b' = int_b - 1
  BY <1>1, <1>3, PushA
<1> QED BY <1>1, <1>3, <1>4, PushApart DEF Pas

LEMMA TwoStep ==
    ASSUME Held, Apart, size \in Nat, Todo, int_a = 2, Two
    PROVE  Apart' /\ ((todo' = Pas' /\ Ascends') \/ (int_a' = 2 /\ Two'))
<1>1. Pas \in Seq(Word) /\ int_b \in Nat
  BY PasIs DEF Held
<1>2. /\ pile_a[0] \in Int /\ pile_a[1] \in Int /\ pile_a[0] # pile_a[1]
  BY Numbers DEF Apart
<1>3. CASE todo = Then("two_args_alg", Pas)
  <2>1. todo' = Body("two_args_alg") \o Pas /\ UNCHANGED stacks
    BY <1>1, <1>3, TodoIs, Words
  <2>2. Pas' = Pas /\ (Apart => Apart')
    BY <2>1 DEF Pas, stacks, Apart
  <2>3. Body("two_args_alg") = two_args_alg
    BY DEF Body
  <2>4. CASE pile_a[0] > pile_a[1]
    <3>1. two_args_alg = <<"sa">>
      BY <2>4 DEF two_args_alg
    <3>2. todo' = Then("sa", Pas)
      BY <2>1, <2>3, <3>1 DEF Then
    <3> QED BY <1>2, <2>1, <2>2, <2>4, <3>2 DEF Two, stacks
  <2>5. CASE pile_a[0] < pile_a[1]
    <3>1. two_args_alg = <<>>
      BY <1>2, <2>5 DEF two_args_alg
    <3>2. todo' = Pas
      BY <1>1, <2>1, <2>3, <3>1, ConcatEmptySeq
    <3>3. Ascends'
      BY <2>1, <2>5 DEF Ascends, stacks
    <3>4. todo' = Pas'
      BY <2>2, <3>2
    <3> QED BY <2>2, <3>3, <3>4
  <2> QED BY <1>2, <2>4, <2>5
<1>4. CASE todo = Then("sa", Pas) /\ pile_a[1] < pile_a[0]
  <2>1. ft_swapa /\ todo' = Pas
    BY <1>1, <1>4, TodoIs, Words, Does
  <2>2. pile_a'[0] = pile_a[1] /\ pile_a'[1] = pile_a[0] /\ UNCHANGED <<int_a, pile_b, int_b>>
    BY <2>1, SwapA
  <2>3. Apart'
    BY <2>1, SwapApart
  <2>4. Pas' = Pas
    BY <2>2 DEF Pas
  <2>5. Ascends'
    BY <1>4, <2>2 DEF Ascends
  <2>6. todo' = Pas'
    BY <2>1, <2>4
  <2> QED BY <2>3, <2>5, <2>6
<1> QED BY <1>3, <1>4 DEF Two

\* An instruction on three numbers.
LEMMA SwapThree ==
    ASSUME Held, Apart, size \in Nat, int_a = 3, ft_swapa
    PROVE  /\ Apart' /\ UNCHANGED <<int_a, int_b>> /\ Pas' = Pas
           /\ pile_a'[0] = pile_a[1] /\ pile_a'[1] = pile_a[0] /\ pile_a'[2] = pile_a[2]
<1>1. 2 \in 2 .. int_a - 1
  OBVIOUS
<1> QED BY <1>1, SwapA, SwapApart DEF Pas

LEMMA RotateThree ==
    ASSUME Held, Apart, size \in Nat, int_a = 3, ft_rotatea
    PROVE  /\ Apart' /\ UNCHANGED <<int_a, int_b>> /\ Pas' = Pas
           /\ pile_a'[0] = pile_a[1] /\ pile_a'[1] = pile_a[2] /\ pile_a'[2] = pile_a[0]
<1>1. 0 \in 0 .. int_a - 2 /\ 1 \in 0 .. int_a - 2
  OBVIOUS
<1> QED BY <1>1, RotateA, RotateApart DEF Pas

LEMMA ReverseThree ==
    ASSUME Held, Apart, size \in Nat, int_a = 3, ft_reverse_rotatea
    PROVE  /\ Apart' /\ UNCHANGED <<int_a, int_b>> /\ Pas' = Pas
           /\ pile_a'[0] = pile_a[2] /\ pile_a'[1] = pile_a[0] /\ pile_a'[2] = pile_a[1]
<1>1. 1 \in 1 .. int_a - 1 /\ 2 \in 1 .. int_a - 1
  OBVIOUS
<1> QED BY <1>1, ReverseA, ReverseApart DEF Pas

\* What three_int_alg is to do.
LEMMA ThreeBody ==
    ASSUME int_a = 3, pile_a[0] \in Int, pile_a[1] \in Int, pile_a[2] \in Int,
           pile_a[0] # pile_a[1], pile_a[1] # pile_a[2], pile_a[0] # pile_a[2], ~Ascends
    PROVE  \/ three_int_alg = <<"ra">> /\ InOrder(1, 2, 0)
           \/ three_int_alg = <<"sa">> /\ InOrder(1, 0, 2)
           \/ three_int_alg = <<"rra">> /\ InOrder(2, 0, 1)
           \/ three_int_alg = <<"sa", "rra">> /\ InOrder(2, 1, 0)
           \/ three_int_alg = <<"ra", "sa", "rra">> /\ InOrder(0, 2, 1)
<1> DEFINE x == pile_a[0]
           y == pile_a[1]
           z == pile_a[2]
<1>1. ~ (x < y /\ y < z)
  BY DEF Ascends
<1>2. three_int_alg =
         CASE x > y /\ y < z /\ x > z -> <<"ra">>
           [] x > y /\ y < z /\ x <= z -> <<"sa">>
           [] x > y /\ y >= z -> <<"sa", "rra">>
           [] x <= y /\ x > z -> <<"rra">>
           [] x <= y /\ x <= z -> <<"ra", "sa", "rra">>
  BY DEF three_int_alg
<1>3. x \in Int /\ y \in Int /\ z \in Int /\ x # y /\ y # z /\ x # z
  OBVIOUS
<1>4. /\ y < z /\ z < x => InOrder(1, 2, 0)
      /\ y < x /\ x < z => InOrder(1, 0, 2)
      /\ z < x /\ x < y => InOrder(2, 0, 1)
      /\ z < y /\ y < x => InOrder(2, 1, 0)
      /\ x < z /\ z < y => InOrder(0, 2, 1)
  BY DEF InOrder
<1> HIDE DEF x, y, z
<1>5. CASE y < z /\ z < x
  <2>1. three_int_alg = <<"ra">>
    BY <1>2, <1>3, <1>5
  <2> QED BY <1>4, <1>5, <2>1, Zenon
<1>6. CASE y < x /\ x < z
  <2>1. three_int_alg = <<"sa">>
    BY <1>2, <1>3, <1>6
  <2> QED BY <1>4, <1>6, <2>1, Zenon
<1>7. CASE z < x /\ x < y
  <2>1. three_int_alg = <<"rra">>
    BY <1>2, <1>3, <1>7
  <2> QED BY <1>4, <1>7, <2>1, Zenon
<1>8. CASE z < y /\ y < x
  <2>1. three_int_alg = <<"sa", "rra">>
    BY <1>2, <1>3, <1>8
  <2> QED BY <1>4, <1>8, <2>1, Zenon
<1>9. CASE x < z /\ z < y
  <2>1. three_int_alg = <<"ra", "sa", "rra">>
    BY <1>2, <1>3, <1>9
  <2> QED BY <1>4, <1>9, <2>1, Zenon
<1> QED BY <1>1, <1>3, <1>5, <1>6, <1>7, <1>8, <1>9

LEMMA ThreeStep ==
    ASSUME Held, Apart, size \in Nat, Todo, int_a = 3, Three
    PROVE  Apart' /\ ((todo' = Pas' /\ Ascends') \/ (int_a' = 3 /\ Three'))
<1>1. Pas \in Seq(Word) /\ int_b \in Nat
  BY PasIs DEF Held
<1>2. /\ pile_a[0] \in Int /\ pile_a[1] \in Int /\ pile_a[2] \in Int
      /\ pile_a[0] # pile_a[1] /\ pile_a[1] # pile_a[2] /\ pile_a[0] # pile_a[2]
  BY Numbers DEF Apart
<1>3. "sa" \in Word /\ "ra" \in Word /\ "rra" \in Word
  BY Words
<1>4. Then("rra", Pas) \in Seq(Word)
  BY <1>1, <1>3, ThenIs
<1>5. Then("sa", Then("rra", Pas)) \in Seq(Word)
  BY <1>3, <1>4, ThenIs
<1>6. CASE todo = Then("three_int_alg", Pas) /\ ~Ascends
  <2>1. todo' = Body("three_int_alg") \o Pas /\ UNCHANGED stacks
    BY <1>1, <1>6, TodoIs, Words
  <2>2. UNCHANGED <<pile_a, int_a>> /\ Pas' = Pas /\ Apart'
    BY <2>1 DEF Pas, stacks, Apart
  <2>3. todo' = three_int_alg \o Pas
    BY <2>1 DEF Body
  <2>4. \A x, y, z \in Word : /\ <<x>> \o Pas = Then(x, Pas)
                              /\ <<x, y>> \o Pas = Then(x, Then(y, Pas))
                              /\ <<x, y, z>> \o Pas = Then(x, Then(y, Then(z, Pas)))
    BY <1>1, SomeWords
  <2>5. \/ todo' = Then("ra", Pas) /\ InOrder(1, 2, 0)
        \/ todo' = Then("sa", Pas) /\ InOrder(1, 0, 2)
        \/ todo' = Then("rra", Pas) /\ InOrder(2, 0, 1)
        \/ todo' = Then("sa", Then("rra", Pas)) /\ InOrder(2, 1, 0)
        \/ todo' = Then("ra", Then("sa", Then("rra", Pas))) /\ InOrder(0, 2, 1)
    <3>1. /\ <<"ra">> \o Pas = Then("ra", Pas)
          /\ <<"sa">> \o Pas = Then("sa", Pas)
          /\ <<"rra">> \o Pas = Then("rra", Pas)
          /\ <<"sa", "rra">> \o Pas = Then("sa", Then("rra", Pas))
          /\ <<"ra", "sa", "rra">> \o Pas = Then("ra", Then("sa", Then("rra", Pas)))
      BY <1>3, <2>4, Zenon
    <3>2. \/ three_int_alg = <<"ra">> /\ InOrder(1, 2, 0)
          \/ three_int_alg = <<"sa">> /\ InOrder(1, 0, 2)
          \/ three_int_alg = <<"rra">> /\ InOrder(2, 0, 1)
          \/ three_int_alg = <<"sa", "rra">> /\ InOrder(2, 1, 0)
          \/ three_int_alg = <<"ra", "sa", "rra">> /\ InOrder(0, 2, 1)
      BY <1>2, <1>6, ThreeBody
    <3> QED BY <2>3, <3>1, <3>2, Zenon
  <2>6. Three'
    BY <2>2, <2>5 DEF Three, InOrder
  <2> QED BY <2>2, <2>6
<1>7. CASE todo = Then("ra", Pas) /\ InOrder(1, 2, 0)
  <2>1. ft_rotatea /\ todo' = Pas
    BY <1>1, <1>7, TodoIs, Words, Does
  <2>2. Ascends'
    BY <1>2, <1>7, <2>1, RotateThree DEF InOrder, Ascends
  <2> QED BY <2>1, <2>2, RotateThree
<1>8. CASE todo = Then("sa", Pas) /\ InOrder(1, 0, 2)
  <2>1. ft_swapa /\ todo' = Pas
    BY <1>1, <1>8, TodoIs, Words, Does
  <2>2. Ascends'
    BY <1>2, <1>8, <2>1, SwapThree DEF InOrder, Ascends
  <2> QED BY <2>1, <2>2, SwapThree
<1>9. CASE todo = Then("rra", Pas) /\ InOrder(2, 0, 1)
  <2>1. ft_reverse_rotatea /\ todo' = Pas
    BY <1>1, <1>9, TodoIs, Words, Does
  <2>2. Ascends'
    BY <1>2, <1>9, <2>1, ReverseThree DEF InOrder, Ascends
  <2> QED BY <2>1, <2>2, ReverseThree
<1>10. CASE todo = Then("sa", Then("rra", Pas)) /\ InOrder(2, 1, 0)
  <2>1. ft_swapa /\ todo' = Then("rra", Pas)
    BY <1>4, <1>10, TodoIs, Words, Does
  <2>2. todo' = Then("rra", Pas)' /\ InOrder(2, 0, 1)'
    BY <1>10, <2>1, SwapThree DEF InOrder, Then
  <2>3. Three'
    BY <2>2 DEF Three
  <2> QED BY <2>1, <2>3, SwapThree
<1>11. CASE todo = Then("ra", Then("sa", Then("rra", Pas))) /\ InOrder(0, 2, 1)
  <2>1. ft_rotatea /\ todo' = Then("sa", Then("rra", Pas))
    BY <1>5, <1>11, TodoIs, Words, Does
  <2>2. todo' = Then("sa", Then("rra", Pas))' /\ InOrder(2, 1, 0)'
    BY <1>11, <2>1, RotateThree DEF InOrder, Then
  <2>3. Three'
    BY <2>2 DEF Three
  <2> QED BY <2>1, <2>3, RotateThree
<1> QED BY <1>6, <1>7, <1>8, <1>9, <1>10, <1>11 DEF Three

\* There is a smallest number, and find_smallest is where it is.
LEMMA FindSmallest ==
    ASSUME Held, size \in Nat, int_a > 0
    PROVE  find_smallest \in 0 .. int_a - 1 /\ SmallestAt(find_smallest)
<1> DEFINE T == {pile_a[k] : k \in 0 .. int_a - 1}
<1>1. T \subseteq Nat /\ pile_a[0] \in T
  BY DEF Held
<1>2. PICK x \in T : \A y \in T : x <= y
  <2> HIDE DEF T
  <2> QED BY <1>1, Smallest
<1>3. PICK k \in 0 .. int_a - 1 : pile_a[k] = x
  BY <1>2
<1>4. \A m \in 0 .. int_a - 1 : pile_a[k] <= pile_a[m]
  BY <1>2, <1>3
<1> QED BY <1>4 DEF find_smallest, SmallestAt

\* In order or not, of different numbers.
LEMMA OrderIs ==
    ASSUME Held, Apart, size \in Nat
    PROVE  check_order <=> Ascends
<1>1. /\ int_a \in Nat
      /\ \A k \in 0 .. int_a - 1 : pile_a[k] \in Nat
      /\ \A k, m \in 0 .. int_a - 1 : k # m => pile_a[k] # pile_a[m]
  BY DEF Held, Apart
<1>2. ASSUME check_order PROVE Ascends
  <2>1. \A k, m \in 0 .. int_a - 1 : k < m => pile_a[k] <= pile_a[m]
    <3>1. \A k \in 0 .. int_a - 1 : pile_a[k] \in Int
      BY <1>1
    <3> QED BY <1>1, <1>2, <3>1, NeighboursInOrder DEF check_order
  <2> QED BY <1>1, <2>1 DEF Ascends
<1>3. ASSUME Ascends PROVE check_order
  <2> SUFFICES ASSUME NEW k \in 0 .. int_a - 2 PROVE pile_a[k] <= pile_a[k + 1]
    BY DEF check_order
  <2>1. k \in 0 .. int_a - 1 /\ k + 1 \in 0 .. int_a - 1 /\ k < k + 1
    BY <1>1
  <2>2. pile_a[k] < pile_a[k + 1]
    BY <1>3, <2>1 DEF Ascends
  <2> QED BY <1>1, <2>1, <2>2
<1> QED BY <1>2, <1>3

\* Turning stack a moves the place of the smallest number.
LEMMA SmallestTurned ==
    ASSUME Held, size \in Nat, int_a > 0, ft_rotatea, NEW k \in 1 .. int_a - 1, SmallestAt(k)
    PROVE  SmallestAt(k - 1)'
<1>0. int_a \in Nat \ {0}
  BY DEF Held
<1>1. /\ pile_a'[int_a - 1] = pile_a[0] /\ int_a' = int_a
      /\ \A m \in 0 .. int_a - 2 : pile_a'[m] = pile_a[m + 1]
  BY RotateA
<1>2. pile_a'[k - 1] = pile_a[k]
  BY <1>0, <1>1
<1>3. ASSUME NEW m \in 0 .. int_a - 1 PROVE pile_a[k] <= pile_a'[m]
  <2>1. CASE m = int_a - 1
    BY <1>0, <1>1, <2>1 DEF SmallestAt
  <2>2. CASE m # int_a - 1
    BY <1>0, <1>1, <2>2 DEF SmallestAt
  <2> QED BY <2>1, <2>2
<1> QED BY <1>1, <1>2, <1>3 DEF SmallestAt

LEMMA SmallestTurnedBack ==
    ASSUME Held, size \in Nat, int_a > 0, ft_reverse_rotatea, NEW k \in 0 .. int_a - 1,
           SmallestAt(k)
    PROVE  SmallestAt(IF k = int_a - 1 THEN 0 ELSE k + 1)'
<1>0. int_a \in Nat \ {0}
  BY DEF Held
<1>1. /\ pile_a'[0] = pile_a[int_a - 1] /\ int_a' = int_a
      /\ \A m \in 1 .. int_a - 1 : pile_a'[m] = pile_a[m - 1]
  BY ReverseA
<1>2. pile_a'[IF k = int_a - 1 THEN 0 ELSE k + 1] = pile_a[k]
  BY <1>0, <1>1
<1>3. ASSUME NEW m \in 0 .. int_a - 1 PROVE pile_a[k] <= pile_a'[m]
  <2>1. CASE m = 0
    BY <1>0, <1>1, <2>1 DEF SmallestAt
  <2>2. CASE m # 0
    BY <1>0, <1>1, <2>2 DEF SmallestAt
  <2> QED BY <2>1, <2>2
<1>4. ASSUME NEW m \in 0 .. int_a' - 1
      PROVE  pile_a'[IF k = int_a - 1 THEN 0 ELSE k + 1] <= pile_a'[m]
  BY <1>1, <1>2, <1>3
<1>5. (IF k = int_a - 1 THEN 0 ELSE k + 1)' = IF k = int_a - 1 THEN 0 ELSE k + 1
  BY <1>1
<1> QED BY <1>1, <1>4 DEF SmallestAt

LEMMA MoreStep ==
    ASSUME Held, Apart, size \in Nat, Todo, int_a \in Nat, int_a > 1,
           NEW call \in Word \ Instruction, NEW rest \in Word \ Instruction,
           NEW inner \in Word, More(call, rest, inner),
           Body(call) = Append(push_up, rest),
           Body(rest) = IF check_order THEN <<>> ELSE <<"pb", inner, "pa">>
    PROVE  /\ Apart'
           /\ \/ todo' = Pas' /\ Ascends'
              \/ int_a' = int_a /\ More(call, rest, inner)'
              \/ int_a' = int_a - 1 /\ todo' = Then(inner, Pas)' /\ ~Ascends'
<1>1. Pas \in Seq(Word) /\ int_b \in Nat
  BY PasIs DEF Held
<1>2. /\ "ra" \in Word /\ "rra" \in Word /\ "pa" \in Word /\ "pb" \in Word
      /\ "ra" \in Instruction /\ "rra" \in Instruction /\ "pb" \in Instruction
  BY Words
<1>3. Then(rest, Pas) \in Seq(Word)
  BY <1>1, ThenIs
<1>4. ASSUME UNCHANGED stacks
      PROVE  /\ Pas' = Pas /\ Apart' /\ int_a' = int_a /\ (Ascends <=> Ascends')
             /\ \A k \in 0 .. int_a - 1 : SmallestAt(k) => SmallestAt(k)'
  BY <1>4 DEF Pas, stacks, Apart, Ascends, SmallestAt
<1>5. ASSUME NEW n \in Nat
      PROVE  Append([m \in 1 .. n |-> "ra"], rest) \o Pas = Times(n, "ra", Then(rest, Pas))
  <2>1. "ra" \in Word /\ rest \in Word /\ Pas \in Seq(Word)
    BY <1>1, <1>2
  <2> QED BY <2>1, AppendUnfolds
<1>6. ASSUME NEW n \in Nat
      PROVE  Append([m \in 1 .. n |-> "rra"], rest) \o Pas = Times(n, "rra", Then(rest, Pas))
  <2>1. "rra" \in Word /\ rest \in Word /\ Pas \in Seq(Word)
    BY <1>1, <1>2
  <2> QED BY <2>1, AppendUnfolds
<1>7. \A x \in {"ra", "rra"}, n \in Nat :
          /\ Times(n, x, Then(rest, Pas)) \in Seq(Word)
          /\ Times(0, x, Then(rest, Pas)) = Then(rest, Pas)
          /\ Times(n + 1, x, Then(rest, Pas)) = Then(x, Times(n, x, Then(rest, Pas)))
  <2> SUFFICES ASSUME NEW x \in {"ra", "rra"}, NEW n \in Nat
               PROVE  /\ Times(n, x, Then(rest, Pas)) \in Seq(Word)
                      /\ Times(0, x, Then(rest, Pas)) = Then(rest, Pas)
                      /\ Times(n + 1, x, Then(rest, Pas)) = Then(x, Times(n, x, Then(rest, Pas)))
    OBVIOUS
  <2>1. x \in Word
    BY <1>2
  <2> QED BY <1>3, <2>1, TimesIs
<1>8. ASSUME Pas' = Pas, NEW x, NEW n
      PROVE  Times(n, x, Then(rest, Pas))' = Times(n, x, Then(rest, Pas))
  BY <1>8 DEF Times, Then
<1>9. CASE todo = Then(call, Pas)
  <2>1. todo' = Append(push_up, rest) \o Pas /\ UNCHANGED stacks
    BY <1>1, <1>9, TodoIs
  <2>2. PICK k \in 0 .. int_a - 1 : k = find_smallest /\ SmallestAt(k)
    BY FindSmallest
  <2>3. k \in 0 .. int_a' - 1 /\ SmallestAt(k)' /\ Pas' = Pas /\ Apart' /\ int_a' = int_a
    BY <1>4, <2>1, <2>2
  <2>4. CASE k < int_a \div 2
    <3>1. push_up = [m \in 1 .. k |-> "ra"]
      BY <2>2, <2>4 DEF push_up
    <3>2. todo' = Times(k, "ra", Then(rest, Pas))'
      <4>1. k \in Nat /\ todo' = Append([m \in 1 .. k |-> "ra"], rest) \o Pas
        BY <2>1, <3>1
      <4>2. todo' = Times(k, "ra", Then(rest, Pas))
        BY <1>5, <4>1
      <4> QED BY <1>8, <2>3, <4>2
    <3>3. More(call, rest, inner)'
      BY <2>3, <3>2 DEF More
    <3> QED BY <2>3, <3>3
  <2>5. CASE ~ (k < int_a \div 2)
    <3>1. push_up = [m \in 1 .. int_a - k |-> "rra"]
      BY <2>2, <2>5 DEF push_up
    <3>2. PICK n \in 1 .. int_a : n = int_a - k /\ int_a - n = k
      BY <2>2
    <3>3. todo' = Times(n, "rra", Then(rest, Pas))'
      <4>1. n \in Nat /\ todo' = Append([m \in 1 .. n |-> "rra"], rest) \o Pas
        BY <2>1, <3>1, <3>2
      <4>2. todo' = Times(n, "rra", Then(rest, Pas))
        BY <1>6, <4>1
      <4> QED BY <1>8, <2>3, <4>2
    <3>4. int_a' - n = k
      BY <2>3, <3>2
    <3>5. More(call, rest, inner)'
      BY <2>3, <3>2, <3>3, <3>4 DEF More
    <3> QED BY <2>3, <3>5
  <2> QED BY <2>4, <2>5
<1>10. CASE todo = Then(rest, Pas) /\ SmallestAt(0)
  <2>1. todo' = Body(rest) \o Pas /\ UNCHANGED stacks
    BY <1>1, <1>10, TodoIs
  <2>2. CASE check_order
    <3>1. todo' = Pas
      BY <1>1, <2>1, <2>2, ConcatEmptySeq
    <3>2. todo' = Pas' /\ Apart' /\ Ascends'
      BY <1>4, <2>1, <2>2, <3>1, OrderIs
    <3> QED BY <3>2
  <2>3. CASE ~check_order
    <3>1. todo' = <<"pb", inner, "pa">> \o Pas
      BY <2>1, <2>3
    <3>2. todo' = Then("pb", Then(inner, Then("pa", Pas)))
      <4>1. <<"pb", inner, "pa">> \o Pas = Then("pb", Then(inner, Then("pa", Pas)))
        <5>1. PICK x \in Word, z \in Word : x = "pb" /\ z = "pa"
          BY <1>2
        <5>2. <<x, inner, z>> \o Pas = Then(x, Then(inner, Then(z, Pas)))
          BY <1>1, ThreeWords
        <5> QED BY <5>1, <5>2
      <4> QED BY <3>1, <4>1
    <3>3. todo' = Then("pb", Then(inner, Then("pa", Pas)))'
      BY <1>4, <2>1, <3>2 DEF Then
    <3>4. SmallestAt(0)' /\ ~Ascends' /\ Apart' /\ int_a' = int_a
      BY <1>4, <1>10, <2>1, <2>3, OrderIs
    <3>5. More(call, rest, inner)'
      BY <3>3, <3>4 DEF More
    <3> QED BY <3>4, <3>5
  <2> QED BY <2>2, <2>3
<1>11. ASSUME NEW k \in 0 .. int_a - 1, todo = Times(k, "ra", Then(rest, Pas)), SmallestAt(k), k # 0
       PROVE  Apart' /\ int_a' = int_a /\ More(call, rest, inner)'
  <2>1. k - 1 \in Nat /\ (k - 1) + 1 = k /\ k \in 1 .. int_a - 1
    BY <1>11
  <2>2. todo = Then("ra", Times(k - 1, "ra", Then(rest, Pas)))
    BY <1>7, <1>11, <2>1
  <2>3. ft_rotatea /\ todo' = Times(k - 1, "ra", Then(rest, Pas))
    BY <1>2, <1>7, <2>1, <2>2, TodoIs, Does
  <2>4. UNCHANGED <<int_a, int_b>> /\ Apart' /\ SmallestAt(k - 1)'
    BY <1>11, <2>1, <2>3, RotateA, RotateApart, SmallestTurned
  <2>5. Pas' = Pas
    BY <2>4 DEF Pas
  <2>6. todo' = Times(k - 1, "ra", Then(rest, Pas))'
    BY <1>8, <2>3, <2>5
  <2>7. k - 1 \in 0 .. int_a' - 1
    BY <2>1, <2>4
  <2>8. More(call, rest, inner)'
    BY <2>4, <2>6, <2>7 DEF More
  <2> QED BY <2>4, <2>8
<1>12. ASSUME NEW k \in 1 .. int_a, todo = Times(k, "rra", Then(rest, Pas)), SmallestAt(int_a - k)
       PROVE  Apart' /\ int_a' = int_a /\ More(call, rest, inner)'
  <2>1. k - 1 \in Nat /\ (k - 1) + 1 = k
    BY <1>12
  <2>2. todo = Then("rra", Times(k - 1, "rra", Then(rest, Pas)))
    BY <1>7, <1>12, <2>1
  <2>3. ft_reverse_rotatea /\ todo' = Times(k - 1, "rra", Then(rest, Pas))
    BY <1>2, <1>7, <2>1, <2>2, TodoIs, Does
  <2>4. UNCHANGED <<int_a, int_b>> /\ Apart'
    BY <2>3, ReverseA, ReverseApart
  <2>5. PICK m \in 0 .. int_a - 1 : m = int_a - k
    BY <1>12
  <2>6. SmallestAt(IF m = int_a - 1 THEN 0 ELSE m + 1)'
    BY <1>12, <2>3, <2>5, SmallestTurnedBack
  <2>7. Pas' = Pas
    BY <2>4 DEF Pas
  <2>8. todo' = Times(k - 1, "rra", Then(rest, Pas))'
    BY <1>8, <2>3, <2>7
  <2>9. CASE k = 1
    <3>1. m = int_a' - 1 /\ 0 \in 0 .. int_a' - 1
      BY <2>4, <2>5, <2>9
    <3>2. SmallestAt(0)'
      BY <2>6, <3>1 DEF SmallestAt
    <3>3. todo' = Times(0, "rra", Then(rest, Pas))'
      BY <2>8, <2>9
    <3>4. Times(0, "rra", Then(rest, Pas))' = Times(0, "ra", Then(rest, Pas))'
      BY <1>2, <1>7, <1>8, <2>7
    <3>5. More(call, rest, inner)'
      BY <3>1, <3>2, <3>3, <3>4 DEF More
    <3> QED BY <2>4, <3>5
  <2>10. CASE k # 1
    <3>1. PICK l \in 1 .. int_a : l = k - 1 /\ int_a - l = m + 1 /\ m # int_a - 1
      BY <1>12, <2>5, <2>10
    <3>2. l \in 1 .. int_a' /\ SmallestAt(int_a - l)'
      BY <2>4, <2>6, <3>1 DEF SmallestAt
    <3>3. todo' = Times(l, "rra", Then(rest, Pas))'
      BY <2>8, <3>1
    <3>4. More(call, rest, inner)'
      BY <3>2, <3>3 DEF More
    <3> QED BY <2>4, <3>4
  <2> QED BY <2>9, <2>10
<1>13. CASE todo = Then("pb", Then(inner, Then("pa", Pas))) /\ SmallestAt(0) /\ ~Ascends
  <2>1. Then("pa", Pas) \in Seq(Word)
    BY <1>1, <1>2, ThenIs
  <2>2. Then(inner, Then("pa", Pas)) \in Seq(Word)
    BY <2>1, ThenIs
  <2>3. ft_pushb /\ todo' = Then(inner, Then("pa", Pas))
    BY <1>2, <1>13, <2>2, TodoIs, Does
  <2>4. int_a' = int_a - 1 /\ int_b' = int_b + 1 /\ Apart' /\ ~Ascends'
    BY <1>13, <2>3, PushB, PushBApart
  <2>5. Then("pa", Pas) = Pas'
    <3>1. Then("pa", Pas) = Times(int_b + 1, "pa", <<>>)
      BY <1>1, PasIs
    <3> QED BY <2>4, <3>1 DEF Pas
  <2>6. todo' = Then(inner, Pas)'
    BY <2>3, <2>5 DEF Then
  <2> QED BY <2>4, <2>6
<1>14. ASSUME NEW k \in 0 .. int_a - 1, todo = Times(k, "ra", Then(rest, Pas)), SmallestAt(k), k = 0
       PROVE  todo = Then(rest, Pas) /\ SmallestAt(0)
  BY <1>2, <1>7, <1>14
<1> QED BY <1>9, <1>10, <1>11, <1>12, <1>13, <1>14 DEF More
-----------------------------------------------------------------------------
(* Every procedure sorts *)

LEMMA StageStep ==
    ASSUME Held, Apart, Stage, size \in Nat, Todo
    PROVE  Apart' /\ Stage'
<1>1. int_a \in Nat
  BY DEF Held
<1>2. CASE todo = Pas /\ Ascends
  BY <1>2, OrderedStep DEF Stage
<1>3. CASE int_a = 2 /\ Two
  BY <1>3, TwoStep DEF Stage
<1>4. CASE int_a = 3 /\ Three
  BY <1>4, ThreeStep DEF Stage
<1>5. CASE int_a = 4 /\ More("four_int_alg", "four: rest", "three_int_alg")
  <2>0. int_a = 4 /\ int_a - 1 = 3
    <3>1. int_a = 4
      BY <1>5, Zenon
    <3> QED BY <3>1
  <2>1. /\ Body("four_int_alg") = Append(push_up, "four: rest")
        /\ Body("four: rest") = IF check_order THEN <<>> ELSE <<"pb", "three_int_alg", "pa">>
    BY DEF Body
  <2>2. /\ "four_int_alg" \in Word \ Instruction /\ "four: rest" \in Word \ Instruction
        /\ "three_int_alg" \in Word
    BY Words
  <2>3. /\ Apart'
        /\ \/ todo' = Pas' /\ Ascends'
           \/ int_a' = int_a /\ More("four_int_alg", "four: rest", "three_int_alg")'
           \/ int_a' = int_a - 1 /\ todo' = Then("three_int_alg", Pas)' /\ ~Ascends'
    <3>1. int_a \in Nat /\ int_a > 1
      BY <1>1, <2>0
    <3> QED BY <1>5, <2>1, <2>2, <3>1, MoreStep, Zenon
  <2>4. int_a' = 3 /\ todo' = Then("three_int_alg", Pas)' /\ ~Ascends' => Three'
    BY DEF Three
  <2>5. Stage' \/ ~ (int_a' = 4 /\ More("four_int_alg", "four: rest", "three_int_alg")')
    BY DEF Stage
  <2>6. Stage' \/ ~ (int_a' = 3 /\ Three')
    BY DEF Stage
  <2>7. Stage' \/ ~ (todo' = Pas' /\ Ascends')
    BY DEF Stage
  <2> QED BY <2>0, <2>3, <2>4, <2>5, <2>6, <2>7, Zenon
<1>6. CASE int_a = 5 /\ More("five_int_alg", "five: rest", "four_int_alg")
  <2>0. int_a = 5 /\ int_a - 1 = 4
    <3>1. int_a = 5
      BY <1>6, Zenon
    <3> QED BY <3>1
  <2>1. /\ Body("five_int_alg") = Append(push_up, "five: rest")
        /\ Body("five: rest") = IF check_order THEN <<>> ELSE <<"pb", "four_int_alg", "pa">>
    BY DEF Body
  <2>2. /\ "five_int_alg" \in Word \ Instruction /\ "five: rest" \in Word \ Instruction
        /\ "four_int_alg" \in Word
    BY Words
  <2>3. /\ Apart'
        /\ \/ todo' = Pas' /\ Ascends'
           \/ int_a' = int_a /\ More("five_int_alg", "five: rest", "four_int_alg")'
           \/ int_a' = int_a - 1 /\ todo' = Then("four_int_alg", Pas)' /\ ~Ascends'
    <3>1. int_a \in Nat /\ int_a > 1
      BY <1>1, <2>0
    <3> QED BY <1>6, <2>1, <2>2, <3>1, MoreStep, Zenon
  <2>4. int_a' = 4 /\ todo' = Then("four_int_alg", Pas)'
           => More("four_int_alg", "four: rest", "three_int_alg")'
    BY DEF More
  <2>5. Stage' \/ ~ (int_a' = 5 /\ More("five_int_alg", "five: rest", "four_int_alg")')
    BY DEF Stage
  <2>6. Stage' \/ ~ (int_a' = 4 /\ More("four_int_alg", "four: rest", "three_int_alg")')
    BY DEF Stage
  <2>7. Stage' \/ ~ (todo' = Pas' /\ Ascends')
    BY DEF Stage
  <2> QED BY <2>0, <2>3, <2>4, <2>5, <2>6, <2>7, Zenon
<1> QED BY <1>2, <1>3, <1>4, <1>5, <1>6 DEF Stage

\* The procedure for so many numbers is to begin.
LEMMA StageBegins ==
    ASSUME IInv, Keeps, SortInv, algorithms, int_a < 6
    PROVE  Apart' /\ Stage'
<1>1. size \in Nat
  BY SizeType DEF IInv
<1>2. /\ Held /\ int_a = size /\ int_b = 0 /\ UNCHANGED stacks
      /\ \A k, m \in Index : k # m => pile_a[k] # pile_a[m]
      /\ ~check_order
  BY DEF IInv, Types, Keeps, SortInv, algorithms, Before, Sorting
<1>3. Apart
  BY <1>1, <1>2 DEF Apart, Held, Index
<1>4. Pas = <<>> /\ \A x \in Word : Then(x, Pas) = <<x>>
  <2>1. Pas = <<>>
    BY <1>2, PasIs
  <2>2. ASSUME NEW x \in Word PROVE <<x>> \o <<>> = <<x>>
    BY OneWord, ConcatEmptySeq
  <2> QED BY <2>1, <2>2 DEF Then
<1>5. UNCHANGED <<pile_a, int_a, pile_b, int_b>> /\ Pas' = Pas /\ Apart'
      /\ (Ascends <=> Ascends')
      /\ \A x \in Word : Then(x, Pas)' = Then(x, Pas)
  BY <1>2, <1>3 DEF Pas, stacks, Apart, Ascends, Then
<1>6. ~Ascends
  BY <1>1, <1>2, <1>3, OrderIs
<1>7. int_a \in {0, 1, 2, 3, 4, 5}
  BY <1>2 DEF Held
<1>8. CASE int_a \in {0, 1}
  BY <1>6, <1>8 DEF Ascends
<1>9. CASE int_a = 2
  <2>1. todo' = <<"two_args_alg">>
    BY <1>9 DEF algorithms
  <2>2. Two'
    BY <1>4, <1>5, <2>1, Words DEF Two
  <2> QED BY <1>5, <1>9, <2>2 DEF Stage
<1>10. CASE int_a = 3
  <2>1. todo' = <<"three_int_alg">>
    BY <1>10 DEF algorithms
  <2>2. Three'
    BY <1>4, <1>5, <1>6, <2>1, Words DEF Three
  <2> QED BY <1>5, <1>10, <2>2 DEF Stage
<1>11. CASE int_a = 4
  <2>1. todo' = <<"four_int_alg">>
    BY <1>11 DEF algorithms
  <2>2. More("four_int_alg", "four: rest", "three_int_alg")'
    BY <1>4, <1>5, <2>1, Words DEF More
  <2> QED BY <1>5, <1>11, <2>2 DEF Stage
<1>12. CASE int_a = 5
  <2>1. todo' = <<"five_int_alg">>
    BY <1>12 DEF algorithms
  <2>2. More("five_int_alg", "five: rest", "four_int_alg")'
    BY <1>4, <1>5, <2>1, Words DEF More
  <2> QED BY <1>5, <1>12, <2>2 DEF Stage
<1> QED BY <1>7, <1>8, <1>9, <1>10, <1>11, <1>12

\* When nothing is left to do, stack a has all the numbers in order.
LEMMA StageEnds ==
    ASSUME Held, Stage, size \in Nat, todo = <<>>
    PROVE  int_a = size /\ Ascends
<1>1. Pas \in Seq(Word) /\ int_b \in Nat /\ int_a \in Nat /\ int_a + int_b = size
  BY PasIs DEF Held
<1>2. \A x \in Word, s \in Seq(Word) : Then(x, s) \in Seq(Word) /\ Then(x, s) # <<>>
  BY ThenIs
<1>3. \A x, y \in Word, n \in Nat : Times(n, x, Then(y, Pas)) # <<>>
  <2> SUFFICES ASSUME NEW x \in Word, NEW y \in Word, NEW n \in Nat
               PROVE  Times(n, x, Then(y, Pas)) # <<>>
    OBVIOUS
  <2> DEFINE s == Then(y, Pas)
  <2>1. s \in Seq(Word) /\ s # <<>>
    BY <1>1, <1>2
  <2> HIDE DEF s
  <2>2. Times(0, x, s) = s
    BY <2>1, TimesIs
  <2>3. ASSUME n # 0 PROVE Times(n, x, s) # <<>>
    <3>1. n - 1 \in Nat /\ (n - 1) + 1 = n
      BY <2>3
    <3>2. Times(n - 1, x, s) \in Seq(Word)
          /\ Times((n - 1) + 1, x, s) = Then(x, Times(n - 1, x, s))
      BY <2>1, <3>1, TimesIs
    <3> QED BY <1>2, <3>1, <3>2
  <2>4. Times(n, x, s) # <<>>
    BY <2>1, <2>2, <2>3
  <2> QED BY <2>4 DEF s
<1>4. /\ "sa" \in Word /\ "ra" \in Word /\ "rra" \in Word /\ "pa" \in Word /\ "pb" \in Word
      /\ {"two_args_alg", "three_int_alg", "four_int_alg", "five_int_alg",
          "four: rest", "five: rest"} \subseteq Word
  BY Words
<1>5. ~Two
  BY <1>1, <1>2, <1>4 DEF Two
<1>6. ~Three
  BY <1>1, <1>2, <1>4 DEF Three
<1>7. ASSUME NEW call \in Word, NEW rest \in Word, NEW inner \in Word,
             More(call, rest, inner)
      PROVE  FALSE
  <2>1. Then(call, Pas) # <<>> /\ Then("pb", Then(inner, Then("pa", Pas))) # <<>>
    BY <1>1, <1>2, <1>4
  <2>2. \A k \in 0 .. int_a - 1 : Times(k, "ra", Then(rest, Pas)) # <<>>
    <3> SUFFICES ASSUME NEW k \in 0 .. int_a - 1
                 PROVE  Times(k, "ra", Then(rest, Pas)) # <<>>
      OBVIOUS
    <3>1. k \in Nat
      OBVIOUS
    <3> QED BY <1>3, <1>4, <3>1
  <2>3. \A k \in 1 .. int_a : Times(k, "rra", Then(rest, Pas)) # <<>>
    <3> SUFFICES ASSUME NEW k \in 1 .. int_a
                 PROVE  Times(k, "rra", Then(rest, Pas)) # <<>>
      OBVIOUS
    <3>1. k \in Nat
      OBVIOUS
    <3> QED BY <1>3, <1>4, <3>1
  <2> QED BY <1>7, <2>1, <2>2, <2>3 DEF More
<1>8. todo = Pas /\ Ascends
  BY <1>4, <1>5, <1>6, <1>7 DEF Stage
<1>9. int_b = 0
  <2>1. int_b > 0 => Pas # <<>>
    BY <1>1, <1>2, <1>4, PasIs
  <2> QED BY <1>1, <1>8, <2>1
<1> QED BY <1>1, <1>8, <1>9

\* Ranks are out of order where the numbers are.
LEMMA RanksOutOfOrder ==
    ASSUME IInv, ~check_order, ft_normalize
    PROVE  ~check_order'
<1>1. size \in Nat /\ Index' = Index /\ Index = 0 .. size - 1
  BY SizeType DEF IInv, ft_normalize, size, words, Index
<1>2. /\ \A k \in Index : pile_a[k] \in Int
      /\ \A k, m \in Index : k # m => pile_a[k] # pile_a[m]
      /\ int_a = size /\ int_a' = int_a
      /\ pile_a' = [k \in Index |-> rank(pile_a, k)]
  BY DEF IInv, Types, ft_normalize, Before
<1>3. PICK k \in 0 .. int_a - 2 : ~ (pile_a[k] <= pile_a[k + 1])
  BY DEF check_order
<1>4. k \in Index /\ k + 1 \in Index /\ pile_a[k + 1] < pile_a[k]
  BY <1>1, <1>2, <1>3
<1>5. /\ rank(pile_a, k) \in Int /\ rank(pile_a, k + 1) \in Int
      /\ rank(pile_a, k + 1) < rank(pile_a, k)
  BY <1>1, <1>2, <1>4, RankType
<1>6. ~ (pile_a'[k] <= pile_a'[k + 1])
  BY <1>2, <1>4, <1>5
<1> QED BY <1>2, <1>3, <1>6 DEF check_order

LEMMA SortStep ==
    ASSUME IInv, Keeps, SortInv, [Next]_vars
    PROVE  SortInv'
<1>1. size \in Nat
  BY SizeType DEF IInv
<1>2. CASE main
  BY <1>2 DEF SortInv, main, Sorts
<1>3. CASE Check
  <2>1. /\ pc' \in {"error", "exit", "normalize"}
        /\ pc' = "normalize" => ~check_order
        /\ pc' = "exit" => check_order /\ ~check_doubles
        /\ UNCHANGED <<pile_a, int_a, input>>
    BY <1>3 DEF Check, stacks
  <2>2. int_a = size /\ \A k \in 0 .. size - 1 : pile_a[k] \in Int
    BY <1>3 DEF IInv, Types, Check, Before, Index
  <2>3. check_order' = check_order /\ size' = size /\ Index' = Index
    BY <2>1 DEF check_order, size, words, Index
  <2>4. ASSUME check_order, ~check_doubles
        PROVE  \A k, m \in Index : k < m => pile_a[k] < pile_a[m]
    <3>1. \A k, m \in 0 .. size - 1 : k < m => pile_a[k] <= pile_a[m]
      BY <1>1, <2>2, <2>4, NeighboursInOrder DEF check_order
    <3> QED BY <2>2, <2>4, <3>1 DEF check_doubles, Index
  <2>5. Sorts'
    BY <2>1, <2>2, <2>3, <2>4 DEF Sorts
  <2> QED BY <2>1, <2>3, <2>5 DEF SortInv
<1>4. CASE ft_normalize
  <2>1. pc = "normalize" /\ pc' = "algorithms"
    BY <1>4 DEF ft_normalize
  <2>2. ~check_order'
    BY <1>4, <2>1, RanksOutOfOrder DEF SortInv
  <2> QED BY <2>1, <2>2 DEF SortInv, Sorts
<1>5. CASE algorithms
  <2>1. pc' = IF int_a >= 6 THEN "big_algorithm" ELSE "todo"
    BY <1>5 DEF algorithms
  <2>2. pc' = "todo" => int_a < 6
    BY <1>1, <2>1 DEF Keeps
  <2> QED BY <1>5, <2>1, <2>2, StageBegins DEF SortInv, Sorts
<1>6. CASE Todo
  <2>1. pc = "todo" /\ pc' = "todo"
    BY <1>6 DEF Todo
  <2>2. Apart' /\ Stage'
    BY <1>1, <1>6, <2>1, StageStep DEF SortInv, Keeps, Sorting
  <2> QED BY <2>1, <2>2 DEF SortInv, Sorts
<1>7. CASE AllDone
  <2>1. /\ pc = "todo" /\ pc' = "exit" /\ todo = <<>>
        /\ UNCHANGED <<pile_a, int_a, input>>
    BY <1>7 DEF AllDone, stacks
  <2>2. int_a = size /\ Ascends
    BY <1>1, <2>1, StageEnds DEF SortInv, Keeps, Sorting
  <2>3. size' = size /\ Index' = Index /\ Index = 0 .. size - 1
    BY <2>1 DEF size, words, Index
  <2>4. Sorts'
    BY <2>1, <2>2, <2>3 DEF Sorts, Ascends
  <2> QED BY <2>1, <2>4 DEF SortInv
<1>8. CASE big_algorithm
  <2>1. Sorts' /\ pc' \in {"exit", "turn"}
    BY <1>8, LastPass DEF big_algorithm
  <2> QED BY <2>1 DEF SortInv
<1>9. CASE Turn \/ PassOver \/ Back \/ NextBit
  <2>1. pc' \in Radix
    BY <1>9 DEF Turn, PassOver, Back, NextBit, Radix
  <2> QED BY <2>1 DEF SortInv, Sorts, Radix
<1>10. CASE UNCHANGED vars
  BY <1>10 DEF SortInv, vars, stacks, Sorts, Apart, Stage, Two, Three, More, Ascends,
               InOrder, SmallestAt, Pas, Times, Then, check_order, size, words, Index
<1> QED BY <1>2, <1>3, <1>4, <1>5, <1>6, <1>7, <1>8, <1>9, <1>10 DEF Next

\* When the program exits without an error, all the numbers are in stack a in
\* strict order, whichever procedure sorted them and for any count of them.
THEOREM SortsAll == Spec => []Sorts
<1>1. Init => Keeps
  BY InitInv, SizeType DEF Init, Keeps, IInv, Sorting
<1>2. Init => SortInv
  BY DEF Init, SortInv, Sorts
<1>3. SortInv => Sorts
  BY DEF SortInv
<1> QED BY <1>1, <1>2, <1>3, KeepsStep, SortStep, Invariance, PTL DEF Spec
-----------------------------------------------------------------------------
(* The stacks as sequences *)

\* The n first numbers of an array, by their ranks.
Shown(value, pile, n) == [k \in 1 .. n |-> value[pile[k - 1]]]
Shows(value, pile, n) == \A k \in 0 .. n - 1 : value[pile[k]] \in Int

LEMMA ShownIs ==
    ASSUME NEW value, NEW pile, NEW n \in Nat, Shows(value, pile, n)
    PROVE  /\ Shown(value, pile, n) \in Seq(Int)
           /\ Len(Shown(value, pile, n)) = n
           /\ \A k \in 1 .. n : Shown(value, pile, n)[k] = value[pile[k - 1]]
           /\ Shown(value, pile, n) = <<>> <=> n = 0
<1> DEFINE s == [k \in 1 .. n |-> value[pile[k - 1]]]
<1>1. \A k \in 1 .. n : value[pile[k - 1]] \in Int
  <2> SUFFICES ASSUME NEW k \in 1 .. n PROVE value[pile[k - 1]] \in Int
    OBVIOUS
  <2>1. k - 1 \in 0 .. n - 1
    OBVIOUS
  <2> QED BY <2>1 DEF Shows
<1>2. s \in [1 .. n -> Int]
  BY <1>1
<1>3. s \in Seq(Int) /\ Len(s) = n
  <2> HIDE DEF s
  <2> QED BY <1>2, IsASeq
<1>4. \A k \in 1 .. n : s[k] = value[pile[k - 1]]
  OBVIOUS
<1>5. s = <<>> <=> n = 0
  <2> HIDE DEF s
  <2> QED BY <1>3, EmptySeq
<1> QED BY <1>3, <1>4, <1>5 DEF Shown

\* Sequences of integers that have the same elements.
LEMMA SameNumbers ==
    ASSUME NEW s \in Seq(Int), NEW t \in Seq(Int), NEW n \in Nat, Len(s) = n, Len(t) = n,
           \A k \in 1 .. n : s[k] = t[k]
    PROVE  s = t
  BY SeqEqual

LEMMA Joined ==
    ASSUME NEW s \in Seq(Int), NEW t \in Seq(Int)
    PROVE  /\ s \o t \in Seq(Int)
           /\ Len(s \o t) = Len(s) + Len(t)
           /\ \A k \in 1 .. Len(s) + Len(t) :
                 (s \o t)[k] = IF k <= Len(s) THEN s[k] ELSE t[k - Len(s)]
  BY ConcatProperties, Zenon

LEMMA OneNumber ==
    ASSUME NEW x \in Int, NEW s \in Seq(Int)
    PROVE  /\ <<x>> \o s \in Seq(Int)
           /\ Len(<<x>> \o s) = 1 + Len(s)
           /\ \A k \in 1 .. 1 + Len(s) : (<<x>> \o s)[k] = IF k = 1 THEN x ELSE s[k - 1]
<1> DEFINE one == <<x>>
           joined == one \o s
<1>1. one \in Seq(Int) /\ Len(one) = 1 /\ one[1] = x
  OBVIOUS
<1>2. Len(s) \in Nat
  BY LenProperties
<1> HIDE DEF one
<1>3. /\ joined \in Seq(Int) /\ Len(joined) = Len(one) + Len(s)
      /\ \A k \in 1 .. Len(one) + Len(s) :
            joined[k] = IF k <= Len(one) THEN one[k] ELSE s[k - Len(one)]
  BY <1>1, Joined
<1> HIDE DEF joined
<1>4. /\ joined \in Seq(Int) /\ Len(joined) = 1 + Len(s)
      /\ \A k \in 1 .. 1 + Len(s) : joined[k] = IF k = 1 THEN x ELSE s[k - 1]
  BY <1>1, <1>2, <1>3
<1> QED BY <1>4 DEF joined, one

\* An element goes to the top of a stack.
LEMMA ShownPushed ==
    ASSUME NEW value, NEW f, NEW g, NEW n \in Nat, Shows(value, f, n),
           value[g[0]] \in Int, \A k \in 1 .. n : g[k] = f[k - 1]
    PROVE  /\ Shown(value, g, n + 1) = <<value[g[0]]>> \o Shown(value, f, n)
           /\ Shows(value, g, n + 1)
<1> DEFINE s == Shown(value, f, n)
           t == Shown(value, g, n + 1)
           x == value[g[0]]
           u == <<x>> \o s
<1>1. s \in Seq(Int) /\ Len(s) = n /\ \A k \in 1 .. n : s[k] = value[f[k - 1]]
  BY ShownIs
<1>2. Shows(value, g, n + 1)
  <2> SUFFICES ASSUME NEW k \in 0 .. n PROVE value[g[k]] \in Int
    BY DEF Shows
  <2>1. k = 0 \/ (k \in 1 .. n /\ k - 1 \in 0 .. n - 1)
    OBVIOUS
  <2> QED BY <2>1 DEF Shows
<1>3. t \in Seq(Int) /\ Len(t) = n + 1 /\ \A k \in 1 .. n + 1 : t[k] = value[g[k - 1]]
  BY <1>2, ShownIs
<1> HIDE DEF s, t
<1>4. /\ u \in Seq(Int) /\ Len(u) = n + 1
      /\ \A k \in 1 .. n + 1 : u[k] = IF k = 1 THEN x ELSE s[k - 1]
  BY <1>1, OneNumber
<1>5. ASSUME NEW k \in 1 .. n + 1 PROVE t[k] = u[k]
  <2>1. CASE k = 1
    BY <1>3, <1>4, <2>1
  <2>2. CASE k # 1
    <3>1. k - 1 \in 1 .. n /\ g[k - 1] = f[(k - 1) - 1]
      BY <2>2
    <3>2. t[k] = value[f[(k - 1) - 1]]
      BY <1>3, <3>1
    <3>3. u[k] = s[k - 1]
      BY <1>4, <2>2
    <3> QED BY <1>1, <3>1, <3>2, <3>3
  <2> QED BY <2>1, <2>2
<1> HIDE DEF u
<1>6. t = u
  BY <1>3, <1>4, <1>5, SameNumbers
<1> QED BY <1>2, <1>6 DEF s, t, u

\* The element at the top leaves.
LEMMA ShownPopped ==
    ASSUME NEW value, NEW f, NEW g, NEW n \in Nat \ {0}, Shows(value, f, n),
           \A k \in 0 .. n - 2 : g[k] = f[k + 1]
    PROVE  /\ Shown(value, f, n) # <<>>
           /\ Shown(value, f, n)[1] = value[f[0]]
           /\ Tail(Shown(value, f, n)) = Shown(value, g, n - 1)
           /\ Shows(value, g, n - 1)
<1> DEFINE s == Shown(value, f, n)
           t == Shown(value, g, n - 1)
<1>1. /\ s \in Seq(Int) /\ Len(s) = n /\ \A k \in 1 .. n : s[k] = value[f[k - 1]]
      /\ s # <<>>
  BY ShownIs
<1>2. Shows(value, g, n - 1)
  BY DEF Shows
<1>3. t \in Seq(Int) /\ Len(t) = n - 1 /\ \A k \in 1 .. n - 1 : t[k] = value[g[k - 1]]
  BY <1>2, ShownIs
<1> HIDE DEF s, t
<1>4. /\ Tail(s) \in Seq(Int) /\ Len(Tail(s)) = n - 1
      /\ \A k \in 1 .. n - 1 : Tail(s)[k] = s[k + 1]
  BY <1>1, HeadTailProperties
<1>5. ASSUME NEW k \in 1 .. n - 1 PROVE Tail(s)[k] = t[k]
  <2>1. k + 1 \in 1 .. n /\ (k + 1) - 1 = k /\ k - 1 \in 0 .. n - 2 /\ (k - 1) + 1 = k
    OBVIOUS
  <2>2. Tail(s)[k] = value[f[k]]
    BY <1>1, <1>4, <2>1
  <2>3. t[k] = value[f[k]]
    <3>1. t[k] = value[g[k - 1]]
      BY <1>3
    <3>2. g[k - 1] = f[(k - 1) + 1]
      BY <2>1
    <3> QED BY <2>1, <3>1, <3>2
  <2> QED BY <2>2, <2>3
<1>6. n - 1 \in Nat
  OBVIOUS
<1>7. Tail(s) = t
  BY <1>3, <1>4, <1>5, <1>6, SameNumbers
<1>8. s[1] = value[f[0]]
  BY <1>1
<1> QED BY <1>1, <1>2, <1>7, <1>8 DEF s, t

\* The element at the top goes to the bottom.
LEMMA ShownRotated ==
    ASSUME NEW value, NEW f, NEW g, NEW n \in Nat \ {0}, Shows(value, f, n),
           g[n - 1] = f[0], \A k \in 0 .. n - 2 : g[k] = f[k + 1]
    PROVE  Shown(value, g, n)
              = Append(Tail(Shown(value, f, n)), Shown(value, f, n)[1])
<1> DEFINE s == Shown(value, f, n)
           t == Shown(value, g, n)
           r == Shown(value, g, n - 1)
           x == value[f[0]]
<1>1. s[1] = x /\ Tail(s) = r /\ Shows(value, g, n - 1)
  BY ShownPopped
<1>2. x \in Int /\ n - 1 \in Nat
  BY DEF Shows
<1>3. Shows(value, g, n)
  <2> SUFFICES ASSUME NEW k \in 0 .. n - 1 PROVE value[g[k]] \in Int
    BY DEF Shows
  <2>1. k = n - 1 \/ k \in 0 .. n - 2
    OBVIOUS
  <2> QED BY <1>1, <1>2, <2>1 DEF Shows
<1>4. r \in Seq(Int) /\ Len(r) = n - 1 /\ \A k \in 1 .. n - 1 : r[k] = value[g[k - 1]]
  BY <1>1, <1>2, ShownIs
<1>5. t \in Seq(Int) /\ Len(t) = n /\ \A k \in 1 .. n : t[k] = value[g[k - 1]]
  BY <1>3, ShownIs
<1>6. t[n] = x
  BY <1>5
<1> HIDE DEF s, t, r, x
<1> DEFINE u == Append(r, x)
<1>7. /\ u \in Seq(Int) /\ Len(u) = n
      /\ \A k \in 1 .. n - 1 : u[k] = r[k]
      /\ u[n] = x
  BY <1>2, <1>4, AppendProperties
<1>8. \A k \in 1 .. n : t[k] = u[k]
  <2> SUFFICES ASSUME NEW k \in 1 .. n PROVE t[k] = u[k]
    OBVIOUS
  <2>1. k = n \/ k \in 1 .. n - 1
    OBVIOUS
  <2> HIDE DEF u
  <2> QED BY <1>4, <1>5, <1>6, <1>7, <2>1
<1> HIDE DEF u
<1>9. t = u
  BY <1>5, <1>7, <1>8, SameNumbers
<1> QED BY <1>1, <1>9 DEF s, t, u

\* The element at the bottom goes to the top.
LEMMA ShownReversed ==
    ASSUME NEW value, NEW f, NEW g, NEW n \in Nat \ {0}, Shows(value, f, n),
           g[0] = f[n - 1], \A k \in 1 .. n - 1 : g[k] = f[k - 1]
    PROVE  LET s == Shown(value, f, n)
           IN  Shown(value, g, n) = <<s[Len(s)]>> \o SubSeq(s, 1, Len(s) - 1)
<1> DEFINE s == Shown(value, f, n)
           t == Shown(value, g, n)
           r == Shown(value, f, n - 1)
           q == SubSeq(s, 1, n - 1)
           x == value[f[n - 1]]
<1>1. n - 1 \in Nat /\ x \in Int /\ Shows(value, f, n - 1)
  BY DEF Shows
<1>2. s \in Seq(Int) /\ Len(s) = n /\ \A k \in 1 .. n : s[k] = value[f[k - 1]]
  BY ShownIs
<1>3. r \in Seq(Int) /\ Len(r) = n - 1 /\ \A k \in 1 .. n - 1 : r[k] = value[f[k - 1]]
  BY <1>1, ShownIs
<1>4. t = <<x>> \o r
  <2>1. Shown(value, g, (n - 1) + 1) = <<value[g[0]]>> \o r
    BY <1>1, ShownPushed
  <2>2. (n - 1) + 1 = n
    OBVIOUS
  <2> QED BY <2>1, <2>2
<1>5. s[n] = x
  BY <1>2
<1> HIDE DEF s, r, t, x
<1>6. q \in Seq(Int) /\ Len(q) = n - 1 /\ \A k \in 1 .. n - 1 : q[k] = s[k]
  BY <1>1, <1>2, SubSeqProperties
<1> HIDE DEF q
<1>7. q = r
  <2>1. \A k \in 1 .. n - 1 : k \in 1 .. n
    OBVIOUS
  <2>2. \A k \in 1 .. n - 1 : q[k] = r[k]
    BY <1>2, <1>3, <1>6, <2>1
  <2> QED BY <1>1, <1>3, <1>6, <2>2, SameNumbers
<1>8. t = <<s[Len(s)]>> \o SubSeq(s, 1, Len(s) - 1)
  BY <1>2, <1>4, <1>5, <1>7 DEF q
<1> QED BY <1>8 DEF s, t

\* The two elements at the top change places.
LEMMA ShownSwapped ==
    ASSUME NEW value, NEW f, NEW g, NEW n \in Nat, n > 1, Shows(value, f, n),
           g[0] = f[1], g[1] = f[0], \A k \in 2 .. n - 1 : g[k] = f[k]
    PROVE  LET s == Shown(value, f, n)
           IN  Shown(value, g, n) = <<s[2], s[1]>> \o SubSeq(s, 3, Len(s))
<1> DEFINE s == Shown(value, f, n)
           t == Shown(value, g, n)
           q == SubSeq(s, 3, n)
           two == <<s[2], s[1]>>
           u == two \o q
<1>1. s \in Seq(Int) /\ Len(s) = n /\ \A k \in 1 .. n : s[k] = value[f[k - 1]]
  BY ShownIs
<1>2. s[1] \in Int /\ s[2] \in Int /\ s[1] = value[f[0]] /\ s[2] = value[f[1]]
  BY <1>1 DEF Shows
<1>3. Shows(value, g, n)
  <2> SUFFICES ASSUME NEW k \in 0 .. n - 1 PROVE value[g[k]] \in Int
    BY DEF Shows
  <2>1. k = 0 \/ k = 1 \/ k \in 2 .. n - 1
    OBVIOUS
  <2> QED BY <2>1 DEF Shows
<1>4. t \in Seq(Int) /\ Len(t) = n /\ \A k \in 1 .. n : t[k] = value[g[k - 1]]
  BY <1>3, ShownIs
<1> HIDE DEF s, t
<1>5. q \in Seq(Int) /\ Len(q) = n - 2 /\ \A k \in 1 .. n - 2 : q[k] = s[k + 2]
  <2>1. \A k \in 3 .. n : s[k] \in Int
    BY <1>1, LenProperties
  <2>2. q \in Seq(Int)
    BY <1>1, SubSeqProperties
  <2>3. Len(q) = n - 2 /\ \A k \in 1 .. n - 2 : q[k] = s[k + 2]
    BY <1>1
  <2> QED BY <2>2, <2>3
<1>6. two \in Seq(Int) /\ Len(two) = 2 /\ two[1] = s[2] /\ two[2] = s[1]
  BY <1>2
<1> HIDE DEF two, q
<1>7. /\ u \in Seq(Int) /\ Len(u) = Len(two) + Len(q)
      /\ \A k \in 1 .. Len(two) + Len(q) : u[k] = IF k <= Len(two) THEN two[k] ELSE q[k - Len(two)]
  BY <1>5, <1>6, Joined
<1> HIDE DEF u
<1>8. /\ u \in Seq(Int) /\ Len(u) = n
      /\ \A k \in 1 .. n : u[k] = IF k <= 2 THEN two[k] ELSE q[k - 2]
  BY <1>5, <1>6, <1>7
<1>9. ASSUME NEW k \in 1 .. n PROVE t[k] = u[k]
  <2>1. CASE k = 1 \/ k = 2
    <3>1. u[k] = two[k]
      BY <1>8, <2>1
    <3>2. CASE k = 1
      BY <1>2, <1>4, <1>6, <3>1, <3>2
    <3>3. CASE k = 2
      BY <1>2, <1>4, <1>6, <3>1, <3>3
    <3> QED BY <2>1, <3>2, <3>3
  <2>2. CASE k \in 3 .. n
    <3>1. k - 1 \in 2 .. n - 1 /\ k - 2 \in 1 .. n - 2 /\ (k - 2) + 2 = k
      BY <2>2
    <3>2. u[k] = s[k]
      <4>1. u[k] = q[k - 2]
        BY <1>8, <2>2
      <4>2. q[k - 2] = s[(k - 2) + 2]
        BY <1>5, <3>1
      <4> QED BY <3>1, <4>1, <4>2
    <3> QED BY <1>1, <1>4, <3>1, <3>2
  <2> QED BY <2>1, <2>2
<1>10. t = u
  BY <1>4, <1>8, <1>9, SameNumbers
<1>11. t = <<s[2], s[1]>> \o SubSeq(s, 3, Len(s))
  BY <1>1, <1>10 DEF u, two, q
<1> QED BY <1>11 DEF s, t

\* Different integers: each has as many above it as its rank says, and no other
\* has as many.
LEMMA SortedIs ==
    ASSUME size \in Nat, \A k \in Index : given[k] \in Int,
           \A k, m \in Index : k # m => given[k] # given[m]
    PROVE  \A k \in Index : /\ rank(given, k) \in 1 .. size
                            /\ Sorted[rank(given, k)] = given[k]
<1> DEFINE all == {given[k] : k \in Index}
           More1(n) == {m \in all : m > n}
           Above(k) == {m \in Index : given[k] < given[m]}
<1>1. /\ \A k \in Index : rank(given, k) \in 1 .. size
      /\ \A k, m \in Index : given[k] < given[m] => rank(given, k) < rank(given, m)
  BY RankType
<1>2. ASSUME NEW k \in Index PROVE Cardinality(More1(given[k])) = size - rank(given, k)
  <2> DEFINE f == [m \in Above(k) |-> given[m]]
  <2>1. f \in Bijection(Above(k), More1(given[k]))
    <3>1. f \in [Above(k) -> More1(given[k])]
      OBVIOUS
    <3>2. \A m, l \in Above(k) : f[m] = f[l] => m = l
      OBVIOUS
    <3>3. \A n \in More1(given[k]) : \E m \in Above(k) : f[m] = n
      OBVIOUS
    <3> HIDE DEF f, More1, Above
    <3>4. f \in Injection(Above(k), More1(given[k]))
      BY <3>1, <3>2 DEF Injection, IsInjective
    <3>5. f \in Surjection(Above(k), More1(given[k]))
      BY <3>1, <3>3 DEF Surjection
    <3> QED BY <3>4, <3>5 DEF Bijection
  <2>2. IsFiniteSet(Above(k)) /\ Cardinality(Above(k)) \in Nat
    <3>1. IsFiniteSet(Index)
      BY FS_Interval DEF Index
    <3>2. Above(k) \in SUBSET Index
      OBVIOUS
    <3> HIDE DEF Above
    <3> QED BY <3>1, <3>2, FS_Subset, FS_CardinalityType
  <2>3. Cardinality(More1(given[k])) = Cardinality(Above(k))
    <3> HIDE DEF f, More1, Above
    <3> QED BY <2>1, <2>2, FS_Bijection DEF ExistsBijection
  <2>4. rank(given, k) = size - Cardinality(Above(k))
    BY DEF rank
  <2> HIDE DEF More1, Above
  <2> QED BY <2>2, <2>3, <2>4
<1>3. ASSUME NEW k \in Index, NEW m \in Index, rank(given, k) = rank(given, m)
      PROVE  k = m
  <2>1. given[k] \in Int /\ given[m] \in Int
    OBVIOUS
  <2>2. rank(given, k) \in Int /\ rank(given, m) \in Int
    BY <1>1
  <2>3. ~ (given[k] < given[m]) /\ ~ (given[m] < given[k])
    BY <1>1, <1>3, <2>2
  <2> QED BY <2>1, <2>3
<1> SUFFICES ASSUME NEW k \in Index PROVE Sorted[rank(given, k)] = given[k]
  BY <1>1
<1> DEFINE r == rank(given, k)
<1>4. r \in 1 .. size
  BY <1>1
<1>5. Sorted[r] = CHOOSE n \in all : Cardinality(More1(n)) = size - r
  <2> HIDE DEF r
  <2> QED BY <1>4 DEF Sorted
<1> HIDE DEF More1
<1>6. given[k] \in all /\ Cardinality(More1(given[k])) = size - r
  BY <1>2
<1>7. ASSUME NEW n \in all, Cardinality(More1(n)) = size - r PROVE n = given[k]
  <2>1. PICK m \in Index : n = given[m]
    OBVIOUS
  <2>2. Cardinality(More1(given[m])) = size - rank(given, m)
    BY <1>2
  <2>3. size - rank(given, m) = size - r /\ rank(given, m) \in Int /\ r \in Int
    BY <1>1, <1>4, <1>7, <2>1, <2>2
  <2>4. rank(given, m) = rank(given, k)
    BY <2>3
  <2> QED BY <1>3, <2>1, <2>4
<1> HIDE DEF all, r
<1> QED BY <1>5, <1>6, <1>7 DEF r
-----------------------------------------------------------------------------
(* The instructions are those of the machine *)

\* The numbers are read before they are sorted, and sorted only if they must be.
Distinct ==
    /\ \A k \in Index : given[k] \in Int
    /\ \A k, m \in Index : k # m => given[k] # given[m]

ReadInv ==
    /\ pc \in Before \cup {"main"} => out = <<>>
    /\ pc \in {"check", "normalize"} => given = pile_a
    /\ pc \in {"normalize"} \cup Sorting => Distinct /\ Ranked

LEMMA ReadStep ==
    ASSUME IInv, SortInv, ReadInv, [Next]_vars
    PROVE  ReadInv'
<1>1. input' = input
  BY DEF Next, vars, main, Check, ft_normalize, algorithms, Todo, AllDone, big_algorithm,
         Turn, PassOver, Back, NextBit
<1>2. size \in Nat /\ size' = size /\ Index' = Index /\ Index = 0 .. size - 1
  BY <1>1, SizeType DEF IInv, size, words, Index
<1>3. given' = given => (Distinct => Distinct') /\ (Ranked => Ranked')
  BY <1>2 DEF Distinct, Ranked
<1>4. CASE main
  BY <1>4 DEF ReadInv, main, Before, Sorting
<1>5. CASE Check
  <2>1. /\ pc = "check" /\ pc' \in {"error", "exit", "normalize"}
        /\ pc' = "normalize" => ~check_order /\ ~check_doubles
        /\ UNCHANGED <<pile_a, given, out>>
    BY <1>5 DEF Check, stacks
  <2>2. /\ given = pile_a /\ int_a = size
        /\ \A k \in Index : pile_a[k] \in Int
    BY <2>1 DEF ReadInv, IInv, Types, Before
  <2>3. ASSUME ~check_order, ~check_doubles PROVE Distinct /\ Ranked
    <3>1. Distinct
      BY <1>2, <2>2, <2>3 DEF Distinct, check_doubles
    <3>2. PICK k \in 0 .. size - 2 : ~ (given[k] <= given[k + 1])
      BY <2>2, <2>3 DEF check_order
    <3>3. k \in Index /\ k + 1 \in Index /\ k < k + 1
      BY <1>2
    <3>4. ~ (given[k] < given[k + 1])
      BY <2>2, <3>2, <3>3
    <3> QED BY <3>1, <3>3, <3>4 DEF Ranked
  <2> QED BY <1>3, <2>1, <2>2, <2>3 DEF ReadInv, Before, Sorting
<1>6. CASE ft_normalize
  <2>1. pc = "normalize" /\ pc' = "algorithms" /\ UNCHANGED <<given, out>>
    BY <1>6 DEF ft_normalize
  <2> QED BY <1>3, <2>1 DEF ReadInv, Before, Sorting
<1>7. CASE algorithms \/ Todo \/ AllDone \/ big_algorithm \/ Turn \/ PassOver \/ Back \/ NextBit
  <2>1. pc \in Sorting /\ pc' \in (Sorting \ {"algorithms"}) \cup {"exit"} /\ given' = given
    BY <1>7 DEF algorithms, Todo, AllDone, big_algorithm, Turn, PassOver, Back, NextBit, Sorting
  <2> QED BY <1>3, <2>1 DEF ReadInv, Before, Sorting
<1>8. CASE UNCHANGED vars
  BY <1>3, <1>8 DEF ReadInv, vars, stacks
<1> QED BY <1>4, <1>5, <1>6, <1>7, <1>8 DEF Next

\* The value of every rank is a number.
LEMMA ValuesAreNumbers ==
    ASSUME Distinct, size \in Nat
    PROVE  \A r \in 1 .. size : Sorted[r] \in Int
<1>1. \A k \in Index : rank(given, k) \in 1 .. size /\ Sorted[rank(given, k)] = given[k]
  BY SortedIs DEF Distinct
<1>2. \A k, m \in Index : k # m => rank(given, k) # rank(given, m)
  <2> SUFFICES ASSUME NEW k \in Index, NEW m \in Index, rank(given, k) = rank(given, m)
               PROVE  k = m
    OBVIOUS
  <2>1. given[k] = given[m]
    BY <1>1
  <2> QED BY <2>1 DEF Distinct
<1> DEFINE ranks == [k \in Index |-> rank(given, k)]
<1>3. /\ \A k \in Index : ranks[k] \in 1 .. size
      /\ \A k, m \in Index : k # m => ranks[k] # ranks[m]
  BY <1>1, <1>2
<1>4. \A r \in 1 .. size : \E k \in Index : ranks[k] = r
  <2> HIDE DEF ranks
  <2> QED BY <1>3, RanksAreAll
<1> QED BY <1>1, <1>4 DEF Distinct

LEMMA Maps ==
    ASSUME counter = 0, pc \in Sorting \cup {"exit"}, Ranked
    PROVE  /\ MachineA = Shown(Sorted, pile_a, int_a)
           /\ MachineB = Shown(Sorted, pile_b, int_b)
           /\ MachineTold = out
  BY DEF MachineA, MachineB, MachineTold, Shown

LEMMA MapsAfter ==
    ASSUME counter' = 0, pc' \in Sorting \cup {"exit"}, Ranked'
    PROVE  /\ MachineA' = Shown(Sorted', pile_a', int_a')
           /\ MachineB' = Shown(Sorted', pile_b', int_b')
           /\ MachineTold' = out'
  BY DEF MachineA, MachineB, MachineTold, Shown

\* The program sorts, and says so.
Shared ==
    /\ Held /\ size \in Nat /\ Distinct /\ Ranked /\ pc \in Sorting /\ counter = 0
    /\ pc' = pc /\ UNCHANGED <<input, given, counter>>

LEMMA SharedIs ==
    ASSUME Shared
    PROVE  /\ MachineA = Shown(Sorted, pile_a, int_a) /\ Shows(Sorted, pile_a, int_a)
           /\ MachineB = Shown(Sorted, pile_b, int_b) /\ Shows(Sorted, pile_b, int_b)
           /\ MachineTold = out
           /\ MachineA' = Shown(Sorted, pile_a', int_a')
           /\ MachineB' = Shown(Sorted, pile_b', int_b')
           /\ MachineTold' = out'
<1>1. Sorted' = Sorted /\ Ranked'
  BY DEF Shared, Sorted, Ranked, size, words, Index
<1>2. /\ MachineA = Shown(Sorted, pile_a, int_a)
      /\ MachineB = Shown(Sorted, pile_b, int_b)
      /\ MachineTold = out
  BY Maps DEF Shared
<1>3. /\ MachineA' = Shown(Sorted', pile_a', int_a')
      /\ MachineB' = Shown(Sorted', pile_b', int_b')
      /\ MachineTold' = out'
  BY <1>1, MapsAfter DEF Shared
<1>4. \A r \in 1 .. size : Sorted[r] \in Int
  BY ValuesAreNumbers DEF Shared
<1>5. Shows(Sorted, pile_a, int_a) /\ Shows(Sorted, pile_b, int_b)
  BY <1>4 DEF Shows, Shared, Held
<1> QED BY <1>1, <1>2, <1>3, <1>5

LEMMA SaysTold ==
    ASSUME Shared, NEW instruction, Says(instruction)
    PROVE  MachineTold' = Append(MachineTold, instruction)
  BY SharedIs DEF Shared, Says

LEMMA MachineSwaps ==
    ASSUME Shared, ft_swapa
    PROVE  SM!sa \/ UNCHANGED SM!vars
<1>1. CASE ~ (int_a > 1)
  BY <1>1, SharedIs DEF ft_swapa, SM!vars
<1>2. CASE int_a > 1
  <2> DEFINE v == Sorted
             s == MachineA
  <2>1. /\ pile_a'[0] = pile_a[1] /\ pile_a'[1] = pile_a[0]
        /\ \A k \in 2 .. int_a - 1 : pile_a'[k] = pile_a[k]
        /\ UNCHANGED <<int_a, pile_b, int_b>>
    BY <1>2, SwapA DEF Shared
  <2>2. int_a \in Nat /\ s = Shown(v, pile_a, int_a) /\ Shows(v, pile_a, int_a)
        /\ MachineA' = Shown(v, pile_a', int_a)
        /\ MachineB' = MachineB
    BY <2>1, SharedIs DEF Shared, Held
  <2>3. Len(s) = int_a
    BY <2>2, ShownIs
  <2> HIDE DEF v
  <2>4. Shown(v, pile_a', int_a)
           = <<Shown(v, pile_a, int_a)[2], Shown(v, pile_a, int_a)[1]>>
                \o SubSeq(Shown(v, pile_a, int_a), 3, Len(Shown(v, pile_a, int_a)))
    BY <1>2, <2>1, <2>2, ShownSwapped
  <2>5. MachineA' = <<s[2], s[1]>> \o SubSeq(s, 3, Len(s))
    BY <2>2, <2>4
  <2>6. MachineTold' = Append(MachineTold, "sa")
    BY <1>2, SaysTold DEF ft_swapa
  <2> QED BY <1>2, <2>2, <2>3, <2>5, <2>6 DEF SM!sa
<1> QED BY <1>1, <1>2

LEMMA MachineRotates ==
    ASSUME Shared, ft_rotatea, int_a > 0
    PROVE  SM!ra
<1> DEFINE v == Sorted
           s == MachineA
<1>1. /\ pile_a'[int_a - 1] = pile_a[0]
      /\ \A k \in 0 .. int_a - 2 : pile_a'[k] = pile_a[k + 1]
      /\ UNCHANGED <<int_a, pile_b, int_b>>
  BY RotateA DEF Shared
<1>2. int_a \in Nat \ {0} /\ s = Shown(v, pile_a, int_a) /\ Shows(v, pile_a, int_a)
      /\ MachineA' = Shown(v, pile_a', int_a)
      /\ MachineB' = MachineB
  BY <1>1, SharedIs DEF Shared, Held
<1>3. s # <<>>
  BY <1>2, ShownIs
<1> HIDE DEF v
<1>4. Shown(v, pile_a', int_a)
         = Append(Tail(Shown(v, pile_a, int_a)), Shown(v, pile_a, int_a)[1])
  BY <1>1, <1>2, ShownRotated
<1>5. MachineA' = Append(Tail(s), s[1])
  BY <1>2, <1>4
<1>6. MachineTold' = Append(MachineTold, "ra")
  BY SaysTold DEF ft_rotatea
<1> QED BY <1>2, <1>3, <1>5, <1>6 DEF SM!ra, SM!Top

LEMMA MachineReverses ==
    ASSUME Shared, ft_reverse_rotatea, int_a > 0
    PROVE  SM!rra
<1> DEFINE v == Sorted
           s == MachineA
<1>1. /\ pile_a'[0] = pile_a[int_a - 1]
      /\ \A k \in 1 .. int_a - 1 : pile_a'[k] = pile_a[k - 1]
      /\ UNCHANGED <<int_a, pile_b, int_b>>
  BY ReverseA DEF Shared
<1>2. int_a \in Nat \ {0} /\ s = Shown(v, pile_a, int_a) /\ Shows(v, pile_a, int_a)
      /\ MachineA' = Shown(v, pile_a', int_a)
      /\ MachineB' = MachineB
  BY <1>1, SharedIs DEF Shared, Held
<1>3. s # <<>>
  BY <1>2, ShownIs
<1> HIDE DEF v
<1>4. LET t == Shown(v, pile_a, int_a)
      IN  Shown(v, pile_a', int_a) = <<t[Len(t)]>> \o SubSeq(t, 1, Len(t) - 1)
  BY <1>1, <1>2, ShownReversed
<1>5. MachineA' = <<s[Len(s)]>> \o SubSeq(s, 1, Len(s) - 1)
  BY <1>2, <1>4
<1>6. MachineTold' = Append(MachineTold, "rra")
  BY SaysTold DEF ft_reverse_rotatea
<1> QED BY <1>2, <1>3, <1>5, <1>6 DEF SM!rra, SM!Last, SM!WithoutLast

LEMMA MachinePushesA ==
    ASSUME Shared, ft_pusha
    PROVE  SM!pa \/ UNCHANGED SM!vars
<1>1. CASE ~ (int_b > 0)
  BY <1>1, SharedIs DEF ft_pusha, SM!vars, stacks
<1>2. CASE int_b > 0
  <2> DEFINE v == Sorted
  <2>1. /\ pile_a'[0] = pile_b[0]
        /\ \A k \in 1 .. int_a : pile_a'[k] = pile_a[k - 1]
        /\ \A k \in 0 .. int_b - 2 : pile_b'[k] = pile_b[k + 1]
        /\ int_a' = int_a + 1 /\ int_b' = int_b - 1
    BY <1>2, PushA DEF Shared
  <2>2. /\ int_a \in Nat /\ int_b \in Nat \ {0}
        /\ MachineA = Shown(v, pile_a, int_a) /\ Shows(v, pile_a, int_a)
        /\ MachineB = Shown(v, pile_b, int_b) /\ Shows(v, pile_b, int_b)
        /\ MachineA' = Shown(v, pile_a', int_a + 1)
        /\ MachineB' = Shown(v, pile_b', int_b - 1)
    BY <1>2, <2>1, SharedIs DEF Shared, Held
  <2> HIDE DEF v
  <2>3. v[pile_b[0]] \in Int
    BY <2>2 DEF Shows
  <2>4. /\ MachineB # <<>> /\ MachineB[1] = v[pile_b[0]]
        /\ Tail(MachineB) = Shown(v, pile_b', int_b - 1)
    <3>1. /\ Shown(v, pile_b, int_b) # <<>>
          /\ Shown(v, pile_b, int_b)[1] = v[pile_b[0]]
          /\ Tail(Shown(v, pile_b, int_b)) = Shown(v, pile_b', int_b - 1)
          /\ Shows(v, pile_b', int_b - 1)
      BY <2>1, <2>2, ShownPopped
    <3> QED BY <2>2, <3>1
  <2>5. Shown(v, pile_a', int_a + 1) = <<v[pile_a'[0]]>> \o Shown(v, pile_a, int_a)
    BY <2>1, <2>2, <2>3, ShownPushed
  <2>6. MachineA' = <<MachineB[1]>> \o MachineA
    BY <2>1, <2>2, <2>4, <2>5
  <2>7. MachineTold' = Append(MachineTold, "pa")
    BY <1>2, SaysTold DEF ft_pusha
  <2> QED BY <2>2, <2>4, <2>6, <2>7 DEF SM!pa, SM!Top
<1> QED BY <1>1, <1>2

LEMMA MachinePushesB ==
    ASSUME Shared, ft_pushb
    PROVE  SM!pb \/ UNCHANGED SM!vars
<1>1. CASE ~ (int_a > 0)
  BY <1>1, SharedIs DEF ft_pushb, SM!vars, stacks
<1>2. CASE int_a > 0
  <2> DEFINE v == Sorted
  <2>1. /\ pile_b'[0] = pile_a[0]
        /\ \A k \in 1 .. int_b : pile_b'[k] = pile_b[k - 1]
        /\ \A k \in 0 .. int_a - 2 : pile_a'[k] = pile_a[k + 1]
        /\ int_a' = int_a - 1 /\ int_b' = int_b + 1
    BY <1>2, PushB DEF Shared
  <2>2. /\ int_b \in Nat /\ int_a \in Nat \ {0}
        /\ MachineA = Shown(v, pile_a, int_a) /\ Shows(v, pile_a, int_a)
        /\ MachineB = Shown(v, pile_b, int_b) /\ Shows(v, pile_b, int_b)
        /\ MachineA' = Shown(v, pile_a', int_a - 1)
        /\ MachineB' = Shown(v, pile_b', int_b + 1)
    BY <1>2, <2>1, SharedIs DEF Shared, Held
  <2> HIDE DEF v
  <2>3. v[pile_a[0]] \in Int
    BY <2>2 DEF Shows
  <2>4. /\ MachineA # <<>> /\ MachineA[1] = v[pile_a[0]]
        /\ Tail(MachineA) = Shown(v, pile_a', int_a - 1)
    <3>1. /\ Shown(v, pile_a, int_a) # <<>>
          /\ Shown(v, pile_a, int_a)[1] = v[pile_a[0]]
          /\ Tail(Shown(v, pile_a, int_a)) = Shown(v, pile_a', int_a - 1)
          /\ Shows(v, pile_a', int_a - 1)
      BY <2>1, <2>2, ShownPopped
    <3> QED BY <2>2, <3>1
  <2>5. Shown(v, pile_b', int_b + 1) = <<v[pile_b'[0]]>> \o Shown(v, pile_b, int_b)
    BY <2>1, <2>2, <2>3, ShownPushed
  <2>6. MachineB' = <<MachineA[1]>> \o MachineB
    BY <2>1, <2>2, <2>4, <2>5
  <2>7. MachineTold' = Append(MachineTold, "pb")
    BY <1>2, SaysTold DEF ft_pushb
  <2> QED BY <2>2, <2>4, <2>6, <2>7 DEF SM!pb, SM!Top
<1> QED BY <1>1, <1>2

\* A turn of stack a is a turn of some number.
LEMMA TurnsSome ==
    ASSUME Held, Stage, size \in Nat, Todo, Head(todo) # "pa"
    PROVE  int_a > 0
<1>1. int_b \in Nat /\ Pas \in Seq(Word)
  BY PasIs DEF Held
<1>2. todo # Pas
  <2> SUFFICES ASSUME todo = Pas PROVE FALSE
    OBVIOUS
  <2>1. int_b > 0
    BY <1>1, PasIs DEF Todo
  <2>2. Pas = Then("pa", Times(int_b - 1, "pa", <<>>)) /\ Times(int_b - 1, "pa", <<>>) \in Seq(Word)
    BY <1>1, <2>1, PasIs
  <2>3. "pa" \in Word
    BY Words
  <2>4. Head(todo) = "pa"
    BY <2>2, <2>3, ThenIs
  <2> QED BY <2>4
<1>3. int_a = 2 \/ int_a = 3 \/ int_a = 4 \/ int_a = 5
  BY <1>2, Zenon DEF Stage
<1> QED BY <1>3

\* Nothing changed that the machine shows.
LEMMA MachineRests ==
    ASSUME UNCHANGED <<input, counter, given, out, stacks>>,
           pc \in Sorting, pc' \in Sorting \cup {"exit"}, counter = 0, Ranked
    PROVE  UNCHANGED SM!vars
<1>1. Sorted' = Sorted /\ Ranked'
  BY DEF Sorted, Ranked, size, words, Index
<1>2. /\ MachineA = Shown(Sorted, pile_a, int_a)
      /\ MachineB = Shown(Sorted, pile_b, int_b)
      /\ MachineTold = out
  BY Maps
<1>3. /\ MachineA' = Shown(Sorted', pile_a', int_a')
      /\ MachineB' = Shown(Sorted', pile_b', int_b')
      /\ MachineTold' = out'
  BY <1>1, MapsAfter
<1> QED BY <1>1, <1>2, <1>3 DEF SM!vars, stacks

\* Before it sorts.
LEMMA MachineEmpty ==
    ASSUME counter = 0, pc \notin Sorting \cup {"exit"}, int_b = 0, out = <<>>
    PROVE  MachineA = <<>> /\ MachineB = <<>> /\ MachineTold = <<>>
<1>1. MachineA = <<>> /\ MachineTold = <<>>
  BY DEF MachineA, MachineTold
<1>2. MachineB = <<>>
  BY DEF MachineB
<1> QED BY <1>1, <1>2

LEMMA MachineStillEmpty ==
    ASSUME counter' = 0, int_b' = 0, out' = <<>>
    PROVE  /\ MachineB' = <<>> /\ MachineTold' = <<>>
           /\ pc' \notin Sorting \cup {"exit"} => MachineA' = <<>>
<1>1. MachineTold' = <<>> /\ (pc' \notin Sorting \cup {"exit"} => MachineA' = <<>>)
  BY DEF MachineA, MachineTold
<1>2. MachineB' = <<>>
  BY DEF MachineB
<1> QED BY <1>1, <1>2

\* An array of integers is a sequence of integers.
LEMMA IntsAreSeq ==
    ASSUME NEW f, NEW n \in Nat, \A k \in 0 .. n - 1 : f[k] \in Int
    PROVE  [k \in 1 .. n |-> f[k - 1]] \in Seq(Int)
<1> DEFINE s == [k \in 1 .. n |-> f[k - 1]]
<1>1. \A k \in 1 .. n : f[k - 1] \in Int
  <2> SUFFICES ASSUME NEW k \in 1 .. n PROVE f[k - 1] \in Int
    OBVIOUS
  <2>1. k - 1 \in 0 .. n - 1
    OBVIOUS
  <2> QED BY <2>1
<1>2. s \in [1 .. n -> Int]
  BY <1>1
<1> HIDE DEF s
<1>3. s \in Seq(Int)
  BY <1>2, IsASeq
<1> QED BY <1>3 DEF s

\* The numbers are put on stack a: those in the arguments, in their order.
Loaded == MachineA' = [k \in 1 .. size |-> given[k - 1]]

LEMMA CheckLoads ==
    ASSUME IInv, Keeps, SortInv, ReadInv, Check, counter = 0
    PROVE  /\ SM!Load \/ UNCHANGED SM!vars
           /\ pc' = "exit" => Loaded
<1>1. size \in Nat /\ size' = size /\ Index' = Index /\ Index = 0 .. size - 1
  BY SizeType DEF IInv, Check, size, words, Index
<1>2. /\ pc = "check" /\ pc' \in {"error", "exit", "normalize"}
      /\ UNCHANGED <<counter, pile_a, int_a, pile_b, int_b, given, out>>
  BY DEF Check, stacks
<1>3. /\ int_a = size /\ int_b = 0 /\ out = <<>> /\ given = pile_a
      /\ \A k \in Index : pile_a[k] \in Int
  BY <1>2 DEF IInv, Types, ReadInv, Before
<1>4. MachineA = <<>> /\ MachineB = <<>> /\ MachineTold = <<>>
  BY <1>2, <1>3, MachineEmpty DEF Sorting
<1>5. /\ MachineB' = <<>> /\ MachineTold' = <<>>
      /\ pc' \notin Sorting \cup {"exit"} => MachineA' = <<>>
  BY <1>2, <1>3, MachineStillEmpty
<1>6. CASE pc' = "exit"
  <2>1. Sorts'
    <3>1. SortInv'
      BY SortStep DEF Next
    <3> QED BY <3>1 DEF SortInv
  <2>2. ~Ranked'
    BY <1>1, <1>2, <1>3, <1>6, <2>1 DEF Sorts, Ranked
  <2>3. MachineA' = [k \in 1 .. int_a' |-> given'[k - 1]]
    BY <1>2, <1>6, <2>2 DEF MachineA
  <2>4. Loaded
    BY <1>2, <1>3, <2>3 DEF Loaded
  <2>5. [k \in 1 .. size |-> given[k - 1]] \in Seq(Int)
    BY <1>1, <1>3, IntsAreSeq
  <2>6. SM!Load
    BY <1>4, <1>5, <2>4, <2>5 DEF SM!Load, Loaded
  <2> QED BY <2>4, <2>6
<1>7. CASE pc' # "exit"
  <2>1. MachineA' = <<>>
    BY <1>2, <1>5, <1>7 DEF Sorting
  <2> QED BY <1>4, <1>5, <1>7, <2>1 DEF SM!vars
<1> QED BY <1>6, <1>7

LEMMA NormalizeLoads ==
    ASSUME IInv, Keeps, SortInv, ReadInv, ft_normalize, counter = 0
    PROVE  SM!Load /\ Loaded
<1>1. size \in Nat /\ size' = size /\ Index' = Index /\ Index = 0 .. size - 1
      /\ input' = input
  BY SizeType DEF IInv, ft_normalize, size, words, Index
<1>2. /\ pc = "normalize" /\ pc' = "algorithms"
      /\ UNCHANGED <<counter, int_a, pile_b, int_b, given, out>>
      /\ pile_a' = [k \in Index |-> rank(pile_a, k)]
  BY DEF ft_normalize
<1>3. /\ int_a = size /\ int_b = 0 /\ out = <<>> /\ given = pile_a
      /\ \A k \in Index : pile_a[k] \in Int
      /\ Distinct /\ Ranked
  BY <1>2 DEF IInv, Types, ReadInv, Before
<1>4. MachineA = <<>> /\ MachineB = <<>> /\ MachineTold = <<>>
  BY <1>2, <1>3, MachineEmpty DEF Sorting
<1>5. MachineB' = <<>> /\ MachineTold' = <<>>
  BY <1>2, <1>3, MachineStillEmpty
<1>6. Sorted' = Sorted /\ Ranked'
  BY <1>1, <1>2, <1>3 DEF Sorted, Ranked, size, words, Index
<1>7. MachineA' = Shown(Sorted, pile_a', size)
  <2>1. MachineA' = Shown(Sorted', pile_a', int_a')
    BY <1>2, <1>3, <1>6, MapsAfter DEF Sorting
  <2> QED BY <1>2, <1>3, <1>6, <2>1
<1>8. \A k \in Index : Sorted[rank(given, k)] = given[k]
  BY <1>1, <1>3, SortedIs DEF Distinct
<1>9. Loaded
  <2>1. \A k \in 1 .. size : Sorted[pile_a'[k - 1]] = given[k - 1]
    <3> SUFFICES ASSUME NEW k \in 1 .. size PROVE Sorted[pile_a'[k - 1]] = given[k - 1]
      OBVIOUS
    <3>1. k - 1 \in Index
      BY <1>1
    <3> QED BY <1>2, <1>3, <1>8, <3>1
  <2> QED BY <1>7, <2>1 DEF Loaded, Shown
<1>10. [k \in 1 .. size |-> given[k - 1]] \in Seq(Int)
  BY <1>1, <1>3, IntsAreSeq
<1>11. SM!Load
  BY <1>4, <1>5, <1>9, <1>10 DEF SM!Load, Loaded
<1> QED BY <1>9, <1>11

LEMMA MachineStep ==
    ASSUME IInv, Keeps, SortInv, ReadInv, [Next]_vars
    PROVE  [SM!Next]_(SM!vars)
<1>1. size \in Nat
  BY SizeType DEF IInv
<1>2. counter' = counter
  BY DEF Next, vars, main, Check, ft_normalize, algorithms, Todo, AllDone, big_algorithm,
         Turn, PassOver, Back, NextBit
<1>3. CASE counter # 0
  BY <1>2, <1>3 DEF SM!vars, MachineA, MachineB, MachineTold
<1>4. CASE UNCHANGED vars
  BY <1>4 DEF vars, stacks, SM!vars, MachineA, MachineB, MachineTold, Sorted, Ranked,
              size, words, Index
<1>5. ASSUME pc \in Sorting, pc' = pc, UNCHANGED <<input, given>>, counter = 0 PROVE Shared
  BY <1>1, <1>2, <1>5 DEF Shared, Keeps, ReadInv
<1>6. ASSUME pc \in Sorting, counter = 0 PROVE Ranked /\ Held
  BY <1>6 DEF Keeps, ReadInv
<1>7. CASE main /\ counter = 0
  <2>1. /\ pc = "main" /\ pc' \in {"check", "error"} /\ int_b = 0 /\ out = <<>>
        /\ int_b' = int_b /\ out' = out
    BY <1>7 DEF main, IInv, Types, ReadInv
  <2>2. pc \notin Sorting \cup {"exit"} /\ pc' \notin Sorting \cup {"exit"}
    BY <2>1 DEF Sorting
  <2> QED BY <1>2, <1>7, <2>1, <2>2, MachineEmpty, MachineStillEmpty DEF SM!vars
<1>8. CASE Check /\ counter = 0
  BY <1>8, CheckLoads DEF SM!Next
<1>9. CASE ft_normalize /\ counter = 0
  BY <1>9, NormalizeLoads DEF SM!Next
<1>10. CASE (algorithms \/ AllDone \/ big_algorithm \/ PassOver \/ NextBit) /\ counter = 0
  <2>1. /\ pc \in Sorting /\ pc' \in Sorting \cup {"exit"}
        /\ UNCHANGED <<input, counter, given, out, stacks>>
    BY <1>10 DEF algorithms, AllDone, big_algorithm, PassOver, NextBit, Sorting
  <2> QED BY <1>6, <1>10, <2>1, MachineRests
<1>11. CASE Todo /\ counter = 0
  <2>1. pc \in Sorting /\ pc' = pc /\ UNCHANGED <<input, given, counter>> /\ pc = "todo"
    BY <1>11 DEF Todo, Sorting
  <2>2. Shared /\ Held /\ Ranked
    BY <1>5, <1>6, <1>11, <2>1
  <2>3. CASE Head(todo) \in Instruction
    <3>1. Do(Head(todo))
      BY <1>11, <2>3 DEF Todo
    <3>2. Head(todo) # "pa" => int_a > 0
      BY <1>1, <1>11, <2>1, <2>2, TurnsSome DEF SortInv
    <3>3. CASE Head(todo) = "sa" /\ ft_swapa
      BY <2>2, <3>3, MachineSwaps DEF SM!Next
    <3>4. CASE Head(todo) = "ra" /\ ft_rotatea
      BY <2>2, <3>2, <3>4, MachineRotates DEF SM!Next
    <3>5. CASE Head(todo) = "rra" /\ ft_reverse_rotatea
      BY <2>2, <3>2, <3>5, MachineReverses DEF SM!Next
    <3>6. CASE Head(todo) = "pa" /\ ft_pusha
      BY <2>2, <3>6, MachinePushesA DEF SM!Next
    <3>7. CASE Head(todo) = "pb" /\ ft_pushb
      BY <2>2, <3>7, MachinePushesB DEF SM!Next
    <3> QED BY <3>1, <3>3, <3>4, <3>5, <3>6, <3>7 DEF Do
  <2>4. CASE Head(todo) \notin Instruction
    <3>1. UNCHANGED <<stacks, out>>
      BY <1>11, <2>4 DEF Todo
    <3> QED BY <1>11, <2>1, <2>2, <3>1, MachineRests
  <2> QED BY <2>3, <2>4
<1>12. CASE Turn /\ counter = 0
  <2>1. pc \in Sorting /\ pc' = pc /\ UNCHANGED <<input, given>> /\ ~check_order
    BY <1>12 DEF Turn, Sorting
  <2>2. Shared
    BY <1>5, <1>12, <2>1
  <2>3. int_a > 0
    BY <1>6, <1>12, <2>1 DEF check_order, Held
  <2>4. ft_pushb \/ ft_rotatea
    BY <1>12 DEF Turn
  <2> QED BY <2>2, <2>3, <2>4, MachinePushesB, MachineRotates DEF SM!Next
<1>13. CASE Back /\ counter = 0
  <2>1. pc \in Sorting /\ pc' = pc /\ UNCHANGED <<input, given>> /\ ft_pusha
    BY <1>13 DEF Back, Sorting
  <2> QED BY <1>5, <1>13, <2>1, MachinePushesA DEF SM!Next
<1> QED BY <1>3, <1>4, <1>7, <1>8, <1>9, <1>10, <1>11, <1>12, <1>13 DEF Next

\* Who follows the printed instructions on two stacks has at every moment the
\* stacks of the program, for any count of numbers.
THEOREM InstructionsAreFollowed == Spec => FollowsMachine
<1>1. Init => Keeps /\ SortInv /\ ReadInv
  BY InitInv, SizeType DEF Init, Keeps, IInv, Sorting, SortInv, Sorts, ReadInv, Before
<1>2. Init => SM!Init
  <2> SUFFICES ASSUME Init PROVE SM!Init
    OBVIOUS
  <2>1. pc = "main" /\ int_b = 0 /\ out = <<>>
    BY DEF Init
  <2>2. MachineA = <<>> /\ MachineB = <<>> /\ MachineTold = <<>>
    <3>1. CASE counter = 0
      BY <2>1, <3>1, MachineEmpty DEF Sorting
    <3>2. CASE counter # 0
      BY <3>2 DEF MachineA, MachineB, MachineTold
    <3> QED BY <3>1, <3>2
  <2> QED BY <2>2 DEF SM!Init
<1> QED BY <1>1, <1>2, KeepsStep, SortStep, ReadStep, MachineStep, Invariance, PTL
        DEF Spec, FollowsMachine, SM!Spec

\* The stack the machine begins with has the numbers of the arguments in their
\* order.
THEOREM MachineBeginsWithNumbers ==
    Spec => [][counter = 0 /\ (ft_normalize \/ (Check /\ pc' = "exit")) => Loaded]_vars
<1>1. Init => Keeps /\ SortInv /\ ReadInv
  BY InitInv, SizeType DEF Init, Keeps, IInv, Sorting, SortInv, Sorts, ReadInv, Before
<1>2. IInv /\ Keeps /\ SortInv /\ ReadInv /\ [Next]_vars
         => [counter = 0 /\ (ft_normalize \/ (Check /\ pc' = "exit")) => Loaded]_vars
  BY CheckLoads, NormalizeLoads
<1> QED BY <1>1, <1>2, KeepsStep, SortStep, ReadStep, Invariance, PTL DEF Spec
=============================================================================
