--------------------------- MODULE MinitalkProofs ---------------------------
(***************************************************************************)
(* Proofs about minitalk, for any clients and texts, and characters of up  *)
(* to eight bits: the types, and that texts that were sent undisturbed are *)
(* printed whole and in order.                                             *)
(***************************************************************************)
EXTENDS Minitalk, SequenceTheorems, TLAPS

-----------------------------------------------------------------------------
(* Bits *)

LEMMA PowerDoubles ==
    /\ Power[1] = 1
    /\ \A k \in 1 .. 9 : Power[k] \in Nat \ {0}
    /\ \A k \in 1 .. 8 : Power[k + 1] = 2 * Power[k]
  BY SMTT(30) DEF Power

LEMMA PowerLast == Power[Bits + 1] \in Nat \ {0}
  BY BitsAssumption, PowerDoubles

\* A place in the stream of bits is that of a letter, and a bit of it.
LEMMA Place ==
    ASSUME NEW n \in Nat
    PROVE  /\ n \div Bits \in Nat /\ n % Bits \in 0 .. Bits - 1
           /\ n = Bits * (n \div Bits) + (n % Bits)
  BY BitsAssumption, SMTT(30)

LEMMA NextPlace ==
    ASSUME NEW n \in Nat
    PROVE  /\ (n % Bits) + 1 # Bits =>
                 (n + 1) \div Bits = n \div Bits /\ (n + 1) % Bits = (n % Bits) + 1
           /\ (n % Bits) + 1 = Bits =>
                 (n + 1) \div Bits = (n \div Bits) + 1 /\ (n + 1) % Bits = 0
<1> DEFINE q == n \div Bits
           r == n % Bits
<1>1. q \in Nat /\ r \in 0 .. Bits - 1 /\ n = Bits * q + r
  BY Place
<1> QED BY <1>1, BitsAssumption, SMTT(60)

\* The bits of a text end with the last one of its zero.
LEMMA Places ==
    ASSUME NEW n \in Nat, NEW length \in Nat, n < (length + 1) * Bits
    PROVE  /\ n \div Bits <= length
           /\ n + 1 = (length + 1) * Bits <=> n \div Bits = length /\ (n % Bits) + 1 = Bits
<1> DEFINE q == n \div Bits
           r == n % Bits
<1>1. q \in Nat /\ r \in 0 .. Bits - 1 /\ n = Bits * q + r
  BY Place
<1> QED BY <1>1, BitsAssumption, SMTT(60)

LEMMA LastPlace ==
    ASSUME NEW length \in Nat
    PROVE  /\ (length + 1) * Bits \in Nat \ {0}
           /\ ((length + 1) * Bits) \div Bits = length + 1
           /\ ((length + 1) * Bits) % Bits = 0
  BY BitsAssumption, SMTT(60)

LEMMA FirstPlace == 0 \div Bits = 0 /\ 0 % Bits = 0
  BY BitsAssumption, SMTT(30)

\* A letter without all but its first c bits.
Prefix(letter, c) == letter - (letter % Power[Bits - c + 1])

Letters == 0 .. Power[Bits + 1] - 1

LEMMA DivisionBy2 ==
    ASSUME NEW x \in Nat, NEW p \in Nat \ {0}
    PROVE  x \div (2 * p) = (x \div p) \div 2
  BY SMTT(30)

LEMMA Divided ==
    ASSUME NEW x \in Nat, NEW p \in Nat \ {0}
    PROVE  /\ x % (2 * p) = IF (x \div p) % 2 = 0 THEN x % p ELSE p + (x % p)
           /\ x % p \in 0 .. p - 1
<1> DEFINE q == x \div p
           h == q \div 2
<1>1. q \in Nat /\ x % p \in 0 .. p - 1 /\ x = p * q + (x % p)
  BY SMTT(30)
<1>2. x \div (2 * p) = q \div 2
  BY DivisionBy2
<1>3. x % (2 * p) = x - (2 * p) * (x \div (2 * p))
  <2> DEFINE r == 2 * p
  <2>1. r \in Nat \ {0}
    OBVIOUS
  <2> HIDE DEF r
  <2>2. x % r = x - r * (x \div r)
    BY <2>1, SMTT(30)
  <2> QED BY <2>2 DEF r
<1> HIDE DEF q
<1>4. h \in Nat /\ q % 2 \in {0, 1} /\ q = 2 * h + (q % 2)
  BY <1>1
<1> HIDE DEF h
<1>5. (2 * p) * h = p * (2 * h)
  BY <1>4, SMTT(30)
<1>6. x % (2 * p) = p * q + (x % p) - p * (2 * h)
  BY <1>1, <1>2, <1>3, <1>5 DEF h
<1>7. CASE q % 2 = 0
  BY <1>1, <1>4, <1>6, <1>7 DEF q
<1>8. CASE q % 2 = 1
  <2>1. p * q = p * (2 * h) + p
    BY <1>4, <1>8, SMTT(30)
  <2>2. p * (2 * h) \in Int /\ x % p \in Int
    BY <1>1, <1>4
  <2>3. x % (2 * p) = p + (x % p)
    BY <1>6, <2>1, <2>2
  <2> QED BY <1>1, <1>8, <2>3 DEF q
<1> QED BY <1>4, <1>7, <1>8

LEMMA PrefixEnds ==
    ASSUME NEW letter \in Letters
    PROVE  Prefix(letter, 0) = 0 /\ Prefix(letter, Bits) = letter
<1>1. Power[Bits + 1] \in Nat \ {0} /\ letter \in 0 .. Power[Bits + 1] - 1
  BY BitsAssumption, PowerDoubles DEF Letters
<1>2. letter % Power[Bits + 1] = letter
  BY <1>1
<1>3. Power[1] = 1 /\ letter % 1 = 0
  BY <1>1, PowerDoubles
<1> QED BY <1>1, <1>2, <1>3, BitsAssumption DEF Prefix

LEMMA PrefixGrows ==
    ASSUME NEW letter \in Letters, NEW c \in 0 .. Bits - 1
    PROVE  Prefix(letter, c + 1) =
              Prefix(letter, c) + ((letter \div Power[Bits - c]) % 2) * Power[Bits - c]
<1> DEFINE p == Power[Bits - c]
<1>1. p \in Nat \ {0} /\ Power[Bits - c + 1] = 2 * p /\ Power[Bits + 1] \in Nat
  BY BitsAssumption, PowerDoubles
<1>2. letter \in Nat
  BY <1>1 DEF Letters
<1>3. Prefix(letter, c) = letter - (letter % (2 * p))
  BY <1>1 DEF Prefix
<1>4. Bits - (c + 1) + 1 = Bits - c
  BY BitsAssumption
<1>5. Prefix(letter, c + 1) = letter - (letter % p)
  BY <1>4 DEF Prefix
<1> HIDE DEF p
<1> DEFINE bit == (letter \div p) % 2
<1>6. /\ letter % (2 * p) = IF bit = 0 THEN letter % p ELSE p + (letter % p)
      /\ letter % p \in 0 .. p - 1 /\ bit \in {0, 1}
  <2>1. letter \div p \in Nat
    BY <1>1, <1>2, SMTT(30)
  <2>2. bit \in {0, 1}
    BY <2>1
  <2> QED BY <1>1, <1>2, <2>2, Divided
<1> HIDE DEF bit
<1>7. CASE bit = 0
  <2>1. bit * p = 0
    BY <1>1, <1>7
  <2> QED BY <1>1, <1>2, <1>3, <1>5, <1>6, <1>7, <2>1 DEF p, bit
<1>8. CASE bit = 1
  <2>1. bit * p = p
    BY <1>1, <1>8
  <2> QED BY <1>1, <1>2, <1>3, <1>5, <1>6, <1>8, <2>1 DEF p, bit
<1> QED BY <1>6, <1>7, <1>8

-----------------------------------------------------------------------------
(* Handlers *)

Frame == [signal : Signal, value : Nat,
          at : {"weigh", "add", "store", "count", "counted", "test", "complete", "reset"}]

LEMMA LastFrame ==
    ASSUME frames \in Seq(Frame), frames # <<>>
    PROVE  /\ Len(frames) \in 1 .. Len(frames) /\ Len(frames) \in Nat
           /\ Now \in Frame
<1>1. Len(frames) \in Nat \ {0}
  BY EmptySeq
<1>2. Len(frames) \in 1 .. Len(frames)
  BY <1>1
<1> QED BY <1>1, <1>2, ElementOfSeq DEF Now

\* A step of the last handler.
LEMMA GoesToIs ==
    ASSUME frames \in Seq(Frame), frames # <<>>, NEW at, NEW value, GoesTo(at, value),
           value \in Nat,
           at \in {"weigh", "add", "store", "count", "counted", "test", "complete", "reset"}
    PROVE  /\ frames' \in Seq(Frame) /\ frames' # <<>>
           /\ Len(frames') = Len(frames)
           /\ Now' = [signal |-> Now.signal, at |-> at, value |-> value]
<1> DEFINE l == Len(frames)
           f == [signal |-> Now.signal, at |-> at, value |-> value]
<1>1. l \in 1 .. Len(frames) /\ l \in Nat /\ Now \in Frame
  BY LastFrame
<1>2. f \in Frame
  BY <1>1 DEF Frame
<1>3. frames \in [1 .. l -> Frame]
  BY LenProperties
<1>4. frames' = [frames EXCEPT ![l] = f]
  <2>1. frames[l] = Now
    BY DEF Now
  <2>2. [[frames[l] EXCEPT !.at = at] EXCEPT !.value = value] = f
    <3> DEFINE now == Now
    <3>1. now \in Frame
      BY <1>1
    <3> HIDE DEF now
    <3>2. now = [signal |-> now.signal, value |-> now.value, at |-> now.at]
      BY <3>1 DEF Frame
    <3> DEFINE one == [now EXCEPT !.at = at]
    <3>3. one = [signal |-> now.signal, value |-> now.value, at |-> at]
      BY <3>2
    <3> HIDE DEF one
    <3>4. [one EXCEPT !.value = value] = [signal |-> now.signal, at |-> at, value |-> value]
      BY <3>3
    <3> QED BY <2>1, <3>4 DEF now, one
  <2>3. frames' = [[frames EXCEPT ![l].at = at] EXCEPT ![l].value = value]
    BY DEF GoesTo
  <2> QED BY <1>1, <1>3, <2>1, <2>2, <2>3
<1>5. /\ [frames EXCEPT ![l] = f] \in Seq(Frame)
      /\ Len([frames EXCEPT ![l] = f]) = l
      /\ [frames EXCEPT ![l] = f][l] = f
  BY <1>1, <1>2, ExceptSeq
<1>6. frames' # <<>>
  BY <1>1, <1>4, <1>5, EmptySeq
<1> QED BY <1>4, <1>5, <1>6 DEF Now

LEMMA ReturnsIs ==
    ASSUME frames \in Seq(Frame), frames # <<>>, Returns
    PROVE  /\ frames' \in Seq(Frame)
           /\ Len(frames') = Len(frames) - 1
<1> DEFINE l == Len(frames)
<1>1. l \in Nat \ {0}
  BY LastFrame
<1>2. \A k \in 1 .. l - 1 : frames[k] \in Frame
  BY <1>1, ElementOfSeq
<1>3. l - 1 \in Int /\ 1 \in Int
  BY <1>1
<1>4. /\ SubSeq(frames, 1, l - 1) \in Seq(Frame)
      /\ Len(SubSeq(frames, 1, l - 1)) = IF 1 <= l - 1 THEN (l - 1) - 1 + 1 ELSE 0
  BY <1>2, <1>3, SubSeqProperties
<1>5. frames' = SubSeq(frames, 1, l - 1)
  BY DEF Returns
<1> HIDE DEF l
<1>6. frames' \in Seq(Frame) /\ Len(frames') = l - 1
  BY <1>1, <1>4, <1>5
<1> QED BY <1>6 DEF l

LEMMA DeliverIs ==
    ASSUME frames \in Seq(Frame), NEW s \in Signal, Deliver(s)
    PROVE  /\ frames' \in Seq(Frame) /\ frames' # <<>>
           /\ Len(frames') = Len(frames) + 1
           /\ Now' = [signal |-> s, at |-> "weigh", value |-> 0]
<1> DEFINE f == [signal |-> s, at |-> "weigh", value |-> 0]
<1>1. f \in Frame
  BY DEF Frame
<1>2. frames' = Append(frames, f)
  BY DEF Deliver
<1> HIDE DEF f
<1>3. /\ Append(frames, f) \in Seq(Frame) /\ Append(frames, f) # <<>>
      /\ Len(Append(frames, f)) = Len(frames) + 1
      /\ Append(frames, f)[Len(frames) + 1] = f
  BY <1>1, AppendProperties
<1> QED BY <1>2, <1>3 DEF Now, f

LEMMA NoFrames ==
    ASSUME frames \in Seq(Frame)
    PROVE  Len(frames) \in Nat /\ (frames = <<>> <=> Len(frames) = 0)
  BY EmptySeq, LenProperties
-----------------------------------------------------------------------------
(* Types *)

\* A result that leaves room for the bits from c on.
Room(r, c) ==
    /\ r \in Nat /\ c \in 0 .. Bits
    /\ r + Power[Bits - c + 1] <= Power[Bits + 1]

\* Where the handlers block each other there is one at a time, and at each of
\* its steps there is room for the bits to come.
OneAtATime ==
    /\ Len(frames) <= 1
    /\ frames = <<>> \/ Runs("weigh") => counter < Bits /\ Room(result, counter)
    /\ Runs("add") => counter < Bits /\ Room(result + Now.value, counter + 1)
    /\ Runs("store") =>
          counter < Bits /\ Room(Now.value, counter + 1) /\ result \in Letters
    /\ Runs("count") => counter < Bits /\ Room(result, counter + 1)
    /\ Runs("counted") =>
          counter < Bits /\ Room(result, counter + 1) /\ Now.value = counter + 1
    /\ Runs("test") => Room(result, counter)
    /\ Runs("complete") => counter = Bits /\ Room(result, counter)
    /\ Runs("reset") => counter = 0 /\ result \in Letters

Clients ==
    /\ message \in Messages
    /\ position \in [Client -> Nat]
    /\ order \in Seq(Client) /\ died \subseteq Client

Statics ==
    /\ pending \subseteq Signal /\ sa_mask \subseteq Signal
    /\ frames \in Seq(Frame)
    /\ counter \in Nat /\ result \in Nat
    /\ final \in Seq(Characters) /\ printed \in Seq(Seq(Characters))
    /\ disturbed \in BOOLEAN

TInv == Clients /\ Statics /\ (sa_mask = Signal => OneAtATime)

LEMMA RoomIs ==
    ASSUME NEW r \in Nat, NEW c \in 0 .. Bits, Room(r, c)
    PROVE  r \in Letters
<1>1. Power[Bits - c + 1] \in Nat \ {0} /\ Power[Bits + 1] \in Nat
  BY BitsAssumption, PowerDoubles
<1> QED BY <1>1 DEF Room, Letters

\* A bit takes half of the room.
LEMMA RoomHalves ==
    ASSUME NEW r \in Nat, NEW c \in 0 .. Bits - 1, Room(r, c),
           NEW v \in {0, Power[Bits - c]}
    PROVE  Room(r + v, c + 1) /\ v \in Nat
<1> DEFINE p == Power[Bits - c]
<1>1. p \in Nat \ {0} /\ Power[Bits - c + 1] = 2 * p /\ Power[Bits + 1] \in Nat
  BY BitsAssumption, PowerDoubles
<1>2. Bits - (c + 1) + 1 = Bits - c /\ c + 1 \in 0 .. Bits
  BY BitsAssumption
<1> QED BY <1>1, <1>2 DEF Room

LEMMA WeightIs ==
    ASSUME counter \in Nat
    PROVE  Weight \in Nat /\ (counter < Bits => Weight = Power[Bits - counter])
<1>1. counter < Bits => Power[Bits - counter] \in Nat
  BY BitsAssumption, PowerDoubles
<1> QED BY <1>1 DEF Weight

LEMMA TypesInit == Init => TInv
<1> SUFFICES ASSUME Init PROVE TInv
  OBVIOUS
<1>1. Clients
  BY EmptySeq DEF Init, Clients
<1>2. Statics /\ Len(frames) = 0 /\ frames = <<>>
  BY EmptySeq DEF Init, Statics
<1>3. counter < Bits /\ Room(result, counter)
  <2>1. Power[Bits + 1] \in Nat /\ Bits - 0 + 1 = Bits + 1
    BY BitsAssumption, PowerDoubles
  <2> QED BY <2>1, BitsAssumption DEF Init, Room
<1>4. OneAtATime
  BY <1>2, <1>3 DEF OneAtATime, Runs
<1> QED BY <1>1, <1>2, <1>4 DEF TInv

LEMMA ClientsKept == TInv /\ [Next]_vars => Clients'
<1> SUFFICES ASSUME TInv, [Next]_vars PROVE Clients'
  OBVIOUS
<1>1. Clients
  BY DEF TInv
<1>2. ASSUME UNCHANGED client PROVE Clients'
  BY <1>1, <1>2 DEF Clients, client
<1>3. CASE Server \/ UNCHANGED vars
  BY <1>2, <1>3 DEF Server, Deliver, Weigh, AddBit, StoreResult, CountBit, StoreCounter, Test,
     Complete, Reset, vars
<1>4. ASSUME NEW c \in Client, Send(c) PROVE Clients'
  <2>1. /\ message' = message /\ died' = died
        /\ position' = [position EXCEPT ![c] = @ + 1]
        /\ order' = IF position[c] = 0 THEN Append(order, c) ELSE order
    BY <1>4 DEF Send
  <2>2. position' \in [Client -> Nat]
    BY <1>1, <2>1 DEF Clients
  <2>3. order' \in Seq(Client)
    BY <1>1, <2>1, AppendProperties DEF Clients
  <2> QED BY <1>1, <2>1, <2>2, <2>3 DEF Clients
<1>5. ASSUME NEW c \in Client, Die(c) PROVE Clients'
  BY <1>1, <1>5 DEF Clients, Die
<1> QED BY <1>3, <1>4, <1>5 DEF Next

LEMMA ExtendedIs ==
    ASSUME Statics
    PROVE  Extended \in Seq(Characters)
<1>1. Power[Bits + 1] \in Nat \ {0}
  BY BitsAssumption, PowerDoubles
<1>2. result % Power[Bits + 1] \in 0 .. Power[Bits + 1] - 1
  BY <1>1 DEF Statics
<1>3. CASE result % Power[Bits + 1] = 0
  BY <1>3 DEF Extended, Statics
<1>4. CASE result % Power[Bits + 1] # 0
  <2>1. result % Power[Bits + 1] \in Characters
    BY <1>1, <1>2, <1>4 DEF Characters
  <2> QED BY <1>4, <2>1, AppendProperties DEF Extended, Statics
<1> QED BY <1>3, <1>4

\* The steps of a handler, as what they do to it.
Ats == {"weigh", "add", "store", "count", "counted", "test", "complete", "reset"}

LEMMA HandlerGoes ==
    ASSUME Statics, NEW from, Runs(from), NEW at \in Ats, NEW value \in Nat, GoesTo(at, value)
    PROVE  /\ frames' \in Seq(Frame) /\ frames' # <<>> /\ Len(frames') = Len(frames)
           /\ Now'.signal = Now.signal /\ Now'.value = value
           /\ \A other : Runs(other)' <=> other = at
<1>1. frames \in Seq(Frame) /\ frames # <<>>
  BY DEF Statics, Runs
<1>2. /\ frames' \in Seq(Frame) /\ frames' # <<>> /\ Len(frames') = Len(frames)
      /\ Now' = [signal |-> Now.signal, at |-> at, value |-> value]
  BY <1>1, GoesToIs DEF Ats
<1>3. Now'.signal = Now.signal /\ Now'.value = value /\ Now'.at = at
  BY <1>2
<1>4. \A other : Runs(other)' <=> other = at
  BY <1>2, <1>3 DEF Runs, Now
<1> QED BY <1>2, <1>3, <1>4

LEMMA StaticsKept == TInv /\ [Next]_vars => Statics'
<1> SUFFICES ASSUME TInv, [Next]_vars PROVE Statics'
  OBVIOUS
<1>1. Statics
  BY DEF TInv
<1>2. ASSUME UNCHANGED <<sa_mask, frames, statics>>, pending' \subseteq Signal,
             disturbed' \in BOOLEAN
      PROVE  Statics'
  BY <1>1, <1>2 DEF Statics, statics
<1>3. CASE UNCHANGED vars
  BY <1>1, <1>2, <1>3 DEF vars, Statics
<1>4. ASSUME NEW c \in Client, Send(c) \/ Die(c) PROVE Statics'
  <2>1. /\ UNCHANGED <<sa_mask, frames, statics>> /\ pending' \subseteq Signal
        /\ disturbed' \in BOOLEAN
    BY <1>1, <1>4 DEF Send, Die, Statics, Signal
  <2> QED BY <1>2, <2>1
<1>5. ASSUME NEW s \in Signal, Deliver(s) PROVE Statics'
  <2>1. frames' \in Seq(Frame)
    BY <1>1, <1>5, DeliverIs DEF Statics
  <2> QED BY <1>1, <1>5, <2>1 DEF Deliver, Statics, statics
<1>6. ASSUME NEW from, Runs(from) PROVE Now \in Frame /\ Now.signal \in Signal /\ Now.value \in Nat
  <2>1. Now \in Frame
    BY <1>1, <1>6, LastFrame DEF Statics, Runs
  <2> QED BY <2>1 DEF Frame
<1>7. CASE Weigh
  <2> DEFINE v == IF Now.signal = "SIGUSR2" THEN Weight ELSE 0
  <2>1. v \in Nat
    BY <1>1, WeightIs DEF Statics
  <2>2. Runs("weigh") /\ GoesTo("add", v)
    BY <1>7 DEF Weigh
  <2>3. frames' \in Seq(Frame)
    BY <1>1, <2>1, <2>2, HandlerGoes DEF Ats
  <2> QED BY <1>1, <1>7, <2>3 DEF Weigh, Statics, statics
<1>8. CASE AddBit
  <2>1. Runs("add") /\ GoesTo("store", result + Now.value) /\ result + Now.value \in Nat
    BY <1>1, <1>6, <1>8 DEF AddBit, Statics
  <2>2. frames' \in Seq(Frame)
    BY <1>1, <2>1, HandlerGoes DEF Ats
  <2> QED BY <1>1, <1>8, <2>2 DEF AddBit, Statics, statics
<1>9. CASE StoreResult
  <2>1. Runs("store") /\ GoesTo("count", 0) /\ result' \in Nat
    BY <1>6, <1>9 DEF StoreResult
  <2>2. frames' \in Seq(Frame)
    BY <1>1, <2>1, HandlerGoes DEF Ats
  <2> QED BY <1>1, <1>9, <2>1, <2>2 DEF StoreResult, Statics
<1>10. CASE CountBit
  <2>1. Runs("count") /\ GoesTo("counted", counter + 1) /\ counter + 1 \in Nat
    BY <1>1, <1>10 DEF CountBit, Statics
  <2>2. frames' \in Seq(Frame)
    BY <1>1, <2>1, HandlerGoes DEF Ats
  <2> QED BY <1>1, <1>10, <2>2 DEF CountBit, Statics, statics
<1>11. CASE StoreCounter
  <2>1. Runs("counted") /\ GoesTo("test", 0) /\ counter' \in Nat
    BY <1>6, <1>11 DEF StoreCounter
  <2>2. frames' \in Seq(Frame)
    BY <1>1, <2>1, HandlerGoes DEF Ats
  <2> QED BY <1>1, <1>11, <2>1, <2>2 DEF StoreCounter, Statics
<1>12. CASE Test
  <2>1. frames' \in Seq(Frame)
    <3>1. CASE counter = Bits
      BY <1>1, <1>12, <3>1, HandlerGoes DEF Test, Ats
    <3>2. CASE counter # Bits
      BY <1>1, <1>12, <3>2, ReturnsIs DEF Test, Statics, Runs
    <3> QED BY <3>1, <3>2
  <2> QED BY <1>1, <1>12, <2>1 DEF Test, Statics, statics
<1>13. CASE Complete
  <2>1. Runs("complete") /\ GoesTo("reset", 0)
    BY <1>13 DEF Complete
  <2>2. frames' \in Seq(Frame)
    BY <1>1, <2>1, HandlerGoes DEF Ats
  <2>3. Extended \in Seq(Characters)
    BY <1>1, ExtendedIs
  <2>4. final' \in Seq(Characters)
    BY <1>13, <2>3, EmptySeq DEF Complete
  <2>5. printed' \in Seq(Seq(Characters))
    <3>1. printed' = printed \/ printed' = Append(printed, Extended)
      BY <1>13 DEF Complete
    <3> DEFINE S == Seq(Characters)
    <3>2. printed \in Seq(S) /\ Extended \in S
      BY <1>1, <2>3 DEF Statics
    <3> HIDE DEF S
    <3>3. Append(printed, Extended) \in Seq(S)
      BY <3>2, AppendProperties
    <3>4. printed' \in Seq(S)
      BY <3>1, <3>2, <3>3
    <3> QED BY <3>4 DEF S
  <2> QED BY <1>1, <1>13, <2>2, <2>4, <2>5 DEF Complete, Statics
<1>14. CASE Reset
  <2>1. frames' \in Seq(Frame)
    BY <1>1, <1>14, ReturnsIs DEF Reset, Statics, Runs
  <2> QED BY <1>1, <1>14, <2>1 DEF Reset, Statics
<1> QED BY <1>3, <1>4, <1>5, <1>7, <1>8, <1>9, <1>10, <1>11, <1>12, <1>13, <1>14 DEF Next, Server

LEMMA OneAtATimeKept == TInv /\ sa_mask = Signal /\ [Next]_vars => OneAtATime'
<1> SUFFICES ASSUME TInv, sa_mask = Signal, [Next]_vars PROVE OneAtATime'
  OBVIOUS
<1>1. OneAtATime /\ Statics
  BY DEF TInv
<1>2. CASE UNCHANGED <<frames, counter, result>>
  <2>1. Now' = Now /\ \A at : Runs(at)' <=> Runs(at)
    BY <1>2 DEF Now, Runs
  <2> QED BY <1>1, <1>2, <2>1 DEF OneAtATime, Room
<1>3. ASSUME NEW s \in Signal, Deliver(s) PROVE OneAtATime'
  <2>1. frames = <<>> /\ UNCHANGED <<counter, result>>
    BY <1>3 DEF Deliver, statics
  <2>2. Len(frames) = 0
    BY <2>1, EmptySeq
  <2>3. frames' # <<>> /\ Len(frames') = 1 /\ Now'.at = "weigh"
    BY <1>1, <1>3, <2>2, DeliverIs DEF Statics
  <2>4. frames' # <<>> /\ \A at : Runs(at)' <=> at = "weigh"
    BY <2>3 DEF Runs, Now
  <2> QED BY <1>1, <2>1, <2>3, <2>4 DEF OneAtATime, Room
<1>4. ASSUME NEW from, Runs(from)
      PROVE  /\ Len(frames) = 1 /\ Now.signal \in Signal /\ Now.value \in Nat
  <2>1. Now \in Frame /\ Len(frames) \in Nat \ {0}
    BY <1>1, <1>4, LastFrame DEF Statics, Runs
  <2>2. Now.signal \in Signal /\ Now.value \in Nat
    BY <2>1 DEF Frame
  <2>3. Len(frames) <= 1
    BY <1>1 DEF OneAtATime
  <2>4. Len(frames) = 1
    <3> DEFINE length == Len(frames)
    <3>1. length \in Nat \ {0} /\ length <= 1
      BY <2>1, <2>3
    <3> HIDE DEF length
    <3>2. length = 1
      BY <3>1
    <3> QED BY <3>2 DEF length
  <2> QED BY <2>2, <2>4
<1>5. CASE Weigh
  <2> DEFINE v == IF Now.signal = "SIGUSR2" THEN Weight ELSE 0
  <2>1. Runs("weigh") /\ GoesTo("add", v) /\ UNCHANGED <<counter, result>>
    BY <1>5 DEF Weigh, statics
  <2>2. counter < Bits /\ Room(result, counter) /\ counter \in 0 .. Bits - 1 /\ result \in Nat
    BY <1>1, <2>1, BitsAssumption DEF OneAtATime, Statics
  <2>3. v \in {0, Power[Bits - counter]} /\ v \in Nat
    BY <1>1, <2>2, WeightIs DEF Statics
  <2> HIDE DEF v
  <2>4. Room(result + v, counter + 1)
    BY <2>2, <2>3, RoomHalves
  <2>5. /\ Len(frames') = 1 /\ frames' # <<>> /\ Now'.value = v
        /\ \A at : Runs(at)' <=> at = "add"
    BY <1>1, <1>4, <2>1, <2>3, HandlerGoes DEF Ats
  <2> QED BY <2>1, <2>2, <2>4, <2>5 DEF OneAtATime, Room
<1>6. CASE AddBit
  <2> DEFINE v == result + Now.value
  <2>1. Runs("add") /\ GoesTo("store", v) /\ UNCHANGED <<counter, result>>
    BY <1>6 DEF AddBit, statics
  <2>2. counter < Bits /\ Room(v, counter + 1) /\ Now.value \in Nat /\ result \in Nat
    BY <1>1, <1>4, <2>1 DEF OneAtATime, Statics
  <2>3. v \in Nat /\ v \in Letters
    BY <2>2, RoomIs DEF Room
  <2>4. result \in Letters
    BY <2>2, <2>3, BitsAssumption, PowerDoubles DEF Letters
  <2> HIDE DEF v
  <2>5. /\ Len(frames') = 1 /\ frames' # <<>> /\ Now'.value = v
        /\ \A at : Runs(at)' <=> at = "store"
    BY <1>1, <1>4, <2>1, <2>3, HandlerGoes DEF Ats
  <2> QED BY <2>1, <2>2, <2>4, <2>5 DEF OneAtATime, Room, Letters
<1>7. CASE StoreResult
  <2>1. Runs("store") /\ GoesTo("count", 0) /\ counter' = counter /\ result' = Now.value
    BY <1>7 DEF StoreResult
  <2>2. counter < Bits /\ Room(Now.value, counter + 1)
    BY <1>1, <2>1 DEF OneAtATime
  <2>3. Len(frames') = 1 /\ frames' # <<>> /\ \A at : Runs(at)' <=> at = "count"
    BY <1>1, <1>4, <2>1, HandlerGoes DEF Ats
  <2> QED BY <2>1, <2>2, <2>3 DEF OneAtATime, Room
<1>8. CASE CountBit
  <2>1. Runs("count") /\ GoesTo("counted", counter + 1) /\ UNCHANGED <<counter, result>>
    BY <1>8 DEF CountBit, statics
  <2>2. counter < Bits /\ Room(result, counter + 1) /\ counter + 1 \in Nat
    BY <1>1, <2>1 DEF OneAtATime, Statics
  <2>3. /\ Len(frames') = 1 /\ frames' # <<>> /\ Now'.value = counter + 1
        /\ \A at : Runs(at)' <=> at = "counted"
    BY <1>1, <1>4, <2>1, <2>2, HandlerGoes DEF Ats
  <2> QED BY <2>1, <2>2, <2>3 DEF OneAtATime, Room
<1>9. CASE StoreCounter
  <2>1. Runs("counted") /\ GoesTo("test", 0) /\ counter' = Now.value /\ result' = result
    BY <1>9 DEF StoreCounter
  <2>2. Room(result, counter + 1) /\ Now.value = counter + 1
    BY <1>1, <2>1 DEF OneAtATime
  <2>3. Len(frames') = 1 /\ frames' # <<>> /\ \A at : Runs(at)' <=> at = "test"
    BY <1>1, <1>4, <2>1, HandlerGoes DEF Ats
  <2> QED BY <2>1, <2>2, <2>3 DEF OneAtATime, Room
<1>10. CASE Test
  <2>1. Runs("test") /\ UNCHANGED <<counter, result>>
    BY <1>10 DEF Test, statics
  <2>2. Room(result, counter)
    BY <1>1, <2>1 DEF OneAtATime
  <2>3. CASE counter = Bits
    <3>1. GoesTo("complete", 0)
      BY <1>10, <2>3 DEF Test
    <3>2. Len(frames') = 1 /\ frames' # <<>> /\ \A at : Runs(at)' <=> at = "complete"
      BY <1>1, <1>4, <2>1, <3>1, HandlerGoes DEF Ats
    <3> QED BY <2>1, <2>2, <2>3, <3>2 DEF OneAtATime, Room
  <2>4. CASE counter # Bits
    <3>1. Returns
      BY <1>10, <2>4 DEF Test
    <3>2. Len(frames') = 0 /\ frames' = <<>>
      <4>1. frames' \in Seq(Frame) /\ Len(frames') = 0
        BY <1>1, <1>4, <2>1, <3>1, ReturnsIs DEF Statics, Runs
      <4> QED BY <4>1, EmptySeq
    <3>3. counter < Bits
      BY <2>2, <2>4, BitsAssumption DEF Room
    <3> QED BY <2>1, <2>2, <3>2, <3>3 DEF OneAtATime, Room, Runs
  <2> QED BY <2>3, <2>4
<1>11. CASE Complete
  <2>1. Runs("complete") /\ GoesTo("reset", 0) /\ counter' = 0 /\ result' = result
    BY <1>11 DEF Complete
  <2>2. result \in Letters
    BY <1>1, <2>1, RoomIs DEF OneAtATime, Room
  <2>3. Len(frames') = 1 /\ frames' # <<>> /\ \A at : Runs(at)' <=> at = "reset"
    BY <1>1, <1>4, <2>1, HandlerGoes DEF Ats
  <2> QED BY <2>1, <2>2, <2>3 DEF OneAtATime, Letters
<1>12. CASE Reset
  <2>1. Runs("reset") /\ Returns /\ result' = 0 /\ counter' = 0
    BY <1>1, <1>12 DEF Reset, OneAtATime
  <2>2. Len(frames') = 0 /\ frames' = <<>>
    <3>1. frames' \in Seq(Frame) /\ Len(frames') = 0
      BY <1>1, <1>4, <2>1, ReturnsIs DEF Statics, Runs
    <3> QED BY <3>1, EmptySeq
  <2>3. counter' < Bits /\ Room(0, 0)
    <3>1. Power[Bits + 1] \in Nat /\ Bits - 0 + 1 = Bits + 1
      BY BitsAssumption, PowerDoubles
    <3> QED BY <2>1, <3>1, BitsAssumption DEF Room
  <2> QED BY <2>1, <2>2, <2>3 DEF OneAtATime, Room, Runs
<1>13. CASE (\E c \in Client : Send(c) \/ Die(c)) \/ UNCHANGED vars
  BY <1>2, <1>13 DEF Send, Die, statics, vars
<1> QED BY <1>3, <1>5, <1>6, <1>7, <1>8, <1>9, <1>10, <1>11, <1>12, <1>13 DEF Next, Server

LEMMA TypesKept == TInv /\ [Next]_vars => TInv'
<1> SUFFICES ASSUME TInv, [Next]_vars PROVE TInv'
  OBVIOUS
<1>1. sa_mask' = sa_mask
  BY DEF Next, Server, Deliver, Weigh, AddBit, StoreResult, CountBit, StoreCounter, Test,
     Complete, Reset, Send, Die, vars
<1> QED BY <1>1, ClientsKept, StaticsKept, OneAtATimeKept DEF TInv

\* Every variable has its type, and where the handlers block each other no
\* mixture of signals takes a character out of its range (signal_handler).
THEOREM TypeCorrect == Spec => []TypeOK
<1>1. TInv => TypeOK
  <2> SUFFICES ASSUME TInv PROVE TypeOK
    OBVIOUS
  <2>1. sa_mask = Signal => counter \in 0 .. Bits /\ result \in 0 .. Power[Bits + 1] - 1
    <3> SUFFICES ASSUME sa_mask = Signal
                 PROVE  counter \in 0 .. Bits /\ result \in Letters
      BY DEF Letters
    <3>1. OneAtATime /\ Statics
      BY DEF TInv
    <3>2. CASE frames = <<>> \/ Runs("weigh") \/ Runs("test") \/ Runs("complete")
      BY <3>1, <3>2, RoomIs DEF OneAtATime, Room
    <3>3. CASE Runs("add")
      <4>1. counter < Bits /\ Room(result + Now.value, counter + 1) /\ Now.value \in Nat
        BY <3>1, <3>3, LastFrame DEF OneAtATime, Statics, Runs, Frame
      <4>2. result + Now.value \in Letters
        BY <4>1, RoomIs DEF Room
      <4>3. Power[Bits + 1] \in Nat /\ result \in Nat /\ counter \in Nat
        <5>1. Power[Bits + 1] \in Nat
          BY BitsAssumption, PowerDoubles
        <5> QED BY <3>1, <5>1 DEF Statics
      <4>4. result \in Letters
        BY <4>1, <4>2, <4>3 DEF Letters
      <4> QED BY <4>1, <4>3, <4>4, BitsAssumption
    <3>4. CASE Runs("store")
      BY <3>1, <3>4, BitsAssumption DEF OneAtATime, Statics
    <3>5. CASE Runs("count") \/ Runs("counted")
      <4>1. counter < Bits /\ Room(result, counter + 1)
        BY <3>1, <3>5 DEF OneAtATime
      <4>2. result \in Nat /\ counter \in Nat /\ counter + 1 \in 0 .. Bits
        BY <3>1, <4>1, BitsAssumption DEF Statics
      <4>3. result \in Letters
        BY <4>1, <4>2, RoomIs
      <4> QED BY <4>1, <4>2, <4>3, BitsAssumption
    <3>6. CASE Runs("reset")
      BY <3>1, <3>6, BitsAssumption DEF OneAtATime
    <3>7. frames # <<>> => \E at \in Ats : Runs(at)
      <4> SUFFICES ASSUME frames # <<>> PROVE \E at \in Ats : Runs(at)
        OBVIOUS
      <4>1. Now \in Frame
        BY <3>1, LastFrame DEF Statics
      <4>2. Now.at \in Ats
        BY <4>1 DEF Frame, Ats
      <4> QED BY <4>2 DEF Runs, Now
    <3> QED BY <3>2, <3>3, <3>4, <3>5, <3>6, <3>7 DEF Ats
  <2> QED BY <2>1 DEF TInv, Clients, Statics, TypeOK, Frame
<1> QED BY <1>1, TypesInit, TypesKept, PTL DEF Spec
-----------------------------------------------------------------------------
(* What is printed *)

\* The client whose text is being sent, or was the last one.
Sender == order[Len(order)]

\* What the statics are when n bits of that text have been handled.
Counted(n) == counter = n % Bits
Gathered(n) == result = Prefix(Letter(message[Sender], n), n % Bits)
Filled(n) ==
    IF n = Size(message[Sender])
    THEN final = <<>> /\ Len(printed) = Len(order)
    ELSE /\ Len(final) = n \div Bits
         /\ \A k \in 1 .. n \div Bits : final[k] = message[Sender][k]
         /\ Len(printed) = Len(order) - 1
Decoded(n) == Counted(n) /\ Gathered(n) /\ Filled(n)

\* The letter with the bit after n others, and the signal for that bit.
Grown(n) == Prefix(Letter(message[Sender], n), (n % Bits) + 1)
SignalOf(n) == IF Bit(message[Sender], n) = 0 THEN "SIGUSR1" ELSE "SIGUSR2"

\* The bit after n others is pending, or its handler has got so far.
Handling(n) ==
    /\ pending # {} => frames = <<>> /\ pending = {SignalOf(n)} /\ Decoded(n)
    /\ frames # <<>> => pending = {} /\ Len(frames) = 1 /\ Now.signal = SignalOf(n)
    /\ Runs("weigh") => Decoded(n)
    /\ Runs("add") => result + Now.value = Grown(n) /\ Counted(n) /\ Filled(n)
    /\ Runs("store") => Now.value = Grown(n) /\ Counted(n) /\ Filled(n)
    /\ Runs("count") => result = Grown(n) /\ Counted(n) /\ Filled(n)
    /\ Runs("counted") => result = Grown(n) /\ Now.value = (n % Bits) + 1 /\ Filled(n)
    /\ Runs("test") => result = Grown(n) /\ counter = (n % Bits) + 1 /\ Filled(n)
    /\ Runs("complete") =>
          result = Grown(n) /\ counter = (n % Bits) + 1 /\ counter = Bits /\ Filled(n)
    /\ Runs("reset") => counter = 0 /\ (n % Bits) + 1 = Bits /\ Filled(n + 1)

Nothing == counter = 0 /\ result = 0 /\ final = <<>> /\ printed = <<>>

Whole ==
    /\ Len(printed) <= Len(order)
    /\ \A k \in 1 .. Len(printed) : printed[k] = message[order[k]]

\* Without disturbance only the sender is in the middle of its text, and the
\* statics follow from the bits it has sent.
Undisturbed ==
    /\ \A c \in Client : Midway(c) => order # <<>> /\ c = Sender
    /\ Whole
    /\ pending = {} /\ frames = <<>> =>
          IF order = <<>> THEN Nothing ELSE Decoded(position[Sender])
    /\ pending # {} \/ frames # <<>> =>
          order # <<>> /\ Handling(position[Sender] - 1)

Orderly ==
    /\ \A c \in Client : position[c] <= Size(message[c])
    /\ \A k \in 1 .. Len(order) : position[order[k]] > 0
    /\ \A c \in Client : position[c] > 0 => \E k \in 1 .. Len(order) : order[k] = c

TextInv == Orderly /\ (~disturbed => Undisturbed)

LEMMA TextIs ==
    ASSUME Clients, NEW c \in Client
    PROVE  /\ message[c] \in Seq(Characters) /\ message[c] # <<>>
           /\ Len(message[c]) \in Nat \ {0}
           /\ Size(message[c]) = (Len(message[c]) + 1) * Bits
           /\ Size(message[c]) \in Nat \ {0}
<1>1. message[c] \in Seq(Characters) /\ message[c] # <<>>
  BY MessagesAssumption DEF Clients
<1>2. Len(message[c]) \in Nat \ {0}
  BY <1>1, EmptySeq
<1>3. (Len(message[c]) + 1) * Bits \in Nat \ {0}
  BY <1>2, LastPlace
<1> QED BY <1>1, <1>2, <1>3 DEF Size

LEMMA LetterIs ==
    ASSUME NEW text \in Seq(Characters), NEW n \in Nat
    PROVE  /\ Letter(text, n) \in Letters
           /\ n \div Bits < Len(text) => Letter(text, n) \in Characters
           /\ ~ (n \div Bits < Len(text)) => Letter(text, n) = 0
<1>1. Power[Bits + 1] \in Nat \ {0}
  BY PowerLast
<1>2. Characters \subseteq Letters /\ 0 \in Letters
  BY <1>1 DEF Characters, Letters
<1>3. ASSUME n \div Bits < Len(text) PROVE text[n \div Bits + 1] \in Characters
  <2>1. n \div Bits \in Nat /\ Len(text) \in Nat
    BY Place, LenProperties
  <2>2. n \div Bits + 1 \in 1 .. Len(text)
    BY <1>3, <2>1
  <2> QED BY <2>2, ElementOfSeq
<1> QED BY <1>2, <1>3 DEF Letter

LEMMA SenderIs ==
    ASSUME Clients, Orderly, order # <<>>
    PROVE  /\ Len(order) \in Nat \ {0} /\ Sender \in Client
           /\ position[Sender] \in Nat \ {0}
           /\ position[Sender] <= Size(message[Sender])
<1>1. Len(order) \in Nat \ {0}
  BY EmptySeq DEF Clients
<1>2. Len(order) \in 1 .. Len(order)
  BY <1>1
<1>3. Sender \in Client /\ position[Sender] > 0
  BY <1>2, ElementOfSeq DEF Sender, Clients, Orderly
<1>4. position[Sender] \in Nat
  BY <1>3 DEF Clients
<1> QED BY <1>1, <1>3, <1>4 DEF Orderly

\* Handling a bit adds it to the letter.
LEMMA GrownIs ==
    ASSUME Clients, Sender \in Client, NEW n \in Nat
    PROVE  LET weight == Power[Bits - (n % Bits)]
           IN  /\ weight \in Nat
               /\ Grown(n) = Prefix(Letter(message[Sender], n), n % Bits)
                                + (IF SignalOf(n) = "SIGUSR2" THEN weight ELSE 0)
<1> DEFINE letter == Letter(message[Sender], n)
           c == n % Bits
           weight == Power[Bits - c]
           bit == (letter \div weight) % 2
<1>1. letter \in Letters
  BY TextIs, LetterIs
<1>2. c \in 0 .. Bits - 1
  BY Place
<1>3. weight \in Nat \ {0}
  BY <1>2, BitsAssumption, PowerDoubles
<1>4. Bit(message[Sender], n) = bit
  BY DEF Bit
<1>5. Grown(n) = Prefix(letter, c + 1)
  BY DEF Grown
<1> HIDE DEF letter, c
<1>6. Prefix(letter, c + 1) = Prefix(letter, c) + bit * weight
  BY <1>1, <1>2, PrefixGrows
<1>7. bit \in {0, 1}
  <2>1. letter \in Nat
    BY <1>1, BitsAssumption, PowerDoubles DEF Letters
  <2>2. letter \div weight \in Nat
    BY <1>3, <2>1, SMTT(30)
  <2> QED BY <2>2
<1> HIDE DEF bit, weight
<1>8. bit * weight = IF SignalOf(n) = "SIGUSR2" THEN weight ELSE 0
  <2>1. CASE bit = 0
    BY <1>3, <1>4, <2>1 DEF SignalOf
  <2>2. CASE bit = 1
    BY <1>3, <1>4, <2>2 DEF SignalOf
  <2> QED BY <1>7, <2>1, <2>2
<1> QED BY <1>3, <1>5, <1>6, <1>8 DEF letter, c, weight

\* After a bit that is not the last of its letter.
LEMMA DecodedNext ==
    ASSUME Clients, Sender \in Client, NEW n \in Nat, n < Size(message[Sender]),
           (n % Bits) + 1 # Bits, result = Grown(n), counter = (n % Bits) + 1, Filled(n)
    PROVE  Decoded(n + 1)
<1>1. /\ (n + 1) \div Bits = n \div Bits /\ (n + 1) % Bits = (n % Bits) + 1
  BY NextPlace
<1>2. n + 1 # Size(message[Sender]) /\ n # Size(message[Sender])
  <2>1. /\ Len(message[Sender]) \in Nat
        /\ Size(message[Sender]) = (Len(message[Sender]) + 1) * Bits
        /\ Size(message[Sender]) \in Nat
    BY TextIs
  <2>2. n + 1 # (Len(message[Sender]) + 1) * Bits
    BY <2>1, Places
  <2> QED BY <2>1, <2>2
<1>3. Letter(message[Sender], n + 1) = Letter(message[Sender], n)
  BY <1>1 DEF Letter
<1>4. Counted(n + 1) /\ Gathered(n + 1)
  BY <1>1, <1>3 DEF Counted, Gathered, Grown
<1>5. Filled(n + 1)
  BY <1>1, <1>2 DEF Filled
<1> QED BY <1>4, <1>5 DEF Decoded

\* The steps of clients.
LEMMA SendKeeps ==
    ASSUME TInv, TextInv, NEW c \in Client, Send(c)
    PROVE  Orderly'
<1>1. /\ ~Done(c) /\ message' = message
      /\ position' = [position EXCEPT ![c] = @ + 1]
      /\ order' = IF position[c] = 0 THEN Append(order, c) ELSE order
  BY DEF Send
<1>2. Clients /\ Orderly
  BY DEF TInv, TextInv
<1>3. /\ position'[c] = position[c] + 1 /\ \A d \in Client : d # c => position'[d] = position[d]
      /\ \A d \in Client : position[d] \in Nat
  BY <1>1, <1>2 DEF Clients
<1>4. \A d \in Client : position'[d] <= Size(message'[d])
  <2>1. Size(message[c]) \in Nat /\ position[c] # Size(message[c])
    BY <1>1, <1>2, TextIs DEF Done
  <2>2. \A d \in Client : position[d] <= Size(message[d])
    BY <1>2 DEF Orderly
  <2> QED BY <1>1, <1>3, <2>1, <2>2
<1>5. CASE position[c] = 0
  <2>1. /\ Len(order') = Len(order) + 1 /\ Len(order) \in Nat
        /\ \A k \in 1 .. Len(order) : order'[k] = order[k]
        /\ order'[Len(order) + 1] = c
    BY <1>1, <1>2, <1>5, AppendProperties, LenProperties DEF Clients
  <2>2. \A k \in 1 .. Len(order) : order[k] \in Client /\ position[order[k]] > 0
    BY <1>2, ElementOfSeq DEF Clients, Orderly
  <2>3. \A k \in 1 .. Len(order') : position'[order'[k]] > 0
    BY <1>3, <2>1, <2>2
  <2>4. ASSUME NEW d \in Client, position'[d] > 0
        PROVE  \E k \in 1 .. Len(order') : order'[k] = d
    <3>1. CASE d = c
      <4>1. Len(order) + 1 \in 1 .. Len(order')
        BY <2>1
      <4> QED BY <2>1, <3>1, <4>1
    <3>2. CASE d # c
      <4>1. PICK k \in 1 .. Len(order) : order[k] = d
        BY <1>2, <1>3, <2>4, <3>2 DEF Orderly
      <4>2. k \in 1 .. Len(order')
        BY <2>1
      <4> QED BY <2>1, <4>1, <4>2
    <3> QED BY <3>1, <3>2
  <2> QED BY <1>4, <2>3, <2>4 DEF Orderly
<1>6. CASE position[c] # 0
  <2>1. \A k \in 1 .. Len(order) : order[k] \in Client /\ position[order[k]] > 0
    BY <1>2, ElementOfSeq DEF Clients, Orderly
  <2>2. \A k \in 1 .. Len(order) : position'[order[k]] > 0
    BY <1>3, <2>1
  <2>3. ASSUME NEW d \in Client, position'[d] > 0 PROVE position[d] > 0
    BY <1>3, <1>6, <2>3
  <2>4. \A d \in Client : position'[d] > 0 => \E k \in 1 .. Len(order) : order[k] = d
    BY <1>2, <2>3 DEF Orderly
  <2> QED BY <1>1, <1>4, <1>6, <2>2, <2>4 DEF Orderly
<1> QED BY <1>5, <1>6

\* A client begins: the statics are as at the start.
LEMMA BeginKeeps ==
    ASSUME TInv, TextInv, NEW c \in Client, Send(c), position[c] = 0, ~disturbed'
    PROVE  Undisturbed'
<1>1. /\ message' = message /\ UNCHANGED <<frames, counter, result, final, printed>>
      /\ position' = [position EXCEPT ![c] = @ + 1]
      /\ order' = Append(order, c)
      /\ ~disturbed /\ pending = {} /\ frames = <<>>
      /\ \A d \in Client \ {c} : ~Midway(d)
      /\ pending' = pending \cup
            {IF Bit(message[c], position[c]) = 0 THEN "SIGUSR1" ELSE "SIGUSR2"}
  BY DEF Send, statics
<1>2. Clients /\ Orderly /\ Undisturbed
  BY <1>1 DEF TInv, TextInv
<1>3. /\ position'[c] = 1 /\ \A d \in Client : d # c => position'[d] = position[d]
  BY <1>1, <1>2 DEF Clients
<1>4. /\ Len(order') = Len(order) + 1 /\ Len(order) \in Nat /\ order' # <<>>
      /\ \A k \in 1 .. Len(order) : order'[k] = order[k]
      /\ order'[Len(order) + 1] = c
  BY <1>1, <1>2, AppendProperties, LenProperties DEF Clients
<1>5. Sender' = c /\ position'[c] - 1 = 0
  BY <1>3, <1>4 DEF Sender
<1>6. counter = 0 /\ result = 0 /\ final = <<>> /\ Len(printed) = Len(order)
  <2>1. CASE order = <<>>
    <3>1. Nothing
      BY <1>1, <1>2, <2>1 DEF Undisturbed
    <3>2. Len(printed) = Len(order)
      BY <2>1, <3>1 DEF Nothing
    <3> QED BY <3>1, <3>2 DEF Nothing
  <2>2. CASE order # <<>>
    <3>1. /\ Sender \in Client /\ position[Sender] \in Nat \ {0}
          /\ position[Sender] <= Size(message[Sender])
      BY <1>2, <2>2, SenderIs
    <3>2. Sender # c
      BY <3>1
    <3>3. position[Sender] = Size(message[Sender])
      BY <1>1, <3>1, <3>2 DEF Midway, Done
    <3>4. Decoded(Size(message[Sender]))
      BY <1>1, <1>2, <2>2, <3>3 DEF Undisturbed
    <3>5. /\ Len(message[Sender]) \in Nat
          /\ Size(message[Sender]) = (Len(message[Sender]) + 1) * Bits
          /\ message[Sender] \in Seq(Characters)
      BY <1>2, <3>1, TextIs
    <3>6. /\ Size(message[Sender]) \div Bits = Len(message[Sender]) + 1
          /\ Size(message[Sender]) % Bits = 0
      BY <3>5, LastPlace
    <3>7. Letter(message[Sender], Size(message[Sender])) = 0
      BY <3>5, <3>6 DEF Letter
    <3>8. 0 \in Letters
      BY PowerLast DEF Letters
    <3>9. Prefix(0, 0) = 0
      BY <3>8, PrefixEnds
    <3> QED BY <3>4, <3>6, <3>7, <3>9 DEF Decoded, Counted, Gathered, Filled
  <2> QED BY <2>1, <2>2
<1>7. Whole'
  <2>1. Whole
    BY <1>2 DEF Undisturbed
  <2> QED BY <1>1, <1>4, <1>6, <2>1 DEF Whole
<1>8. pending' = {SignalOf(0)'} /\ pending' # {}
  BY <1>1, <1>5 DEF SignalOf
<1>9. Decoded(0)'
  <2>1. Size(message[c]) # 0 /\ message[c] \in Seq(Characters)
    BY <1>2, TextIs
  <2>2. Letter(message[c], 0) \in Letters
    BY <2>1, LetterIs
  <2>3. Prefix(Letter(message[c], 0), 0) = 0
    BY <2>2, PrefixEnds
  <2>4. Counted(0)' /\ Gathered(0)'
    BY <1>1, <1>5, <1>6, <2>3, FirstPlace DEF Counted, Gathered
  <2>5. Len(final') = 0 /\ Len(printed') = Len(order') - 1
    BY <1>1, <1>4, <1>6
  <2>6. Filled(0)'
    BY <1>1, <1>5, <2>1, <2>5, FirstPlace DEF Filled
  <2> QED BY <2>4, <2>6 DEF Decoded
<1>10. Handling(0)'
  BY <1>1, <1>8, <1>9 DEF Handling, Runs
<1>11. Handling(position[Sender] - 1)'
  BY <1>5, <1>10
<1>12. \A d \in Client : Midway(d)' => d = c
  <2>1. ASSUME NEW d \in Client, d # c PROVE Midway(d)' <=> Midway(d)
    BY <1>1, <1>3, <2>1 DEF Midway, Done
  <2> QED BY <1>1, <2>1
<1> QED BY <1>4, <1>5, <1>7, <1>8, <1>11, <1>12 DEF Undisturbed

\* What depends on the text and the client that sends it.
LEMMA SameText ==
    ASSUME UNCHANGED <<message, order>>, NEW n
    PROVE  /\ Sender' = Sender /\ SignalOf(n)' = SignalOf(n) /\ Grown(n)' = Grown(n)
           /\ counter' = counter => (Counted(n)' <=> Counted(n))
           /\ UNCHANGED <<final, printed>> => (Filled(n)' <=> Filled(n))
           /\ UNCHANGED <<statics>> => (Decoded(n)' <=> Decoded(n))
<1>1. Sender' = Sender
  BY DEF Sender
<1>2. SignalOf(n)' = SignalOf(n) /\ Grown(n)' = Grown(n)
  BY <1>1 DEF SignalOf, Grown
<1>3. counter' = counter => (Counted(n)' <=> Counted(n))
  BY DEF Counted
<1>4. UNCHANGED <<final, printed>> => (Filled(n)' <=> Filled(n))
  BY <1>1 DEF Filled
<1>5. result' = result => (Gathered(n)' <=> Gathered(n))
  BY <1>1 DEF Gathered
<1> QED BY <1>1, <1>2, <1>3, <1>4, <1>5 DEF Decoded, statics

\* The sender sends its next bit.
LEMMA GoOnKeeps ==
    ASSUME TInv, TextInv, NEW c \in Client, Send(c), position[c] # 0, ~disturbed'
    PROVE  Undisturbed'
<1>1. /\ message' = message /\ UNCHANGED <<frames, counter, result, final, printed>>
      /\ position' = [position EXCEPT ![c] = @ + 1]
      /\ order' = order
      /\ ~Done(c) /\ ~disturbed /\ pending = {} /\ frames = <<>>
      /\ pending' = pending \cup
            {IF Bit(message[c], position[c]) = 0 THEN "SIGUSR1" ELSE "SIGUSR2"}
  BY DEF Send, statics
<1>2. Clients /\ Orderly /\ Undisturbed
  BY <1>1 DEF TInv, TextInv
<1>3. /\ position'[c] = position[c] + 1 /\ position[c] \in Nat
      /\ \A d \in Client : d # c => position'[d] = position[d]
  BY <1>1, <1>2 DEF Clients
<1>4. Midway(c)
  BY <1>1, <1>3 DEF Midway
<1>5. order # <<>> /\ Sender = c /\ Sender' = Sender
  BY <1>1, <1>2, <1>4 DEF Undisturbed, Sender
<1>6. Decoded(position[c])
  BY <1>1, <1>2, <1>5 DEF Undisturbed
<1>7. PICK n \in Nat : n = position[c]
  BY <1>3
<1>8. Sender' = c /\ position'[c] - 1 = n
  BY <1>3, <1>5, <1>7
<1>9. pending' = {SignalOf(n)'} /\ pending' # {}
  BY <1>1, <1>7, <1>8 DEF SignalOf
<1>10. Decoded(n)'
  <2>1. Decoded(n)
    BY <1>6, <1>7
  <2> QED BY <1>1, <2>1, SameText DEF statics
<1>11. Handling(n)'
  BY <1>1, <1>9, <1>10 DEF Handling, Runs
<1>12. Handling(position[Sender] - 1)'
  BY <1>8, <1>11
<1>13. \A d \in Client : Midway(d)' => d = c
  <2>1. ASSUME NEW d \in Client, d # c PROVE Midway(d)' => Midway(d)
    BY <1>1, <1>3, <2>1 DEF Midway, Done
  <2> QED BY <1>2, <1>5, <2>1 DEF Undisturbed
<1>14. Whole'
  BY <1>1, <1>2 DEF Undisturbed, Whole
<1> QED BY <1>1, <1>5, <1>8, <1>9, <1>12, <1>13, <1>14 DEF Undisturbed

\* Nothing that is sent or printed depends on the clients that died.
LEMMA NothingMoves ==
    ASSUME TInv, TextInv, UNCHANGED <<message, position, order, pending, frames, statics>>
    PROVE  Orderly' /\ (Undisturbed => Undisturbed')
<1>1. UNCHANGED <<message, position, order, pending, frames, counter, result, final, printed>>
  BY DEF statics
<1>2. Orderly'
  BY <1>1 DEF TextInv, Orderly
<1>3. ASSUME Undisturbed PROVE Undisturbed'
  <2>1. Sender' = Sender /\ position'[Sender'] = position[Sender]
    BY <1>1 DEF Sender
  <2>2. \A d \in Client : Midway(d)' <=> Midway(d)
    BY <1>1 DEF Midway, Done
  <2>3. Whole' /\ (Nothing' <=> Nothing)
    BY <1>1, <1>3 DEF Undisturbed, Whole, Nothing
  <2>4. ASSUME NEW n PROVE (Decoded(n)' <=> Decoded(n)) /\ (Handling(n)' <=> Handling(n))
    <3>1. /\ SignalOf(n)' = SignalOf(n) /\ Grown(n)' = Grown(n)
          /\ (Counted(n)' <=> Counted(n)) /\ (Filled(n)' <=> Filled(n))
          /\ (Decoded(n)' <=> Decoded(n))
      BY <1>1, SameText DEF statics
    <3>2. Filled(n + 1)' <=> Filled(n + 1)
      BY <1>1, SameText
    <3>3. \A at : Runs(at)' <=> Runs(at)
      BY <1>1 DEF Runs
    <3>4. Now' = Now
      BY <1>1 DEF Now
    <3> QED BY <1>1, <3>1, <3>2, <3>3, <3>4 DEF Handling
  <2>5. PICK n, m : n = position[Sender] /\ m = position[Sender] - 1
    OBVIOUS
  <2>6. Decoded(position[Sender])' <=> Decoded(n)'
    BY <2>1, <2>5
  <2>7. Handling(position[Sender] - 1)' <=> Handling(m)'
    BY <2>1, <2>5
  <2> QED BY <1>1, <1>3, <2>1, <2>2, <2>3, <2>4, <2>5, <2>6, <2>7 DEF Undisturbed
<1> QED BY <1>2, <1>3

LEMMA DieKeeps ==
    ASSUME TInv, TextInv, NEW c \in Client, Die(c)
    PROVE  TextInv'
  BY NothingMoves DEF Die, TextInv

\* The steps of the server: the bit that is being handled.
Current(n) ==
    /\ n \in Nat /\ position[Sender] = n + 1
    /\ n < Size(message[Sender])
    /\ order # <<>> /\ Sender \in Client

LEMMA Busy ==
    ASSUME TInv, TextInv, ~disturbed, pending # {} \/ frames # <<>>
    PROVE  \E n : Current(n) /\ Handling(n)
<1>1. Clients /\ Orderly /\ Undisturbed
  BY DEF TInv, TextInv
<1>2. order # <<>> /\ Handling(position[Sender] - 1)
  BY <1>1 DEF Undisturbed
<1>3. /\ Sender \in Client /\ position[Sender] \in Nat \ {0}
      /\ position[Sender] <= Size(message[Sender])
  BY <1>1, <1>2, SenderIs
<1>4. Size(message[Sender]) \in Nat
  BY <1>1, <1>3, TextIs
<1>5. PICK n : n = position[Sender] - 1
  OBVIOUS
<1>6. Current(n)
  BY <1>2, <1>3, <1>4, <1>5 DEF Current
<1>7. Handling(n)
  BY <1>2, <1>5
<1> QED BY <1>6, <1>7

LEMMA StaysBusy ==
    ASSUME TInv, TextInv, ~disturbed, UNCHANGED client, NEW n, Current(n), Whole',
           \/ (pending' # {} \/ frames' # <<>>) /\ Handling(n)'
           \/ pending' = {} /\ frames' = <<>> /\ Decoded(n + 1)'
    PROVE  Undisturbed'
<1>1. /\ message' = message /\ position' = position /\ order' = order
      /\ Undisturbed /\ Clients
  BY DEF client, TInv, TextInv
<1>2. Sender' = Sender /\ position'[Sender'] = n + 1 /\ order' # <<>> /\ n \in Nat
  BY <1>1 DEF Sender, Current
<1>3. \A d \in Client : Midway(d)' => d = Sender'
  <2>1. \A d \in Client : Midway(d)' <=> Midway(d)
    BY <1>1 DEF Midway, Done
  <2> QED BY <1>1, <1>2, <2>1 DEF Undisturbed
<1>4. CASE (pending' # {} \/ frames' # <<>>) /\ Handling(n)'
  <2>1. position'[Sender'] - 1 = n
    BY <1>2
  <2>2. Handling(position[Sender] - 1)'
    BY <1>4, <2>1
  <2> QED BY <1>2, <1>3, <1>4, <2>2 DEF Undisturbed
<1>5. CASE pending' = {} /\ frames' = <<>> /\ Decoded(n + 1)'
  <2>1. Decoded(position[Sender])'
    BY <1>2, <1>5
  <2> QED BY <1>2, <1>3, <1>5, <2>1 DEF Undisturbed
<1> QED BY <1>4, <1>5

LEMMA WholeStays ==
    ASSUME Whole, UNCHANGED client, printed' = printed
    PROVE  Whole'
  BY DEF Whole, client

\* The handler goes on with the bit.
LEMMA GoesOn ==
    ASSUME TInv, NEW n, Handling(n), UNCHANGED client, pending' = pending,
           NEW from, Runs(from), NEW at \in Ats, NEW value \in Nat, GoesTo(at, value),
           at = "add" => result' + value = Grown(n) /\ Counted(n)' /\ Filled(n)',
           at = "store" => value = Grown(n) /\ Counted(n)' /\ Filled(n)',
           at = "count" => result' = Grown(n) /\ Counted(n)' /\ Filled(n)',
           at = "counted" => result' = Grown(n) /\ value = (n % Bits) + 1 /\ Filled(n)',
           at = "test" => result' = Grown(n) /\ counter' = (n % Bits) + 1 /\ Filled(n)',
           at = "complete" => /\ result' = Grown(n) /\ counter' = (n % Bits) + 1
                              /\ counter' = Bits /\ Filled(n)',
           at = "reset" => counter' = 0 /\ (n % Bits) + 1 = Bits /\ Filled(n + 1)',
           at # "weigh"
    PROVE  frames' # <<>> /\ Handling(n)'
<1>1. frames # <<>> /\ Statics
  BY DEF Runs, TInv
<1>2. pending = {} /\ Len(frames) = 1 /\ Now.signal = SignalOf(n)
  BY <1>1 DEF Handling
<1>3. /\ frames' # <<>> /\ Len(frames') = 1 /\ Now'.signal = Now.signal /\ Now'.value = value
      /\ \A other : Runs(other)' <=> other = at
  BY <1>1, <1>2, HandlerGoes
<1>4. SignalOf(n)' = SignalOf(n) /\ Grown(n)' = Grown(n)
  BY SameText DEF client
<1> QED BY <1>2, <1>3, <1>4 DEF Handling

LEMMA DeliverKeeps ==
    ASSUME TInv, TextInv, ~disturbed, NEW s \in Signal, Deliver(s)
    PROVE  Undisturbed'
<1>1. /\ s \in pending /\ pending' = pending \ {s}
      /\ UNCHANGED <<client, statics, message, order, printed>>
  BY DEF Deliver, client, statics
<1>2. PICK n : Current(n) /\ Handling(n)
  BY <1>1, Busy
<1>3. frames = <<>> /\ pending = {SignalOf(n)} /\ Decoded(n) /\ s = SignalOf(n)
  BY <1>1, <1>2 DEF Handling
<1>4. frames \in Seq(Frame) /\ Whole
  BY <1>3 DEF TInv, TextInv, Statics, Undisturbed
<1>5. frames' # <<>> /\ Len(frames') = 1 /\ Now' = [signal |-> s, at |-> "weigh", value |-> 0]
  BY <1>3, <1>4, DeliverIs, NoFrames
<1>6. SignalOf(n)' = SignalOf(n) /\ Decoded(n)'
  BY <1>1, <1>3, SameText
<1>7. Now'.signal = s /\ \A at : Runs(at)' <=> at = "weigh"
  BY <1>5 DEF Runs, Now
<1>8. pending' = {}
  BY <1>1, <1>3
<1>9. Handling(n)'
  BY <1>3, <1>5, <1>6, <1>7, <1>8 DEF Handling
<1> QED BY <1>1, <1>2, <1>4, <1>5, <1>9, WholeStays, StaysBusy

\* The steps that only go on: nothing is printed and the text stays.
LEMMA GoingOnKeeps ==
    ASSUME TInv, TextInv, ~disturbed, NEW n, Current(n), UNCHANGED <<client, printed>>,
           frames' # <<>>, Handling(n)'
    PROVE  Undisturbed'
  BY WholeStays, StaysBusy DEF TextInv, Undisturbed

LEMMA WeighKeeps ==
    ASSUME TInv, TextInv, ~disturbed, Weigh
    PROVE  Undisturbed'
<1> DEFINE v == IF Now.signal = "SIGUSR2" THEN Weight ELSE 0
<1>1. /\ Runs("weigh") /\ GoesTo("add", v) /\ pending' = pending
      /\ UNCHANGED <<client, statics, message, order, counter, result, final, printed>>
  BY DEF Weigh, client, statics
<1>2. frames # <<>>
  BY <1>1 DEF Runs
<1>3. PICK n : Current(n) /\ Handling(n)
  BY <1>2, Busy
<1>4. Now.signal = SignalOf(n) /\ Counted(n) /\ Gathered(n) /\ Filled(n)
  BY <1>1, <1>2, <1>3 DEF Handling, Decoded
<1>5. n \in Nat /\ Sender \in Client /\ Clients /\ Statics
  BY <1>3 DEF Current, TInv
<1>6. counter = n % Bits /\ counter < Bits /\ counter \in Nat
  BY <1>4, <1>5, Place, BitsAssumption DEF Counted
<1>7. Weight = Power[Bits - (n % Bits)] /\ Weight \in Nat
  BY <1>6, WeightIs
<1>8. v \in Nat
  BY <1>7
<1>9. Grown(n) = result + v
  BY <1>4, <1>5, <1>7, GrownIs DEF Gathered
<1> HIDE DEF v
<1>10. Counted(n)' /\ Filled(n)'
  BY <1>1, <1>4, SameText
<1>11. frames' # <<>> /\ Handling(n)'
  BY <1>1, <1>3, <1>8, <1>9, <1>10, GoesOn DEF Ats
<1> QED BY <1>1, <1>3, <1>11, GoingOnKeeps

LEMMA AddBitKeeps ==
    ASSUME TInv, TextInv, ~disturbed, AddBit
    PROVE  Undisturbed'
<1> DEFINE v == result + Now.value
<1>1. /\ Runs("add") /\ GoesTo("store", v) /\ pending' = pending
      /\ UNCHANGED <<client, statics, message, order, counter, result, final, printed>>
  BY DEF AddBit, client, statics
<1>2. frames # <<>> /\ Statics
  BY <1>1 DEF Runs, TInv
<1>3. PICK n : Current(n) /\ Handling(n)
  BY <1>2, Busy
<1>4. v = Grown(n) /\ Counted(n) /\ Filled(n)
  BY <1>1, <1>3 DEF Handling
<1>5. v \in Nat
  <2>1. Now \in Frame
    BY <1>2, LastFrame DEF Statics
  <2> QED BY <1>2, <2>1 DEF Statics, Frame
<1> HIDE DEF v
<1>6. Counted(n)' /\ Filled(n)'
  BY <1>1, <1>4, SameText
<1>7. frames' # <<>> /\ Handling(n)'
  BY <1>1, <1>3, <1>4, <1>5, <1>6, GoesOn DEF Ats
<1> QED BY <1>1, <1>3, <1>7, GoingOnKeeps

LEMMA StoreResultKeeps ==
    ASSUME TInv, TextInv, ~disturbed, StoreResult
    PROVE  Undisturbed'
<1>1. /\ Runs("store") /\ GoesTo("count", 0) /\ pending' = pending /\ result' = Now.value
      /\ UNCHANGED <<client, message, order, counter, final, printed>>
  BY DEF StoreResult, client
<1>2. frames # <<>>
  BY <1>1 DEF Runs
<1>3. PICK n : Current(n) /\ Handling(n)
  BY <1>2, Busy
<1>4. result' = Grown(n) /\ Counted(n) /\ Filled(n)
  BY <1>1, <1>3 DEF Handling
<1>5. Counted(n)' /\ Filled(n)'
  BY <1>1, <1>4, SameText
<1>6. frames' # <<>> /\ Handling(n)'
  BY <1>1, <1>3, <1>4, <1>5, GoesOn DEF Ats
<1> QED BY <1>1, <1>3, <1>6, GoingOnKeeps

LEMMA CountBitKeeps ==
    ASSUME TInv, TextInv, ~disturbed, CountBit
    PROVE  Undisturbed'
<1>1. /\ Runs("count") /\ GoesTo("counted", counter + 1) /\ pending' = pending
      /\ UNCHANGED <<client, message, order, counter, result, final, printed>>
  BY DEF CountBit, client, statics
<1>2. frames # <<>> /\ counter \in Nat
  BY <1>1 DEF Runs, TInv, Statics
<1>3. PICK n : Current(n) /\ Handling(n)
  BY <1>2, Busy
<1>4. result' = Grown(n) /\ counter = n % Bits /\ Filled(n)
  BY <1>1, <1>3 DEF Handling, Counted
<1>5. Filled(n)'
  BY <1>1, <1>4, SameText
<1>6. frames' # <<>> /\ Handling(n)'
  BY <1>1, <1>2, <1>3, <1>4, <1>5, GoesOn DEF Ats
<1> QED BY <1>1, <1>3, <1>6, GoingOnKeeps

LEMMA StoreCounterKeeps ==
    ASSUME TInv, TextInv, ~disturbed, StoreCounter
    PROVE  Undisturbed'
<1>1. /\ Runs("counted") /\ GoesTo("test", 0) /\ pending' = pending /\ counter' = Now.value
      /\ UNCHANGED <<client, message, order, result, final, printed>>
  BY DEF StoreCounter, client
<1>2. frames # <<>>
  BY <1>1 DEF Runs
<1>3. PICK n : Current(n) /\ Handling(n)
  BY <1>2, Busy
<1>4. result' = Grown(n) /\ counter' = (n % Bits) + 1 /\ Filled(n)
  BY <1>1, <1>3 DEF Handling
<1>5. Filled(n)'
  BY <1>1, <1>4, SameText
<1>6. frames' # <<>> /\ Handling(n)'
  BY <1>1, <1>3, <1>4, <1>5, GoesOn DEF Ats
<1> QED BY <1>1, <1>3, <1>6, GoingOnKeeps

LEMMA TestKeeps ==
    ASSUME TInv, TextInv, ~disturbed, Test
    PROVE  Undisturbed'
<1>1. /\ Runs("test") /\ pending' = pending
      /\ UNCHANGED <<client, statics, message, order, counter, result, final, printed>>
  BY DEF Test, client, statics
<1>2. frames # <<>> /\ Clients /\ Statics
  BY <1>1 DEF Runs, TInv
<1>3. PICK n : Current(n) /\ Handling(n)
  BY <1>2, Busy
<1>4. result = Grown(n) /\ counter = (n % Bits) + 1 /\ Filled(n) /\ pending = {} /\ Len(frames) = 1
  BY <1>1, <1>2, <1>3 DEF Handling
<1>5. CASE counter = Bits
  <2>1. GoesTo("complete", 0)
    BY <1>5 DEF Test
  <2>2. Filled(n)'
    BY <1>1, <1>4, SameText
  <2>3. frames' # <<>> /\ Handling(n)'
    BY <1>1, <1>3, <1>4, <1>5, <2>1, <2>2, GoesOn DEF Ats
  <2> QED BY <1>1, <1>3, <2>3, GoingOnKeeps
<1>6. CASE counter # Bits
  <2>1. Returns
    BY <1>6 DEF Test
  <2>2. frames' = <<>>
    BY <1>2, <1>4, <2>1, ReturnsIs, EmptySeq DEF Statics
  <2>3. Decoded(n + 1)
    BY <1>2, <1>3, <1>4, <1>6, DecodedNext DEF Current
  <2>4. Decoded(n + 1)'
    BY <1>1, <2>3, SameText
  <2>5. Whole'
    BY <1>1, WholeStays DEF TextInv, Undisturbed
  <2> QED BY <1>1, <1>3, <1>4, <2>2, <2>4, <2>5, StaysBusy
<1> QED BY <1>5, <1>6

LEMMA ResetKeeps ==
    ASSUME TInv, TextInv, ~disturbed, Reset
    PROVE  Undisturbed'
<1>1. /\ Runs("reset") /\ Returns /\ pending' = pending /\ result' = 0
      /\ UNCHANGED <<client, message, order, counter, final, printed>>
  BY DEF Reset, client
<1>2. frames # <<>> /\ Clients /\ Statics
  BY <1>1 DEF Runs, TInv
<1>3. PICK n : Current(n) /\ Handling(n)
  BY <1>2, Busy
<1>4. counter = 0 /\ (n % Bits) + 1 = Bits /\ Filled(n + 1) /\ pending = {} /\ Len(frames) = 1
  BY <1>1, <1>2, <1>3 DEF Handling
<1>5. frames' = <<>>
  BY <1>1, <1>2, <1>4, ReturnsIs, EmptySeq DEF Statics
<1>6. Filled(n + 1)' /\ Sender' \in Client
  BY <1>1, <1>3, <1>4, SameText DEF Current
<1>7. Decoded(n + 1)'
  <2>1. (n + 1) % Bits = 0 /\ n + 1 \in Nat
    BY <1>3, <1>4, NextPlace DEF Current
  <2>2. Letter(message[Sender], n + 1) \in Letters
    BY <1>2, <1>3, <2>1, TextIs, LetterIs DEF Current
  <2>3. Prefix(Letter(message[Sender], n + 1), 0) = 0
    BY <2>2, PrefixEnds
  <2>4. Sender' = Sender /\ message' = message /\ counter' = 0 /\ result' = 0
    BY <1>1, <1>4, SameText
  <2> QED BY <1>6, <2>1, <2>3, <2>4 DEF Decoded, Counted, Gathered
<1>8. Whole'
  BY <1>1, WholeStays DEF TextInv, Undisturbed
<1> QED BY <1>1, <1>3, <1>4, <1>5, <1>7, <1>8, StaysBusy

LEMMA CompleteKeeps ==
    ASSUME TInv, TextInv, ~disturbed, Complete
    PROVE  Undisturbed'
<1>1. /\ Runs("complete") /\ GoesTo("reset", 0) /\ pending' = pending /\ counter' = 0
      /\ UNCHANGED <<client, message, order>>
      /\ IF result = 0
         THEN printed' = Append(printed, Extended) /\ final' = <<>>
         ELSE printed' = printed /\ final' = Extended
  BY DEF Complete, client
<1>2. frames # <<>> /\ Clients /\ Statics /\ Whole
  BY <1>1 DEF Runs, TInv, TextInv, Undisturbed
<1>3. PICK n : Current(n) /\ Handling(n)
  BY <1>2, Busy
<1> DEFINE text == message[Sender]
           q == n \div Bits
           letter == Letter(text, n)
<1>4. n \in Nat /\ n < Size(text) /\ Sender \in Client
  BY <1>3 DEF Current
<1>5. result = Grown(n) /\ (n % Bits) + 1 = Bits /\ Filled(n)
  BY <1>1, <1>3 DEF Handling
<1>6. /\ text \in Seq(Characters) /\ Len(text) \in Nat
      /\ Size(text) = (Len(text) + 1) * Bits /\ Size(text) \in Nat
  BY <1>2, <1>4, TextIs
<1>7. /\ q \in Nat /\ q <= Len(text) /\ n + 1 \in Nat
      /\ n + 1 = Size(text) <=> q = Len(text)
      /\ (n + 1) \div Bits = q + 1
  <2>1. q \in Nat
    BY <1>4, Place
  <2>2. q <= Len(text) /\ (n + 1 = Size(text) <=> q = Len(text))
    BY <1>4, <1>5, <1>6, Places
  <2> QED BY <1>4, <1>5, <2>1, <2>2, NextPlace
<1>8. /\ letter \in Letters /\ result = letter
      /\ q < Len(text) => letter \in Characters /\ letter = text[q + 1]
      /\ q = Len(text) => letter = 0
  <2>1. /\ letter \in Letters
        /\ q < Len(text) => letter \in Characters
        /\ ~ (q < Len(text)) => letter = 0
    BY <1>4, <1>6, LetterIs
  <2>2. Prefix(letter, Bits) = letter
    BY <2>1, PrefixEnds
  <2>3. result = letter
    BY <1>5, <2>2 DEF Grown
  <2> QED BY <1>6, <1>7, <2>1, <2>3 DEF Letter
<1>9. result % Power[Bits + 1] = result
  BY <1>8, PowerLast DEF Letters
<1>10. /\ Len(final) = q /\ \A k \in 1 .. q : final[k] = text[k]
       /\ Len(printed) = Len(order) - 1
  BY <1>4, <1>5, <1>6 DEF Filled
<1>11. final \in Seq(Characters) /\ printed \in Seq(Seq(Characters)) /\ Len(order) \in Nat \ {0}
  <2>1. order # <<>> /\ order \in Seq(Client)
    BY <1>2, <1>3 DEF Current, Clients
  <2> QED BY <1>2, <2>1, EmptySeq DEF Statics
<1>12. Sender' = Sender /\ message' = message /\ order' = order
  BY <1>1, SameText
<1> HIDE DEF letter, q
<1>13. CASE q < Len(text)
  <2>1. letter \in Characters /\ letter = text[q + 1] /\ letter # 0
    BY <1>8, <1>13 DEF Characters
  <2>2. printed' = printed /\ final' = Append(final, letter)
    BY <1>1, <1>8, <1>9, <2>1 DEF Extended
  <2>3. /\ Len(final') = q + 1 /\ final'[q + 1] = letter
        /\ \A k \in 1 .. q : final'[k] = final[k]
    BY <1>7, <1>10, <1>11, <2>1, <2>2, AppendProperties
  <2>4. \A k \in 1 .. q + 1 : final'[k] = text[k]
    <3> SUFFICES ASSUME NEW k \in 1 .. q + 1 PROVE final'[k] = text[k]
      OBVIOUS
    <3>1. k \in 1 .. q \/ k = q + 1
      BY <1>7
    <3> QED BY <1>10, <2>1, <2>3, <3>1
  <2>5. n + 1 # Size(text)
    BY <1>7, <1>13
  <2>6. Filled(n + 1)'
    BY <1>7, <1>10, <1>12, <2>2, <2>3, <2>4, <2>5 DEF Filled
  <2>7. frames' # <<>> /\ Handling(n)'
    BY <1>1, <1>3, <1>5, <2>6, GoesOn DEF Ats
  <2> QED BY <1>1, <1>3, <2>2, <2>7, GoingOnKeeps
<1>14. CASE q = Len(text)
  <2>1. printed' = Append(printed, final) /\ final' = <<>>
    BY <1>1, <1>8, <1>9, <1>14 DEF Extended
  <2>2. final = text
    BY <1>6, <1>10, <1>11, <1>14, SeqEqual
  <2>3. /\ Len(printed') = Len(order) /\ printed'[Len(order)] = text
        /\ \A k \in 1 .. Len(printed) : printed'[k] = printed[k]
    <3> DEFINE S == Seq(Characters)
    <3>1. printed \in Seq(S) /\ final \in S
      BY <1>11
    <3> HIDE DEF S
    <3>2. /\ Len(Append(printed, final)) = Len(printed) + 1
          /\ Append(printed, final)[Len(printed) + 1] = final
          /\ \A k \in 1 .. Len(printed) : Append(printed, final)[k] = printed[k]
      BY <3>1, AppendProperties
    <3>3. Len(printed) + 1 = Len(order)
      BY <1>10, <1>11
    <3> QED BY <2>1, <2>2, <3>2, <3>3
  <2>4. Whole'
    <3>1. Len(printed') <= Len(order')
      BY <1>11, <1>12, <2>3
    <3>2. ASSUME NEW k \in 1 .. Len(printed') PROVE printed'[k] = message'[order'[k]]
      <4>1. k \in 1 .. Len(printed) \/ k = Len(order)
        BY <1>10, <1>11, <2>3
      <4>2. CASE k \in 1 .. Len(printed)
        BY <1>2, <1>12, <2>3, <4>2 DEF Whole
      <4>3. CASE k = Len(order)
        BY <1>12, <2>3, <4>3 DEF Sender
      <4> QED BY <4>1, <4>2, <4>3
    <3> QED BY <3>1, <3>2 DEF Whole
  <2>5. Filled(n + 1)'
    BY <1>7, <1>12, <1>14, <2>1, <2>3 DEF Filled
  <2>6. frames' # <<>> /\ Handling(n)'
    BY <1>1, <1>3, <1>5, <2>5, GoesOn DEF Ats
  <2> QED BY <1>1, <1>3, <2>4, <2>6, StaysBusy
<1> QED BY <1>6, <1>7, <1>13, <1>14

LEMMA ServerKeeps ==
    ASSUME TInv, TextInv, Server
    PROVE  TextInv'
<1>1. UNCHANGED client /\ disturbed' = disturbed
  BY DEF Server, Deliver, Weigh, AddBit, StoreResult, CountBit, StoreCounter, Test, Complete, Reset
<1>2. Orderly'
  BY <1>1 DEF TextInv, Orderly, client
<1>3. ASSUME ~disturbed PROVE Undisturbed'
  BY <1>3, DeliverKeeps, WeighKeeps, AddBitKeeps, StoreResultKeeps, CountBitKeeps,
     StoreCounterKeeps, TestKeeps, CompleteKeeps, ResetKeeps DEF Server
<1> QED BY <1>1, <1>2, <1>3 DEF TextInv

LEMMA TextInit == Init => TextInv
<1> SUFFICES ASSUME Init PROVE TextInv
  OBVIOUS
<1>1. Clients /\ order = <<>> /\ Len(order) = 0 /\ Len(printed) = 0
  <2>1. TInv
    BY TypesInit
  <2> QED BY <2>1, EmptySeq DEF Init, TInv
<1>2. \A c \in Client : position[c] = 0 /\ position[c] <= Size(message[c])
  BY <1>1, TextIs DEF Init
<1>3. Orderly
  BY <1>1, <1>2 DEF Orderly
<1>4. Undisturbed
  BY <1>1, <1>2 DEF Init, Undisturbed, Midway, Whole, Nothing
<1> QED BY <1>3, <1>4 DEF TextInv

LEMMA TextKept == TInv /\ TextInv /\ [Next]_vars => TextInv'
<1> SUFFICES ASSUME TInv, TextInv, [Next]_vars PROVE TextInv'
  OBVIOUS
<1>1. ASSUME NEW c \in Client, Send(c) PROVE TextInv'
  BY <1>1, SendKeeps, BeginKeeps, GoOnKeeps DEF TextInv
<1>2. CASE UNCHANGED vars
  BY <1>2, NothingMoves DEF vars, client, TextInv
<1> QED BY <1>1, <1>2, DieKeeps, ServerKeeps DEF Next

\* As long as each signal is handled before the next is sent and no client
\* begins or dies in the middle of another's text, the server prints the texts
\* of the clients whole and in order: the additions of signal_handler and the
\* bits that client.c sends are inverse for every character.
THEOREM PrintedWhole == Spec => []PrintsWhatWasSent
<1>1. TInv /\ TextInv => PrintsWhatWasSent
  BY DEF TextInv, Undisturbed, Whole, PrintsWhatWasSent
<1> QED BY <1>1, TypesInit, TypesKept, TextInit, TextKept, PTL DEF Spec
=============================================================================
