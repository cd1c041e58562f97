-------------------------- MODULE GetNextLineProofs --------------------------
(***************************************************************************)
(* Proofs about GetNextLine, for any descriptors, texts and BUFFER_SIZE:   *)
(* its types, that the stash holds what was read and not returned, and     *)
(* that the bonus version implements LineStream.                           *)
(***************************************************************************)
EXTENDS GetNextLine, SequenceTheorems, WellFoundedInduction, TLAPS

\* The slot of a descriptor is a slot.
LEMMA SlotType == \A fd \in Fd : slot(fd) \in Slot
BY DEF slot, Slot

\* Parts of a string are strings, of the expected length and bytes.
LEMMA PartType ==
    ASSUME NEW string \in Seq(Byte), NEW m \in Nat, NEW n \in Nat,
           m <= n, n <= Len(string)
    PROVE  /\ SubSeq(string, m + 1, n) \in Seq(Byte)
           /\ Len(SubSeq(string, m + 1, n)) = n - m
           /\ \A k \in 1 .. n - m : SubSeq(string, m + 1, n)[k] = string[m + k]
<1>1. \A i \in m + 1 .. n : string[i] \in Byte
  BY ElementOfSeq
<1>2. /\ SubSeq(string, m + 1, n) \in Seq(Byte)
      /\ Len(SubSeq(string, m + 1, n)) = IF m + 1 <= n THEN n - (m + 1) + 1 ELSE 0
      /\ \A i \in 1 .. n - (m + 1) + 1 :
            SubSeq(string, m + 1, n)[i] = string[(m + 1) + i - 1]
  BY <1>1, SubSeqProperties
<1> QED BY <1>2

\* A piece of a text consists of its next bytes, and of no more than are left.
LEMMA PieceType ==
    ASSUME TypeOK, NEW fd \in Fd, NEW buffer \in Pieces(fd)
    PROVE  /\ buffer \in Seq(Byte)
           /\ offset[fd] + Len(buffer) <= Len(text[fd])
           /\ \A k \in 1 .. Len(buffer) : buffer[k] = text[fd][offset[fd] + k]
           /\ buffer = <<>> => ended[fd] /\ offset[fd] = Len(text[fd])
<1> DEFINE left == Len(text[fd]) - offset[fd]
           most == IF left < BUFFER_SIZE THEN left ELSE BUFFER_SIZE
<1>1. text[fd] \in Seq(Byte) /\ offset[fd] \in Nat /\ offset[fd] <= Len(text[fd])
  BY DEF TypeOK
<1>2. Len(text[fd]) \in Nat
  BY <1>1, LenProperties
<1>3. left \in Nat /\ most \in Nat /\ most <= left
  BY <1>1, <1>2, BufferSizeAssumption
<1>4. PICK nbytes \in IF left = 0 /\ ended[fd] THEN {0} ELSE 1 .. most :
         buffer = SubSeq(text[fd], offset[fd] + 1, offset[fd] + nbytes)
  BY DEF Pieces
<1>5. nbytes \in Nat /\ nbytes <= left
  BY <1>3, <1>4
<1>6. offset[fd] + nbytes \in Nat /\ offset[fd] + nbytes <= Len(text[fd])
  BY <1>1, <1>2, <1>5
<1>7. /\ buffer \in Seq(Byte)
      /\ Len(buffer) = nbytes
      /\ \A k \in 1 .. nbytes : buffer[k] = text[fd][offset[fd] + k]
  <2> DEFINE m == offset[fd]
             n == offset[fd] + nbytes
  <2>1. m \in Nat /\ n \in Nat /\ m <= n /\ n - m = nbytes
    BY <1>1, <1>5
  <2>2. buffer = SubSeq(text[fd], m + 1, n)
    BY <1>4
  <2>3. n <= Len(text[fd])
    BY <1>6
  <2> HIDE DEF m, n
  <2>4. /\ buffer \in Seq(Byte)
        /\ Len(buffer) = n - m
        /\ \A k \in 1 .. n - m : buffer[k] = text[fd][m + k]
    BY <1>1, <2>1, <2>2, <2>3, PartType
  <2> QED BY <2>1, <2>4 DEF m
<1>8. buffer = <<>> => nbytes = 0
  BY <1>7, EmptySeq
<1>9. nbytes = 0 => ended[fd] /\ left = 0
  BY <1>4
<1> QED BY <1>1, <1>2, <1>6, <1>7, <1>8, <1>9

\* A set of natural numbers has a smallest element.
LEMMA Smallest ==
    ASSUME NEW T, T \subseteq Nat, T # {}
    PROVE  \E x \in T : \A y \in T : x <= y
<1> DEFINE R == OpToRel(<, Nat)
<1>1. IsWellFoundedOn(R, Nat)
  BY NatLessThanWellFounded
<1>2. \A x, y \in Nat : x < y => <<x, y>> \in R
  BY DEF OpToRel
<1> HIDE DEF R
<1>3. PICK x \in T : \A y \in T : ~ (<<y, x>> \in R)
  BY <1>1, WFMin
<1>4. ASSUME NEW y \in T PROVE x <= y
  <2>1. x \in Nat /\ y \in Nat /\ ~ (y < x)
    BY <1>2, <1>3
  <2> QED BY <2>1
<1> QED BY <1>4

\* Every string has a first line: it ends at the first new line, or with the
\* string.
LEMMA LineLengthType ==
    ASSUME NEW string \in Seq(Byte)
    PROVE  LET n == LineLength(string)
           IN  /\ n \in 0 .. Len(string)
               /\ \A k \in 1 .. n - 1 : string[k] # NewLine
               /\ n = Len(string) \/ (n > 0 /\ string[n] = NewLine)
<1> DEFINE Is(n) == /\ \A k \in 1 .. n - 1 : string[k] # NewLine
                    /\ n = Len(string) \/ (n > 0 /\ string[n] = NewLine)
           Ends == {n \in 1 .. Len(string) : string[n] = NewLine}
<1>1. Len(string) \in Nat
  BY LenProperties
<1>2. \E n \in 0 .. Len(string) : Is(n)
  <2>1. CASE Ends = {}
    <3>1. Is(Len(string))
      BY <1>1, <2>1
    <3> QED BY <1>1, <3>1
  <2>2. CASE Ends # {}
    <3>1. PICK n \in Ends : \A m \in Ends : n <= m
      <4>1. Ends \in SUBSET Nat
        BY <1>1
      <4> HIDE DEF Ends
      <4> QED BY <2>2, <4>1, Smallest
    <3>2. n \in 1 .. Len(string) /\ string[n] = NewLine
      BY <3>1
    <3>3. \A k \in 1 .. n - 1 : string[k] # NewLine
      BY <1>1, <3>1, <3>2
    <3> QED BY <1>1, <3>2, <3>3
  <2> QED BY <2>1, <2>2
<1>3. LineLength(string) = CHOOSE n \in 0 .. Len(string) : Is(n)
  BY DEF LineLength
<1> HIDE DEF Is
<1>4. LineLength(string) \in 0 .. Len(string) /\ Is(LineLength(string))
  BY <1>2, <1>3
<1> QED BY <1>4 DEF Is
-----------------------------------------------------------------------------
\* The inductive invariant: beside the types and BytesKept, what the bonus
\* version has read of a descriptor is the beginning of its text, the loop has
\* ended on a new line or at the end, a call has its descriptor open, and of a
\* closed one nothing is left to be read.
ReadSoFar ==
    bonus => \A fd \in Fd :
        /\ Len(got[fd]) = offset[fd]
        /\ \A k \in 1 .. offset[fd] : got[fd][k] = text[fd][k]

LoopIsOver ==
    pc = "extract" =>
        \/ Has(stash[slot(current)], NewLine)
        \/ ended[current] /\ offset[current] = Len(text[current])

CallIsOpen == pc \in {"stash_filling", "extract"} => open[current]

ClosedIsRead == \A fd \in Fd : ~open[fd] => offset[fd] = Len(text[fd])

IInv ==
    /\ TypeOK /\ BytesKept /\ ReadSoFar /\ LoopIsOver /\ OneLineEach
    /\ CallIsOpen /\ ClosedIsRead

LEMMA InitIInv == Init => IInv
<1> SUFFICES ASSUME Init PROVE IInv
  OBVIOUS
<1>1. TypeOK
  BY EmptySeq DEF Init, TypeOK, NoLine
<1>2. BytesKept
  BY EmptySeq DEF Init, BytesKept
<1>3. ReadSoFar
  BY EmptySeq DEF Init, ReadSoFar, Slot
<1>4. LoopIsOver /\ CallIsOpen /\ ClosedIsRead
  BY DEF Init, LoopIsOver, CallIsOpen, ClosedIsRead
<1>5. OneLineEach
  <2>1. NoLine \in Seq(Byte) /\ Len(NoLine) = 0
    BY EmptySeq DEF NoLine
  <2>2. DOMAIN NoLine = 1 .. 0
    BY <2>1, LenProperties
  <2>3. \A k \in DOMAIN NoLine : FALSE
    BY <2>2
  <2> HIDE DEF NoLine
  <2>4. \A fd \in Fd : line[fd] = NoLine
    BY DEF Init
  <2> QED BY <2>3, <2>4 DEF OneLineEach
<1> QED BY <1>1, <1>2, <1>3, <1>4, <1>5 DEF IInv

\* What a string keeps and gains when another one is added to it.
LEMMA Joined ==
    ASSUME NEW a \in Seq(Byte), NEW b \in Seq(Byte)
    PROVE  /\ a \o b \in Seq(Byte)
           /\ Len(a) \in Nat /\ Len(b) \in Nat
           /\ Len(a \o b) = Len(a) + Len(b)
           /\ \A k \in 1 .. Len(a) : (a \o b)[k] = a[k]
           /\ \A k \in 1 .. Len(b) : (a \o b)[Len(a) + k] = b[k]
<1>1. Len(a) \in Nat /\ Len(b) \in Nat
  BY LenProperties
<1>2. /\ a \o b \in Seq(Byte)
      /\ Len(a \o b) = Len(a) + Len(b)
      /\ \A i \in 1 .. Len(a) + Len(b) :
            (a \o b)[i] = IF i <= Len(a) THEN a[i] ELSE b[i - Len(a)]
  BY ConcatProperties
<1> QED BY <1>1, <1>2

\* A turn of the loop keeps the invariant.
LEMMA FillingIInv == IInv /\ stash_filling => IInv'
<1> SUFFICES ASSUME IInv, stash_filling PROVE IInv'
  OBVIOUS
<1> USE DEF IInv
<1> DEFINE s == slot(current)
           fd == current
<1>1. fd \in Fd /\ s \in Slot
  BY SlotType DEF TypeOK
<1>2. PICK buffer \in Pieces(fd) :
         /\ offset' = [offset EXCEPT ![fd] = @ + Len(buffer)]
         /\ got' = [got EXCEPT ![s] = @ \o buffer]
         /\ stash' = [stash EXCEPT ![s] = @ \o buffer]
         /\ pc' = IF Complete(buffer) THEN "extract" ELSE pc
  BY DEF stash_filling
<1>3. /\ UNCHANGED <<bonus, text, ended, open, current, line, past>>
      /\ pc = "stash_filling"
      /\ s' = s
  BY DEF stash_filling, source, slot
<1>4. /\ buffer \in Seq(Byte)
      /\ offset[fd] + Len(buffer) <= Len(text[fd])
      /\ \A k \in 1 .. Len(buffer) : buffer[k] = text[fd][offset[fd] + k]
      /\ buffer = <<>> => ended[fd] /\ offset[fd] = Len(text[fd])
  BY <1>1, PieceType
<1>5. /\ got[s] \in Seq(Byte) /\ stash[s] \in Seq(Byte)
      /\ offset[fd] \in Nat /\ Len(text[fd]) \in Nat /\ past[s] \in Nat
  BY <1>1, LenProperties DEF TypeOK
<1>6. /\ got'[s] = got[s] \o buffer /\ stash'[s] = stash[s] \o buffer
      /\ offset'[fd] = offset[fd] + Len(buffer)
      /\ \A t \in Slot \ {s} : got'[t] = got[t] /\ stash'[t] = stash[t]
      /\ \A f \in Fd \ {fd} : offset'[f] = offset[f]
  BY <1>1, <1>2 DEF TypeOK
<1>7. /\ got'[s] \in Seq(Byte)
      /\ Len(got[s]) \in Nat /\ Len(buffer) \in Nat
      /\ Len(got'[s]) = Len(got[s]) + Len(buffer)
      /\ \A k \in 1 .. Len(got[s]) : got'[s][k] = got[s][k]
      /\ \A k \in 1 .. Len(buffer) : got'[s][Len(got[s]) + k] = buffer[k]
  BY <1>4, <1>5, <1>6, Joined
<1>8. /\ stash'[s] \in Seq(Byte)
      /\ Len(stash[s]) \in Nat
      /\ Len(stash'[s]) = Len(stash[s]) + Len(buffer)
      /\ \A k \in 1 .. Len(stash[s]) : stash'[s][k] = stash[s][k]
      /\ \A k \in 1 .. Len(buffer) : stash'[s][Len(stash[s]) + k] = buffer[k]
  BY <1>4, <1>5, <1>6, Joined
<1> HIDE DEF s, fd
<1>9. TypeOK'
  <2>1. got' \in [Slot -> Seq(Byte)] /\ stash' \in [Slot -> Seq(Byte)]
    BY <1>1, <1>2, <1>6, <1>7, <1>8 DEF TypeOK
  <2>2. offset' \in [Fd -> Nat]
    BY <1>1, <1>2, <1>5, <1>7 DEF TypeOK
  <2>3. \A f \in Fd : offset'[f] <= Len(text'[f])
    BY <1>3, <1>4, <1>6, ZenonT(30) DEF TypeOK
  <2>4. pc' \in {"caller", "stash_filling", "extract", "crashed"}
    BY <1>2, <1>3
  <2> QED BY <1>3, <2>1, <2>2, <2>3, <2>4 DEF TypeOK
<1>10. BytesKept'
  <2>1. ASSUME NEW t \in Slot
        PROVE  /\ past'[t] + Len(stash'[t]) = Len(got'[t])
               /\ \A k \in DOMAIN stash'[t] : stash'[t][k] = got'[t][past'[t] + k]
    <3>1. CASE t # s
      BY <1>3, <1>6, <3>1 DEF BytesKept
    <3>2. CASE t = s
      <4>1. past[s] + Len(stash[s]) = Len(got[s])
        BY <1>1 DEF BytesKept
      <4>0. /\ past[s] \in Nat /\ Len(stash[s]) \in Nat /\ Len(buffer) \in Nat
            /\ Len(got[s]) \in Nat
            /\ Len(stash'[s]) = Len(stash[s]) + Len(buffer)
            /\ Len(got'[s]) = Len(got[s]) + Len(buffer)
        BY <1>5, <1>7, <1>8
      <4>2. past[s] + Len(stash'[s]) = Len(got'[s])
        <5> DEFINE p == past[s]
                   held == Len(stash[s])
                   more == Len(buffer)
                   all == Len(got[s])
                   held2 == Len(stash'[s])
                   all2 == Len(got'[s])
        <5>1. /\ p \in Nat /\ held \in Nat /\ more \in Nat /\ all \in Nat
              /\ p + held = all /\ held2 = held + more /\ all2 = all + more
          BY <4>0, <4>1
        <5> SUFFICES p + held2 = all2
          OBVIOUS
        <5> HIDE DEF p, held, more, all, held2, all2
        <5> QED BY <5>1
      <4>3. ASSUME NEW k \in 1 .. Len(stash'[s])
            PROVE  stash'[s][k] = got'[s][past[s] + k]
        <5>1. CASE k <= Len(stash[s])
          <6>1. k \in 1 .. Len(stash[s]) /\ past[s] + k \in 1 .. Len(got[s])
            BY <1>5, <1>7, <1>8, <4>1, <5>1
          <6>2. stash[s][k] = got[s][past[s] + k]
            BY <1>1, <1>5, <6>1, LenProperties DEF BytesKept
          <6> QED BY <1>7, <1>8, <6>1, <6>2
        <5>2. CASE k > Len(stash[s])
          <6> DEFINE j == k - Len(stash[s])
          <6>1. /\ j \in 1 .. Len(buffer)
                /\ k = Len(stash[s]) + j
                /\ past[s] + k = Len(got[s]) + j
            <7> DEFINE p == past[s]
                       held == Len(stash[s])
                       more == Len(buffer)
                       all == Len(got[s])
            <7>1. /\ p \in Nat /\ held \in Nat /\ more \in Nat /\ all \in Nat
                  /\ p + held = all /\ k \in 1 .. held + more /\ k > held
              BY <4>0, <4>1, <5>2
            <7> SUFFICES /\ k - held \in 1 .. more
                         /\ k = held + (k - held)
                         /\ p + k = all + (k - held)
              OBVIOUS
            <7> HIDE DEF p, held, more, all
            <7> QED BY <7>1
          <6> HIDE DEF j
          <6> QED BY <1>7, <1>8, <6>1
        <5> QED BY <1>8, <5>1, <5>2
      <4>4. DOMAIN stash'[s] = 1 .. Len(stash'[s])
        BY <1>8, LenProperties
      <4> QED BY <1>3, <3>2, <4>2, <4>3, <4>4
    <3> QED BY <3>1, <3>2
  <2> QED BY <2>1 DEF BytesKept
<1>11. ReadSoFar'
  <2> SUFFICES ASSUME bonus, NEW f \in Fd
               PROVE  /\ Len(got'[f]) = offset'[f]
                      /\ \A k \in 1 .. offset'[f] : got'[f][k] = text'[f][k]
    BY <1>3 DEF ReadSoFar
  <2>1. s = fd
    BY DEF s, fd, slot
  <2>2. f \in Slot
    BY DEF Slot
  <2>3. /\ Len(got[f]) = offset[f]
        /\ \A k \in 1 .. offset[f] : got[f][k] = text[f][k]
    BY DEF ReadSoFar
  <2>4. CASE f # fd
    BY <1>3, <1>6, <2>1, <2>2, <2>3, <2>4
  <2>5. CASE f = fd
    <3>1. Len(got'[f]) = offset'[f]
      BY <1>6, <1>7, <2>1, <2>3, <2>5
    <3>2. ASSUME NEW k \in 1 .. offset'[f] PROVE got'[f][k] = text[f][k]
      <4>1. CASE k <= offset[f]
        BY <1>5, <1>7, <2>1, <2>3, <2>5, <4>1
      <4>2. CASE k > offset[f]
        <5> DEFINE j == k - offset[f]
        <5>1. j \in 1 .. Len(buffer) /\ k = offset[f] + j
          BY <1>5, <1>6, <1>7, <2>5, <4>2
        <5> HIDE DEF j
        <5> QED BY <1>4, <1>7, <2>1, <2>3, <2>5, <5>1
      <4> QED BY <1>5, <1>6, <1>7, <2>5, <4>1, <4>2
    <3> QED BY <1>3, <3>1, <3>2
  <2> QED BY <2>4, <2>5
<1>12. LoopIsOver'
  <2> SUFFICES ASSUME pc' = "extract"
               PROVE  \/ Has(stash'[s], NewLine)
                      \/ ended[fd] /\ offset'[fd] = Len(text[fd])
    BY <1>3 DEF LoopIsOver, s, fd, slot, Has
  <2>1. Has(buffer, NewLine) \/ buffer = <<>>
    BY <1>2, <1>3 DEF Complete
  <2>2. CASE Has(buffer, NewLine)
    <3>1. PICK k \in 1 .. Len(buffer) : buffer[k] = NewLine
      BY <1>4, <2>2, LenProperties DEF Has
    <3>2. stash'[s][Len(stash[s]) + k] = NewLine
      BY <1>8, <3>1
    <3>3. Len(stash[s]) + k \in DOMAIN stash'[s]
      BY <1>7, <1>8, <3>1, LenProperties
    <3> QED BY <3>2, <3>3 DEF Has
  <2>3. CASE buffer = <<>>
    BY <1>4, <1>5, <1>6, <2>3, EmptySeq
  <2> QED BY <2>1, <2>2, <2>3
<1>13. OneLineEach' /\ CallIsOpen'
  BY <1>3 DEF OneLineEach, CallIsOpen, Has
<1>14. ClosedIsRead'
  BY <1>3, <1>6 DEF CallIsOpen, ClosedIsRead, fd
<1> QED BY <1>9, <1>10, <1>11, <1>12, <1>13, <1>14
\* The line and the new stash are the two parts of the stash.
LEMMA ReturnedParts ==
    ASSUME TypeOK, Return
    PROVE  LET s == slot(current)
               n == LineLength(stash[s])
           IN  /\ stash[s] \in Seq(Byte) /\ Len(stash[s]) \in Nat
               /\ n \in Nat /\ n <= Len(stash[s])
               /\ line'[current] \in Seq(Byte)
               /\ Len(line'[current]) = n
               /\ \A k \in 1 .. n : line'[current][k] = stash[s][k]
               /\ stash'[s] \in Seq(Byte)
               /\ Len(stash'[s]) = Len(stash[s]) - n
               /\ \A k \in 1 .. Len(stash'[s]) : stash'[s][k] = stash[s][n + k]
               /\ past'[s] = past[s] + n
<1> DEFINE s == slot(current)
           string == stash[s]
           n == LineLength(string)
<1>1. current \in Fd /\ s \in Slot
  BY SlotType DEF TypeOK
<1>2. string \in Seq(Byte) /\ Len(string) \in Nat
  BY <1>1, LenProperties DEF TypeOK
<1>3. n \in 0 .. Len(string)
  <2> HIDE DEF string
  <2> QED BY <1>2, LineLengthType
<1>4. /\ line'[current] = SubSeq(string, 1, n)
      /\ stash'[s] = SubSeq(string, n + 1, Len(string))
      /\ past'[s] = past[s] + n
  BY <1>1 DEF Return, TypeOK, extract_line, extract_new_stash
<1> HIDE DEF string, n
<1>5. /\ SubSeq(string, 0 + 1, n) \in Seq(Byte)
      /\ Len(SubSeq(string, 0 + 1, n)) = n - 0
      /\ \A k \in 1 .. n - 0 : SubSeq(string, 0 + 1, n)[k] = string[0 + k]
  BY <1>2, <1>3, PartType
<1>6. /\ SubSeq(string, n + 1, Len(string)) \in Seq(Byte)
      /\ Len(SubSeq(string, n + 1, Len(string))) = Len(string) - n
      /\ \A k \in 1 .. Len(string) - n :
            SubSeq(string, n + 1, Len(string))[k] = string[n + k]
  BY <1>2, <1>3, PartType
<1>7. /\ line'[current] \in Seq(Byte)
      /\ Len(line'[current]) = n
      /\ \A k \in 1 .. n : line'[current][k] = string[k]
  BY <1>3, <1>4, <1>5
<1> QED BY <1>2, <1>3, <1>4, <1>6, <1>7 DEF string, n

LEMMA ReturnIInv == IInv /\ Return => IInv'
<1> SUFFICES ASSUME IInv, Return PROVE IInv'
  OBVIOUS
<1> USE DEF IInv
<1> DEFINE s == slot(current)
           fd == current
           n == LineLength(stash[s])
<1>1. fd \in Fd /\ s \in Slot
  BY SlotType DEF TypeOK
<1>2. /\ UNCHANGED <<bonus, text, ended, open, offset, current, got>>
      /\ pc = "extract" /\ pc' = "caller"
      /\ s' = s
  BY DEF Return, source, slot
<1>3. /\ stash[s] \in Seq(Byte) /\ Len(stash[s]) \in Nat
      /\ n \in Nat /\ n <= Len(stash[s])
      /\ line'[fd] \in Seq(Byte)
      /\ Len(line'[fd]) = n
      /\ \A k \in 1 .. n : line'[fd][k] = stash[s][k]
      /\ stash'[s] \in Seq(Byte)
      /\ Len(stash'[s]) = Len(stash[s]) - n
      /\ \A k \in 1 .. Len(stash'[s]) : stash'[s][k] = stash[s][n + k]
      /\ past'[s] = past[s] + n
  BY ReturnedParts
<1>4. /\ \A t \in Slot \ {s} : stash'[t] = stash[t] /\ past'[t] = past[t]
      /\ \A f \in Fd \ {fd} : line'[f] = line[f]
      /\ DOMAIN stash' = Slot /\ DOMAIN past' = Slot /\ DOMAIN line' = Fd
      /\ stash' = [stash EXCEPT ![s] = stash'[s]]
      /\ past' = [past EXCEPT ![s] = past'[s]]
      /\ line' = [line EXCEPT ![fd] = line'[fd]]
  BY <1>1 DEF Return, TypeOK
<1>5. /\ \A k \in 1 .. n - 1 : stash[s][k] # NewLine
      /\ n = Len(stash[s]) \/ (n > 0 /\ stash[s][n] = NewLine)
  BY <1>3, LineLengthType
<1>6. past[s] \in Nat
  BY <1>1 DEF TypeOK
<1> HIDE DEF s, fd, n
<1>9. TypeOK'
  <2>1. stash' \in [Slot -> Seq(Byte)]
    BY <1>1, <1>3, <1>4 DEF TypeOK
  <2>3. past'[s] \in Nat
    BY <1>3, <1>6
  <2>4. past' \in [Slot -> Nat]
    BY <1>1, <1>4, <2>3 DEF TypeOK
  <2>2. line' \in [Fd -> Seq(Byte)]
    BY <1>1, <1>3, <1>4 DEF TypeOK
  <2> QED BY <1>2, <2>1, <2>2, <2>4 DEF TypeOK
<1>10. BytesKept'
  <2>1. ASSUME NEW t \in Slot
        PROVE  /\ past'[t] + Len(stash'[t]) = Len(got'[t])
               /\ \A k \in DOMAIN stash'[t] : stash'[t][k] = got'[t][past'[t] + k]
    <3>1. CASE t # s
      BY <1>2, <1>4, <3>1 DEF BytesKept
    <3>2. CASE t = s
      <4>1. past[s] + Len(stash[s]) = Len(got[s])
        BY <1>1 DEF BytesKept
      <4>2. past'[s] + Len(stash'[s]) = Len(got[s])
        BY <1>3, <1>6, <4>1
      <4>3. ASSUME NEW k \in 1 .. Len(stash'[s])
            PROVE  stash'[s][k] = got[s][past'[s] + k]
        <5>1. n + k \in 1 .. Len(stash[s])
          BY <1>3
        <5>2. stash[s][n + k] = got[s][past[s] + (n + k)]
          BY <1>1, <1>3, <5>1, LenProperties DEF BytesKept
        <5>3. past[s] + (n + k) = past'[s] + k
          BY <1>3, <1>6
        <5> QED BY <1>3, <5>2, <5>3
      <4>4. DOMAIN stash'[s] = 1 .. Len(stash'[s])
        BY <1>3, LenProperties
      <4> QED BY <1>2, <3>2, <4>2, <4>3, <4>4
    <3> QED BY <3>1, <3>2
  <2> QED BY <2>1 DEF BytesKept
<1>11. ReadSoFar' /\ LoopIsOver' /\ CallIsOpen' /\ ClosedIsRead'
  BY <1>2 DEF ReadSoFar, LoopIsOver, CallIsOpen, ClosedIsRead
<1>12. OneLineEach'
  <2>1. DOMAIN line'[fd] = 1 .. n
    BY <1>3, LenProperties
  <2>2. \A k \in DOMAIN line'[fd] : line'[fd][k] = NewLine => k = Len(line'[fd])
    BY <1>3, <1>5, <2>1
  <2>3. line'[fd] # NoLine /\ ~Has(line'[fd], NewLine) => ended[fd]
    <3> SUFFICES ASSUME line'[fd] # NoLine, ~Has(line'[fd], NewLine)
                 PROVE  ended[fd]
      OBVIOUS
    <3>1. n # 0
      BY <1>3, EmptySeq DEF NoLine
    <3>2. \A k \in 1 .. n : stash[s][k] # NewLine
      BY <1>3, <2>1 DEF Has
    <3>3. n = Len(stash[s])
      BY <1>3, <1>5, <3>1, <3>2
    <3>4. ~Has(stash[s], NewLine)
      BY <1>3, <3>2, <3>3, LenProperties DEF Has
    <3> QED BY <1>2, <3>4 DEF LoopIsOver, s, fd
  <2> QED BY <1>2, <1>4, <2>2, <2>3 DEF OneLineEach, Has
<1> QED BY <1>9, <1>10, <1>11, <1>12
LEMMA CallFailsIInv ==
    ASSUME IInv, NEW fd \in Fd, CallFails(fd)
    PROVE  IInv'
<1> USE DEF IInv
<1> DEFINE s == slot(fd)
<1>1. s \in Slot
  BY SlotType
<1>2. /\ stash' = [stash EXCEPT ![s] = <<>>]
      /\ past' = [past EXCEPT ![s] = Len(got[s])]
      /\ line' = [line EXCEPT ![fd] = <<>>]
      /\ current' = fd
      /\ pc = "caller"
      /\ UNCHANGED <<bonus, text, ended, open, offset, pc, got>>
  BY DEF CallFails, source, NoLine
<1>3. got[s] \in Seq(Byte) /\ Len(got[s]) \in Nat
  BY <1>1, LenProperties DEF TypeOK
<1>4. <<>> \in Seq(Byte) /\ Len(<<>>) = 0
  BY EmptySeq
<1>5. DOMAIN <<>> = 1 .. 0
  BY <1>4, LenProperties
<1> HIDE DEF s
<1>6. TypeOK'
  <2>1. /\ stash' \in [Slot -> Seq(Byte)] /\ past' \in [Slot -> Nat]
        /\ line' \in [Fd -> Seq(Byte)]
    BY <1>1, <1>2, <1>3, <1>4 DEF TypeOK
  <2> QED BY <1>2, <2>1 DEF TypeOK
<1>7. BytesKept'
  <2>1. /\ stash'[s] = <<>> /\ past'[s] = Len(got[s])
        /\ \A t \in Slot \ {s} : stash'[t] = stash[t] /\ past'[t] = past[t]
    BY <1>1, <1>2 DEF TypeOK
  <2> QED BY <1>2, <1>3, <1>4, <1>5, <2>1 DEF BytesKept
<1>8. ReadSoFar' /\ LoopIsOver' /\ CallIsOpen' /\ ClosedIsRead'
  BY <1>2 DEF ReadSoFar, LoopIsOver, CallIsOpen, ClosedIsRead
<1>9. OneLineEach'
  <2>1. line'[fd] = NoLine /\ \A f \in Fd \ {fd} : line'[f] = line[f]
    BY <1>2 DEF TypeOK, NoLine
  <2>2. DOMAIN line'[fd] = 1 .. 0
    BY <1>5, <2>1 DEF NoLine
  <2> QED BY <1>2, <2>1, <2>2 DEF OneLineEach, Has
<1> QED BY <1>6, <1>7, <1>8, <1>9

\* A call for a negative number drops the one stash of the mandatory version.
LEMMA CallNegativeIInv == IInv /\ CallNegative => IInv'
<1> SUFFICES ASSUME IInv, CallNegative PROVE IInv'
  OBVIOUS
<1> USE DEF IInv
<1>1. /\ UNCHANGED <<bonus, text, ended, open, offset, current, line, got>>
      /\ pc = "caller" /\ pc' \in {"caller", "crashed"}
      /\ \/ UNCHANGED <<stash, past>>
         \/ /\ stash' = [stash EXCEPT ![0] = <<>>]
            /\ past' = [past EXCEPT ![0] = Len(got[0])]
  BY DEF CallNegative, source
<1>2. ReadSoFar' /\ LoopIsOver' /\ CallIsOpen' /\ ClosedIsRead' /\ OneLineEach'
  BY <1>1 DEF ReadSoFar, LoopIsOver, CallIsOpen, ClosedIsRead, OneLineEach, Has
<1>3. CASE UNCHANGED <<stash, past>>
  <2>1. TypeOK' /\ BytesKept'
    BY <1>1, <1>3 DEF TypeOK, BytesKept
  <2> QED BY <1>2, <2>1
<1>4. CASE /\ stash' = [stash EXCEPT ![0] = <<>>]
           /\ past' = [past EXCEPT ![0] = Len(got[0])]
  <2>1. 0 \in Slot
    BY DEF Slot
  <2>2. got[0] \in Seq(Byte) /\ Len(got[0]) \in Nat
    BY <2>1, LenProperties DEF TypeOK
  <2>3. <<>> \in Seq(Byte) /\ Len(<<>>) = 0
    BY EmptySeq
  <2>4. DOMAIN <<>> = 1 .. 0
    BY <2>3, LenProperties
  <2>5. TypeOK'
    <3>1. stash' \in [Slot -> Seq(Byte)] /\ past' \in [Slot -> Nat]
      BY <1>4, <2>1, <2>2, <2>3 DEF TypeOK
    <3> QED BY <1>1, <3>1 DEF TypeOK
  <2>6. BytesKept'
    <3>1. /\ stash'[0] = <<>> /\ past'[0] = Len(got[0])
          /\ \A t \in Slot \ {0} : stash'[t] = stash[t] /\ past'[t] = past[t]
      BY <1>4, <2>1 DEF TypeOK
    <3> QED BY <1>1, <2>2, <2>3, <2>4, <3>1 DEF BytesKept
  <2> QED BY <1>2, <2>5, <2>6
<1> QED BY <1>1, <1>3, <1>4

\* What was read stays at the beginning of the text when the rest is cut off.
LEMMA CloseIInv ==
    ASSUME IInv, NEW fd \in Fd, Close(fd)
    PROVE  IInv'
<1> USE DEF IInv
<1>1. /\ text' = [text EXCEPT ![fd] = SubSeq(@, 1, offset[fd])]
      /\ open' = [open EXCEPT ![fd] = FALSE]
      /\ pc = "caller"
      /\ UNCHANGED <<bonus, ended, offset, stash, pc, current, line, got, past>>
  BY DEF Close
<1>2. /\ text[fd] \in Seq(Byte) /\ Len(text[fd]) \in Nat
      /\ offset[fd] \in Nat /\ offset[fd] <= Len(text[fd])
  BY LenProperties DEF TypeOK
<1> DEFINE m == offset[fd]
           cut == SubSeq(text[fd], 1, m)
<1>3. /\ cut \in Seq(Byte) /\ Len(cut) = m
      /\ \A k \in 1 .. m : cut[k] = text[fd][k]
  <2> HIDE DEF m
  <2>1. m \in Nat /\ m <= Len(text[fd])
    BY <1>2 DEF m
  <2>2. /\ SubSeq(text[fd], 0 + 1, m) \in Seq(Byte)
        /\ Len(SubSeq(text[fd], 0 + 1, m)) = m - 0
        /\ \A k \in 1 .. m - 0 : SubSeq(text[fd], 0 + 1, m)[k] = text[fd][0 + k]
    BY <1>2, <2>1, PartType
  <2> QED BY <2>1, <2>2
<1> HIDE DEF cut
<1>4. /\ text'[fd] = cut
      /\ \A f \in Fd \ {fd} : text'[f] = text[f]
      /\ text' = [text EXCEPT ![fd] = cut]
  BY <1>1 DEF TypeOK, cut
<1>5. TypeOK'
  <2>1. text' \in [Fd -> Seq(Byte)] /\ open' \in [Fd -> BOOLEAN]
    BY <1>1, <1>3, <1>4 DEF TypeOK
  <2>2. ASSUME NEW f \in Fd PROVE offset[f] <= Len(text'[f])
    <3>1. offset[f] \in Nat /\ offset[f] <= Len(text[f])
      BY DEF TypeOK
    <3> QED BY <1>2, <1>3, <1>4, <3>1
  <2> QED BY <1>1, <2>1, <2>2 DEF TypeOK
<1>6. BytesKept' /\ OneLineEach' /\ LoopIsOver' /\ CallIsOpen'
  BY <1>1 DEF BytesKept, OneLineEach, LoopIsOver, CallIsOpen, Has
<1>7. ReadSoFar'
  <2> SUFFICES ASSUME bonus, NEW f \in Fd, NEW k \in 1 .. offset[f]
               PROVE  got[f][k] = text'[f][k]
    BY <1>1 DEF ReadSoFar
  <2>1. got[f][k] = text[f][k]
    BY DEF ReadSoFar
  <2> QED BY <1>3, <1>4, <2>1
<1>8. ClosedIsRead'
  BY <1>1, <1>3, <1>4 DEF ClosedIsRead, TypeOK
<1> QED BY <1>5, <1>6, <1>7, <1>8

\* An opened descriptor has not ended, and nothing was returned for it.
LEMMA OpenIInv ==
    ASSUME IInv, NEW fd \in Fd, Open(fd)
    PROVE  IInv'
<1> USE DEF IInv
<1>1. /\ open' = [open EXCEPT ![fd] = TRUE]
      /\ ended' = [ended EXCEPT ![fd] = FALSE]
      /\ line' = [line EXCEPT ![fd] = <<>>]
      /\ pc = "caller"
      /\ UNCHANGED <<bonus, text, offset, stash, pc, current, got, past>>
  BY DEF Open, NoLine
<1>2. <<>> \in Seq(Byte) /\ Len(<<>>) = 0
  BY EmptySeq
<1>3. DOMAIN <<>> = 1 .. 0
  BY <1>2, LenProperties
<1>4. TypeOK'
  <2>1. /\ open' \in [Fd -> BOOLEAN] /\ ended' \in [Fd -> BOOLEAN]
        /\ line' \in [Fd -> Seq(Byte)]
    BY <1>1, <1>2 DEF TypeOK
  <2> QED BY <1>1, <2>1 DEF TypeOK
<1>5. BytesKept' /\ ReadSoFar' /\ LoopIsOver' /\ CallIsOpen' /\ ClosedIsRead'
  BY <1>1 DEF BytesKept, ReadSoFar, LoopIsOver, CallIsOpen, ClosedIsRead, TypeOK
<1>6. OneLineEach'
  <2>1. line'[fd] = NoLine /\ \A f \in Fd \ {fd} : line'[f] = line[f] /\ ended'[f] = ended[f]
    BY <1>1 DEF TypeOK, NoLine
  <2>2. DOMAIN line'[fd] = 1 .. 0
    BY <1>3, <2>1 DEF NoLine
  <2> QED BY <2>1, <2>2 DEF OneLineEach, Has
<1> QED BY <1>4, <1>5, <1>6

\* The writers: what is written comes after what was read, and nothing is
\* written to a descriptor that has ended.
LEMMA WriteIInv ==
    ASSUME IInv, NEW fd \in Fd, NEW byte \in Byte, Write(fd, byte)
    PROVE  IInv'
<1> USE DEF IInv
<1>1. /\ text' = [text EXCEPT ![fd] = Append(@, byte)]
      /\ open[fd] /\ ~ended[fd]
      /\ UNCHANGED <<bonus, ended, open, offset, stash, pc, current, line, got, past>>
  BY DEF Write
<1>2. text[fd] \in Seq(Byte) /\ Len(text[fd]) \in Nat
  BY LenProperties DEF TypeOK
<1>3. /\ Append(text[fd], byte) \in Seq(Byte)
      /\ Len(Append(text[fd], byte)) = Len(text[fd]) + 1
      /\ \A k \in 1 .. Len(text[fd]) : Append(text[fd], byte)[k] = text[fd][k]
  BY <1>2, AppendProperties
<1>4. /\ text'[fd] = Append(text[fd], byte)
      /\ \A f \in Fd \ {fd} : text'[f] = text[f]
  BY <1>1 DEF TypeOK
<1>5. TypeOK'
  <2>1. text' \in [Fd -> Seq(Byte)]
    BY <1>1, <1>3 DEF TypeOK
  <2>2. ASSUME NEW f \in Fd PROVE offset[f] <= Len(text'[f])
    <3>1. offset[f] \in Nat /\ offset[f] <= Len(text[f])
      BY DEF TypeOK
    <3>2. CASE f = fd
      BY <1>2, <1>3, <1>4, <3>1, <3>2
    <3>3. CASE f # fd
      BY <1>4, <3>1, <3>3
    <3> QED BY <3>2, <3>3
  <2> QED BY <1>1, <2>1, <2>2 DEF TypeOK
<1>6. BytesKept' /\ OneLineEach'
  BY <1>1 DEF BytesKept, OneLineEach, Has
<1>7. ReadSoFar'
  <2> SUFFICES ASSUME bonus, NEW f \in Fd, NEW k \in 1 .. offset[f]
               PROVE  got[f][k] = text'[f][k]
    BY <1>1 DEF ReadSoFar
  <2>1. got[f][k] = text[f][k]
    BY DEF ReadSoFar
  <2>2. offset[f] <= Len(text[f]) /\ offset[f] \in Nat
    BY DEF TypeOK
  <2>3. text'[f][k] = text[f][k]
    <3>1. CASE f = fd
      <4>1. k \in 1 .. Len(text[fd])
        BY <1>2, <2>2, <3>1
      <4> QED BY <1>3, <1>4, <3>1, <4>1
    <3>2. CASE f # fd
      BY <1>4, <3>2
    <3> QED BY <3>1, <3>2
  <2> QED BY <2>1, <2>3
<1>8. LoopIsOver' /\ CallIsOpen' /\ ClosedIsRead'
  BY <1>1, <1>4 DEF LoopIsOver, CallIsOpen, ClosedIsRead, slot, TypeOK
<1> QED BY <1>5, <1>6, <1>7, <1>8

\* The other actions change nothing that the invariant relates.
LEMMA OtherIInv ==
    ASSUME IInv,
           \/ \E fd \in Fd : Call(fd) \/ End(fd)
           \/ ReadFails
           \/ UNCHANGED vars
    PROVE  IInv'
<1> USE DEF IInv
<1>1. UNCHANGED <<bonus, text, offset, stash, line, got, past>>
  BY DEF Call, End, ReadFails, vars, source
<1>2. /\ ended' \in [Fd -> BOOLEAN] /\ open' \in [Fd -> BOOLEAN]
      /\ \A fd \in Fd : ended[fd] => ended'[fd]
      /\ current' \in Fd
      /\ pc' \in {"caller", "stash_filling", "extract", "crashed"}
      /\ pc' = "extract" => pc = "extract" /\ current' = current
  BY DEF Call, End, ReadFails, vars, source, TypeOK
<1>3. TypeOK'
  BY <1>1, <1>2 DEF TypeOK
<1>4. BytesKept' /\ ReadSoFar'
  BY <1>1 DEF BytesKept, ReadSoFar
<1>5. LoopIsOver'
  BY <1>1, <1>2 DEF LoopIsOver, slot, Has, TypeOK
<1>6. OneLineEach'
  BY <1>1, <1>2 DEF OneLineEach, Has
<1>7. CallIsOpen' /\ ClosedIsRead'
  BY DEF CallIsOpen, ClosedIsRead, Call, End, ReadFails, vars, source
<1> QED BY <1>3, <1>4, <1>5, <1>6, <1>7

LEMMA NextIInv == IInv /\ [Next]_vars => IInv'
<1> SUFFICES ASSUME IInv, [Next]_vars PROVE IInv'
  OBVIOUS
<1>1. CASE stash_filling
  BY <1>1, FillingIInv
<1>2. CASE Return
  BY <1>2, ReturnIInv
<1>3. CASE \E fd \in Fd : CallFails(fd)
  BY <1>3, CallFailsIInv
<1>4. CASE \E fd \in Fd, byte \in Byte : Write(fd, byte)
  BY <1>4, WriteIInv
<1>5. CASE \/ \E fd \in Fd : Call(fd) \/ End(fd)
           \/ ReadFails
           \/ UNCHANGED vars
  BY <1>5, OtherIInv
<1>6. CASE CallNegative
  BY <1>6, CallNegativeIInv
<1>7. CASE \E fd \in Fd : Close(fd) \/ Open(fd)
  BY <1>7, CloseIInv, OpenIInv
<1> QED BY <1>1, <1>2, <1>3, <1>4, <1>5, <1>6, <1>7 DEF Next, get_next_line

\* The inductive invariant holds in every reachable state.
THEOREM Invariant == Spec => []IInv
BY InitIInv, NextIInv, PTL DEF Spec

\* Every variable of the two versions keeps its type.
THEOREM TypeCorrect == Spec => []TypeOK
<1>1. IInv => TypeOK
  BY DEF IInv
<1> QED BY <1>1, Invariant, PTL

\* No byte that was read is lost, doubled or moved, whatever the size of the
\* pieces and of BUFFER_SIZE, and however many descriptors share a stash.
THEOREM KeepsBytes == Spec => []BytesKept
<1>1. IInv => BytesKept
  BY DEF IInv
<1> QED BY <1>1, Invariant, PTL

\* A call returns one whole line, or what was left at the end.
THEOREM ReturnsOneLine == Spec => []OneLineEach
<1>1. IInv => OneLineEach
  BY DEF IInv
<1> QED BY <1>1, Invariant, PTL
-----------------------------------------------------------------------------
(* The bonus version implements LineStream *)

\* In the mandatory version the abstract streams stay as they are; so they do
\* while a call reads.
LEMMA Stutters ==
    ASSUME TypeOK, bonus' = bonus,
           ~bonus \/ UNCHANGED <<text, ended, open, past, line>>
    PROVE  UNCHANGED LS!vars
BY DEF LS!vars, StreamText, StreamEnded, StreamOpen, StreamPast, StreamLine

\* In the bonus version they are the ones of the program.
LEMMA Streams ==
    ASSUME TypeOK, bonus
    PROVE  /\ StreamText = text
           /\ StreamEnded = ended
           /\ StreamOpen = open
           /\ StreamLine = line
           /\ StreamPast \in [Fd -> Nat]
           /\ \A fd \in Fd : StreamPast[fd] = past[fd]
<1>1. StreamText = text
  BY DEF TypeOK, StreamText
<1>2. StreamEnded = ended
  BY DEF TypeOK, StreamEnded
<1>3. StreamLine = line
  BY DEF TypeOK, StreamLine
<1>4. StreamPast \in [Fd -> Nat] /\ \A fd \in Fd : StreamPast[fd] = past[fd]
  BY DEF TypeOK, StreamPast, Slot
<1>5. StreamOpen = open
  BY DEF TypeOK, StreamOpen
<1> QED BY <1>1, <1>2, <1>3, <1>4, <1>5

LEMMA StreamsNext ==
    ASSUME TypeOK', bonus'
    PROVE  /\ StreamText' = text'
           /\ StreamEnded' = ended'
           /\ StreamOpen' = open'
           /\ StreamLine' = line'
           /\ StreamPast' \in [Fd -> Nat]
           /\ \A fd \in Fd : StreamPast'[fd] = past'[fd]
<1>1. StreamText' = text'
  BY DEF TypeOK, StreamText
<1>2. StreamEnded' = ended'
  BY DEF TypeOK, StreamEnded
<1>3. StreamLine' = line'
  BY DEF TypeOK, StreamLine
<1>4. StreamPast' \in [Fd -> Nat] /\ \A fd \in Fd : StreamPast'[fd] = past'[fd]
  BY DEF TypeOK, StreamPast, Slot
<1>5. StreamOpen' = open'
  BY DEF TypeOK, StreamOpen
<1> QED BY <1>1, <1>2, <1>3, <1>4, <1>5

\* Returning delivers the next line, or finds that there is none.
LEMMA ReturnDelivers ==
    ASSUME IInv, IInv', bonus, Return
    PROVE  LS!Deliver(current) \/ LS!Nothing(current)
<1> USE DEF IInv
<1> DEFINE fd == current
           n == LineLength(stash[fd])
<1>1. fd \in Fd /\ fd \in Slot /\ slot(fd) = fd
  BY DEF TypeOK, Slot, slot
<1>2. /\ stash[fd] \in Seq(Byte) /\ Len(stash[fd]) \in Nat
      /\ n \in Nat /\ n <= Len(stash[fd])
      /\ line'[fd] \in Seq(Byte)
      /\ Len(line'[fd]) = n
      /\ \A k \in 1 .. n : line'[fd][k] = stash[fd][k]
      /\ past'[fd] = past[fd] + n
  BY <1>1, ReturnedParts
<1>3. /\ \A k \in 1 .. n - 1 : stash[fd][k] # NewLine
      /\ n = Len(stash[fd]) \/ (n > 0 /\ stash[fd][n] = NewLine)
  BY <1>2, LineLengthType
<1>4. /\ UNCHANGED <<bonus, text, ended, open>>
      /\ pc = "extract"
      /\ \A f \in Fd \ {fd} : line'[f] = line[f] /\ past'[f] = past[f]
  BY <1>1 DEF Return, source, TypeOK, Slot
<1>5. /\ past[fd] \in Nat /\ Len(text[fd]) \in Nat /\ text[fd] \in Seq(Byte)
      /\ offset[fd] \in Nat /\ offset[fd] <= Len(text[fd])
  BY <1>1, LenProperties DEF TypeOK
<1>6. past[fd] + Len(stash[fd]) = offset[fd]
  BY <1>1 DEF BytesKept, ReadSoFar
<1> HIDE DEF fd, n
<1>7. \A k \in 1 .. Len(stash[fd]) : stash[fd][k] = text[fd][past[fd] + k]
  <2> SUFFICES ASSUME NEW k \in 1 .. Len(stash[fd])
               PROVE  stash[fd][k] = text[fd][past[fd] + k]
    OBVIOUS
  <2>1. stash[fd][k] = got[fd][past[fd] + k]
    BY <1>1, <1>2, LenProperties DEF BytesKept
  <2>2. past[fd] + k \in 1 .. offset[fd]
    BY <1>2, <1>5, <1>6
  <2> QED BY <1>1, <2>1, <2>2 DEF ReadSoFar
<1> DEFINE m == past[fd] + n
<1>8. /\ StreamText' = text /\ StreamEnded' = ended /\ StreamOpen' = open
      /\ StreamText = text /\ StreamEnded = ended /\ StreamLine = line
      /\ StreamOpen = open /\ open[fd]
      /\ StreamPast \in [Fd -> Nat] /\ StreamPast[fd] = past[fd]
      /\ StreamPast' = [StreamPast EXCEPT ![fd] = m]
      /\ StreamLine' = [line EXCEPT ![fd] = line'[fd]]
  <2>1. bonus'
    BY <1>4
  <2>2. /\ StreamText' = text' /\ StreamEnded' = ended' /\ StreamLine' = line'
        /\ StreamOpen' = open'
        /\ StreamPast' \in [Fd -> Nat]
        /\ \A f \in Fd : StreamPast'[f] = past'[f]
    BY <2>1, StreamsNext
  <2>7. open[fd]
    BY <1>4 DEF CallIsOpen, fd
  <2>3. /\ StreamText = text /\ StreamEnded = ended /\ StreamLine = line
        /\ StreamOpen = open
        /\ StreamPast \in [Fd -> Nat]
        /\ \A f \in Fd : StreamPast[f] = past[f]
    BY Streams
  <2>4. line \in [Fd -> Seq(Byte)] /\ line' \in [Fd -> Seq(Byte)]
    BY DEF TypeOK
  <2>5. StreamPast' = [StreamPast EXCEPT ![fd] = m]
    BY <1>1, <1>2, <1>4, <2>2, <2>3
  <2>6. line' = [line EXCEPT ![fd] = line'[fd]]
    BY <1>1, <1>4, <2>4
  <2> QED BY <1>1, <1>4, <2>2, <2>3, <2>5, <2>6, <2>7
<1>9. m \in Nat /\ m <= Len(text[fd])
  BY <1>2, <1>5, <1>6
<1>10. Len(stash[fd]) = n /\ ~Has(stash[fd], NewLine) =>
           ended[fd] /\ m = Len(text[fd])
  BY <1>1, <1>4, <1>5, <1>6 DEF LoopIsOver, fd
<1>11. CASE n = 0
  <2>1. line'[fd] = NoLine
    BY <1>2, <1>11, EmptySeq DEF NoLine
  <2>2. Len(stash[fd]) = 0
    BY <1>3, <1>11
  <2>3. ~Has(stash[fd], NewLine)
    BY <1>2, <2>2, LenProperties DEF Has
  <2>4. ended[fd] /\ past[fd] = Len(text[fd])
    BY <1>5, <1>10, <1>11, <2>2, <2>3
  <2>5. StreamPast' = StreamPast
    BY <1>1, <1>5, <1>8, <1>11
  <2> QED BY <1>8, <2>1, <2>4, <2>5 DEF LS!Nothing, fd
<1>12. CASE n # 0
  <2>1. m \in past[fd] + 1 .. Len(text[fd])
    BY <1>2, <1>5, <1>9, <1>12
  <2>2. ASSUME NEW k \in past[fd] + 1 .. m - 1 PROVE text[fd][k] # NewLine
    <3> DEFINE p == past[fd]
               j == k - p
    <3>1. p \in Nat /\ n \in Nat /\ k \in Int /\ p + 1 <= k /\ k <= p + n - 1
      BY <1>2, <1>5
    <3>2. j \in 1 .. n - 1 /\ k = p + j
      <4> HIDE DEF p, n
      <4> QED BY <3>1
    <3>3. j \in 1 .. Len(stash[fd])
      BY <1>2, <3>2
    <3> HIDE DEF j
    <3> QED BY <1>3, <1>7, <3>2, <3>3
  <2>3. n \in 1 .. Len(stash[fd]) /\ text[fd][m] = stash[fd][n]
    BY <1>2, <1>7, <1>12
  <2>4. text[fd][m] = NewLine \/ (m = Len(text[fd]) /\ ended[fd])
    <3> SUFFICES ASSUME text[fd][m] # NewLine
                 PROVE  m = Len(text[fd]) /\ ended[fd]
      OBVIOUS
    <3>1. Len(stash[fd]) = n
      BY <1>3, <2>3
    <3>2. \A k \in 1 .. n : stash[fd][k] # NewLine
      BY <1>2, <1>3, <2>3
    <3>3. ~Has(stash[fd], NewLine)
      BY <1>2, <3>1, <3>2, LenProperties DEF Has
    <3> QED BY <1>10, <3>1, <3>3
  <2>5. line'[fd] = SubSeq(text[fd], past[fd] + 1, m)
    <3>1. /\ SubSeq(text[fd], past[fd] + 1, m) \in Seq(Byte)
          /\ Len(SubSeq(text[fd], past[fd] + 1, m)) = m - past[fd]
          /\ \A k \in 1 .. m - past[fd] :
                SubSeq(text[fd], past[fd] + 1, m)[k] = text[fd][past[fd] + k]
      <4> DEFINE p == past[fd]
      <4>1. p \in Nat /\ p <= m
        BY <1>2, <1>5
      <4> SUFFICES /\ SubSeq(text[fd], p + 1, m) \in Seq(Byte)
                   /\ Len(SubSeq(text[fd], p + 1, m)) = m - p
                   /\ \A k \in 1 .. m - p :
                         SubSeq(text[fd], p + 1, m)[k] = text[fd][p + k]
        OBVIOUS
      <4> HIDE DEF p, m
      <4> QED BY <1>5, <1>9, <4>1, PartType
    <3>2. m - past[fd] = n
      BY <1>2, <1>5
    <3>3. \A k \in 1 .. n : line'[fd][k] = text[fd][past[fd] + k]
      BY <1>2, <1>7
    <3> DEFINE part == SubSeq(text[fd], past[fd] + 1, m)
    <3>4. /\ part \in Seq(Byte) /\ Len(part) = n
          /\ \A k \in 1 .. n : part[k] = line'[fd][k]
      BY <3>1, <3>2, <3>3
    <3> HIDE DEF part
    <3>5. line'[fd] = part
      BY <1>2, <3>4, SeqEqual
    <3> QED BY <3>5 DEF part
  <2> HIDE DEF m
  <2> QED BY <1>8, <2>1, <2>2, <2>4, <2>5 DEF LS!Deliver, fd
<1> QED BY <1>11, <1>12 DEF fd

\* What was not read is the part of a text that a close loses.
LEMMA CloseLoses ==
    ASSUME IInv, IInv', bonus, NEW fd \in Fd, Close(fd)
    PROVE  LS!Close(fd)
<1> USE DEF IInv
<1>1. /\ text' = [text EXCEPT ![fd] = SubSeq(@, 1, offset[fd])]
      /\ open[fd] /\ open' = [open EXCEPT ![fd] = FALSE]
      /\ UNCHANGED <<bonus, ended, line, past>>
  BY DEF Close
<1>2. fd \in Slot
  BY DEF Slot
<1>3. /\ Len(got[fd]) = offset[fd] /\ offset[fd] <= Len(text[fd])
      /\ past[fd] + Len(stash[fd]) = Len(got[fd])
      /\ past[fd] \in Nat /\ offset[fd] \in Nat
      /\ Len(stash[fd]) \in Nat /\ Len(text[fd]) \in Nat
  BY <1>2, LenProperties DEF TypeOK, ReadSoFar, BytesKept
<1>4. offset[fd] \in past[fd] .. Len(text[fd])
  BY <1>3
<1>5. /\ StreamText = text /\ StreamText' = text'
      /\ StreamEnded = ended /\ StreamEnded' = ended
      /\ StreamOpen = open /\ StreamOpen' = open'
      /\ StreamLine = line /\ StreamLine' = line
      /\ StreamPast \in [Fd -> Nat] /\ StreamPast' \in [Fd -> Nat]
      /\ \A f \in Fd : StreamPast[f] = past[f] /\ StreamPast'[f] = past[f]
  BY <1>1, Streams, StreamsNext
<1>6. StreamPast' = StreamPast
  BY <1>5
<1> QED BY <1>1, <1>4, <1>5, <1>6 DEF LS!Close

LEMMA LineStreamStep ==
    ASSUME IInv, IInv', [Next]_vars
    PROVE  [LS!Next]_(LS!vars)
<1>1. bonus' = bonus /\ TypeOK /\ TypeOK'
  BY DEF Next, get_next_line, stash_filling, Return, ReadFails, Call, CallFails,
         CallNegative, Close, Open, End, Write, vars, IInv
<1>2. CASE ~bonus
  BY <1>1, <1>2, Stutters
<1>3. CASE bonus
  <2>1. /\ StreamText = text /\ StreamText' = text'
        /\ StreamEnded = ended /\ StreamEnded' = ended'
        /\ StreamOpen = open /\ StreamOpen' = open'
        /\ StreamLine = line /\ StreamLine' = line'
        /\ StreamPast \in [Fd -> Nat] /\ StreamPast' \in [Fd -> Nat]
        /\ \A fd \in Fd : StreamPast[fd] = past[fd] /\ StreamPast'[fd] = past'[fd]
    BY <1>1, <1>3, Streams, StreamsNext
  <2>2. CASE Return
    <3>1. current \in Fd
      BY <1>1 DEF TypeOK
    <3>2. LS!Deliver(current) \/ LS!Nothing(current)
      BY <1>3, <2>2, ReturnDelivers
    <3> QED BY <3>1, <3>2 DEF LS!Next
  <2>3. ASSUME NEW fd \in Fd, CallFails(fd)
        PROVE  LS!Forget(fd)
    <3>1. slot(fd) = fd /\ fd \in Slot
      BY <1>3 DEF slot, Slot
    <3>2. Len(got[fd]) = Len(text[fd])
      BY <1>3, <2>3 DEF CallFails, ClosedIsRead, ReadSoFar, IInv
    <3>3. /\ past' = [past EXCEPT ![fd] = Len(text[fd])]
          /\ line' = [line EXCEPT ![fd] = NoLine]
          /\ text' = text /\ ended' = ended /\ open' = open /\ ~open[fd]
      BY <2>3, <3>1, <3>2 DEF CallFails, source
    <3>4. past \in [Slot -> Nat]
      BY <1>1 DEF TypeOK
    <3>5. StreamPast' = [StreamPast EXCEPT ![fd] = Len(text[fd])]
      BY <2>1, <3>1, <3>3, <3>4 DEF Slot
    <3> QED BY <2>1, <3>3, <3>5 DEF LS!Forget
  <2>4. ASSUME NEW fd \in Fd, Close(fd)
        PROVE  LS!Close(fd)
    BY <1>3, <2>4, CloseLoses
  <2>5. CASE past' = past /\ ~(\E fd \in Fd : CallFails(fd) \/ Close(fd)) /\ ~Return
    <3>1. StreamPast' = StreamPast
      BY <2>1, <2>5
    <3>2. ASSUME NEW fd \in Fd, NEW byte \in Byte, Write(fd, byte)
          PROVE  LS!Write(fd, byte)
      BY <2>1, <3>1, <3>2 DEF LS!Write, Write
    <3>3. ASSUME NEW fd \in Fd, End(fd)
          PROVE  LS!End(fd)
      BY <2>1, <3>1, <3>3 DEF LS!End, End
    <3>4. ASSUME NEW fd \in Fd, Open(fd)
          PROVE  LS!Open(fd)
      BY <2>1, <3>1, <3>4 DEF LS!Open, Open
    <3>5. CASE \/ \E fd \in Fd : Call(fd)
               \/ CallNegative \/ stash_filling \/ ReadFails \/ UNCHANGED vars
      <4>1. UNCHANGED <<text, ended, open, line>>
        BY <3>5 DEF Call, CallNegative, stash_filling, ReadFails, source, vars
      <4> QED BY <2>1, <3>1, <4>1 DEF LS!vars
    <3> QED BY <2>5, <3>2, <3>3, <3>4, <3>5 DEF Next, get_next_line, LS!Next
  <2>6. \/ Return
        \/ \E fd \in Fd : CallFails(fd) \/ Close(fd)
        \/ past' = past /\ ~(\E fd \in Fd : CallFails(fd) \/ Close(fd)) /\ ~Return
    BY <1>3 DEF Next, get_next_line, stash_filling, ReadFails, Call, CallNegative,
           Open, End, Write, vars
  <2> QED BY <2>2, <2>3, <2>4, <2>5, <2>6 DEF LS!Next
<1> QED BY <1>2, <1>3

\* The bonus version of get_next_line gives each descriptor its lines, whole,
\* in order and once each, whatever is called for the others in between.
THEOREM DeliversLinesInOrder == Spec => LinesInOrder
<1>1. Init => LS!Init
  BY DEF Init, LS!Init, Slot, StreamText, StreamEnded, StreamOpen, StreamPast,
         StreamLine
<1>2. IInv /\ IInv' /\ [Next]_vars => [LS!Next]_(LS!vars)
  BY LineStreamStep
<1> QED BY <1>1, <1>2, Invariant, PTL DEF Spec, LinesInOrder, LS!Spec
===============================================================================
