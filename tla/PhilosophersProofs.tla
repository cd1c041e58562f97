------------------------ MODULE PhilosophersProofs ------------------------
(***************************************************************************)
(* Proofs about Philosophers for every number of philosophers and every    *)
(* meal goal: the types, the exclusion of the forks, what is printed once  *)
(* the simulation is over, and the implementation of DiningTable.          *)
(***************************************************************************)
EXTENDS Philosophers, TLAPS

USE NAssumption

----------------------------------------------------------------------------
(* Types *)

\* The forks of a philosopher are forks.
LEMMA ForksAreForks == \A p \in Phil : Left(p) \in Phil /\ Right(p) \in Phil
  BY DEF Phil, Left, Right

\* Every step keeps every variable in its type.
LEMMA TypeStep == TypeOK /\ [Next]_vars => TypeOK'
<1> SUFFICES ASSUME TypeOK, [Next]_vars PROVE TypeOK'
  OBVIOUS
<1> USE DEF TypeOK, threads, main, output
<1>1. CASE Main
  <2> USE DEF Phil, NextCheck, Unlock, Left, Right, Pcs, MainPcs
  <2>1. CASE Create
    BY <2>1 DEF Create
  <2>2. CASE Start
    BY <2>2 DEF Start
  <2>3. CASE CheckDeath
    BY <2>3 DEF CheckDeath
  <2>4. CASE PrintDeath
    BY <2>4 DEF PrintDeath
  <2>5. CASE SetOver
    BY <2>5 DEF SetOver
  <2>6. CASE FreeLeft
    BY <2>6 DEF FreeLeft
  <2>7. CASE FreeRight
    BY <2>7 DEF FreeRight
  <2>8. CASE CheckMeals
    BY <2>8 DEF CheckMeals
  <2>9. CASE GoalSeen
    BY <2>9 DEF GoalSeen
  <2>10. CASE Finish
    BY <2>10 DEF Finish, GoalReached
  <2>11. CASE Join
    BY <2>11 DEF Join
  <2> QED
    BY <1>1, <2>1, <2>2, <2>3, <2>4, <2>5, <2>6, <2>7, <2>8, <2>9, <2>10,
       <2>11 DEF Main
<1>2. ASSUME NEW p \in Phil, Philosopher(p) PROVE TypeOK'
  <2> USE DEF Go, Pcs, Lines, AfterLine
  <2>1. CASE Spin(p)
    BY <2>1 DEF Spin
  <2>2. CASE LoopTest(p)
    BY <2>2 DEF LoopTest
  <2>3. CASE TakeLeft(p)
    BY <2>3 DEF TakeLeft, Lock, Left
  <2>4. CASE TakeRight(p)
    BY <2>4 DEF TakeRight, Lock
  <2>5. CASE EnterPrint(p)
    BY <2>5 DEF EnterPrint
  <2>6. CASE PrintLine(p)
    BY <2>6 DEF PrintLine
  <2>7. CASE Meal(p)
    BY <2>7 DEF Meal
  <2>8. CASE Count(p)
    <3>1. MealCap \in Nat
      BY GoalAssumption DEF MealCap, NoGoal
    <3> QED
      BY <2>8, <3>1 DEF Count
  <2>9. CASE DropLeft(p)
    BY <2>9 DEF DropLeft, Unlock
  <2>10. CASE DropRight(p)
    BY <2>10 DEF DropRight, Unlock
  <2> QED
    BY <1>2, <2>1, <2>2, <2>3, <2>4, <2>5, <2>6, <2>7, <2>8, <2>9, <2>10
    DEF Philosopher
<1>3. ASSUME NEW p \in Phil, Expire(p) PROVE TypeOK'
  BY <1>3 DEF Expire
<1>4. CASE UNCHANGED vars
  BY <1>4 DEF vars
<1> QED
  BY <1>1, <1>2, <1>3, <1>4 DEF Next

\* The initial state has its types.
LEMMA InitType == Init => TypeOK
<1> SUFFICES ASSUME Init PROVE TypeOK
  OBVIOUS
<1>1. MealCap \in Nat
  BY GoalAssumption DEF MealCap, NoGoal
<1>2. pc \in [Phil -> Pcs] /\ mainPc \in MainPcs
  BY DEF Init, Pcs, MainPcs
<1>3. i \in Phil
  BY DEF Init, Phil
<1>4. phLoop \in [Phil -> 0 .. MealCap]
  BY <1>1 DEF Init
<1> QED
  BY <1>2, <1>3, <1>4 DEF Init, TypeOK

\* Type correctness of every reachable state.
THEOREM TypeCorrect == Spec => []TypeOK
  BY InitType, TypeStep, PTL DEF Spec

----------------------------------------------------------------------------
(* The exclusion of the forks *)

\* What makes ForkExclusion inductive: a fork no death has spoiled is locked
\* exactly when it is held, by one philosopher and as one of his two forks;
\* and someone_died unlocks the forks of a philosopher already marked dead.
ForkInv ==
    /\ TypeOK
    /\ ForkExclusion
    /\ \A p \in Phil : Held(p) \subseteq {f \in Phil : locked[f]} \cup Freed
    /\ \A p \in Phil :
          pc[p] \in HoldsLeft \cap HoldsRight /\ Left(p) = Right(p)
              => Left(p) \in Freed
    /\ mainPc \in {"freeLeft", "freeRight"} => dead[i]

\* A step that moves no thread and frees no fork only adds to Freed.
LEMMA ForkInvStable ==
    ASSUME ForkInv, TypeOK', UNCHANGED <<pc, locked>>,
           Freed \subseteq Freed',
           (mainPc \in {"freeLeft", "freeRight"} => dead[i])'
    PROVE  ForkInv'
  BY DEF ForkInv, ForkExclusion, Held, HoldsLeft, HoldsRight

\* The main thread preserves it: only someone_died unlocks forks, and those
\* are spoiled by then.
LEMMA ForkInvMain == ForkInv /\ TypeOK' /\ Main => ForkInv'
<1> SUFFICES ASSUME ForkInv, TypeOK', Main PROVE ForkInv'
  OBVIOUS
<1> USE DEF threads, main, output
<1>1. CASE Create
  <2>1. \A p \in Phil : Held(p)' \subseteq Held(p)
    BY <1>1 DEF Create, Held, HoldsLeft, HoldsRight, ForkInv, TypeOK
  <2>2. Freed' = Freed /\ locked' = locked
    BY <1>1 DEF Create, Freed, Forks
  <2>3. \A p \in Phil :
           pc'[p] \in HoldsLeft \cap HoldsRight => pc'[p] = pc[p]
    BY <1>1 DEF Create, HoldsLeft, HoldsRight, ForkInv, TypeOK
  <2>4. mainPc' \notin {"freeLeft", "freeRight"}
    BY <1>1 DEF Create
  <2> QED
    BY <2>1, <2>2, <2>3, <2>4 DEF ForkInv, ForkExclusion
<1>2. CASE SetOver
  <2>1. Freed \subseteq Freed'
    BY <1>2 DEF SetOver, Freed, Forks, ForkInv, TypeOK
  <2>2. dead'[i']
    BY <1>2 DEF SetOver, ForkInv, TypeOK
  <2> QED
    BY <1>2, <2>1, <2>2, ForkInvStable DEF SetOver
<1>3. ASSUME FreeLeft \/ FreeRight PROVE ForkInv'
  <2>1. PICK f \in Forks(i) : locked' = [locked EXCEPT ![f] = FALSE]
    BY <1>3 DEF FreeLeft, FreeRight, Unlock, Forks
  <2>2. UNCHANGED <<pc, dead>>
    BY <1>3 DEF FreeLeft, FreeRight
  <2>3. f \in Freed
    BY <1>3, <2>1 DEF FreeLeft, FreeRight, ForkInv, TypeOK, Freed
  <2>4. (mainPc \in {"freeLeft", "freeRight"} => dead[i])'
    BY <1>3 DEF FreeLeft, FreeRight, NextCheck, ForkInv
  <2>5. \A p \in Phil : Held(p)' = Held(p)
    BY <2>2 DEF Held
  <2>6. Freed' = Freed
    BY <2>2 DEF Freed
  <2>7. \A p \in Phil : Held(p) \subseteq Phil
    BY ForksAreForks DEF Held
  <2>8. \A g \in Phil : g # f => locked'[g] = locked[g]
    BY <2>1 DEF ForkInv, TypeOK
  <2>9. \A p \in Phil :
           Held(p)' \subseteq {g \in Phil : locked'[g]} \cup Freed'
    BY <2>3, <2>5, <2>6, <2>7, <2>8 DEF ForkInv
  <2> QED
    BY <2>2, <2>4, <2>5, <2>6, <2>9 DEF ForkInv, ForkExclusion
<1>4. CASE Start
  BY <1>4, ForkInvStable DEF Start, Freed
<1>5. CASE CheckDeath
  BY <1>5, ForkInvStable DEF CheckDeath, Freed
<1>6. CASE PrintDeath
  BY <1>6, ForkInvStable DEF PrintDeath, Freed
<1>7. CASE CheckMeals
  BY <1>7, ForkInvStable DEF CheckMeals, NextCheck, Freed
<1>8. CASE GoalSeen
  BY <1>8, ForkInvStable DEF GoalSeen, NextCheck, Freed
<1>9. CASE Finish
  BY <1>9, ForkInvStable DEF Finish, Freed
<1>10. CASE Join
  BY <1>10, ForkInvStable DEF Join, Freed
<1> QED
  BY <1>1, <1>2, <1>3, <1>4, <1>5, <1>6, <1>7, <1>8, <1>9, <1>10 DEF Main

\* A step of one thread that holds no more than before, and that unlocks at
\* most a fork it stops holding, preserves it.
LEMMA ForkInvRelease ==
    ASSUME ForkInv, TypeOK', NEW p \in Phil,
           UNCHANGED <<dead, mainPc, i>>,
           \A q \in Phil \ {p} : pc'[q] = pc[q],
           Held(p)' \subseteq Held(p),
           pc'[p] \in HoldsLeft \cap HoldsRight
               => pc[p] \in HoldsLeft \cap HoldsRight,
           \A f \in Phil : locked[f] /\ ~locked'[f]
               => f \in Held(p) /\ (f \in Held(p)' => f \in Freed)
    PROVE  ForkInv'
<1>1. \A q \in Phil \ {p} : Held(q)' = Held(q)
  BY DEF Held
<1>2. Freed' = Freed
  BY DEF Freed
<1>3. ForkExclusion'
  BY <1>1, <1>2 DEF ForkInv, ForkExclusion
<1>4. \A q \in Phil : Held(q) \subseteq Phil
  BY ForksAreForks DEF Held
<1>5. ASSUME NEW q \in Phil, NEW f \in Held(q)', f \notin Freed
      PROVE  locked'[f]
  <2>1. f \in Held(q) /\ f \in Phil
    BY <1>1, <1>4, <1>5
  <2>2. locked[f]
    BY <1>5, <2>1 DEF ForkInv
  <2>3. q # p => f \notin Held(p)
    BY <1>5, <2>1 DEF ForkInv, ForkExclusion
  <2> QED
    BY <1>5, <2>1, <2>2, <2>3
<1>6. \A q \in Phil :
         Held(q)' \subseteq {f \in Phil : locked'[f]} \cup Freed'
  BY <1>1, <1>2, <1>4, <1>5
<1>7. \A q \in Phil :
         pc'[q] \in HoldsLeft \cap HoldsRight
             => pc[q] \in HoldsLeft \cap HoldsRight
  OBVIOUS
<1> QED
  BY <1>2, <1>3, <1>6, <1>7 DEF ForkInv

\* Locking a fork that was not locked preserves it.
LEMMA ForkInvTake ==
    ASSUME ForkInv, TypeOK', NEW p \in Phil, NEW f \in Phil,
           UNCHANGED <<dead, mainPc, i>>,
           \A q \in Phil \ {p} : pc'[q] = pc[q],
           ~locked[f], locked' = [locked EXCEPT ![f] = TRUE],
           Held(p)' = Held(p) \cup {f},
           pc'[p] \in HoldsLeft \cap HoldsRight => Left(p) \in Held(p),
           pc'[p] \in HoldsLeft \cap HoldsRight => f = Right(p)
    PROVE  ForkInv'
<1>1. \A q \in Phil \ {p} : Held(q)' = Held(q)
  BY DEF Held
<1>2. Freed' = Freed
  BY DEF Freed
<1>3. \A q \in Phil : f \in Held(q) => f \in Freed
  BY DEF ForkInv
<1>4. ForkExclusion'
  BY <1>1, <1>2, <1>3 DEF ForkInv, ForkExclusion
<1>5. \A g \in Phil : locked[g] => locked'[g]
  BY DEF ForkInv, TypeOK
<1>6. locked'[f]
  BY DEF ForkInv, TypeOK
<1>7. \A q \in Phil :
         Held(q)' \subseteq {g \in Phil : locked'[g]} \cup Freed'
  BY <1>1, <1>2, <1>5, <1>6 DEF ForkInv
<1>8. pc'[p] \in HoldsLeft \cap HoldsRight /\ Left(p) = Right(p)
         => Left(p) \in Freed
  BY <1>3
<1> QED
  BY <1>2, <1>4, <1>7, <1>8 DEF ForkInv

\* The threads of the philosophers preserve it.
LEMMA ForkInvPhilosopher ==
    ASSUME ForkInv, TypeOK', NEW p \in Phil, Philosopher(p)
    PROVE  ForkInv'
<1> USE DEF main, output, HoldsLeft, HoldsRight, Held
<1>1. ASSUME NEW from, NEW to, Go(p, from, to)
      PROVE  pc[p] = from /\ pc'[p] = to
             /\ \A q \in Phil \ {p} : pc'[q] = pc[q]
  BY <1>1 DEF Go, ForkInv, TypeOK
<1>2. ASSUME EnterPrint(p) \/ PrintLine(p) PROVE ForkInv'
  <2>1. UNCHANGED <<dead, mainPc, i, locked>>
    BY <1>2 DEF EnterPrint, PrintLine
  <2>2. \A q \in Phil \ {p} : pc'[q] = pc[q]
    BY <1>2 DEF EnterPrint, PrintLine, ForkInv, TypeOK
  <2>3. pc'[p] \in {pc[p], AfterLine[pc[p]]} /\ pc[p] \in Lines
    BY <1>2 DEF EnterPrint, PrintLine, ForkInv, TypeOK
  <2>4. /\ pc'[p] \in HoldsLeft => pc[p] \in HoldsLeft
        /\ pc'[p] \in HoldsRight => pc[p] \in HoldsRight
    BY <2>3 DEF AfterLine, Lines
  <2>5. Held(p)' \subseteq Held(p)
    BY <2>4
  <2> QED
    BY <2>1, <2>2, <2>4, <2>5, ForkInvRelease
<1>3. CASE Spin(p)
  BY <1>1, <1>3, ForkInvRelease DEF Spin
<1>4. CASE LoopTest(p)
  BY <1>1, <1>4, ForkInvRelease DEF LoopTest
<1>5. CASE Meal(p)
  BY <1>1, <1>5, ForkInvRelease DEF Meal
<1>6. CASE Count(p)
  BY <1>1, <1>6, ForkInvRelease DEF Count
<1>7. CASE TakeLeft(p)
  <2>1. /\ pc[p] = "takeLeft" /\ pc'[p] = "leftLine"
        /\ \A q \in Phil \ {p} : pc'[q] = pc[q]
    BY <1>1, <1>7 DEF TakeLeft
  <2>2. Held(p)' = Held(p) \cup {Left(p)}
    BY <2>1
  <2>3. pc'[p] \notin HoldsLeft \cap HoldsRight
    BY <2>1
  <2> HIDE DEF Held, HoldsLeft, HoldsRight
  <2> QED
    BY <1>7, <2>1, <2>2, <2>3, ForkInvTake, ForksAreForks
    DEF TakeLeft, Lock
<1>8. CASE TakeRight(p)
  BY <1>1, <1>8, ForkInvTake, ForksAreForks DEF TakeRight, Lock
<1>9. CASE DropLeft(p)
  BY <1>1, <1>9, ForkInvRelease, ForksAreForks
  DEF DropLeft, Unlock, ForkInv, TypeOK
<1>10. CASE DropRight(p)
  BY <1>1, <1>10, ForkInvRelease, ForksAreForks
  DEF DropRight, Unlock, ForkInv, TypeOK
<1> QED
  BY <1>2, <1>3, <1>4, <1>5, <1>6, <1>7, <1>8, <1>9, <1>10 DEF Philosopher

\* ForkInv holds in every reachable state.
LEMMA ForkInvInvariant == Spec => []ForkInv
<1>1. Init => ForkInv
  <2> SUFFICES ASSUME Init PROVE ForkInv
    OBVIOUS
  <2>1. TypeOK
    BY InitType
  <2>2. \A p \in Phil : Held(p) = {} /\ pc[p] \notin HoldsLeft
    BY DEF Init, Held, HoldsLeft, HoldsRight
  <2>3. mainPc = "create"
    BY DEF Init
  <2> QED
    BY <2>1, <2>2, <2>3 DEF ForkInv, ForkExclusion
<1>2. ForkInv /\ [Next]_vars => ForkInv'
  <2> SUFFICES ASSUME ForkInv, [Next]_vars PROVE ForkInv'
    OBVIOUS
  <2>1. TypeOK'
    BY TypeStep DEF ForkInv
  <2>2. ASSUME NEW p \in Phil, Expire(p) PROVE ForkInv'
    BY <2>1, <2>2, ForkInvStable DEF Expire, main, Freed, ForkInv
  <2>3. CASE UNCHANGED vars
    BY <2>1, <2>3, ForkInvStable DEF vars, threads, main, Freed, ForkInv
  <2> QED
    BY <2>1, <2>2, <2>3, ForkInvMain, ForkInvPhilosopher DEF Next
<1> QED
  BY <1>1, <1>2, PTL DEF Spec

\* Two philosophers hold one fork at a time only if a death spoiled it.
THEOREM ForksExclude == Spec => []ForkExclusion
  BY ForkInvInvariant, PTL DEF ForkInv

----------------------------------------------------------------------------
(* What is printed, and the state the mutexes are left in *)

\* The DIE line is printed before over is set, and only once; the line that
\* may follow over is printed by the thread that held death at that time.
LineInv ==
    /\ TypeOK
    /\ OneDeathLine /\ OneLateLine
    /\ deathLines = 1 => over \/ mainPc = "setOver"
    /\ lateLines = 1 => over /\ death = Nobody

\* LineInv is preserved by every step.
LEMMA LineInvStep == LineInv /\ [Next]_vars => LineInv'
<1> SUFFICES ASSUME LineInv, [Next]_vars PROVE LineInv'
  OBVIOUS
<1>1. TypeOK'
  BY TypeStep DEF LineInv
<1> USE DEF LineInv, OneDeathLine, OneLateLine, threads, main, output
<1>2. CASE Main
  BY <1>1, <1>2
  DEF Main, Create, Start, CheckDeath, PrintDeath, SetOver, FreeLeft,
      FreeRight, CheckMeals, GoalSeen, NextCheck, Finish, Join, TypeOK
<1>3. ASSUME NEW p \in Phil, Philosopher(p) PROVE LineInv'
  <2>1. CASE EnterPrint(p)
    BY <1>1, <2>1 DEF EnterPrint
  <2>2. CASE PrintLine(p)
    <3>1. death # Nobody
      BY <2>2 DEF PrintLine, Phil, Nobody
    <3>2. lateLines = 0
      BY <3>1 DEF TypeOK
    <3> QED
      BY <1>1, <2>2, <3>2 DEF PrintLine
  <2> QED
    BY <1>1, <1>3, <2>1, <2>2
    DEF Philosopher, Spin, LoopTest, TakeLeft, TakeRight, Meal, Count,
        DropLeft, DropRight
<1>4. ASSUME NEW p \in Phil, Expire(p) PROVE LineInv'
  BY <1>1, <1>4 DEF Expire
<1>5. CASE UNCHANGED vars
  BY <1>1, <1>5 DEF vars
<1> QED
  BY <1>2, <1>3, <1>4, <1>5 DEF Next

\* One DIE line at most, and one status line at most once over is set.
THEOREM LinesBounded == Spec => [](OneDeathLine /\ OneLateLine)
<1>1. Init => LineInv
  BY InitType DEF Init, LineInv, OneDeathLine, OneLateLine
<1> QED
  BY <1>1, LineInvStep, PTL DEF Spec, LineInv

\* A death is reported once, although the monitor and the threads both look for
\* the end.
THEOREM OneDeath == Spec => []OneDeathLine
  BY LinesBounded, PTL

\* No thread is left holding a lock: a locked fork has a holder even when the
\* monitor has unlocked it before, and joined threads hold nothing.
EndInv ==
    /\ TypeOK
    /\ \A f \in Phil : locked[f] => \E p \in Phil : f \in Held(p)
    /\ death # Nobody => pc[death] \in Lines
    /\ mainPc = "create" => \A p \in Phil : p >= i => pc[p] = "none"
    /\ mainPc = "finish" => i = 0
    /\ mainPc = "join" => \A p \in Phil : p < i => pc[p] = "done"
    /\ mainPc = "end" => \A p \in Phil : pc[p] = "done"

\* The main thread preserves EndInv.
LEMMA EndInvMain == EndInv /\ TypeOK' /\ Main => EndInv'
<1> SUFFICES ASSUME EndInv, TypeOK', Main PROVE EndInv'
  OBVIOUS
<1> USE DEF EndInv, threads, main, output
<1>1. CASE Create
  <2>1. \A p \in Phil : p # i => pc'[p] = pc[p]
    BY <1>1 DEF Create, TypeOK
  <2>2. i \in Phil /\ pc[i] = "none" /\ pc'[i] = "spin"
    BY <1>1 DEF Create, TypeOK, Phil
  <2>3. \A p \in Phil : Held(p) \subseteq Held(p)'
    BY <2>1, <2>2 DEF Held, HoldsLeft, HoldsRight
  <2>4. \A f \in Phil : locked'[f] => \E p \in Phil : f \in Held(p)'
    BY <1>1, <2>3 DEF Create
  <2>5. death' # Nobody => pc'[death'] \in Lines
    BY <1>1, <2>1, <2>2 DEF Create, Lines, TypeOK
  <2>6. (mainPc = "create" => \A p \in Phil : p >= i => pc[p] = "none")'
    BY <1>1, <2>1 DEF Create, Phil, TypeOK
  <2>7. mainPc' \in {"create", "start"}
    BY <1>1 DEF Create
  <2> QED
    BY <2>4, <2>5, <2>6, <2>7
<1>2. CASE Join
  <2>1. UNCHANGED <<pc, locked, death>>
    BY <1>2 DEF Join
  <2>2. i \in 0 .. N - 1
    BY DEF TypeOK, Phil
  <2>3. (mainPc = "join" => \A p \in Phil : p < i => pc[p] = "done")'
    BY <1>2, <2>1, <2>2 DEF Join, Phil
  <2>4. (mainPc = "end" => \A p \in Phil : pc[p] = "done")'
    BY <1>2, <2>1, <2>2 DEF Join, Phil
  <2> QED
    BY <1>2, <2>1, <2>3, <2>4 DEF Join, Held
<1>3. CASE Finish
  BY <1>3 DEF Finish, Held, Phil
<1>4. ASSUME FreeLeft \/ FreeRight PROVE EndInv'
  <2>1. PICK f \in Forks(i) : locked' = [locked EXCEPT ![f] = FALSE]
    BY <1>4 DEF FreeLeft, FreeRight, Unlock, Forks
  <2>2. \A g \in Phil : locked'[g] => locked[g]
    BY <2>1 DEF TypeOK
  <2>3. mainPc' = "finish" => i' = 0
    BY <1>4 DEF FreeLeft, FreeRight, NextCheck
  <2>4. mainPc' \notin {"create", "join", "end"}
    BY <1>4 DEF FreeLeft, FreeRight, NextCheck
  <2> QED
    BY <1>4, <2>2, <2>3, <2>4 DEF FreeLeft, FreeRight, Held
<1>5. ASSUME Start \/ CheckDeath \/ PrintDeath \/ SetOver \/ CheckMeals
             \/ GoalSeen
      PROVE  EndInv'
  <2>1. UNCHANGED <<pc, locked, death>>
    BY <1>5 DEF Start, CheckDeath, PrintDeath, SetOver, CheckMeals, GoalSeen
  <2>2. mainPc' \notin {"create", "join", "end"}
    BY <1>5
    DEF Start, CheckDeath, PrintDeath, SetOver, CheckMeals, GoalSeen, NextCheck
  <2>3. mainPc' = "finish" => i' = 0
    BY <1>5
    DEF Start, CheckDeath, PrintDeath, SetOver, CheckMeals, GoalSeen, NextCheck
  <2> QED
    BY <2>1, <2>2, <2>3 DEF Held
<1> QED
  BY <1>1, <1>2, <1>3, <1>4, <1>5 DEF Main

\* The philosophers' threads preserve EndInv.
LEMMA EndInvPhilosopher ==
    ASSUME EndInv, TypeOK', NEW p \in Phil, Philosopher(p)
    PROVE  EndInv'
<1> USE DEF main, output
<1>1. UNCHANGED <<mainPc, i>>
  BY DEF Philosopher, Spin, LoopTest, TakeLeft, TakeRight, EnterPrint,
     PrintLine, Meal, Count, DropLeft, DropRight
<1>2. pc[p] \notin {"none", "done"}
  BY DEF Philosopher, Spin, LoopTest, TakeLeft, TakeRight, EnterPrint,
     PrintLine, Meal, Count, DropLeft, DropRight, Go, Lines
<1>3. \A q \in Phil \ {p} : pc'[q] = pc[q] /\ Held(q)' = Held(q)
  <2>1. \A q \in Phil \ {p} : pc'[q] = pc[q]
    BY DEF Philosopher, Spin, LoopTest, TakeLeft, TakeRight, EnterPrint,
       PrintLine, Meal, Count, DropLeft, DropRight, Go, EndInv, TypeOK
  <2> QED
    BY <2>1 DEF Held
<1>4. /\ mainPc = "create" => \A q \in Phil : q >= i => pc'[q] = "none"
      /\ mainPc = "join" => \A q \in Phil : q < i => pc'[q] = "done"
      /\ mainPc = "end" => \A q \in Phil : pc'[q] = "done"
  BY <1>2, <1>3 DEF EndInv
<1>5. death' # Nobody => pc'[death'] \in Lines
  <2>1. CASE EnterPrint(p)
    BY <1>3, <2>1 DEF EnterPrint, EndInv, TypeOK
  <2>2. CASE PrintLine(p)
    BY <2>2 DEF PrintLine
  <2>3. CASE death' = death /\ pc[p] \notin Lines
    BY <1>3, <2>3 DEF EndInv, TypeOK
  <2> QED
    BY <2>1, <2>2, <2>3
    DEF Philosopher, Spin, LoopTest, TakeLeft, TakeRight, Meal, Count,
        DropLeft, DropRight, Go, Lines
<1>6. \A f \in Phil : locked'[f] /\ (~locked[f] \/ f \in Held(p))
                         => f \in Held(p)'
  <2> USE DEF Held, HoldsLeft, HoldsRight, EndInv, TypeOK
  <2>1. CASE EnterPrint(p) \/ PrintLine(p)
    <3>1. pc'[p] \in {pc[p], AfterLine[pc[p]]} /\ pc[p] \in Lines
      BY <2>1 DEF EnterPrint, PrintLine
    <3>2. Held(p) \subseteq Held(p)'
      BY <3>1 DEF AfterLine, Lines
    <3>3. locked' = locked
      BY <2>1 DEF EnterPrint, PrintLine
    <3> QED
      BY <3>2, <3>3
  <2>2. CASE TakeLeft(p)
    BY <2>2, ForksAreForks DEF TakeLeft, Go, Lock
  <2>3. CASE TakeRight(p)
    BY <2>3, ForksAreForks DEF TakeRight, Go, Lock
  <2>4. CASE DropLeft(p)
    BY <2>4, ForksAreForks DEF DropLeft, Go, Unlock
  <2>5. CASE DropRight(p)
    BY <2>5, ForksAreForks DEF DropRight, Go, Unlock
  <2>6. CASE Spin(p) \/ LoopTest(p) \/ Meal(p) \/ Count(p)
    BY <2>6 DEF Spin, LoopTest, Meal, Count, Go
  <2> QED
    BY <2>1, <2>2, <2>3, <2>4, <2>5, <2>6 DEF Philosopher
<1>7. \A f \in Phil : locked'[f] => \E q \in Phil : f \in Held(q)'
  <2> SUFFICES ASSUME NEW f \in Phil, locked'[f]
               PROVE  \E q \in Phil : f \in Held(q)'
    OBVIOUS
  <2>1. CASE ~locked[f]
    BY <1>6, <2>1
  <2>2. CASE locked[f]
    <3>1. PICK q \in Phil : f \in Held(q)
      BY <2>2 DEF EndInv
    <3> QED
      BY <1>3, <1>6, <3>1
  <2> QED
    BY <2>1, <2>2
<1> QED
  BY <1>1, <1>4, <1>5, <1>7 DEF EndInv

\* EndInv holds in every reachable state.
LEMMA EndInvInvariant == Spec => []EndInv
<1>1. Init => EndInv
  BY InitType DEF Init, EndInv
<1>2. EndInv /\ [Next]_vars => EndInv'
  <2> SUFFICES ASSUME EndInv, [Next]_vars PROVE EndInv'
    OBVIOUS
  <2>1. TypeOK'
    BY TypeStep DEF EndInv
  <2>2. ASSUME NEW p \in Phil, Expire(p) PROVE EndInv'
    BY <2>1, <2>2 DEF Expire, main, EndInv, Held
  <2>3. CASE UNCHANGED vars
    BY <2>1, <2>3 DEF vars, threads, main, EndInv, Held
  <2> QED
    BY <2>1, <2>2, <2>3, EndInvMain, EndInvPhilosopher DEF Next
<1> QED
  BY <1>1, <1>2, PTL DEF Spec

\* The mutexes are destroyed unlocked.
THEOREM EndsCleanly == Spec => []EndsClean
<1>1. EndInv => EndsClean
  BY DEF EndInv, EndsClean, Held, HoldsLeft, HoldsRight, Lines, TypeOK
<1> QED
  BY <1>1, EndInvInvariant, PTL

----------------------------------------------------------------------------
(* The forks implement the abstract table *)

\* Every step is a step of the table, or changes nothing of it.
LEMMA TableStep ==
    ASSUME ForkInv, EndInv, TypeOK', [Next]_vars
    PROVE  [Table!Next]_(Table!vars)
<1> DEFINE hand == [p \in Phil |-> Held(p)]
<1> USE DEF main, output, threads
<1>1. SUFFICES \/ UNCHANGED <<hand, Freed>>
               \/ \E p \in Phil :
                     \/ hand' = hand /\ Freed' = Freed \cup Forks(p)
                     \/ /\ Freed' = Freed
                        /\ \/ Table!TakeLeft(p) \/ Table!TakeRight(p)
                           \/ Table!DropLeft(p) \/ Table!DropRight(p)
  BY DEF Table!Next, Table!vars, Table!Report, Table!Phil, Phil, Table!Forks,
     Table!Left, Table!Right, Forks, Left, Right
<1>2. pc' = pc => hand' = hand
  BY DEF Held
<1>3. dead' = dead => Freed' = Freed
  BY DEF Freed
<1>4. CASE Main
  <2>1. CASE SetOver
    <3>1. i \in Phil /\ hand' = hand
      BY <1>2, <2>1 DEF SetOver, ForkInv, TypeOK
    <3>2. Freed' = Freed \cup Forks(i)
      BY <2>1 DEF SetOver, Freed, Forks, Left, Right, ForkInv, TypeOK
    <3> QED
      BY <3>1, <3>2
  <2>2. CASE Create
    <3>1. pc[i] = "none" /\ pc'[i] = "spin"
          /\ \A p \in Phil \ {i} : pc'[p] = pc[p]
      BY <2>2 DEF Create, Phil, EndInv, TypeOK
    <3>2. \A p \in Phil : Held(p)' = Held(p)
      BY <3>1 DEF Held, HoldsLeft, HoldsRight
    <3> QED
      BY <1>3, <2>2, <3>2 DEF Create
  <2>3. CASE ~SetOver /\ ~Create
    BY <1>2, <1>3, <1>4, <2>3
    DEF Main, Start, CheckDeath, PrintDeath, FreeLeft, FreeRight,
        CheckMeals, GoalSeen, Finish, Join
  <2> QED
    BY <2>1, <2>2, <2>3
<1>5. ASSUME NEW p \in Phil, Philosopher(p)
      PROVE  \/ UNCHANGED <<hand, Freed>>
             \/ /\ Freed' = Freed
                /\ \/ Table!TakeLeft(p) \/ Table!TakeRight(p)
                   \/ Table!DropLeft(p) \/ Table!DropRight(p)
  <2>1. Freed' = Freed
    BY <1>3, <1>5
    DEF Philosopher, Spin, LoopTest, TakeLeft, TakeRight, EnterPrint,
        PrintLine, Meal, Count, DropLeft, DropRight
  <2>2. \A q \in Phil \ {p} : Held(q)' = Held(q)
    <3>1. \A q \in Phil \ {p} : pc'[q] = pc[q]
      BY <1>5
      DEF Philosopher, Spin, LoopTest, TakeLeft, TakeRight, EnterPrint,
          PrintLine, Meal, Count, DropLeft, DropRight, Go, ForkInv, TypeOK
    <3> QED
      BY <3>1 DEF Held
  <2>3. Held(p)' = Held(p) => hand' = hand
    BY <2>2
  <2>4. ASSUME NEW from, NEW to, Held(p) = from, Held(p)' = to
        PROVE  hand[p] = from /\ hand' = [hand EXCEPT ![p] = to]
    BY <2>2, <2>4
  <2>5. \A f \in Phil : ~locked[f] => f \in Freed \/ \A q \in Phil : f \notin hand[q]
    BY DEF ForkInv
  <2> HIDE DEF hand
  <2> USE DEF Table!Move, Table!Forks, Table!Left, Table!Right,
              Table!Available, Table!Phil
  <2>6. CASE TakeLeft(p)
    <3>1. Held(p) = {} /\ Held(p)' = {Left(p)}
      BY <2>6 DEF TakeLeft, Go, Held, HoldsLeft, HoldsRight, ForkInv, TypeOK
    <3> QED
      BY <2>1, <2>4, <2>5, <2>6, <3>1, ForksAreForks
      DEF TakeLeft, Lock, Table!TakeLeft, Left, Phil, hand
  <2>7. CASE TakeRight(p)
    <3>1. Held(p) = {Left(p)} /\ Held(p)' = Forks(p)
      BY <2>7
      DEF TakeRight, Go, Held, HoldsLeft, HoldsRight, Forks, ForkInv, TypeOK
    <3> QED
      BY <2>1, <2>4, <2>5, <2>7, <3>1, ForksAreForks
      DEF TakeRight, Lock, Table!TakeRight, Left, Right, Forks, Phil, hand
  <2>8. CASE DropLeft(p)
    <3>1. Held(p) = Forks(p) /\ Held(p)' = {Right(p)}
      BY <2>8
      DEF DropLeft, Go, Held, HoldsLeft, HoldsRight, Forks, ForkInv, TypeOK
    <3> QED
      BY <2>1, <2>4, <3>1 DEF Table!DropLeft, Left, Right, Forks, hand
  <2>9. CASE DropRight(p)
    <3>1. Held(p) = {Right(p)} /\ Held(p)' = {}
      BY <2>9 DEF DropRight, Go, Held, HoldsLeft, HoldsRight, ForkInv, TypeOK
    <3> QED
      BY <2>1, <2>4, <3>1 DEF Table!DropRight, Right, hand
  <2>10. CASE EnterPrint(p) \/ PrintLine(p)
    <3>1. pc'[p] \in {pc[p], AfterLine[pc[p]]} /\ pc[p] \in Lines
      BY <2>10 DEF EnterPrint, PrintLine, ForkInv, TypeOK
    <3>2. Held(p)' = Held(p)
      BY <3>1 DEF AfterLine, Lines, Held, HoldsLeft, HoldsRight
    <3> QED
      BY <2>1, <2>3, <3>2
  <2>11. CASE Spin(p) \/ LoopTest(p) \/ Meal(p) \/ Count(p)
    <3>1. Held(p)' = Held(p)
      BY <2>11
      DEF Spin, LoopTest, Meal, Count, Go, Held, HoldsLeft, HoldsRight,
          ForkInv, TypeOK
    <3> QED
      BY <2>1, <2>3, <3>1
  <2> QED
    BY <1>5, <2>6, <2>7, <2>8, <2>9, <2>10, <2>11 DEF Philosopher
<1>6. ASSUME NEW p \in Phil, Expire(p) PROVE UNCHANGED <<hand, Freed>>
  BY <1>2, <1>3, <1>6 DEF Expire
<1>7. CASE UNCHANGED vars
  BY <1>2, <1>3, <1>7 DEF vars
<1> HIDE DEF hand
<1> QED
  BY <1>4, <1>5, <1>6, <1>7 DEF Next

\* The forks and their spoiling implement the abstract table.
THEOREM ImplementsTable == Spec => TableSpec
<1>1. Init => Table!Init
  BY DEF Init, Table!Init, Held, HoldsLeft, HoldsRight, Freed, Table!Phil,
     Phil
<1>2. ForkInv /\ EndInv /\ TypeOK' /\ [Next]_vars
         => [Table!Next]_(Table!vars)
  BY TableStep
<1> QED
  BY <1>1, <1>2, ForkInvInvariant, EndInvInvariant, TypeCorrect, PTL
  DEF Spec, Table!Spec, TableSpec
============================================================================
