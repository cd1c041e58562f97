--------------------------- MODULE Philosophers ---------------------------
(***************************************************************************)
(* The dining philosophers of "4.1 - PHILOSOPHERS": one thread per         *)
(* philosopher (routine), and the main thread, which creates them          *)
(* (thread_init), watches them (check_thread) and joins them (end_thread). *)
(*                                                                         *)
(* Time is abstracted to one bit per philosopher: expired[p] says that     *)
(* get_time() - last_meal >= time_to_die.  Writing last_meal clears it,    *)
(* the passing of time may set it at any moment (threads can be delayed    *)
(* for as long as the scheduler likes, so no order is excluded by the      *)
(* sleeps).  A pthread mutex of the default kind does not check its owner: *)
(* unlocking one that another thread holds simply frees it.                *)
(***************************************************************************)
EXTENDS Integers

CONSTANTS N,          \* nbr_philo
          MealGoal    \* loop: the optional fifth argument, or NoGoal

NoGoal == -2
Nobody == -1

ASSUME NAssumption == N \in Nat \ {0}
ASSUME GoalAssumption == MealGoal \in Nat \cup {NoGoal}

Phil == 0 .. N - 1
Left(p) == p
Right(p) == IF p = N - 1 THEN 0 ELSE p + 1
Forks(p) == {Left(p), Right(p)}

\* The largest meal count told apart: one past the goal, for the code only
\* compares ph_loop with the goal for equality.
MealCap == IF MealGoal = NoGoal THEN 0 ELSE MealGoal + 1

VARIABLES
    pc,         \* where each philosopher's thread is
    expired,    \* time_to_die has passed since the last_meal of each
    phLoop,     \* ph_loop: meals counted by each philosopher
    dead,       \* the dead flag of each, set by someone_died
    locked,     \* the state of each fork's mutex
    death,      \* the philosopher printing under the mutex death, or Nobody
    ready,      \* the flag the threads spin on
    over,       \* the flag that ends the simulation
    mainPc,     \* where the main thread is
    i,          \* its loop variable
    deathLines, \* DIE lines printed so far
    lateLines,  \* status lines printed after over was set
    announced   \* "All philosophers have eaten", "No one died today" printed

threads == <<pc, expired, phLoop, locked, death>>
main == <<mainPc, i, dead, ready, over>>
output == <<deathLines, lateLines, announced>>
vars == <<threads, main, output>>

\* Where a thread goes after the print_routine call it is at.
AfterLine == [leftLine |-> "takeRight", rightLine |-> "meal",
              eatLine |-> "count", sleepLine |-> "thinkLine",
              thinkLine |-> "test"]
Lines == {"leftLine", "rightLine", "eatLine", "sleepLine", "thinkLine"}

HoldsLeft == {"leftLine", "takeRight", "rightLine", "meal", "eatLine",
              "count", "dropLeft"}
HoldsRight == {"rightLine", "meal", "eatLine", "count", "dropLeft",
               "dropRight"}
Held(p) == (IF pc[p] \in HoldsLeft THEN {Left(p)} ELSE {}) \cup
           (IF pc[p] \in HoldsRight THEN {Right(p)} ELSE {})

\* The forks someone_died may have unlocked under whoever holds them.
Freed == UNION {Forks(p) : p \in {q \in Phil : dead[q]}}
----------------------------------------------------------------------------
Init ==
    /\ pc = [p \in Phil |-> "none"]
    /\ expired = [p \in Phil |-> FALSE]
    /\ phLoop = [p \in Phil |-> 0]
    /\ dead = [p \in Phil |-> FALSE]
    /\ locked = [f \in Phil |-> FALSE]
    /\ death = Nobody
    /\ ready = FALSE
    /\ over = FALSE
    /\ mainPc = "create"
    /\ i = 0
    /\ deathLines = 0
    /\ lateLines = 0
    /\ announced = FALSE

(* Time *)

Expire(p) ==
    /\ ready
    /\ ~expired[p]
    /\ expired' = [expired EXCEPT ![p] = TRUE]
    /\ UNCHANGED <<pc, phLoop, locked, death, main, output>>

(* A philosopher's thread *)

Go(p, from, to) == pc[p] = from /\ pc' = [pc EXCEPT ![p] = to]

Spin(p) ==
    /\ ready
    /\ Go(p, "spin", "test")
    /\ UNCHANGED <<expired, phLoop, locked, death, main, output>>

LoopTest(p) ==
    /\ Go(p, "test", IF over THEN "done" ELSE "takeLeft")
    /\ UNCHANGED <<expired, phLoop, locked, death, main, output>>

Lock(f) == ~locked[f] /\ locked' = [locked EXCEPT ![f] = TRUE]
Unlock(f) == locked' = [locked EXCEPT ![f] = FALSE]

TakeLeft(p) ==
    /\ Go(p, "takeLeft", "leftLine")
    /\ Lock(Left(p))
    /\ UNCHANGED <<expired, phLoop, death, main, output>>

TakeRight(p) ==
    /\ Go(p, "takeRight", "rightLine")
    /\ Lock(Right(p))
    /\ UNCHANGED <<expired, phLoop, death, main, output>>

\* Mutants of EnterPrint: the test of over dropped, and the early return
\* without the unlock.
EnterPrintUntested(p) ==
    /\ pc[p] \in Lines
    /\ death = Nobody
    /\ death' = p
    /\ UNCHANGED <<pc, expired, phLoop, locked, main, output>>

EnterPrintKept(p) ==
    /\ pc[p] \in Lines
    /\ death = Nobody
    /\ death' = p
    /\ pc' = IF over THEN [pc EXCEPT ![p] = AfterLine[pc[p]]] ELSE pc
    /\ UNCHANGED <<expired, phLoop, locked, main, output>>

\* print_routine up to its test of over; the printf is a step of its own,
\* because over is written without the mutex.
EnterPrint(p) ==
    /\ pc[p] \in Lines
    /\ death = Nobody
    /\ IF over
       THEN pc' = [pc EXCEPT ![p] = AfterLine[pc[p]]] /\ UNCHANGED death
       ELSE death' = p /\ UNCHANGED pc
    /\ UNCHANGED <<expired, phLoop, locked, main, output>>

PrintLine(p) ==
    /\ pc[p] \in Lines
    /\ death = p
    /\ death' = Nobody
    /\ pc' = [pc EXCEPT ![p] = AfterLine[pc[p]]]
    /\ lateLines' = IF over THEN lateLines + 1 ELSE lateLines
    /\ UNCHANGED <<expired, phLoop, locked, main, deathLines, announced>>

Meal(p) ==
    /\ Go(p, "meal", "eatLine")
    /\ expired' = [expired EXCEPT ![p] = FALSE]
    /\ UNCHANGED <<phLoop, locked, death, main, output>>

Count(p) ==
    /\ Go(p, "count", "dropLeft")
    /\ phLoop' = [phLoop EXCEPT ![p] = IF @ < MealCap THEN @ + 1 ELSE @]
    /\ UNCHANGED <<expired, locked, death, main, output>>

\* Mutant of DropLeft: the right fork is unlocked first.
DropLeftSwapped(p) ==
    /\ Go(p, "dropLeft", "dropRight")
    /\ Unlock(Right(p))
    /\ UNCHANGED <<expired, phLoop, death, main, output>>

DropLeft(p) ==
    /\ Go(p, "dropLeft", "dropRight")
    /\ Unlock(Left(p))
    /\ UNCHANGED <<expired, phLoop, death, main, output>>

\* Mutant of DropRight: the left fork is unlocked twice.
DropRightTwice(p) ==
    /\ Go(p, "dropRight", "sleepLine")
    /\ Unlock(Left(p))
    /\ UNCHANGED <<expired, phLoop, death, main, output>>

DropRight(p) ==
    /\ Go(p, "dropRight", "sleepLine")
    /\ Unlock(Right(p))
    /\ UNCHANGED <<expired, phLoop, death, main, output>>

Philosopher(p) ==
    \/ Spin(p) \/ LoopTest(p) \/ TakeLeft(p) \/ TakeRight(p)
    \/ EnterPrint(p) \/ PrintLine(p) \/ Meal(p) \/ Count(p)
    \/ DropLeft(p) \/ DropRight(p)

(* The main thread *)

Create ==
    /\ mainPc = "create"
    /\ pc' = [pc EXCEPT ![i] = "spin"]
    /\ IF i = N - 1 THEN mainPc' = "start" /\ i' = 0
                    ELSE i' = i + 1 /\ UNCHANGED mainPc
    /\ UNCHANGED <<expired, phLoop, locked, death, dead, ready, over, output>>

Start ==
    /\ mainPc = "start"
    /\ ready' = TRUE
    /\ expired' = [p \in Phil |-> FALSE]
    /\ mainPc' = "check"
    /\ UNCHANGED <<pc, phLoop, locked, death, i, dead, over, output>>

\* The end of the for loop's body; after the last philosopher, while (!over).
NextCheck ==
    IF i < N - 1
    THEN i' = i + 1 /\ mainPc' = "check"
    ELSE i' = 0 /\ mainPc' = IF over' THEN "finish" ELSE "check"

CheckDeath ==
    /\ mainPc = "check"
    /\ death = Nobody
    /\ mainPc' = IF expired[i] THEN "die" ELSE "meals"
    /\ UNCHANGED <<threads, i, dead, ready, over, output>>

\* Mutant of PrintDeath: printed without testing over.
PrintDeathAgain ==
    /\ mainPc = "die"
    /\ death = Nobody
    /\ deathLines' = deathLines + 1
    /\ mainPc' = "setOver"
    /\ UNCHANGED <<threads, i, dead, ready, over, lateLines, announced>>

\* someone_died: the DIE line first, the flag after it, then the forks.
PrintDeath ==
    /\ mainPc = "die"
    /\ death = Nobody
    /\ deathLines' = IF over THEN deathLines ELSE deathLines + 1
    /\ mainPc' = "setOver"
    /\ UNCHANGED <<threads, i, dead, ready, over, lateLines, announced>>

\* Mutant of SetOver: the forks of the dead are not unlocked.
SetOverOnly ==
    /\ mainPc = "setOver"
    /\ over' = TRUE
    /\ dead' = [dead EXCEPT ![i] = TRUE]
    /\ NextCheck
    /\ UNCHANGED <<threads, ready, output>>

SetOver ==
    /\ mainPc = "setOver"
    /\ over' = TRUE
    /\ dead' = [dead EXCEPT ![i] = TRUE]
    /\ mainPc' = "freeLeft"
    /\ UNCHANGED <<threads, i, ready, output>>

FreeLeft ==
    /\ mainPc = "freeLeft"
    /\ Unlock(Left(i))
    /\ mainPc' = "freeRight"
    /\ UNCHANGED <<pc, expired, phLoop, death, i, dead, ready, over, output>>

FreeRight ==
    /\ mainPc = "freeRight"
    /\ Unlock(Right(i))
    /\ UNCHANGED over
    /\ NextCheck
    /\ UNCHANGED <<pc, expired, phLoop, death, dead, ready, output>>

\* check_meals looks at the last philosopher only.
GoalReached == MealGoal # NoGoal /\ phLoop[N - 1] = MealGoal

CheckMeals ==
    /\ mainPc = "meals"
    /\ UNCHANGED over
    /\ IF i = N - 1 /\ GoalReached THEN mainPc' = "goal" /\ UNCHANGED i
                                   ELSE NextCheck
    /\ UNCHANGED <<threads, dead, ready, output>>

\* 300 ms later check_meals returns 1.
GoalSeen ==
    /\ mainPc = "goal"
    /\ over' = TRUE
    /\ NextCheck
    /\ UNCHANGED <<threads, dead, ready, output>>

Finish ==
    /\ mainPc = "finish"
    /\ announced' = GoalReached
    /\ mainPc' = "join"
    /\ UNCHANGED <<threads, i, dead, ready, over, deathLines, lateLines>>

\* pthread_join leaves the thread's result in its philosopher, over its first
\* fields (id, dead): nothing reads them any more, and dead is left as it was.
Join ==
    /\ mainPc = "join"
    /\ pc[i] = "done"
    /\ IF i = N - 1 THEN mainPc' = "end" /\ UNCHANGED i
                    ELSE i' = i + 1 /\ UNCHANGED mainPc
    /\ UNCHANGED <<threads, dead, ready, over, output>>

Main ==
    \/ Create \/ Start \/ CheckDeath \/ PrintDeath \/ SetOver \/ FreeLeft
    \/ FreeRight \/ CheckMeals \/ GoalSeen \/ Finish \/ Join

Next == Main \/ \E p \in Phil : Philosopher(p) \/ Expire(p)

Spec == Init /\ [][Next]_vars

\* Every thread is scheduled and time passes.  No fairness of the mutexes is
\* assumed: a thread may lose every race for a fork.
Fairness ==
    /\ WF_vars(Main)
    /\ \A p \in Phil : WF_vars(Philosopher(p)) /\ WF_vars(Expire(p))

FairSpec == Spec /\ Fairness
----------------------------------------------------------------------------
(* Properties *)

Pcs == {"none", "spin", "test", "takeLeft", "takeRight", "meal", "count",
        "dropLeft", "dropRight", "done"} \cup Lines
MainPcs == {"create", "start", "check", "die", "setOver", "freeLeft",
            "freeRight", "meals", "goal", "finish", "join", "end"}

\* Every variable has its type.
TypeOK ==
    /\ pc \in [Phil -> Pcs]
    /\ expired \in [Phil -> BOOLEAN]
    /\ phLoop \in [Phil -> 0 .. MealCap]
    /\ dead \in [Phil -> BOOLEAN]
    /\ locked \in [Phil -> BOOLEAN]
    /\ death \in Phil \cup {Nobody}
    /\ ready \in BOOLEAN
    /\ over \in BOOLEAN
    /\ mainPc \in MainPcs
    /\ i \in Phil
    /\ deathLines \in Nat
    /\ lateLines \in Nat
    /\ announced \in BOOLEAN

\* Two philosophers hold one fork at the same time only if it belongs to a
\* philosopher whose death was reported: someone_died's unlocking of forks
\* it does not hold spoils those two mutexes and no other, for ever.
ForkExclusion ==
    \A p, q \in Phil : p # q => Held(p) \cap Held(q) \subseteq Freed

\* A DIE line is printed at most once, although someone_died is called for
\* every philosopher found starved in the pass that ends the simulation.
OneDeathLine == deathLines <= 1

\* Once over is set at most one status line is still printed, by all the
\* threads together: the one whose thread had tested over under the mutex.
OneLateLine == lateLines <= 1

\* The mutexes end_thread destroys are unlocked, although the monitor may
\* have unlocked forks under their holders and others taken them since.
EndsClean ==
    mainPc = "end" => death = Nobody /\ \A f \in Phil : ~locked[f]

\* All the philosophers hold their left fork and wait for the right one.
CircularWait ==
    \A p \in Phil : pc[p] = "takeRight" /\ locked[Right(p)]

\* A circular wait formed while nobody has died is broken: someone starves, is
\* reported, and his forks are unlocked.  Unless the monitor has seen the goal
\* reached, or sees it before it sees the death: then nobody is reported.
CircularWaitBroken ==
    CircularWait /\ ~over /\ ~GoalReached /\ mainPc # "goal" ~> ~CircularWait

\* Once the simulation is over the program ends, unless the threads that had
\* passed the test of over all take their left fork after the monitor's last
\* look at them: nobody unlocks a fork any more and the join waits for ever.
EndsUnlessCircular == over ~> (mainPc = "end" \/ CircularWait)

\* What the program announces at its end: that all have eaten.
AllHaveEaten == announced => \A p \in Phil : phLoop[p] >= MealGoal
----------------------------------------------------------------------------
(* The abstract table that the forks implement. *)

Table == INSTANCE DiningTable
           WITH hand <- [p \in Phil |-> Held(p)], spoiled <- Freed

TableSpec == Table!Spec
============================================================================
