SPECIFICATION FairSpec
CONSTANTS
    N = 2
    MealGoal = 1
CHECK_DEADLOCK FALSE
INVARIANTS OneDeathLine OneLateLine EndsClean
PROPERTIES CircularWaitBroken EndsUnlessCircular TableSpec
