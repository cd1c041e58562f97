SPECIFICATION Spec
CONSTANTS
    N = 2
    MealGoal = 1
CHECK_DEADLOCK FALSE
INVARIANTS AllHaveEaten
