SPECIFICATION Spec
CONSTANTS
    s1 = s1
    s2 = s2
    Sessions = {s1, s2}
    None = None
    FieldKept = {FALSE, TRUE}
    Budgets <- MCBudgets
INVARIANTS PauseHeld GivenBack
PROPERTIES LeaderSpared Settles
CHECK_DEADLOCK FALSE
