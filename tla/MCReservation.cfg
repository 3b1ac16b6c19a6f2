SPECIFICATION Spec
CONSTANTS
  Me = Me
  None = None
  MaxClaims = 2
  Budgets <- MCBudgets
CHECK_DEADLOCK FALSE
INVARIANTS NothingLeftBehind OneAuthority
PROPERTIES Delivers Settles
