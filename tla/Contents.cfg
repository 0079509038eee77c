SPECIFICATION Spec
CONSTANTS
  MaxOps = 4
  MaxAccess = 10
  MaxFaulty = 2
INVARIANTS ReadsBack BudgetExact OwnedOnce CountsAgree
CHECK_DEADLOCK FALSE
