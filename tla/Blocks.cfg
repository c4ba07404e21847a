SPECIFICATION Spec
CONSTANTS
  L = L
  M = M
  LabelNames = {L, M}
  Texts <- AllTexts
  GiantStep = 5
INVARIANTS PassesAgree StartsIncrease OnePoint BudgetExact SuccessorsExist
PROPERTIES ImplementsAssembly
