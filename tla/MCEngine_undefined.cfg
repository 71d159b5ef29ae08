SPECIFICATION Spec
CONSTANTS
  NameOrder <- Alphabet
  Universe <- SmallValues
  StepBudget = 60
  StateBudget = 12
  Oracle <- OracleProfile
  Fast <- FastProfile
  Thorough <- ThoroughProfile
  Texts <- UndefinedTexts
  AskedTexts = {}
  StudyTexts = {}
  UseSmt = TRUE
  Weights <- DefaultWeights
  MaxIterations = 12
  NodeBudget = 10
  MaxCalls = 4
  MaxFailures = 2
  Limit = 200
INVARIANT EveryVariableHasAValue
