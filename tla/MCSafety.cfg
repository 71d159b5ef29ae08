\* Small texts; and three requests that overlap, die or lose their entry.
SPECIFICATION SafetySpec
SYMMETRY Alike
CONSTANTS
  NameOrder <- Alphabet
  Universe <- SmallValues
  StepBudget = 60
  StateBudget = 12
  Oracle <- OracleProfile
  Fast <- FastProfile
  Thorough <- ThoroughProfile
  Texts <- AllTexts
  AskedTexts <- AskedOnes
  StudyTexts <- StudiedOnes
  UseSmt = TRUE
  Weights <- DefaultWeights
  MaxIterations = 12
  NodeBudget = 10
  MaxCalls = 4
  MaxFailures = 2
  Limit = 200
  Users = {ann, bob, cem}
  Founder = ann
  Requests = {r1, r2, r3}
INVARIANTS ParserReadsEveryToken LoweringKeepsMeaning AnalysisIsRight MovesAreSafe VerdictsAreTrue SessionIsTrue OwnedInTurn OwnershipDescends LogHolds
PROPERTY OwnershipByOwners
