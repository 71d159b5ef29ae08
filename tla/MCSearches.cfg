\* Searches with limits that bind; a batch of two processes at a time, two ids, two
\* cells and a kill.
SPECIFICATION SearchesSpec
CONSTANTS
  s = s
  a = a
  b = b
  c = c
  fold = fold
  copy = copy
  Programs = {s, a, b, c}
  Start = s
  Kinds = {fold, copy}
  Graphs <- AllGraphs
  Order <- Passes
  Methods = {"fixed_pipeline", "greedy", "random_baseline", "hill_climbing", "simulated_annealing", "llm"}
  MaxIterations <- Iterations
  Restarts = 2
  SidewaysLimit = 1
  CoolingSteps = 4
  MaxCalls = 3
  MaxFailures = 2
  NodeBudget = 2
  None = None
  Expansions = 3
  Runs = {r1, r2}
  Pids = {p1, p2}
  Strangers = {p2}
  Cells = {c1, c2}
  Free = free
  NoPid = nopid
  MaxKills = 1
CHECK_DEADLOCK FALSE
INVARIANTS WalksNeverDearer StopsInTime VerifiedAndOnce BestOfPopped OwnedAndOnce LeavesTruthfully
PROPERTIES PromiseKept AStarPromiseKept Returns
