SPECIFICATION Spec
CONSTANTS
  LastTick = 4
  Keys = {k1}
  Managers = {"OWNER", "ADMIN", "MEMBER"}
  ScopeChoices <- EveryScope
  Callers = {c1, c2}
  ProgramIds = {1, 2, 3}
  PerMinute = 2
  Monthly = 1
  Minute = 2
  Month = 2
  PageSize = 1
  Sites <- AllSites
  People = {"acme@b", "acme.2@d"}
  Words <- LocalPart
  Forms <- PasswordForms
  Tabs = {t1, t2}
  NumberedAttempts = 3
  RandomAttempts = 1
  RandomSuffixes = {"kx"}
  MaxMoves = 2
  Links = {l1}
  Sharers = {"ADMIN", "MEMBER", "VIEWER"}
  Ours = {"run", "suite"}
  Theirs = {"other"}
  Desks = {d1, d2}
  MaxViews = 2
  ShareDays = 2
  Controls = {"random_baseline"}
  Alphabet <- Names
  Sheets <- AllSheets
  Listings <- Pairs
  Streams <- Cut
  Events <- TwoEvents
  Finals <- LastEvents
  Today = 2
  FullAt = 60
  BestShown = 1
  DayLabels = 5
  Kinds <- OnlyFollow
  Folk = {"u", "v"}
  Tenants = {"A", "B"}
  Titles = {"x"}
  Standings <- SomeStandings
  Stores <- SomeStores
  Engines <- SomeEngines
  MethodChoices <- SomeMethods
  MaxSuitePrograms = 2
  MaxSuiteRuns = 3
  Posters = {"u"}
  MaxPosts = 2
  MaxMoved = 1
  RecentLimit = 2
  DashboardLimit = 1
  PaletteLimit = 1
  SuiteRunLimit = 2
  Quotas <- SomeQuotas
  Docs = {"", "a", "a+", "b", "x"}
  Clipped <- Kept
  Blank = {""}
  NoText = ""
  Broken = {"x"}
  Samples = {"a"}
  FirstSample = "a"
  Searches = {"g", "h"}
  FirstSearch = "g"
  MaxChanges = 3
  SuiteTotal = 2
  MaxUnread = 1
  MaxTroubles = 1
  SequenceMs = 1
  FreshMs = 3
  MaxToasts = 2
  Frames = 3
  MaxSeeds = 2
  SuiteProgramLimit = 6
  SuiteRunLimit_ = 8
  Preselected = 3
  Graphs_ <- SmallGraphs
  Texts_ <- SmallTexts
  Sessions <- ShortSessions
  Notices <- ShortNotices
  MinPassword = 2
  MaxBytes = 4
  MaxEmail = 2
  MaxName = 1
  MaxSlug = 4
  Fallback <- FallbackSlug
  Endings <- EndingsOf
  Attempts <- Tried
  Namings <- Called
  KeyAnswers <- ShortAnswers
  Dialogs <- ShortDialogs
  Starts <- ShortStarts
  Playbacks <- ShortPlaybacks
  SuiteForms <- SmallForms
INVARIANT LiveIsFollowed
CHECK_DEADLOCK FALSE
