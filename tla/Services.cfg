SPECIFICATION ServicesSpec
CONSTANTS
  Entries = {e1, e2, e3}
  MaxTexts = 2
  MaxWrites = 4
  MaxStarts = 1
  Candidates <- MCCandidates
  Contexts <- MCContexts
  HomeRules = {}
  MaxCapacity = 3
  MaxActivity = 2
  MaxReports = 2
  MaxSaves = 3
  MaxClock = 1
  Keys = {"key1", "key2"}
  ExpiresAt <- MCExpiresAt
  Requests = {r1, r2}
  CacheFresh = 1
  GracePeriod = 7
  MaxDays = 9
  MaxRequests = 3
  Linked = {e1, e2, e3}
  LinkRequests = {r1, r2}
  RuleFiles <- MCRuleFiles
  Packages <- MCPackages
  Files = {"a", "b"}
  MaxUpdates = 3
  MaxScans = 3
  Projects = {"project", "other"}
  Roots = {"root", "elsewhere"}
  Operations = {o1, o2}
  MaxOperations = 3
  MaxRoots = 2
  MaxDaemons = 1
  MaxTokens = 2
  MaxCalls = 2
  MaxFlushes = 3
  MaxRestarts = 1
  Threads = {t1, t2}
  MaxU64 = 2
  MaxRecorded = 3
INVARIANTS
  
  AgentsTimely
  
  GraceKept
  EntriesKept
  TotalsCoverSession
  ExtremesExact
CHECK_DEADLOCK FALSE
