\* Media, the reviews of audio and of evidence, and what is kept at the dashboard.
\* Workers, submissions, panels and clocks are bounded, which ends a behaviour.
CONSTANTS
  a1 = a1
  a2 = a2
  e1 = e1
  m1 = m1
  k1 = k1
  k2 = k2
  Workers = {a1, a2}
  Films = {"film1", "film2"}
  Sounds = {"s1", "s2"}
  SoundsOf <- MCSoundsOf
  Chains <- MCChains
  Allowed = {"cdn", "edge"}
  MaxRuns = 3
  NoWorker = NoWorker
  NoDigest = "none"
  AudioAssets = {"audio1"}
  ReviewVersions = {1, 2}
  Origins = {"o1", "o2"}
  MediaReviewers = {m1}
  Deliverers = {a1, a2}
  NoReview = NoReview
  Parts <- MCParts
  ValuesOf <- MCValuesOf
  Unfit = 0
  Versions = {"v1"}
  Keys = {k1, k2}
  Reviewers = {a1, a2}
  Executors = {e1}
  Budgets <- MCBudgets
  Estimates <- MCEstimates
  Currency = "CNY"
  MaxStamp = 3
  NoLimit = NoLimit
  NoBudget = NoBudget
  NoEstimate = NoEstimate
  NoRequest = NoRequest
  t1 = t1
  t2 = t2
  j1 = j1
  j2 = j2
  Desks = {a1, a2}
  StateKeys = {k1, k2}
  Owners = {"u1", "u2"}
  StateRequests <- MCRequests
  NoAction = NoAction
  DraftContents = {"c1", "c2"}
  MaxSubmits = 3
  MaxPanels = 2
  RoleChanges = TRUE
  NoDraft = NoDraft
  Tabs = {t1, t2}
  Fingerprints = {"f1", "f2"}
  Expected = "f1"
  Lifetime = 2
  EndOfTime = 3
  NoEvidence = NoEvidence
  NoCookie = NoCookie
  SyncJobs = {j1, j2}
  DayLength = 2
  Transit = 1
  StaleAfter = 1
  LastTick = 4
  NoSnapshot = NoSnapshot
  NoJob = NoJob
SPECIFICATION MCSpec
SYMMETRY Symmetry
CHECK_DEADLOCK FALSE
INVARIANTS SentIsReviewed WaiterSeesWinner PreviewAgrees MediaIsWhole DeliveredAsApproved
  ActionsHappenOnce SavedIsMine ShownOnce LatestKept
