\* Intake jobs, the plans of details and of a brief, and two comment batches that share
\* a video and promote under two quota keys. Every job, run and plan ends.
CONSTANTS
  j1 = j1
  j2 = j2
  w1 = w1
  w2 = w2
  b1 = b1
  b2 = b2
  s1 = s1
  s2 = s2
  k1 = k1
  k2 = k2
  Workers = {w1, w2}
  Batches = {b1, b2}
  SourceOf <- MCSourceOf
  SourceVideos = {1, 2}
  VideosOf <- MCVideosOf
  KeyOf <- MCKeyOf
  Keys = {k1, k2}
  Days = {1}
  Scores = {7}
  TopNs = {1}
  MinScore = 7
  QuotaSizes = {1}
  Responses = {"page"}
  NoScore = NoScore
  NoQuota = NoQuota
  MaxLosses = 1
  NoWorker = NoWorker
  NoBatch = NoBatch
  Jobs = {j1, j2}
  Videos = {"v1"}
  Ceilings = {0, 60}
  NoCeiling = NoCeiling
  MaxDay = 1
  MaxFaults = 1
  NoJob = NoJob
  NoLedger = NoLedger
  NoPage = NoPage
  NoCost = NoCost
  Elsewhere = Elsewhere
  MaxAsked = 120
  Ages = {60, 100, 600}
  Undated = Undated
  ItemCounts = {0, 1, 5, 6, 20, 21}
  Cadences = {0, 6, 7}
  PageSizes = {2, 6}
  Nil = Nil
SPECIFICATION MCSpec
SYMMETRY Symmetry
CHECK_DEADLOCK FALSE
INVARIANTS RequestedOnce SelectedIsWhole QuotaKept ChargesCovered RecordsTrue NoveltyIsOnce CheapestPlan  ScopeCollected
PROPERTIES ProgressIsKept
