\* Three one-time briefs due at the start, two of them of a project whose subjects may
\* be inactive, and batches of two.
CONSTANTS
  Briefs <- ThreeBriefs
  Project <- OfProject
  Existing <- ThreeBriefs
  Legacy <- NoBriefs
  Workers = {w1}
  Keys = {k1}
  Cadences <- OneTime
  Batch = 2
  MaxCalls = 0
  LockDrops = FALSE
  MaxTime = 1
  MaxDay = 0
  NoBrief = NoBrief
  NoWorker = NoWorker
  OtherJob = OtherJob
SPECIFICATION MCSpec
PROPERTY DueBriefRuns
