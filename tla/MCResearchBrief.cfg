\* A project brief from before subjects, one-time or cyclic, under three user actions;
\* or one made by the user, with two calls a run, over two days.
CONSTANTS
  Briefs = {1, 2}
  Project = {1, 2}
  Existing = {1}
  Legacy = {1}
  Workers = {w1, w2}
  Keys = {1, 2, 3}
  Cadences = {0, 1, 2}
  Batch = 2
  MaxCalls = 2
  LockDrops = TRUE
  MaxTime = 4
  MaxDay = 1
  NoBrief = NoBrief
  NoWorker = NoWorker
  OtherJob = OtherJob
SPECIFICATION Spec
CONSTRAINT Bounds
SYMMETRY Symmetry
CHECK_DEADLOCK FALSE
INVARIANTS RunsAccounted CallsBooked
PROPERTY ReportsTrue
