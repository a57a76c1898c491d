\* The three parents of production on two workers, while the L3 configuration
\* changes, children fail or time out and parents die.
CONSTANTS
  AsrItems <- First
  L3Items <- Second
  Broken <- None
  AsrDispatchers = {da}
  L3Dispatchers = {dl, dm}
  Pollers = {po}
  Children = {c1, c2}
  TaskKeys = {ka, kb}
  AsrKey = ka
  PoolSize = 2
  SubmissionBatch = 2
  PollBatch = 2
  PollLimit = 2
  Faults = {"timeout", "death", "fail"}
  NoParent = NoParent
  NoItem = NoItem
  NoKey = NoKey
SPECIFICATION PoolSpec
SYMMETRY Symmetry
INVARIANTS ChildCanRun BoughtOnce
