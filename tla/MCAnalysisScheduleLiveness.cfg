\* Three ASR inputs, the oldest broken, with batches that hold only some of them; the
\* slot may be lost, which a third worker makes up for.
CONSTANTS
  AsrItems <- ThreeItems
  L3Items <- None
  Broken <- First
  AsrDispatchers = {da}
  L3Dispatchers = {}
  Pollers = {po}
  Children = {c1, c2}
  TaskKeys = {ka}
  AsrKey = ka
  PoolSize = 3
  SubmissionBatch = 2
  PollBatch = 1
  PollLimit = 2
  Faults = {"drop"}
  NoParent = NoParent
  NoItem = NoItem
  NoKey = NoKey
SPECIFICATION MCSpec
PROPERTY ApprovedIsAnalysed
