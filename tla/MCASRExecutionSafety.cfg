\* The live provider and a lock that holds: two tasks, one of them
\* scheduled, on two days with different limits.
CONSTANTS
  w1 = w1
  w2 = w2
  k1 = k1
  k2 = k2
  d1 = d1
  d2 = d2
  Workers <- MCWorkers
  Tasks <- MCTasks
  Scheduled <- OneTask
  Orphans <- NoTasks
  Days <- MCDays
  Quotes <- PartQuotes
  RunPolls <- PollOrNot
  PollLimit = 1
  MaxRequests <- MCMaxRequests
  MaxCost <- MCMaxCost
  SubmitAnswers <- LiveAnswers
  LockDrops = FALSE
  Unlimited = Unlimited
  NoDay = NoDay
  NoTask = NoTask
  NoQuote = NoQuote
  NoWorker = NoWorker
SPECIFICATION Spec
SYMMETRY Symmetry
INVARIANT CallsBooked
PROPERTY ImplementsPaidTask
