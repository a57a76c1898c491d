\* A scheduled task of up to two polls and one with an orphan cost, under
\* LiveSpec; a submission may return the result at once and
\* the lock may drop.
CONSTANTS
  w1 = w1
  w2 = w2
  k1 = k1
  k2 = k2
  d1 = d1
  Workers <- MCWorkers
  Tasks <- MCTasks
  Scheduled <- OneTask
  Orphans <- LastTask
  Days <- OneDay
  Quotes <- WholeQuote
  RunPolls <- OnePoll
  PollLimit = 2
  MaxRequests <- NoLimit
  MaxCost <- NoLimit
  SubmitAnswers <- NowOrLater
  LockDrops = TRUE
  Unlimited = Unlimited
  NoDay = NoDay
  NoTask = NoTask
  NoQuote = NoQuote
  NoWorker = NoWorker
SPECIFICATION LiveSpec
INVARIANT RemoteCallsBounded
PROPERTY AcceptedTaskResolves
