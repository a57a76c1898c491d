\* Two workers, one task, under the fairness of LiveSpec.
CONSTANTS
  w1 = w1  w2 = w2  k1 = k1  d1 = d1
  Workers <- MCWorkers
  Tasks <- OneTask
  Days <- OneDay
  Prices <- MCPrices
  Estimates <- Priced
  MaxRequests <- NoLimit
  MaxCost <- NoLimit
  Unknown = Unknown
  Unlimited = Unlimited
  NoDay = NoDay
  NoTask = NoTask
  NoWorker = NoWorker
SPECIFICATION LiveSpec
PROPERTY TasksRecover
