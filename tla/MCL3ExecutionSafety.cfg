\* Two workers, two tasks, priced or not, on two days with different limits.
CONSTANTS
  w1 = w1  w2 = w2  k1 = k1  k2 = k2  d1 = d1  d2 = d2
  Workers <- MCWorkers
  Tasks <- MCTasks
  Days <- MCDays
  Prices <- MCPrices
  Estimates <- PricedOrNot
  MaxRequests <- MCMaxRequests
  MaxCost <- MCMaxCost
  Unknown = Unknown
  Unlimited = Unlimited
  NoDay = NoDay
  NoTask = NoTask
  NoWorker = NoWorker
SPECIFICATION Spec
SYMMETRY Symmetry
INVARIANTS OneReservedCall BudgetKept ClosedAsRecorded
PROPERTIES ClosedForGood ImplementsPaidTask
