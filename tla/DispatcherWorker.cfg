SPECIFICATION FairSpec
CONSTANTS
  e1 = e1
  Clocks <- ClockIns
  Writers = {w1, w2}
  Requests = {}
  Answers = {"ok", "error", "unknown"}
  RetryLimit = 2
  BatchLimit = 1
  Versions = {2}
  MaxSaves = 3
  MaxCrashes = 1
INVARIANTS
  OldFlowGoneFirst
  FlowsBoundedByRetries
PROPERTIES
  DeliveredOnce
  EveryRowSettles
  EveryMessageSettles
