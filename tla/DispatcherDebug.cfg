SPECIFICATION Spec
CONSTANTS
  e1 = e1
  Clocks <- ClockOuts
  Writers = {w1}
  Requests = {1}
  Answers = {"ok", "error", "unknown"}
  RetryLimit = 2
  BatchLimit = 2
  Versions = {2}
  MaxSaves = 1
  MaxCrashes = 1
INVARIANTS
  TypeOK
  OldFlowGoneFirst
  MessageMeansFlow
