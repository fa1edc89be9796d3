SPECIFICATION Spec
CONSTANTS
  e1 = e1
  Clocks <- ClockIns
  Writers = {w1}
  Requests = {1}
  Answers = {"ok"}
  RetryLimit = 2
  BatchLimit = 2
  Versions = {2}
  MaxSaves = 1
  MaxCrashes = 0
INVARIANTS
  ManualSendReplaces
