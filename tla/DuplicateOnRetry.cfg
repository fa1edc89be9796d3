SPECIFICATION Spec
CONSTANTS
  e1 = e1
  Clocks <- ClockIns
  Writers = {w1}
  Requests = {}
  Answers = {"ok", "error", "unknown"}
  RetryLimit = 2
  BatchLimit = 1
  Versions = {2}
  MaxSaves = 1
  MaxCrashes = 0
INVARIANTS
  OneFlowPerReport
