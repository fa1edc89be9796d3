SPECIFICATION Spec
CONSTANTS
  Employees = {e1}
  Times = {1600}
  Handlers = {debug}
  Udp = udp
  Admins = {a1}
  MaxVersion = 2
  MaxReports = 5
  MaxFlows = 0
INVARIANTS
  TypeOK
  EveryClockInQueued
  RunCoversListedRecords
