SPECIFICATION SerialSpec
CONSTANTS
  Employees = {e1}
  Times = {1400, 1600, 2300}
  Handlers = {udp, debug}
  Udp = udp
  Admins = {a1}
  MaxVersion = 2
  MaxReports = 6
  MaxFlows = 1
INVARIANTS
  ClockInQueueMatches
  ClockOutQueueMatches
PROPERTIES
  DeliveredStaysDelivered
