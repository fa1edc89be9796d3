SPECIFICATION Spec
CONSTANTS
  Employees = {e1}
  Times = {1000, 2000}
  Handlers = {udp}
  Udp = udp
  Admins = {}
  MaxVersion = 1
  MaxReports = 4
  MaxFlows = 0
PROPERTIES
  LatestDisconnectKept
