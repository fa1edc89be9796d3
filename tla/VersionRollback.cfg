SPECIFICATION Spec
CONSTANTS
  Employees = {e1}
  Times = {1000, 2000}
  Handlers = {udp}
  Udp = udp
  Admins = {a1}
  MaxVersion = 2
  MaxReports = 4
  MaxFlows = 0
PROPERTIES
  VersionNeverDecreases
