SPECIFICATION UdpSpec
CONSTANTS
  Employees = {e1, e2}
  Times = {1400, 1600, 2300}
  Handlers = {udp}
  Udp = udp
  Admins = {}
  MaxVersion = 1
  MaxReports = 5
  MaxFlows = 1
PROPERTIES
  ImplementsDay
