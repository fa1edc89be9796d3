SPECIFICATION FairSpec
CONSTANTS
  m1 = m1
  m2 = m2
  e1 = e1
  e2 = e2
  raw = raw
  Messages <- MCMessages
  Stations = {m1}
  Macs = {m1, m2}
  RuleAdmins = {a1, a2}
  RuleInputs <- MCRuleInputs
  Defaults <- MCDefaults
  OldRules <- MCOldRules
  MaxRules = 6
  Employees = {e1, e2}
  Nobody = nobody
  OldOwner <- MCOldOwner
  SaveInputs <- MCSaveInputs
  Clerks = {c1, c2}
  Times = {1, 2}
  PageSize = 1
  MaxMessages = 3
  Debuggers = {d1}
  MaxRequests = 2
INVARIANTS
  TypeOK
  OrdersDistinct
  RegistryAsAsked
  ParsedMessagesHaveEvents
  InjectAnswerFits
  LogWalkHasNoGap
PROPERTIES
  MovesExchangeNeighbours
  StartKeepsRules
  EveryRequestEnds
