SPECIFICATION FairSpec
CONSTANTS
  app1 = app1
  app2 = app2
  secret1 = secret1
  secret2 = secret2
  url = url
  Seeds <- MCSeeds
  OldSettings <- MCOldSettings
  Obsolete <- MCObsolete
  Updates <- MCUpdates
  Writers = {w1}
  MinutesPerDay = 3
  LastMinute = 5
  Blank = Blank
  Invalid = Invalid
  Dispatchers = {loop, debug}
  Apps <- MCApps
  Lives = {4}
  Timeout = 1
  Skew = 3
  MaxUpdates = 1
  MaxCrashes = 1
INVARIANTS
  TypeOK
  RunAfterCutoff
  CredentialsOfOneApp
  TokenFits
  TokenAlive
PROPERTIES
  RunsKept
  OverdueDayEnds
