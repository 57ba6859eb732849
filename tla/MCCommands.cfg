SPECIFICATION MCSpec
CONSTANTS
  N = 5
  MaxStarts = 2
  a = a
  b = b
  v1 = v1
  v2 = v2
  Apps = {a, b}
  Versions = {v1, v2}
  None = None
  Unknown = Unknown
  Keep = 1
  OldUntil = 2
  MaxNow = 3
  asker1 = asker1
  asker2 = asker2
  owner1 = owner1
  owner2 = owner2
  app = app
  Links <- MCLinks
  RemoteInstalls = {app}
  Knows <- MCKnows
  Calls <- MCCalls
  MaxRids = 2
  MaxSession = 2
  MaxJobs = 1
  MaxProcs = 2
  MaxHellos = 2
  Arts = {app}
  ArtOf <- MCArtOf
  Unnamed = Unnamed
  Cli = Cli
  Writers = {p1, p2}
  Keys = {a, b}
  Vals = {v1, v2}
  MaxOps = 3
SYMMETRY Interchangeable
CHECK_DEADLOCK FALSE
INVARIANTS
  WindowHoldsBreak
  AskersAreTold
  StoresAreSound
PROPERTIES
  HistoryIsHonest
  ResetPutsBack
  LadderIsHonest
