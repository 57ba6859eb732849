SPECIFICATION MCSpec
CONSTANTS
  v1 = v1
  v2 = v2
  Versions = {v1, v2}
  None = None
  Unknown = Unknown
  Damaged = Damaged
  MaxFaults = 2
  program = program
  icon = icon
  note = note
  bin = bin
  share = share
  Files = {program, icon, note}
  Dirs = {bin, share}
  HomeOf <- MCHomeOf
  Ships <- MCShips
  PrefixFaults = 2
  Foreign = Foreign
  Partial = Partial
  LastVersion = 2
  Garbage = Garbage
  theFile = theFile
  Paths = {theFile}
  FileOf <- MCFileOf
  Installers = {terminal1, terminal2}
  Prefetchers = {window}
  HubOf <- MCHubOf
  k1 = k1
  k2 = k2
  Contents = {k1, k2}
  Absent = Absent
  LastFile = 2
  Callers = {one, two}
  Retention = 2
  MaxStamp = 3
  MaxWrites = 1
SYMMETRY Interchangeable
CHECK_DEADLOCK FALSE
INVARIANTS
  CacheIsSound
  RestoreIsUndoable
  RollbackFindsConfig
PROPERTIES
  ImplementsKept
  JobsAreSafe
  PrefixIsExact
