SPECIFICATION Spec
CONSTANTS
  a1 = a1
  a2 = a2
  install1 = install1
  remove1 = remove1
  install2 = install2
  Apps = {a1, a2}
  NoApp = NoApp
  Requests = {install1, remove1, install2}
  NoRequest = NoRequest
  AppOf <- MCAppOf
  Installs = {install1, install2}
  Prefetchers = {bg}
  bg = bg
  MaxJobs = 3
  LastRoute = 2
  MaxSlots = 2
INVARIANTS
  QueueIsSound
  SlotsAreSound
PROPERTIES
  NoOvergrant
  ImplementsLedger
  EveryJobEnds
