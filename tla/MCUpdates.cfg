SPECIFICATION MCSpec
CONSTANTS
  gui = gui
  cli = cli
  guiJob = guiJob
  guiFetch = guiFetch
  cliJob = cliJob
  Absent = Absent
  Infant = Infant
  Hubs = {gui, cli}
  Clients = {guiJob, guiFetch, cliJob}
  HubOf <- TwoHubs
  Jobs = {guiJob, cliJob}
  x = x
  y = y
  Apps = {x, y}
  Order <- Walk
  Ships <- Shipped
  Prereleases = {}
  LastVersion = 2
  Passes = {1, 2}
  lone = 1
  MaxChanges = 1
CHECK_DEADLOCK FALSE
INVARIANTS
  ExclusiveUndisturbed
  ExclusiveOfTwo
  ReadyIsReal
PROPERTIES
  OnlyHolderRemoves
  NeverWedged
  CatalogueSettles
  PendingIsServed
