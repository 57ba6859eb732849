SPECIFICATION Spec
CONSTANTS
  gui = gui
  cli = cli
  third = third
  guiJob = guiJob
  guiFetch = guiFetch
  cliJob = cliJob
  thirdJob = thirdJob
  Absent = Absent
  Infant = Infant
  Hubs = {gui, cli, third}
  Clients = {guiJob, cliJob, thirdJob}
  HubOf <- ThreeHubs
  Jobs = {guiJob, cliJob, thirdJob}
CHECK_DEADLOCK FALSE
INVARIANTS
  Exclusive
