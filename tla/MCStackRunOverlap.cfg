SPECIFICATION Spec
CONSTANTS
  long = long
  solo = solo
  desk = desk
  rig = rig
  den = den
  player = player
  headset = headset
  None = None
  Stacks = {long, solo, desk, rig, den}
  WatchersOf <- UserOnly
  Steps <- MCSteps
  AppStacks = {desk}
  AdbStacks = {rig, den}
  About <- MCAbout
  StopOnLeave = {desk, rig}
  Runs = {1, 2, 3}
  Stops = {1}
CHECK_DEADLOCK FALSE
INVARIANTS
  OneRun
