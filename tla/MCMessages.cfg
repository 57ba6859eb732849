SPECIFICATION MCSpec
CONSTANTS
  None = None
  Dialer = a
  Other = b
  Conns = {k1, k2, k3}
  MaxTrouble = 3
  MaxCode = 2
  Prefs = {pref}
  StackIds = {stack}
  Skewed = FALSE
  MaxStamp = 2
  MaxOpens = 3
  Fields = {hidden}
  MaxPulls = 1
  MaxChanges = 1
  MaxJobs = 1
  MaxClicks = 1
  Gui = Gui
  Unit = Unit
  Hand = Hand
  MaxCrashes = 1
CHECK_DEADLOCK FALSE
INVARIANTS
  SessionsAreSound
  QuietLinkAgrees
PROPERTIES
  Relinked
  ExchangeEnds
  WindowKeepsUp
  HubsAreSound
