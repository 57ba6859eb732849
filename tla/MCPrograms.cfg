SPECIFICATION MCSpec
CONSTANTS
  game = game
  gameApp = gameApp
  None = None
  Programs = {game}
  Apps = {gameApp}
  AppOf <- MCAppOf
  Versions = {v1}
  Copies = {c1, c2}
  CrashMs = 1
  HealthyMs = 2
  StopMs = 0
  ByeMs = 0
  WindowMs = 3
  MaxRestarts = 2
  Backoff <- MCBackoff
  CrashLimit = 2
  MaxTracked = 1
  Conns = {s1, s2}
  BusApps = {x, y}
  Numbers = {1}
  none = none
  text = text
  ReapAfter = 2
  RingSize = 2
  Points = 1
CHECK_DEADLOCK FALSE
INVARIANTS
  RestartsAreBounded
  PresenceIsKnown
PROPERTIES
  StandsDown
  KeptAlive
  ReapsTheHung
