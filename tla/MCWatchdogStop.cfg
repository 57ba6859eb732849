SPECIFICATION Spec
CONSTANTS
  game = game
  gameApp = gameApp
  v1 = v1
  c1 = c1
  c2 = c2
  None = None
  Programs = {game}
  Apps = {gameApp}
  AppOf <- MCAppOf
  Versions = {v1}
  Copies = {c1, c2}
  CrashMs = 1
  HealthyMs = 2
  StopMs = 0
  ByeMs = 0
  WindowMs = 3
  MaxRestarts = 2
  Backoff <- MCBackoff
  CrashLimit = 2
  MaxTracked = 1
PROPERTIES
  StopIsNoCrash
