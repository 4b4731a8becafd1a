CONSTANTS
  r1 = r1  r2 = r2
  Req = {r1}
  Refused = {}
  Pacing = TRUE
  RequireEncryption = FALSE
  Legacy = TRUE
  Notify = TRUE
  Garbled = FALSE
  ReconnectOpen = TRUE
  MaxSockets = 3
  CacheInit = TRUE
CHECK_DEADLOCK FALSE
SPECIFICATION EngineFairSpec
INVARIANTS EngineTypeOK GivesUpOnlyIfRefused
PROPERTIES CloseEndsWatching ReconnectsClosed 
