CONSTANTS
  r1 = r1  r2 = r2
  Req = {}
  Refused = {}
  Pacing = FALSE
  RequireEncryption = FALSE
  Legacy = TRUE
  Notify = FALSE
  Garbled = FALSE
  ReconnectOpen = FALSE
  MaxSockets = 2
  CacheInit = TRUE
CHECK_DEADLOCK FALSE
SPECIFICATION EngineSpec
INVARIANTS LossNoticed
