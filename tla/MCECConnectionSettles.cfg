CONSTANTS
  r1 = r1  r2 = r2  r3 = r3
  Req = {r1, r2}
  Refused = {}
  Pacing = TRUE
  RequireEncryption = FALSE
  Legacy = FALSE
  Notify = TRUE
  Garbled = FALSE
  ReconnectOpen = TRUE
  MaxSockets = 2
CHECK_DEADLOCK FALSE
SPECIFICATION ConnFairSpec
PROPERTIES EveryRequestSettles
