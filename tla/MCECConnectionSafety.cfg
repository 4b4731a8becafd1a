CONSTANTS
  r1 = r1  r2 = r2  r3 = r3
  Req = {r1, r2, r3}
  Refused = {r3}
  Pacing = FALSE
  RequireEncryption = TRUE
  Legacy = TRUE
  Notify = FALSE
  Garbled = TRUE
  ReconnectOpen = FALSE
  MaxSockets = 3
CHECK_DEADLOCK FALSE
SPECIFICATION ConnSpec
SYMMETRY Interchangeable
INVARIANTS TypeOK AuthFirst ReplyPairing NoReplyLost AuthenticatedByDaemon
PROPERTIES KeepsPromise
