\* Three callers, a brain that restarts once and may fail or refuse any request.
SPECIFICATION FairSpec
CONSTANTS
  Callers = {c1, c2, c3}
  Attempts = 2
  Faulty = TRUE
  MaxEpoch = 2
  MaxSessions = 3
  Threshold = 2
  ResetTicks = 1
INVARIANTS TypeOK HandshakeHoldsLock NegotiatesWithSession
PROPERTIES NoRedundantHandshake RetryUsesFreshSession CallProgress CallsEnd
