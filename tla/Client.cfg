SPECIFICATION ClientFairSpec
CONSTANTS
  Verifiers = {v1, v2, v3}
  NoVerifier = NoVerifier
  MaxCodes = 2
  Callers = {c1, c2, c3}
CHECK_DEADLOCK FALSE
INVARIANTS
  ClientTypeOK
  TokenAskedWithItsVerifier
  ShownIsPolled
  LoginThreadGone
  DisposedOnce
  CacheOutlivesCallbacks
PROPERTIES
  CloseEnds
  ConfirmedIsNoticed
  StopEnds
