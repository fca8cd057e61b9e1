SPECIFICATION FairSpec
CONSTANTS
  Verifiers = {v1, v2, v3}
  NoVerifier = NoVerifier
  MaxCodes = 2
CHECK_DEADLOCK FALSE
PROPERTY
  FailureRegenerates
