\* Every loss, delay and crash; the process may be started again or not.
SPECIFICATION FairSpec
CONSTANTS
  MaxAttempts = 5
  MaxBackoff = 8
INVARIANT ServesOnlyIfKnown
PROPERTIES
  ComesBack
  ShutdownEnds
