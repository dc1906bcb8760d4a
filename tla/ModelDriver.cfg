CONSTANTS
  MaxAttempts = 3
  BaseDelay = 1
  MaxRetryDelay = 3
  RetryAfters = {2, 4}
  Turns = {5, 9}
  Timeouts = {5, 7, 99}
  MaxInstant = 50
  Clock = 9
SPECIFICATION DriverFairSpec
INVARIANTS
  AtMostOneDelivery
  TokensReleased
  FailureMapped
PROPERTIES
  RetriesAreSpaced
  DriverReturns
