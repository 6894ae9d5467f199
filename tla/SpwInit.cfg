SPECIFICATION FairSpec
CONSTANTS
  Clocks = {4000000, 10000000, 12345678, 48000000, 66666666, 100000000}
  LinkSpeeds = {0, 2, 10, 50, 100}
  ResetTimeout = 3
INVARIANTS TypeOK RatesExact OnlyConfiguredLinkRuns InterruptFindsSemaphore
PROPERTIES TimeoutIsUsed
CHECK_DEADLOCK FALSE
