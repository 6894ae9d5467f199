SPECIFICATION FairSpec
CONSTANTS
  Senders = {s1, s2}
  NoSender = NoSender
  MaxCalls = 3
  CallerKeepsBuffer = TRUE
  CallbackValues = {TRUE}
INVARIANTS TypeOK SendListExclusive WireFaithful
PROPERTIES DropOnlyWhenBusy Progress LinkSpec
CHECK_DEADLOCK FALSE
