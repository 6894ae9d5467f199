SPECIFICATION Spec
CONSTANTS
  Senders = {s1, s2}
  NoSender = NoSender
  MaxCalls = 2
  CallerKeepsBuffer = TRUE
  CallbackValues = {TRUE, FALSE}
INVARIANTS CallbackNotNull
CHECK_DEADLOCK FALSE
