SPECIFICATION FairSpec
CONSTANTS
  Modes = {"single", "custom", "escaped"}
  FifoSize = 4
  MaxBytes = 6
  MaxRegistrations = 2
  Unregistering = {2}
INVARIANTS TypeOK NoLostWakeup PassedInOrder
PROPERTIES LossOnlyWhenNotified TriggersArePassed
CHECK_DEADLOCK FALSE
