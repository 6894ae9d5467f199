SPECIFICATION Spec
CONSTANTS
  LastDriver = 2
  Sources = {main, master}
  Prescalers = {0, 1}
  main = main
  master = master
INVARIANTS TypeOK HandlerFindsDriver PriorityBelowKernel RunningDriverKeepsDevice PckAgrees
CHECK_DEADLOCK FALSE
