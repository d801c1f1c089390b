CONSTANTS
  Builds = {b1}
  Workers = {w1}
  Conns = {c1, c2}
  Files = {f1}
  Cap = 1
  None = None
  Failed = Failed
  Faults = {"break"}
SPECIFICATION Spec
PROPERTY DispatchReachesWorker
CHECK_DEADLOCK FALSE
