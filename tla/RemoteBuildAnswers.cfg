CONSTANTS
  Builds = {b1, b2}
  Workers = {w1, w2}
  Conns = {c1, c2}
  Files = {f1, f2}
  Cap = 1
  None = None
  Failed = Failed
  Faults = {}
SPECIFICATION Spec
PROPERTY EveryClientIsAnswered
CHECK_DEADLOCK FALSE
