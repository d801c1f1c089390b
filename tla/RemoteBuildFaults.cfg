CONSTANTS
  Builds = {b1, b2}
  Workers = {w1, w2}
  Conns = {c1, c2}
  Files = {f1}
  Cap = 1
  None = None
  Failed = Failed
  Faults = {"giveUp", "workerRestart", "noOutput"}
SPECIFICATION Spec
SYMMETRY Symmetry
INVARIANTS TypeOK JobInOnePlace SavedIsProduced CleanWhenDone
PROPERTY ImplementsService
CHECK_DEADLOCK FALSE
