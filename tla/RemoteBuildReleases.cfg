CONSTANTS
  Builds = {b1}
  Workers = {w1}
  Conns = {c1, c2}
  Files = {f1}
  Cap = 1
  None = None
  Failed = Failed
  Faults = {"giveUp", "break", "workerRestart", "relayRestart", "noOutput", "ioErrors"}
SPECIFICATION Spec
INVARIANTS JobInOnePlace SavedIsProduced CleanWhenDone
PROPERTIES ImplementsService EveryJobIsReleased StaleJobsLeaveQueue WorkersComeBack
CHECK_DEADLOCK FALSE
