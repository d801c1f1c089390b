CONSTANTS
  Threads = {t1, t2, t3}
  Relays = {r1, r2, r3}
  None = None
  Faults = {"startFails", "killHangs", "sshDrops"}
SPECIFICATION Spec
INVARIANTS RunningIsWhole
PROPERTIES BusyEnds
CHECK_DEADLOCK FALSE
