CONSTANTS
  Threads = {t1, t2}
  Relays = {r1, r2}
  None = None
  Faults = {"relayExits"}
SPECIFICATION Spec
INVARIANTS OneAtATime
CHECK_DEADLOCK FALSE
