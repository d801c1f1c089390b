CONSTANTS
  Threads = {t1, t2}
  Relays = {r1, r2}
  None = None
  Faults = {"relayExits", "startFails", "jobs"}
SPECIFICATION Spec
INVARIANTS TypeOK OneRelay RelayIsKnown BusyIsOwned WorkerIsWanted
PROPERTIES DeadRelayIsNoticed
CHECK_DEADLOCK FALSE
