CONSTANTS
  Peer = {1, 2}
  MaxHeight = 3
  MaxCrashes = 2
SPECIFICATION Spec
INVARIANTS TypeOK RestartReconciles CommittedIsStored SingleFlight
CHECK_DEADLOCK FALSE
