SPECIFICATION Spec
CONSTANTS
  Device = {1, 2}
  Member <- MembersOf2
  Owner <- OwnDevice
  Founder = 1
  Stamp = {1}
  Amount = {0, 1, 2}
  Ops = {"expense", "settle"}
  CarefulUsers = TRUE
  PatientUsers = TRUE
  Faults = {"offline", "disconnect", "reload", "delete", "prune"}
  RelayLimit = 9
  MaxEntries = 4
  MaxFaults = 1
INVARIANTS TypeOK CacheNeverAhead ChainsValid
PROPERTIES ImplementsLog SelfChecked
CHECK_DEADLOCK FALSE
