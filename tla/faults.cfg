SPECIFICATION SpecFormed
CONSTANTS
  Device = {1, 2}
  Member <- MembersOf3
  Owner <- OwnDevice
  Founder = 1
  Stamp = {1}
  Amount = {0, 1, 2, 3}
  Ops = {"expense", "settle", "remove", "recover"}
  CarefulUsers = FALSE
  PatientUsers = TRUE
  Faults = {"disconnect", "reload"}
  RelayLimit = 9
  MaxEntries = 4
  MaxFaults = 1
INVARIANTS LinkedLedgers CacheNeverAhead
CHECK_DEADLOCK FALSE
