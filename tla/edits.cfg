SPECIFICATION FairSpecFormed
CONSTANTS
  Device = {1, 2}
  Member <- MembersOf2
  Owner <- OwnDevice
  Founder = 1
  Stamp = {1}
  Amount = {0, 1, 2}
  Ops = {"expense", "edit"}
  CarefulUsers = TRUE
  PatientUsers = FALSE
  Faults = {"disconnect", "delete"}
  RelayLimit = 9
  MaxEntries = 5
  MaxFaults = 1
INVARIANTS UnbrokenLedgers
PROPERTIES EditsGoOn
CHECK_DEADLOCK FALSE
