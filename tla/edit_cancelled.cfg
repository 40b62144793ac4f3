SPECIFICATION SpecFormed
CONSTANTS
  Device = {1, 2}
  Member <- MembersOf2
  Owner <- OwnDevice
  Founder = 1
  Stamp = {1}
  Amount = {0, 1, 2}
  Ops = {"expense", "edit"}
  CarefulUsers = TRUE
  PatientUsers = FALSE
  Faults = {}
  RelayLimit = 9
  MaxEntries = 6
  MaxFaults = 0
INVARIANTS RefusedIsDuplicate
CHECK_DEADLOCK FALSE
