SPECIFICATION SpecFormed
CONSTANTS
  Device = {1, 2}
  Member <- MembersOf2
  Owner <- OwnDevice
  Founder = 1
  Stamp = {1}
  Amount = {0, 1, 2}
  Ops = {"expense", "remove"}
  CarefulUsers = TRUE
  PatientUsers = TRUE
  Faults = {}
  RelayLimit = 9
  MaxEntries = 5
  MaxFaults = 0
INVARIANTS Agreement
CHECK_DEADLOCK FALSE
