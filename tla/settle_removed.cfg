SPECIFICATION SpecFormed
CONSTANTS
  Device = {1, 2, 3}
  Member <- MembersOf3
  Owner <- OwnDevice
  Founder = 1
  Stamp = {1}
  Amount = {0, 1, 2, 3}
  Ops = {"expense", "settle", "remove"}
  CarefulUsers = TRUE
  PatientUsers = TRUE
  Faults = {}
  RelayLimit = 9
  MaxEntries = 6
  MaxFaults = 0
PROPERTIES SelfChecked
CHECK_DEADLOCK FALSE
