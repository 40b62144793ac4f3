SPECIFICATION SpecFormed
CONSTANTS
  Device = {1, 2}
  Member <- MembersOf2
  Owner <- OwnDevice
  Founder = 1
  Stamp = {1}
  Amount = {0, 1, 2}
  Ops = {"expense"}
  CarefulUsers = TRUE
  PatientUsers = TRUE
  Faults = {"disconnect"}
  RelayLimit = 9
  MaxEntries = 4
  MaxFaults = 1
INVARIANTS NothingMissed
CHECK_DEADLOCK FALSE
